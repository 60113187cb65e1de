# Fetch and Score: a TLA+ verification project

Fetch and Score keeps score in K9 frisbee leagues. A scorekeeper's phone runs a
round's clock and records throws; a Go server with one SQLite file stores them,
scores them and fans live events out to the people watching. This directory
models the parts of it that are hard to test, checks them with TLC and proves
the most important facts about them with TLAPS.

`PROJECT.json` lists the components, runs, mutants, findings, hazards and
theorems, and maps every definition to the lines of the source it models.

## The system

| Component | State | Operations | What makes it correct |
|---|---|---|---|
| Scoring rules (`api/internal/scoring`) | none | value of a throw, round, week, season | best throws count under a cap; the tiny-dog cap clamps play and not the handicap; one week is dropped |
| Client table (`web/js/scoring-table.js`, generated) | none | `pointsFor` | agrees with the server's rules wherever it can |
| Round store (`api/internal/store/round.go`) | table `rounds` (status, cached total), table `throws` | start, grace, add throw, void throw, confirm, reset | retries never score twice; nothing answered is lost; the cached total is the score; a confirmed round is final |
| Round handlers (`api/internal/httpapi/handlers.go`) | requests in progress | the store call, the event, the answer | what is announced is what is stored |
| Hub and stream (`hub.go`, `stream.go`, `web/js/stream.js`) | subscribers' channels, recent events, next id | publish, subscribe with replay, unsubscribe | no gaps, no repeats, the right session, viewers catch up |
| Write queue (`web/js/queue.js`) | pending writes in memory and in localStorage, the drain loop | enqueue, drain, clear, load | no tap is lost or reordered; every tap is eventually answered for |
| Round screen and timer (`round.js`, `timer.js`) | phase, adopted clock, strip of throws, guessed total, the confirmation being made | start, record, undo, false start, confirm, remote events, page load | what is confirmed is what the scorekeeper meant; the screen and the server agree in the end |
| Sign-in (`auth.go`, `store/auth.go`) | users, invitations, tokens, sessions | request link, verify, log out, housekeeping | a link works once and always for its owner; an invitation is spent once |
| Access control (`middleware.go`, `types.go`, the handlers' checks) | sessions, roles, what a request has read so far | authenticate, load, check the role, act | nobody does or sees what they were never entitled to; a logout is final |
| Rate limiter (`middleware.go`) | a window per key | allow, sweep | never more than the limit per window; nobody is turned away early |
| Clubs, entries and views (`entities.go`, `views.go`, `fnsctl seed`) | the league's tables | create, add; dashboard, session view | a partly set-up league hides no row; the dashboard moves forward |
| Opening and migrations (`store.go`, `migrate.go`) | applied set, schema | open, migrate | each file runs exactly once; a failed start can be repeated |
| Processes (`main.go`, `compose.yml`) | server, fnsctl, one database connection | start, serve, shut down, crash | requests finish; the server stops when told and comes up again |
| Service worker, mail, pages, deployment | | | I/O, layout and configuration |

They interact like this. The round screen puts each tap in the write queue,
which POSTs it; the handler writes it through the round store, reads the round
back, publishes an event to the hub and answers. Start, grace, reset and confirm
are POSTed by the screen directly, outside the queue. Spectators' EventSources
hold a stream each; the stream handler subscribes to the hub and writes what
arrives in its channel. Everything the handlers share is the database (one
connection, so statements are serialised but requests are not) and the hub
(one mutex). In front of every handler stand the session cookie and the role in
the club; in front of the sign-in request, the rate limiter. `fnsctl`, which the
container's health check runs every minute, opens and migrates the same file as
the server.

The behaviour that is hard to get right, and that the models are about: requests
whose statements interleave; requests cut short between two statements; sends
whose outcome is unknown, retried, and handled late; a page that reloads in the
middle; a queue changed while one of its writes is awaited; channels and
histories that overflow; connections that break and ids that start over.
`PROJECT.json` lists each under "hazards" with the line where it bites.

## The modules

| Module | Models | Extends / instantiates |
|---|---|---|
| `Scoring` | the rules, the formats, the client table: pure operators | |
| `Season` | one team's week, throw by throw, or season, week by week, as input for the rules | `Scoring` |
| `MCScoring` | constants for TLC | `Season` |
| `ScoreSheet` | the abstract promise of scoring a round: a paper score sheet | |
| `RoundStore` | one round's rows and the requests that write them | `Scoring`, instantiates `ScoreSheet` |
| `RoundDevice` | the same round scored by one device with a clock and a queue of its own, whose requests may be cut short or refused | `RoundStore`, instantiates `ScoreSheet` |
| `RoundStoreProofs` | theorems about `RoundStore` and `RoundDevice`, and the refinement | `RoundDevice` |
| `MCRoundStore`, `MCRoundDevice` | constants for TLC | `RoundStore`, `RoundDevice` |
| `RoundScreen` | the scorekeeper's screen with its queue, its requests, the server's round and the feed back | |
| `RoundScreenProofs` | theorems about `RoundScreen` | `RoundScreen` |
| `WriteQueue` | the client's queue, its page, the network, the server's rows | |
| `WriteQueueProofs` | theorems about `WriteQueue` | `WriteQueue` |
| `LiveFeed` | hub, stream handler and EventSources | |
| `LiveFeedProofs` | theorems about `LiveFeed` | `LiveFeed` |
| `MCLiveFeed` | constants for TLC | `LiveFeed` |
| `SignIn` | invitations, links, sign-in and housekeeping over the tables | |
| `SignInProofs` | theorems about `SignIn` | `SignIn` |
| `MCSignIn` | constants and symmetry for TLC | `SignIn` |
| `RateLimiter` | the windows of the limiter | |
| `Access` | a request past the limiter, the cookie and the role, statement by statement | `RateLimiter` |
| `AccessProofs` | theorems about `Access` and its `RateLimiter` | `Access` |
| `MCAccess` | constants for TLC | `Access` |
| `Server` | the processes around the database file, migrations, the one connection, shutdown | |
| `ServerProofs` | theorems about `Server` | `Server` |
| `League` | the rows `fnsctl seed` makes and the views that join them | |
| `LeagueProofs` | theorems about `League`, and about the scoring of a `Season` | `League`, `Season` |
| `MCLeague` | constants for TLC | `League` |

A definition whose comment starts with "Mutant:" is not part of the model. It is
a plausible bug, kept beside the definition it would replace, and shows that the
properties can fail.

### Scoring

Scores are integers that count half-points, as `HalfPoints` does. `ScoreRound`
sorts (`BestFirst`) and truncates as the code does; `RoundIsBestSelection` compares
it with the definition it should meet, the best selection of at most
`scoredThrowCap` throws. `ScoreWeek` and `ScoreSeason` are compared with what the
league's rules say in the same way. `OptimisticTotalAgrees` compares the client's
table with the server's rules. `Season` makes the input: its steps add a throw, a
round or a week's score, and its state is nothing but the arguments.

`BestFirst` says what sorting yields, some order of the places in which no value
is followed by a higher one. Equal values are the same number, so it does not
matter that the code's sort is not stable.

### RoundStore and ScoreSheet

A request is a process; each SQL statement of `AddThrow`, `VoidThrow` and
`RecomputeRoundTotal` is one action, because a request gives the only database
connection back between two statements. `ResetRound` is one action because its
statements share a transaction. `req[r].at` is the request's program counter:

    add    check  -> write -> fetch -> rescore -> cache -> view -> publish
    void   check  -> write ->          rescore -> cache -> view -> publish
    others           write ->                             view -> publish

`CheckStatus` is the status check of both throw writes, `InsertThrow` the upsert,
`FetchThrow` the read of the stored throw, `ReadThrows` and `CacheTotal` the two
halves of the rescoring, `ReadRound` the read for the event, `Publish` the event
and the answer. `Abort` ends a request before its next statement: a cancelled
request context, a failed statement or a stopped process.

Row ids can be given out again once no row holds them, as SQLite does for this
schema. A team's designations and the season's format are constants; the code
reads them before each rescoring, and nothing modelled changes them. `acked` and
`crossed` are history variables; they restrict nothing.

`Spec` allows any requests, any interleaving and any abort. `RoundDevice` is one
device that waits for the end of each request before it makes the next. What it
offers (`Offered`) follows the screen's own clock and queue and not the round's
status, because the code does: the clock runs although the START failed (`Over`;
`round.js:228-233`), so that throws, undos, a false start and a confirmation may
reach a round that is still ready; a page loaded while the round is in grace
shows START (`Reload`; `round.js:157-161`); an adopted clock is never called TIME
on and never started again (`adopted`). A throw write is `owed` until it is answered,
sent again after every failure, and kept over a reload, as in the queue; a
confirmation waits for it. It may also be refused: by the store, because the
round is confirmed or has no such throw (`Refused`), or before it reaches the
round, and then the queue drops it (`GiveUp`). Every request may be cut short
between two statements (`CutShort`) and every answer lost (`Serve`). The history
variable `behind` names what is known to be out of date, the total or what
spectators were shown: a request cut short before its event leaves the feed
behind, a write given up half done the total, and later statements put either
right (`Mended`). A total that is stale only because a write is still owed is not
`behind`: that this one never becomes official is for the queue to ensure.

`ScoreSheet` states what a round promises: throws are entered and struck out while
the sheet is not official, confirming makes the score of the entered throws
official, and an official sheet can only be reopened as it stands or thrown away.
It has no clock and no status, as none of this depends on them. `RoundDevice`
implements it under the mapping `Sheet`: the sheet's "absent", "live" and "void" are
read off the throws' rows, and the official score is the cached total of a
confirmed round. The last part is what makes the refinement strong: a total left
stale by a request cut short may not be what is confirmed, and nothing may change
it or the throws afterwards. Only where a write was given up half done (`behind`
has "total") does the mapping take the score of the throws instead, as no sheet
could explain that row; the disagreement is listed below.

### RoundScreen

One page, the requests it has on the wire, and the server's round. The page runs
one callback at a time, so the code between two awaits is one action, and so is
a handler, whose statements `RoundStore` interleaves. The actions are the
scorekeeper's taps (`Start`, `Record`, `Undo`, `FalseStart`, `Confirm`), the
timer (`PrerollEnds`, `TimeUp`), the queue's loop (`Wake`, `WriteAnswered`), the
screen's own calls (`CallAnswered`), a failed fetch of either (`Fail`), the page's
load (`Reload`), the feed (`ApplyRemote`) and the server (`HandleWrite`,
`HandleCall`). `wire` holds the requests under way: "sent" is awaited, "late" is
awaited by nobody and may still be handled, "ok" and "rejected" are answers on
their way back. `Advance` ends a drain in the same turn as its last answer, so a
`confirm()` that awaits it goes on at once (`Resume`). `CallEnds` keeps the two
different ends of the screen's calls: a failed start still runs the clock, a
failed confirmation leaves the phase alone.

The screen does not carry every tap through. The history variable `slip` names
the first of seven things that break the agreement between screen and server, each
of them possible in the code and listed below: an undo before the throw's answer
("early undo"), a false start while a write is on the wire ("busy reset"), going
on before a reset has been handled ("loose reset"), a tap while the confirmation
is under way ("closing tap"), a start or grace handled after a later reset
("overtaken"), a start, grace or reset handled after the confirmation
("reopened"), and a throw or undo that the server refuses for good while the queue
awaits it ("turned away"). A write is accepted (`Accept`) if the store has a row for
it, and may be refused at any time (`Refuse`): the round is confirmed or has no such
throw, the session has expired (401), the role was taken away (403), the round is
gone (404), the body is malformed (400). The client treats all of these alike
(`api.js:43`) and the queue drops the write (`queue.js:105-110`), so the throw is
lost to the round. `CarefulSpec` is `Spec` without slips: the guarantees are stated
for it, so that the list of slips is complete — whatever else goes wrong, lost and
late requests, late copies refused, reloads and false starts among it, does no
harm. `FaultlessSpec` is `Spec` without failures: no fetch fails, nothing is turned
away and the page is not reloaded.

### WriteQueue

The page runs one callback at a time, so the code between two awaits is one
action. `Enqueue` includes storing the queue and, if no drain is running,
sending the first write; `Answered` and `Rejected` include the shift, the store
and the next send. `loop` is `#drainLoop`: idle (`this.draining` is null),
awaiting a send, or sleeping. `Failed` covers a fetch that rejects and an answer
of 429 or 5xx; the request may have been lost, may have been handled, or may be
on its way still (`strays`) and be handled late. `Reload` replaces the queue by
the stored one. localStorage may refuse any write, which `#persist` ignores and
the history variable `saved` notes; `Durable` says that a reload can rely on it.
Taps are numbered in the order they are made, as each has a fresh client id. The server
keeps one row per client id and may refuse any write for good, and accept the
next one or another copy of it (`Answer`): a confirmed round is reopened by a late
start, grace or reset, a sign-in expires and is renewed, a role is taken and given
back. A reset's deletion of the rows is left out, since `landed` says what took
effect and not what is still there.

### LiveFeed

`Publish` and `Subscribe` are each one action, as the hub holds its mutex
throughout. Both send without blocking, so what does not fit in the channel is
dropped. `Deliver` takes an event from the channel, writes it and lets the
EventSource note its id. `Disconnect` loses whatever is left in the channel.
`Restart` empties the hub and resets `nextID`. `Refuse` answers a connection with
an error status, after which a browser does not reconnect. Events are named by
their place in their session, which stays the same over restarts. The history
variable `near` says that a viewer was never further behind than the channel
and the history hold (`Room`); the guarantees that need room are stated for it.

### SignIn

Built like `RoundStore`: a request is a process, each statement an action, and
the program counters are

    RequestLink  user -> [invite -> create ->] link -> mail
    Verify       consume -> owner -> pending -> [join -> accept ->] session

A request reads the clock once, when it arrives, as `now := s.now()` does; the
clock (`Tick`) may move on before its later statements. `ConsumeLink` is the
guarded UPDATE of `ConsumeLoginToken` and `ReadOwner` the SELECT after it.
`FindInvite` and `FindPending` are the two callers of `PendingInvite`.
`Housekeeping` is the statement of `DeleteExpiredAuth` that clears links; a
cleared link keeps its place in `links` with `kept` false, so that links can be
named by their place. `signIns` counts the sessions each link has opened; it is
a history variable. Left out: roles, the life of a session after it is opened
and the rate limit (all three in `Access`), and the tie between invitations made
in the same millisecond.

### RateLimiter and Access

`RateLimiter` has the operations of `rateLimiter`: `allow` with the fixed window it
counts in (`Counted`), `sweep`, and `Attempt`, the order in which
`handleAuthRequest` tries the caller's address and the mail address. Its lock
makes each of them atomic. `allowed`, the times of a key's allowed attempts in their
order, and `refused` are history variables.

`Access` follows a request through `requireUser`, the handler's reads,
`requireRole` and the handler's own work:

    dashboard               select -> touch ->                 act
    invite                  select -> touch ->         role -> act
    session, stream, score  select -> touch -> load -> role -> act
    public page                                load ->         act

`SelectSession` and `TouchSession` are the two statements of `AuthSessionUser`;
`Load` is `SessionView`, `PlaySessionByID` or `RoundLocation`, which come before
the role is asked for because only they tell whose club it is. Between any two
of them a user may sign in or out (`SignIn`, `Logout`), be given another role
(`AddClubMember`, an upsert), time may pass, housekeeping may clear sessions and
forget windows, and the round may be confirmed or reopened. The history variable
`held` collects what has been true since the request arrived; `late` names the
requests that arrived after their cookie's logout was answered.

### Server

`at[p]` is where a process is: down, opening, migrating, running, or stopping.
`Launch`, `ReadApplied`, `ApplyMigration` and `Ready` are `store.Open`; the two
processes may interleave there, since each migration is a transaction and
nothing wider is locked. A migration whose tables exist already fails the
process (`ran[m] > 0`). `Trouble` is a failed statement or a killed process;
`Release` is another image (`FNS_IMAGE_TAG`), with more migrations or fewer.

A request is a program over the one connection (`SetMaxOpenConns(1)`): a statement
takes it and gives it back, open rows and a transaction keep it. `Programs` are
the shapes the handlers have; `View` is `SessionView`, which closes the teams'
rows before it reads their season. `Shutdown` waits for the requests or for its
deadline; a stream ends only with its client, so the deadline is what ends it.

### League

A row is its table and what identifies it. `cmdSeed` is the list of rows the
command inserts, in its order, `References` the foreign keys, `Refused` what
makes an INSERT fail. Nothing ties the inserts together: two runs may
interleave, each may stop anywhere, and the first refused row ends a run.
`Listed`, `RoundsShown` and `Format` are the inner joins of `SessionView` and
`SessionRounds`; `Group` is the dashboard's switch. The window in which a session
that has begun is active is at least an hour (six in the code): with none, a
session would go from what is coming to what is past.

## The runs

Passing runs:

| Run | Bounds | Shows |
|---|---|---|
| `Scoring_rules` | 3 throws over up to 3 rounds; all zones, airs, designations; WWC and a format with a cap of 2 throws and a tiny cap of 7.5 points; seasons of up to 4 weeks, missed weeks and ties | `RoundIsBestSelection`, `OptimisticTotalAgrees`, `HandicapOnTopOfCap`, `SeasonDropsOneWeek` |
| `RoundStore_any` | 2 requests, 2 taps, 2 row ids, `Spec` | `TypeOK`, `OneRowPerTap`, `AckedThrowsAreStored`, `UndoSticks` |
| `RoundDevice_cut` | 1 request, 2 taps of different value, 2 row ids, best 1 counts; any aborts, refusals, lost answers and reloads | `WriteHealsTotal`, `FeedIsCurrent`, `ImplementsScoreSheet` |
| `RoundScreen_play` | 3 taps, best 2 count, 3 starts, 2 mishaps (false starts, reloads, late requests), 2 calls awaited, 1 event under way; `CarefulSpec` | `TypeOK`, `OfficialIsMeant`, `ScreenAgrees`, `FinalIsConfirmed` |
| `WriteQueue_drain` | 3 taps, 1 reload, 1 false start, 1 late request per tap, unreliable storage, any write refused, fairness | `TypeOK`, `NoTapLost`, `LandedInOrder`, `IdleMeansEmpty`, `ClearedStaysCleared`, `EveryTapSettles` |
| `LiveFeed_feed` | 1 viewer, 2 sessions of 4 events, channel of 2, history of 3, 2 broken connections, 1 refusal, 1 restart, fairness | `TypeOK`, `NeverTwice`, `NoGap`, `ViewersCatchUp` |
| `SignIn_links` | 2 requests, 2 addresses, 1 club, 2 invitations, 2 links, 3 instants, lifetimes of 1; symmetric requests and addresses | `TypeOK`, `LinkWorksOnce`, `AcceptedIsMember`, `OnlyTheInvited`, `SignedInIsMember` |
| `Access_guards` | 1 request, 1 user, 1 cookie, 2 roles; 2 keys, limit 2, period 2; 4 instants | `TypeOK`, `Entitled`, `LogoutIsFinal`, `LimitHolds` |
| `Server_life` | 2 processes, 2 requests, 2 migrations, builds with 1 and 2 of them in any order, 2 troubles, fairness | `TypeOK`, `MigratedOnce`, `RequestsEnd`, `ComesUp` |
| `League_seed` | 2 runs of the seed, 2 handlers, 2 rounds each, 4 further sessions, 6 hours, window of 2 | `NothingHidden`, `DashboardMovesForward` |

Two requests are enough for every pairwise race between statements, and two taps
and two ids for every collision of keys and reuse of an id. In `RoundDevice_cut` two taps of
different value make the cap of one bind and an undo change which throw counts.
In `WriteQueue_drain` three taps let one be queued behind, and one be made after, the write being sent.

In `RoundScreen_play` the cap of two makes the third throw score nothing, so that
the screen's guess and the server's total differ; three starts allow two replays,
and two mishaps every pair of false start, reload and late request. Two calls
let a confirmation meet the grace request, or a reset the start. One event under
way is enough: later ones replace its score, and the screen only looks at the
latest.

The channel and the history of `LiveFeed_feed` are shorter than its sessions (64
and 256 in the code, against a few dozen throws a round), so both overflow, and
differ so that a replay may be longer than the channel. Viewers do not touch
each other's state; one is enough, and the second session shows that the ids it
shares with the first do no harm. In `SignIn_links` two links let one link be
followed twice, and two links of one user be followed at once; lifetimes of one
instant on a clock of three let links and invitations expire before, between and
after the statements that use them.

Requests in `Access` touch nothing that another one reads, except that each may
touch a session, so one is enough beside a world that changes at will; the clock
outlasts a session's lifetime and two windows. In `Server_life` two requests
contend for the connection, two processes for the file, and the second migration
comes with a build that finds the first applied, or is there already when the
older build comes back. In `League_seed` the second
handler's rows come after the first's, so a stop falls between and within them;
the sessions' times lie before, on and after each edge of the window.

`NoTapLost`, `LandedInOrder` and `EveryTapSettles` are stated for an attempt
without a false start, and for storage that works if the page reloads; with a
false start the first fails (below), and a late request of a discarded tap may
land after the reset. `LandedInOrder` excepts a tap whose refusal was reported:
when the retry is refused and dropped, a late copy of the first send may still be
accepted, behind later taps, if the reason for the refusal has gone meanwhile.
`NoGap` and `ViewersCatchUp` are stated from the first event a viewer was given, and
for viewers that never fell further behind than the channel and the history hold;
`ViewersCatchUp` also for streams that are not closed for good. `Entitled` asks what was true at some moment since the request arrived:
a check before the act cannot promise more.

Deadlock is checked where the system cannot stop (`RoundStore_any`,
`RoundDevice_cut`, `SignIn_links`, `Access_guards`, `Server_life`). It is not checked
elsewhere because the bounded inputs run out.

Runs in which TLC finds a property violated, where a comment of the repository
states it:

| Run | What happens |
|---|---|
| `WriteQueue_falsestart` | A false start clears the queue while a send is awaited; its answer then removes a new tap that was never sent. |
| `RoundScreen_reopened` | TIME is called while the confirmation is under way; its grace request is handled second and reopens the round, which the screen shows as final. Nine steps of `FaultlessSpec`: START, handled and answered; the preroll ends; Confirm is tapped and sent; TIME is called and sent; the confirmation is handled and answered; the grace is handled. |

Other disagreements met while modelling, without a run of their own.

Of the store:

- A throw that passes the status check before the round is confirmed is inserted
  after it (`round.go:193-200`), against "A confirmed round is the official score
  and does not accept silent appends" (`types.go:14-15`).
- A write that stops between its INSERT and its rescoring (`round.go:211`) leaves a
  stale total; the schema calls that column a cache of the throws
  (`0001_initial.sql:177`). The queue sends the write again, and that repairs the
  total (`WriteHealsTotal`) before the round can be confirmed (`ImplementsScoreSheet`).
  But if the queue gives the write up, because its retry is refused (401, 403, 404)
  or the stored queue is lost, confirming makes the stale total official.
- Two overlapping writes can leave a stale total as well: each reads the throws
  in one statement and stores a total in the next, and the older total may be
  stored last (`round.go:347-361`).
- The totals the server sends are those of `ScoreRound`; the weekly tiny-dog
  ceiling is applied only by `ScoreWeek`, which production code never calls,
  while the comment of `scoring-table.js` (lines 6-7) says the server's total
  applies it.

Of the screen, in the order of `Slips`:

- An undo made before the throw was answered voids nothing: the queued write is
  still sent, though the comment says it is "simply dropped instead"
  (`round.js:268-269`). Even in time, an undo's answer brings no total
  (`round.js:100-101`), so the guess stands until the next event.
- A false start does not wait for a write on the wire, nor for its own reset: the
  old throw, or all of them if the reset fails (`round.js:292`), count in the
  replayed round.
- Taps are taken while the confirmation is under way (`round.js:300-310`), and
  rejected by the server after it.
- A throw refused for good (`handlers.go:318-338`, `405-427`) leaves the queue
  (`queue.js:105-110`) and the screen goes on: the throw stays in the strip and in the
  guessed score, and the round may be confirmed without it. Only a count of dropped
  writes says so.
- Start, grace and reset have no guard in the store (`round.go:100-150`), and grace
  is sent without waiting (`round.js:149`): one that arrives late changes a reset
  or a confirmed round.
- An adopted clock replaces `timer.start` for good (`round.js:164-175`), so after a
  false start START no longer starts it; a page reloaded in the grace period
  shows START again (`round.js:157-161`).
- If `audio.unlock()` rejects, START does nothing (`round.js:226`).
- `drain()` returns only when nothing is pending, so the message that asks the
  scorekeeper to try again is never shown (`round.js:302`).
- `dropped` lives in memory, so a reload forgets the refused writes that
  `queue.js:52-54` wants surfaced.

Of the feed:

- A connection that breaks before its first event is replayed nothing when it
  reconnects (`hub.go:75`), where a test's comment says that "Anything it missed
  while the connection was down must be replayed" (`hub_test.go:69-70`).
- A replay longer than the channel loses its newest events (`hub.go:81-84`), and
  ids start over with the process (`hub.go:121`), so an old Last-Event-ID hides
  the first events after a restart. Both leave `near` false in the model.
- A browser closes an EventSource for good when a reconnection is answered with
  an error, which `stream.js:40` does not expect (`Refuse`).

Of signing in and access:

- Housekeeping between the statement that spends a link and the one that reads
  its owner deletes the link as used, and the sign-in fails with the link gone
  (`store/auth.go:131`).
- Two links of one invited user followed at the same time: both sign-ins find
  the invitation pending, and the slower fails in `AcceptInvite` with its link
  spent (`auth.go:212`).
- Two link requests for a newly invited address: the slower fails in
  `CreateUser` and is answered 500, where `handlers.go:19-23` promises 202
  whatever happens.
- An older invitation still pending is accepted at a later sign-in and its role
  overwrites the present one, which may be higher (`auth.go:199`,
  `entities.go:83`).
- The limiter is keyed by the mail address as typed, before it is normalised
  (`handlers.go:35`), so spellings of one address have windows of their own.

Of the processes:

- `Shutdown` does not cancel open streams, against the comment of
  `main.go:87-88`: with a spectator connected it waits for its whole deadline and
  the server exits with an error.
- A seed that was stopped cannot be completed by running it again
  (`fnsctl/main.go:137`): the club's slug is taken.
- A session without teams has no season, so its format is all zeros
  (`views.go:110`).

## Fairness

- `WriteQueue.FairSpec`. `Wake` is weakly fair: a timer fires. `Arrive`,
  `Answered` and `Rejected` are strongly fair: the queue retries for ever, and a
  network that is not down for ever lets some attempt through. Nothing is
  assumed of taps, failures, reloads, late requests or other devices.
- `Server.FairSpec`. Coming up is weakly fair: Docker restarts the container
  (`unless-stopped`), and a started process runs on. `Shutdown` is weakly fair
  because of its deadline. `Step(r)` is strongly fair: `database/sql` hands the
  connection to one of those that wait, chosen at random, so a request that can
  get it again and again gets it. Nothing is assumed of arrivals, clients that
  leave, troubles, SIGTERM or `fnsctl`.
- `LiveFeed.FairSpec`. `Subscribe` is weakly fair because an EventSource
  reconnects by itself, `Deliver` because the stream handler's loop waits on the
  channel. Publications, disconnections and restarts are not fair, and bounded.

## What is proved

`RoundStoreProofs` proves, for any number of requests, taps and row ids, any
team and any format, from the assumptions of `RoundStore` (each tap has one
throw, the team has designations, and an empty round is worth nothing):

- `TypeCorrect`: `Spec => []TypeOK`. The one part that needs an argument is the
  cached total, a member of `Totals` because each `CacheTotal` stores the score
  of a set of taps (`RoundTotalType`, `ZeroIsATotal`).
- `NeverScoredTwice`: `Spec => []OneRowPerTap`. The invariant is inductive given
  `TypeOK`: `InsertThrow` adds a row only under a fresh id and for a tap with no
  row (`InsertedRow`), and voiding keeps ids and taps (`VoidedRows`).
- `UndoIsFinal`: `Spec => UndoSticks`. Only `InsertThrow`, `MarkVoid` and
  `ResetRound` write the table (`ThrowsWriters`); the first two keep every
  voided row, and the third is the only step the property excepts.
- `AnsweredTapsAreStored`: `Spec => []AckedThrowsAreStored`. This is not
  inductive alone: it is strengthened with `LandedAddsAreStored`, which says
  that a tap whose request got past reading the stored throw, and which no reset
  has crossed since, has a row.

For one device that waits (`RoundDevice`), with the same constants, its own clock,
and any requests cut short, refused or unanswered:

- `DeviceTypes`: `DeviceSpec => []DeviceTypeOK` (proved only, no run checks it).
- `RetryRepairsTotal`: `DeviceSpec => []WriteHealsTotal`, and `SpectatorsAreCurrent`:
  `DeviceSpec => []FeedIsCurrent`. Both follow from `DeviceInv`, which follows the
  one request in progress through its statements (`OneAtATime`, `Serving`: what it
  has read is what is stored, a throw write being served is the one owed, and a
  confirmation is only under way while nothing is owed), and says when the total
  and the feed are right and when `behind` names them (`TotalFollows`, `FeedFollows`).
  `TotalFollows` is where the queue comes in: the total may be wrong without being
  behind only while a write is owed and the round is not confirmed.
- `StoreIsScoreSheet`: `DeviceSpec => ImplementsScoreSheet`, the refinement of
  `ScoreSheet`. The statements that change the sheet are `InsertThrow`, `MarkVoid`
  and the four that write the round's status, each one step of it (`SheetStep`);
  every other statement, abort, reload and write given up is a stutter. The clock
  does not occur in the argument: the refinement holds whatever the screen shows.
  That the published total is the score of the sheet is `DeviceInv` again.

`RoundScreenProofs` proves of `CarefulSpec`, for any cap, throws, starts, mishaps,
calls and events under way:

- `ScreenTypes`: `CarefulSpec => []TypeOK`. The shown score is a guess that undos
  lower, so its bound needs `ShownInv`: it is never further below zero than throws
  have been undone or discarded.
- `MeantIsOfficial`, `QuietScreenAgrees` and `FinalIsRight`: `OfficialIsMeant`,
  `ScreenAgrees` and `FinalIsConfirmed` hold in every state. They follow from `Inv`.
  Its core is `MeantInv` (what is meant is live or queued, and what is live is
  meant or has its undo queued), which is inductive only with what is known of
  the wire (`WriteOK`: a write awaited is the head of the queue; a late one has had
  its effect already or is still the head), of the rows (an id is not above its
  tap), of the queue (throws in the order of their taps, those without a row
  later than every row), and of a false start on its way (`ResetInv`: nothing else
  of its round is). `ClosedInv` closes the queue with the round, `FeedInv` and
  `ShownInv` tie the score on the screen to the last event. Each of the seven slips
  breaks one of these parts; that no step without a slip does is the proof that
  the list of slips is complete.

`LiveFeedProofs` proves, for any viewers, sessions, channel and history lengths:

- `TypeCorrect`: `Spec => []TypeOK`, given that ids grow along every history
  (`HistoryInv`), without which the replay would not be the end of it.
- `NothingTwice`: `Spec => []NeverTwice`, from `ViewerInv`: what a viewer has is older
  than all that is in its channel and all that its last id would have replayed,
  and since the last restart ids and events are in the same order.
- `NothingMissed`: `Spec => []NoGap`, from `NearInv`: as long as a viewer is near, what
  follows its last event is in the history behind its last id, fits in the
  channel, and is what the channel holds.

`WriteQueueProofs` proves, for any number of taps, reloads and false starts:

- `TypeCorrect`: `Spec => []TypeOK`.
- `DrainMeansEmpty`: `Spec => []IdleMeansEmpty`. Inductive given `TypeOK`: only
  `Answered`, `Rejected` and `Reload` end the loop, and each looks at the queue
  as it does.
- `DiscardedTapsStay`: `Spec => ClearedStaysCleared`. It needs `DiscardInv`:
  while storage works the stored queue is the queue, without a discarded tap, and
  a new tap is never one discarded before.
- `TapsAreKept` and `TapsKeepTheirOrder`: `Spec => []NoTapLost` and
  `Spec => []LandedInOrder`. Both follow from `QueueInv`, which says what the two
  properties leave open: the queue is the run of taps not answered for yet, in
  order; the stored queue is that run when a reload can rely on it; the write in
  flight is its head; everything before it has landed or was refused, and nothing
  behind it has landed or is on its way (`NothingAhead`), though the head may have
  (a request handled whose answer was lost). What lands late from before the head
  is a copy of what has landed, or was refused.

`SignInProofs` proves, for any number of requests, addresses, clubs, links and
invitations, any lifetimes and any seeded members:

- `TypeCorrect`: `Spec => []TypeOK`, from `TypeInv`, which adds that a request
  only holds places of rows that exist.
- `OneSessionPerLink`: `Spec => []LinkWorksOnce`. A count of sessions is not
  inductive; `SpendInv` adds that the requests past the guarded UPDATE have
  different links, which are marked used and have opened no session.
- `SpentInvitationJoins`: `Spec => []AcceptedIsMember`, from `JoinInv`: a request
  about to spend an invitation has made its address, the invited one, a member.
- `GuestsAreInvited`: `Spec => []OnlyTheInvited`, from `GuestInv` (a request that
  may create a user or a link is about an invited address), `JoinInv`, and the
  fact that no step removes or redirects an invitation (`InvitesAlwaysStay`).
- `SignedInBelongs`: `Spec => []SignedInIsMember`, from `SettledInv`: a request acts
  for its link's owner, and at its last two statements the owner is a member or
  holds an invitation that has expired. Where no invitation is found pending,
  that takes `GuestInv` and `JoinInv`: the owner was invited, and the invitation is
  accepted or too old.

`AccessProofs` proves, for any number of requests, users and cookies, any roles
and any limits:

- `AccessIsEntitled`: `Spec => []Entitled`, and `SignedOutStaysOut`:
  `Spec => []LogoutIsFinal`. Both follow from `AccessInv`. Its core is `Carries`: a
  request's cookie has been handed out, its user's present role is among those
  held since it arrived, and a session found for it was there when it arrived.
  The last holds because a cookie is handed out once and no step gives an old
  session a later end; `SignedOutInv` adds that a signed-out cookie has none.

- `AccessTypes`: `Spec => []TypeOK`, with a session per cookie, a role per user and
  a window per key (`OneEach`, `LimiterInv`).
- `RateIsLimited`: `Spec => []LimitHolds`, for any limit and period. `HistoryInv` ties
  the limiter's one window to the whole log of allowed attempts: the windows
  opened so far lie a period apart (`Apart`), every attempt comes within a limit
  of the one that opened its window (`Covered`), and the last window counts
  exactly those since. A period then sees at most the rest of one window and the
  part of the next that is short of full, less than twice the limit.

`ServerProofs` proves, for any number of requests, migrations and troubles:

- `TypeCorrect`: `Spec => []TypeOK`, in which `holder` says that at most one
  request keeps the connection.
- `MigrationsRunOnce`: `Spec => []MigratedOnce`. It needs `MigrationInv`: no process
  takes for applied what is not recorded. Then the next due migration is the one
  after all recorded ones, or is recorded already, by the other process meanwhile
  or by a newer build before; and a process that is running saw everything its
  build knows applied.

`LeagueProofs` proves, for any handlers, rounds, seeds and further sessions:

- `SessionsMoveForward`: `Spec => DashboardMovesForward`. Rows are only added, and
  the clock moves by less than the window.
- `ViewsHideNothing`: `Spec => []NothingHidden`, from `LeagueInv`: the tables are closed
  under references, the running order has only teams of the demo's handlers, a
  round has its team in the running order, and a seed that has counted a row has
  made it. The last two rest on where the rows stand in the list the seed works
  through (`SeedBlocks`: each handler's block in one piece and nothing else), a
  fact about `FlattenSeq` proved from its recursive function by a least
  counterexample.

It also proves of `Season`, for any throws, teams, formats, caps and scores and
for rounds, weeks and seasons of any length:

- `RoundsAreBest`: `SeasonSpec => []RoundIsBestSelection`. Every sum is taken out of
  one function that adds up the values over any set of places (`Adds`), which
  exists (`SumExists`) and agrees with `FoldLeft` and `MapThenSumSet` whatever order
  these take the elements in (`SameSum`). Values have a sorted order
  (`SortingExists`, one more value at a time), moving values to other places
  leaves their sum (`Reindexed`), and in sorted order a selection that reaches
  beyond the first places never loses by exchanging one of those for a free
  first one (`FirstAreBest`).
- `OptimismIsBounded`: `SeasonSpec => []OptimisticTotalAgrees`, from the above and
  `TableAgrees`: the table's entry is the rules' value for every throw and team.
- `HandicapIsNeverCapped`: `SeasonSpec => []HandicapOnTopOfCap`, as rollers change
  no throw's value.
- `LowestWeekIsDropped`: `SeasonSpec => []SeasonDropsOneWeek`, as leaving a week out
  takes its points off the total (`LeftOut`); a season of one week is that week's
  score (`OneWeek`).

All four follow from the types of the arguments (`SeasonIsPlayed`), so the bounds
of the state machine do not matter. The inductions over the data are arguments
by a least counterexample (`LeastNumber`), as the library's induction theorems
cannot be instantiated.

## Only model-checked

All liveness (`EveryTapSettles`, `ViewersCatchUp`, `RequestsEnd`, `ComesUp`), which
TLAPS cannot prove under fairness. Every other property of the passing runs is
proved.

## Not modelled, and the plan

Models worth adding: a composition of `RoundStore` with `LiveFeed` (what
spectators see when publications are ordered differently from the writes), an
abstract specification of sign-in that `SignIn` implements, and two pages of one
round that share a queue in localStorage.

Left out for good:

- The service worker: its only state is the browser's cache under a name that
  never changes (`sw.js:12`), and what a browser serves from it is the browser's
  doing.
- Mail delivery (I/O; `SignIn` has its failure), token generation and hashing.
- Cues, sounds, vibration and the wake lock: they change nothing the other parts
  read.
- CORS and the security headers, which are constant; the parsing of requests (a
  malformed one is a refusal); the pages' layout; configuration and logging; the JSON round trip of a format.
- Two devices scoring one round: the code has one scorekeeper in mind, and
  `RoundStore` has the races of their requests.
