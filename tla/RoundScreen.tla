------------------------------ MODULE RoundScreen ------------------------------
(***************************************************************************)
(* The scorekeeper's screen (round.js): its phases and clock (timer.js),   *)
(* the strip of throws and the score it shows, the write queue, the        *)
(* requests it has on the wire, the server's round and the live feed back  *)
(* to the screen.  One device scores the round.                            *)
(*                                                                         *)
(* The page runs one callback at a time, so the code between two awaits is *)
(* one action; so is a handler of the server, whose statements interleave  *)
(* in module RoundStore.  A request whose fetch failed, or whose page went *)
(* away, may still reach the server later.                                 *)
(*                                                                         *)
(* Every throw scores one point, and at most Cap of them count (0: all),   *)
(* so the score the screen guesses and the server's may differ.  Rows get  *)
(* the id after the highest one, as if this round's rows were the newest.  *)
(* Left out: the cues and the screen lock, the wait for the audio before a *)
(* start is sent, a storage that refuses (module WriteQueue), a feed that  *)
(* breaks once it is open (module LiveFeed), and a START or a Confirm      *)
(* tapped again while the first is awaited.                                *)
(***************************************************************************)
EXTENDS Integers, Sequences, FiniteSets, SequencesExt

CONSTANTS
  Cap,            (* scored-throw cap of the season's format; 0 is none    *)
  MaxTaps,        (* bound on the throws tapped                            *)
  MaxStarts,      (* bound on taps of START                                *)
  MaxMishaps,     (* bound on false starts, reloads of the page and        *)
                  (* requests that nobody waits for any more, together     *)
  MaxCalls,       (* bound on the screen's own requests it waits for       *)
  MaxFeed         (* bound on the events on their way to the screen        *)

ASSUME RoundScreenAssumption ==
  /\ Cap \in Nat /\ MaxTaps \in Nat /\ MaxStarts \in Nat
  /\ MaxMishaps \in Nat /\ MaxCalls \in Nat /\ MaxFeed \in Nat \ {0}

VARIABLES
  phase,       (* the phase the screen is in                               *)
  adopted,     (* the clock was adopted from a running round: it has no    *)
               (* loop, and timer.start does nothing                       *)
  strip,       (* this.throws: the throws as the screen lists them         *)
  shown,       (* this.round.total_points, in points                       *)
  confirming,  (* where confirm() is                                       *)
  items, loop, (* the write queue and its loop                             *)
  wire,        (* the requests under way                                   *)
  status, rows,(* the server's round and its throws                        *)
  feed,        (* events published and not yet delivered to the screen     *)
  made,        (* history: throws tapped                                   *)
  meant,       (* history: those of the present attempt, not undone        *)
  slip,        (* history: the first of Slips                              *)
  starts, falseStarts, reloads, delays

screen  == <<phase, adopted, strip, shown, confirming>>
queue   == <<items, loop>>
server  == <<status, rows>>
bounds  == <<starts, falseStarts, reloads, delays>>
history == <<made, meant, slip>>
vars    == <<screen, queue, wire, server, feed, history, bounds>>

Taps     == 1..MaxTaps
Phases   == {"ready", "preroll", "running", "grace", "done"}
Statuses == {"ready", "running", "grace", "confirmed"}
Writes   == {"add", "void"}
Ops      == Writes \cup {"start", "grace", "reset", "confirm"}

(* Taps of the scorekeeper that the code does not carry through:           *)
(*   early undo     - of a throw the server has not answered yet           *)
(*   busy reset     - a false start while a write is on the wire           *)
(*   loose reset    - the round goes on before its reset is handled        *)
(*   closing tap    - a throw or an undo once the confirmation is sent, or *)
(*                    a false start once Confirm is tapped                 *)
(* and orders of arrival it does not rule out:                             *)
(*   overtaken      - a start or grace is handled after the reset that     *)
(*                    was sent after it                                    *)
(*   reopened       - a start, grace or reset is handled after the         *)
(*                    confirmation                                         *)
(* and a throw or an undo it gives up:                                     *)
(*   turned away    - the server refuses it for good, and the queue drops  *)
(*                    it (the sign-in expired, the role was taken away)    *)
Slips ==
  {"early undo", "busy reset", "loose reset", "closing tap", "overtaken", "reopened",
   "turned away"}

(* A request: n is its tap, or the attempt it belongs to (the false starts *)
(* so far); id the row an undo is about; the answer to a throw has its row *)
(* and that of a throw or a confirmation the round's score.                *)
Requests ==
  [op: Ops, n: Nat, id: 0..MaxTaps, total: 0..MaxTaps,
   at: {"sent", "late", "ok", "rejected"}]

Items == [op: Writes, tap: Taps, id: 0..MaxTaps]

TypeOK ==
  /\ phase \in Phases /\ adopted \in BOOLEAN
  /\ strip \in Seq([tap: Taps, id: 0..MaxTaps, void: BOOLEAN])
  /\ shown \in -MaxTaps..MaxTaps
  /\ confirming \in {"no", "draining", "sent"}
  /\ items \in Seq(Items) /\ loop \in {"idle", "send", "sleep"}
  /\ wire \subseteq Requests
  /\ status \in Statuses
  /\ rows \subseteq [id: Taps, tap: Taps, void: BOOLEAN]
  /\ feed \in Seq([total: 0..MaxTaps, final: BOOLEAN])
  /\ made \in 0..MaxTaps /\ meant \subseteq Taps /\ slip \in Slips \cup {"none"}
  /\ starts \in 0..MaxStarts
  /\ {falseStarts, reloads, delays} \subseteq 0..MaxMishaps

Init ==
  /\ phase = "ready" /\ adopted = FALSE
  /\ strip = <<>> /\ shown = 0 /\ confirming = "no"
  /\ items = <<>> /\ loop = "idle" /\ wire = {}
  /\ status = "ready" /\ rows = {}
  /\ feed = <<>>
  /\ made = 0 /\ meant = {} /\ slip = "none"
  /\ starts = 0 /\ falseStarts = 0 /\ reloads = 0 /\ delays = 0

-----------------------------------------------------------------------------
Live == {r.tap : r \in {t \in rows : ~t.void}}

(* The server's score of a set of throws. *)
Score(taps) ==
  IF Cap > 0 /\ Cardinality(taps) > Cap THEN Cap ELSE Cardinality(taps)

OnWire(ops) == \E q \in wire : q.op \in ops

Waiting == {"sent", "late"}

(* A request of this operation has not been handled yet. *)
Unhandled(op) == \E q \in wire : q.op = op /\ q.at \in Waiting

Request(op, n, id) == [op |-> op, n |-> n, id |-> id, total |-> 0, at |-> "sent"]

Write(item) == Request(item.op, item.tap, item.id)

Slip(name, condition) == IF condition THEN {name} ELSE {}

(* The slips that happen now: the first is remembered, a reopening always. *)
Note(now) ==
  slip' = IF "reopened" \in now THEN "reopened"
          ELSE IF slip # "none" \/ now = {} THEN slip
          ELSE CHOOSE name \in now : TRUE

Mishaps == falseStarts + reloads + delays

(* The screen sends a request of its own. *)
Send(op) ==
  /\ Cardinality({q \in wire : q.op \notin Writes /\ q.at # "late"}) < MaxCalls
  /\ wire' = wire \cup {Request(op, falseStarts, 0)}

(* A confirm() that awaits the queue goes on, and sends the confirmation.  *)
Resume(others) ==
  IF confirming = "draining"
    THEN /\ wire' = others \cup {Request("confirm", falseStarts, 0)}
         /\ confirming' = "sent"
    ELSE wire' = others /\ UNCHANGED confirming

(* Mutant: confirming does not wait for the queue. *)
AdvanceImpatient(rest, others) ==
  IF rest # <<>>
    THEN loop' = "send" /\ Resume(others \cup {Write(Head(rest))})
    ELSE loop' = "idle" /\ Resume(others)

(* The queue's loop sends the oldest write, or ends: then whoever awaits   *)
(* it goes on in the same turn, and finds nothing pending.                 *)
Advance(rest, others) ==
  IF rest # <<>>
    THEN loop' = "send" /\ wire' = others \cup {Write(Head(rest))} /\ UNCHANGED confirming
    ELSE loop' = "idle" /\ Resume(others)

(* queue.enqueue *)
Enqueue(item) ==
  /\ items' = Append(items, item)
  /\ IF loop = "idle" THEN Advance(items', wire)
                      ELSE UNCHANGED <<loop, wire, confirming>>

-----------------------------------------------------------------------------
(* START: the clock starts when the server has answered, or failed to. *)
Start ==
  /\ phase = "ready" /\ starts < MaxStarts
  /\ \A q \in wire : q.op = "start" => q.at = "late"
  /\ Send("start")
  /\ starts' = starts + 1
  /\ UNCHANGED <<screen, queue, server, feed, history, falseStarts, reloads,
                 delays>>

(* The clock's loop; an adopted clock has none. *)
PrerollEnds ==
  /\ phase = "preroll"
  /\ phase' = "running"
  /\ UNCHANGED <<adopted, strip, shown, confirming, queue, wire, server, feed,
                 history, bounds>>

(* Time is called; entry stays open, and nobody waits for the answer. *)
TimeUp ==
  /\ phase = "running" /\ ~adopted
  /\ phase' = "grace"
  /\ Send("grace")
  /\ UNCHANGED <<adopted, strip, shown, confirming, queue, server, feed,
                 history, bounds>>

canScore == phase \in {"running", "grace"}

(* A throw or an undo made now comes after the confirmation. *)
Closing == status = "confirmed" \/ OnWire({"confirm"})

(* record: the screen shows the throw at once, and its write is queued. *)
Record ==
  /\ canScore /\ made < MaxTaps
  /\ made' = made + 1
  /\ meant' = meant \cup {made'}
  /\ strip' = Append(strip, [tap |-> made', id |-> 0, void |-> FALSE])
  /\ shown' = shown + 1
  /\ Enqueue([op |-> "add", tap |-> made', id |-> 0])
  /\ Note(Slip("closing tap", Closing) \cup Slip("loose reset", Unhandled("reset")))
  /\ UNCHANGED <<phase, adopted, server, feed, bounds>>

(* Mutant: the last throw, undone already or not. *)
UndoLast ==
  /\ canScore /\ strip # <<>>
  /\ strip' = [strip EXCEPT ![Len(strip)].void = TRUE]
  /\ shown' = shown - 1
  /\ meant' = meant \ {Last(strip).tap}
  /\ IF Last(strip).id # 0
       THEN Enqueue([op |-> "void", tap |-> Last(strip).tap, id |-> Last(strip).id])
       ELSE UNCHANGED <<queue, wire, confirming>>
  /\ Note(Slip("early undo", Last(strip).id = 0) \cup Slip("closing tap", Closing)
            \cup Slip("loose reset", Unhandled("reset")))
  /\ UNCHANGED <<phase, adopted, server, feed, made, bounds>>

(* undo: the last throw that counts.  One without a row yet is not voided  *)
(* on the server; its write stays queued.                                  *)
Undo ==
  /\ canScore
  /\ \E i \in DOMAIN strip :
       /\ ~strip[i].void /\ \A j \in DOMAIN strip : j > i => strip[j].void
       /\ strip' = [strip EXCEPT ![i].void = TRUE]
       /\ shown' = shown - 1
       /\ meant' = meant \ {strip[i].tap}
       /\ IF strip[i].id # 0
            THEN Enqueue([op |-> "void", tap |-> strip[i].tap, id |-> strip[i].id])
            ELSE UNCHANGED <<queue, wire, confirming>>
       /\ Note(Slip("early undo", strip[i].id = 0) \cup Slip("closing tap", Closing)
                 \cup Slip("loose reset", Unhandled("reset")))
  /\ UNCHANGED <<phase, adopted, server, feed, made, bounds>>

(* falseStart: everything is discarded here, and the server is told.  A    *)
(* confirm() that awaits the queue goes on all the same.                   *)
FalseStart ==
  /\ canScore /\ Mishaps < MaxMishaps
  /\ phase' = "ready" /\ strip' = <<>> /\ shown' = 0
  /\ items' = <<>>
  /\ Send("reset")
  /\ meant' = {}
  /\ Note(Slip("busy reset", OnWire(Writes))
            \cup Slip("closing tap", Closing \/ confirming # "no"))
  /\ falseStarts' = falseStarts + 1
  /\ UNCHANGED <<adopted, confirming, loop, server, feed, made, starts, reloads,
                 delays>>

(* confirm: wait for the queue, then send the confirmation. *)
Confirm ==
  /\ canScore /\ confirming = "no"
  /\ IF loop = "idle"
       THEN Send("confirm") /\ confirming' = "sent"
       ELSE confirming' = "draining" /\ UNCHANGED wire
  /\ Note(Slip("loose reset", Unhandled("reset")))
  /\ UNCHANGED <<phase, adopted, strip, shown, queue, server, feed, made, meant, bounds>>

Wake ==
  /\ loop = "sleep"
  /\ Advance(items, wire)
  /\ UNCHANGED <<phase, adopted, strip, shown, items, server, feed, history, bounds>>

Shifted == IF items = <<>> THEN <<>> ELSE Tail(items)

(* Mutant: the screen keeps its own guess of the score. *)
WriteAnsweredGuess(q) ==
  /\ q.op \in Writes /\ q.at \in {"ok", "rejected"}
  /\ items' = Shifted
  /\ Advance(items', wire \ {q})
  /\ UNCHANGED shown
  /\ IF q.op = "add" /\ q.at = "ok"
       THEN /\ strip' = [i \in DOMAIN strip |->
                 IF strip[i].tap = q.n THEN [strip[i] EXCEPT !.id = q.id] ELSE strip[i]]
       ELSE UNCHANGED strip
  /\ UNCHANGED <<phase, adopted, server, feed, history, bounds>>

(* The queue's send is answered, or refused for good: it leaves the queue. *)
(* The answer to a throw brings its row and the server's score.            *)
WriteAnswered(q) ==
  /\ q.op \in Writes /\ q.at \in {"ok", "rejected"}
  /\ items' = Shifted
  /\ Advance(items', wire \ {q})
  /\ IF q.op = "add" /\ q.at = "ok"
       THEN /\ shown' = q.total
            /\ strip' = [i \in DOMAIN strip |->
                 IF strip[i].tap = q.n THEN [strip[i] EXCEPT !.id = q.id] ELSE strip[i]]
       ELSE UNCHANGED <<shown, strip>>
  /\ UNCHANGED <<phase, adopted, server, feed, history, bounds>>

(* Mutant: the round is shown as final whatever the answer. *)
CallEndsHopeful(q, ok) ==
  /\ phase' = CASE q.op = "start" /\ ~adopted -> "preroll"
                [] q.op = "confirm"           -> "done"
                [] OTHER                      -> phase
  /\ shown' = IF q.op = "confirm" /\ ok THEN q.total ELSE shown
  /\ confirming' = IF q.op = "confirm" THEN "no" ELSE confirming

(* What an action of the screen does when its request ends: a start runs   *)
(* the clock even if it failed; only an answered confirmation locks.       *)
CallEnds(q, ok) ==
  /\ phase' = CASE q.op = "start" /\ ~adopted -> "preroll"
                [] q.op = "confirm" /\ ok     -> "done"
                [] OTHER                      -> phase
  /\ shown' = IF q.op = "confirm" /\ ok THEN q.total ELSE shown
  /\ confirming' = IF q.op = "confirm" THEN "no" ELSE confirming

CallAnswered(q) ==
  /\ q.op \notin Writes /\ q.at = "ok"
  /\ CallEnds(q, TRUE)
  /\ wire' = wire \ {q}
  /\ UNCHANGED <<adopted, strip, queue, server, feed, history, bounds>>

(* A fetch fails, or is answered 429 or 5xx (a call: any error).  The      *)
(* request was lost, or had been handled, or is still on its way.          *)
Fail(q) ==
  /\ q.at # "late"
  /\ \/ wire' = wire \ {q} /\ UNCHANGED delays
     \/ /\ q.at = "sent" /\ Mishaps < MaxMishaps
        /\ wire' = (wire \ {q}) \cup {[q EXCEPT !.at = "late"]}
        /\ delays' = delays + 1
  /\ IF q.op \in Writes
       THEN loop' = "sleep" /\ UNCHANGED <<phase, shown, confirming>>
       ELSE CallEnds(q, FALSE) /\ UNCHANGED loop
  /\ Note(Slip("loose reset", q.op = "reset" /\ q.at = "sent"))
  /\ UNCHANGED <<adopted, strip, items, server, feed, made, meant, starts,
                 falseStarts, reloads>>

(* init: the page loads the session, then its queue, its clock and its     *)
(* stream.  A round in grace is shown as one that has not started.         *)
Reload ==
  /\ reloads' = reloads + 1
  /\ phase' = CASE status = "running"   -> "running"
                [] status = "confirmed" -> "done"
                [] OTHER                -> "ready"
  /\ adopted' = (status = "running")
  /\ strip' = <<>> /\ shown' = Score(Live)
  /\ feed' = <<>>
  /\ \E kept \in SUBSET {q \in wire : q.at = "sent"} :
       LET late == {q \in wire : q.at = "late"} \cup {[q EXCEPT !.at = "late"] : q \in kept}
       IN  /\ delays' = delays + Cardinality(kept)
           /\ Mishaps + Cardinality(kept) < MaxMishaps
           /\ IF items = <<>> THEN loop' = "idle" /\ wire' = late
                              ELSE loop' = "send" /\ wire' = late \cup {Write(Head(items))}
  /\ confirming' = "no"
  /\ Note(Slip("loose reset", Unhandled("reset")))
  /\ UNCHANGED <<items, server, made, meant, starts, falseStarts>>

(* applyRemote: the score of an event counts only if nothing is pending. *)
ApplyRemote ==
  /\ feed # <<>>
  /\ shown' = IF items = <<>> THEN Head(feed).total ELSE shown
  /\ phase' = IF Head(feed).final THEN "done" ELSE phase
  /\ feed' = Tail(feed)
  /\ UNCHANGED <<adopted, strip, confirming, queue, wire, server, history, bounds>>

-----------------------------------------------------------------------------
(* The event a handler publishes.  The screen listens to all but the one   *)
(* of grace.  Beyond the bound, the last two events arrive together.       *)
Publish(op) ==
  LET event == [total |-> Score(Live)', final |-> status' = "confirmed"]
      last  == feed[Len(feed)]
  IN  feed' = CASE op = "grace"          -> feed
                [] op # "grace" /\ Len(feed) < MaxFeed -> Append(feed, event)
                [] OTHER -> Append(Front(feed), [event EXCEPT !.final = @ \/ last.final])

(* The row a throw write is about; none if the round is confirmed or has   *)
(* no such row.                                                            *)
RowOf(q) ==
  LET same == {r \in rows : IF q.op = "void" THEN r.id = q.id ELSE r.tap = q.n}
  IN  CASE status = "confirmed" -> {}
        [] status # "confirmed" /\ q.op = "add" /\ same = {}
                                -> {1 + Max({r.id : r \in rows} \cup {0})}
        [] OTHER                -> {r.id : r \in same}

(* The rows after it. *)
Written(q, id) ==
  IF q.op = "void" THEN {IF r.id = id THEN [r EXCEPT !.void = TRUE] ELSE r : r \in rows}
  ELSE IF \E r \in rows : r.tap = q.n THEN rows
  ELSE rows \cup {[id |-> id, tap |-> q.n, void |-> FALSE]}

(* The request is handled, and answered if anybody still waits for it. *)
Reply(q, answer) ==
  wire' = (wire \ {q}) \cup (IF q.at = "late" THEN {} ELSE {answer})

Accept(q) ==
  \E id \in RowOf(q) :
    /\ rows' = Written(q, id)
    /\ UNCHANGED <<status, slip>>
    /\ Reply(q, [q EXCEPT !.at = "ok", !.id = id,
                    !.total = IF q.op = "add" THEN Score(Live)' ELSE 0])
    /\ Publish(q.op)

(* Refused for good: there is no row for it, or roundAccess turns it away  *)
(* (401, 403, 404), or its body is malformed (400).                        *)
Refuse(q) ==
  /\ UNCHANGED <<server, feed>>
  /\ Reply(q, [q EXCEPT !.at = "rejected"])
  /\ Note(Slip("turned away", q.at = "sent"))

(* handleAddThrow and handleVoidThrow. *)
HandleWrite(q) ==
  /\ q.op \in Writes /\ q.at \in Waiting
  /\ Accept(q) \/ Refuse(q)
  /\ UNCHANGED <<screen, queue, made, meant, bounds>>

(* handleRoundStart, -Grace, -Reset and -Confirm: none asks what the       *)
(* round's status is.                                                      *)
HandleCall(q) ==
  /\ q.op \notin Writes /\ q.at \in Waiting
  /\ status' = CASE q.op = "start"   -> "running"
                 [] q.op = "grace"   -> "grace"
                 [] q.op = "reset"   -> "ready"
                 [] q.op = "confirm" -> "confirmed"
  /\ rows' = IF q.op = "reset" THEN {} ELSE rows
  /\ Reply(q, [q EXCEPT !.at = "ok",
                  !.total = IF q.op = "confirm" THEN Score(Live)' ELSE 0])
  /\ Publish(q.op)
  /\ Note(Slip("reopened", status = "confirmed" /\ q.op # "confirm")
            \cup Slip("overtaken", q.op \in {"start", "grace"} /\ q.n < falseStarts
                                    /\ ~Unhandled("reset")))
  /\ UNCHANGED <<screen, queue, made, meant, bounds>>

-----------------------------------------------------------------------------
Tap == Start \/ Record \/ Undo \/ FalseStart \/ Confirm

Ends(q) == WriteAnswered(q) \/ CallAnswered(q) \/ Fail(q)

Handle(q) == HandleWrite(q) \/ HandleCall(q)

Next ==
  \/ Tap \/ PrerollEnds \/ TimeUp \/ Wake \/ Reload \/ ApplyRemote
  \/ \E q \in wire : Ends(q) \/ Handle(q)

Spec == Init /\ [][Next]_vars

(* No slip happens. *)
CarefulSpec == Init /\ [][Next /\ slip' = "none"]_vars

(* No request fails or is turned away, and the page is never reloaded. *)
FaultlessNext ==
  \/ Tap \/ PrerollEnds \/ TimeUp \/ Wake \/ ApplyRemote
  \/ \E q \in wire : WriteAnswered(q) \/ CallAnswered(q) \/ Handle(q)

FaultlessSpec == Init /\ [][FaultlessNext /\ slip' # "turned away"]_vars

-----------------------------------------------------------------------------
(***************************************************************************)
(* What the scorekeeper meant is what becomes official: once the round is  *)
(* confirmed, the server's live throws are exactly those tapped in the     *)
(* last attempt and not undone, through failures, late copies, retries,    *)
(* reloads and false starts -- as long as no slip happens: each of Slips   *)
(* breaks it.                                                              *)
(***************************************************************************)
OfficialIsMeant == status = "confirmed" => Live = meant

(* Nothing is under way between the screen and the server. *)
Quiet == wire = {} /\ items = <<>> /\ feed = <<>>

(***************************************************************************)
(* Once nothing is under way the screen shows the server's score: always   *)
(* when the round is final; before that, if no throw has been undone.  (An *)
(* undo only guesses, and its answer brings no score: the guess is off if  *)
(* the undone throw did not count, or if the page was reloaded before the  *)
(* undo was sent.)  The score is that of the live throws: the cached total *)
(* that handlers leave behind when they overlap is in module RoundStore.   *)
(***************************************************************************)
ScreenAgrees ==
  Quiet /\ (phase = "done" \/ \A r \in rows : ~r.void)
    => shown = Score(Live)

(***************************************************************************)
(* A screen that says "Final" is right: the server has confirmed the       *)
(* round.  (Without slips: a late start, grace or reset reopens it.)       *)
(***************************************************************************)
FinalIsConfirmed ==
  phase = "done" => status = "confirmed"
================================================================================
