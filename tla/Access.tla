-------------------------------- MODULE Access --------------------------------
(***************************************************************************)
(* What lets a request in: the rate limit on sign-in links, the session    *)
(* cookie (requireUser) and the role in the club (requireRole).            *)
(*                                                                         *)
(* Each statement of a request is an action.  Everything else happens to   *)
(* the tables between two of them: sign-ins, which join a club and may     *)
(* change a role (module SignIn), logouts, housekeeping, rounds confirmed  *)
(* and reopened (module RoundStore), and time.                             *)
(*                                                                         *)
(* One club, one play session, one round.  Reading its page is reading     *)
(* whether the round is confirmed; what else it shows is in module League, *)
(* and what a stream carries in module LiveFeed.  Left out: CORS, headers, *)
(* and requests that are malformed or about things that do not exist.      *)
(***************************************************************************)
EXTENDS RateLimiter

CONSTANTS
  Requests,        (* requests that can be in progress at once             *)
  Users,
  Tokens,          (* session cookies; each is handed out once             *)
  Owner,           (* the user of each of them                             *)
  Granted,         (* the roles that invitations give                      *)
  SessionLifetime,
  Callers          (* the keys that are callers' addresses                 *)

Roles == {"member", "scorekeeper", "captain", "admin"}

ASSUME AccessAssumption ==
  /\ Owner \in [Tokens -> Users]
  /\ Granted \subseteq Roles
  /\ SessionLifetime \in Nat
  /\ Callers \subseteq Keys

VARIABLES
  sessions,   (* table auth_sessions                                       *)
  role,       (* table club_members: per user, no role or one              *)
  confirmed,  (* the round's status                                        *)
  req,        (* per request: where it is, what it is, its cookie, and     *)
              (* what it has read of the round                             *)
  signedIn,   (* history: cookies handed out                               *)
  signedOut,  (* history: cookies whose logout has been answered           *)
  held,       (* history: per request, what has been true since it         *)
              (* arrived: the roles its caller has had, "session" if it    *)
              (* came with a valid one, "public" if the round was          *)
              (* confirmed                                                 *)
  late        (* history: requests that arrived after their logout         *)

tables  == <<sessions, role, confirmed>>
history == <<signedIn, signedOut, held, late>>
vars    == <<time, limiter, tables, req, history>>

(* The handlers behind requireUser, and the public one. *)
Operations == {"dashboard", "invite", "session", "stream", "score", "public"}

Idle == [at |-> "idle", op |-> "public", token |-> {}, shows |-> FALSE]

RequestStates ==
  [at : {"idle", "select", "touch", "load", "role", "act"}, op : Operations,
   token : SUBSET Tokens, shows : BOOLEAN]

TypeOK ==
  /\ LimiterTypeOK
  /\ sessions \subseteq [token : Tokens, expires : Nat]
  /\ \A s, t \in sessions : s.token = t.token => s = t
  /\ role \in [Users -> SUBSET Roles] /\ \A u \in Users : Cardinality(role[u]) <= 1
  /\ confirmed \in BOOLEAN
  /\ req \in [Requests -> RequestStates]
  /\ signedIn \subseteq Tokens /\ signedOut \subseteq signedIn
  /\ held \in [Requests -> SUBSET (Roles \cup {"session", "public"})]
  /\ late \subseteq Requests

Init ==
  /\ LimiterInit
  /\ sessions = {} /\ role = [u \in Users |-> {}] /\ confirmed = FALSE
  /\ req = [r \in Requests |-> Idle]
  /\ signedIn = {} /\ signedOut = {}
  /\ held = [r \in Requests |-> {}] /\ late = {}

-----------------------------------------------------------------------------
roleRank ==
  [x \in Roles |-> CASE x = "member" -> 0 [] x = "scorekeeper" -> 1
                     [] x = "captain" -> 2 [] x = "admin" -> 3]

AtLeast(x, min) == roleRank[x] >= roleRank[min]

(* The role that requireRole is called with. *)
Required(op) ==
  CASE op = "score"  -> "scorekeeper"
    [] op = "invite" -> "captain"
    [] OTHER         -> "member"

Valid(k) == {s \in sessions : s.token = k /\ s.expires > time}

Goto(r, at) == req' = [req EXCEPT ![r].at = at]

Return(r) == req' = [req EXCEPT ![r] = Idle]

Public == IF confirmed THEN {"public"} ELSE {}

(* A request arrives, with the cookie of a sign-in if it needs one. *)
Arrive(r, op) ==
  /\ req[r] = Idle
  /\ \/ /\ op = "public"
        /\ req' = [req EXCEPT ![r] = [Idle EXCEPT !.at = "load"]]
        /\ held' = [held EXCEPT ![r] = Public]
        /\ late' = late \ {r}
     \/ \E k \in signedIn :
          /\ op # "public"
          /\ req' = [req EXCEPT ![r] =
               [Idle EXCEPT !.at = "select", !.op = op, !.token = {k}]]
          /\ held' = [held EXCEPT ![r] =
               Public \cup role[Owner[k]]
                 \cup IF Valid(k) = {} THEN {} ELSE {"session"}]
          /\ late' = IF k \in signedOut THEN late \cup {r} ELSE late \ {r}
  /\ UNCHANGED <<time, limiter, tables, signedIn, signedOut>>

(* AuthSessionUser, the SELECT; the caller is told to sign in again if     *)
(* there is no such session.                                               *)
SelectSession(r) ==
  /\ req[r].at = "select"
  /\ IF \A k \in req[r].token : Valid(k) # {} THEN Goto(r, "touch") ELSE Return(r)
  /\ UNCHANGED <<time, limiter, tables, history>>

(* What a handler does first. *)
First(op) ==
  CASE op = "dashboard" -> "act"
    [] op = "invite"    -> "role"
    [] OTHER            -> "load"

(* Mutant: a session that is gone is written again. *)
TouchSessionUpsert(r) ==
  /\ req[r].at = "touch"
  /\ sessions' = sessions \cup {[token |-> k, expires |-> time + SessionLifetime] :
       k \in {t \in req[r].token : ~\E s \in sessions : s.token = t}}
  /\ Goto(r, First(req[r].op))
  /\ UNCHANGED <<time, limiter, role, confirmed, history>>

(* The UPDATE of last_seen_at, on a row that may be gone by now. *)
TouchSession(r) ==
  /\ req[r].at = "touch"
  /\ Goto(r, First(req[r].op))
  /\ UNCHANGED <<time, limiter, tables, history>>

(* SessionView, PlaySessionByID or RoundLocation: before the role is       *)
(* asked for, as only they tell whose club it is.                          *)
Load(r) ==
  /\ req[r].at = "load"
  /\ req' = [req EXCEPT ![r].at = IF req[r].op = "public" THEN "act" ELSE "role",
                        ![r].shows = req[r].op = "session" \/ confirmed]
  /\ UNCHANGED <<time, limiter, tables, history>>

(* Mutant: no role is taken for the lowest one. *)
requireRoleLax(r) ==
  /\ req[r].at = "role"
  /\ \E k \in req[r].token :
       IF \A x \in role[Owner[k]] : AtLeast(x, Required(req[r].op))
         THEN Goto(r, "act") ELSE Return(r)
  /\ UNCHANGED <<time, limiter, tables, history>>

(* A caller without a role is told 404, one whose role is too low 403. *)
requireRole(r) ==
  /\ req[r].at = "role"
  /\ \E k \in req[r].token :
       IF \E x \in role[Owner[k]] : AtLeast(x, Required(req[r].op))
         THEN Goto(r, "act") ELSE Return(r)
  /\ UNCHANGED <<time, limiter, tables, history>>

(* The handler's own work: it answers, subscribes, or writes. *)
Act(r) ==
  /\ req[r].at = "act"
  /\ Return(r)
  /\ UNCHANGED <<time, limiter, tables, history>>

-----------------------------------------------------------------------------
(* What goes on between the statements of a request. *)

(* Verify: a new session. *)
SignIn(k) ==
  /\ k \notin signedIn
  /\ sessions' = sessions \cup {[token |-> k, expires |-> time + SessionLifetime]}
  /\ signedIn' = signedIn \cup {k}
  /\ UNCHANGED <<time, limiter, role, confirmed, req, signedOut, held, late>>

(* Mutant: the new role comes on top of the old one. *)
AddClubMemberOnTop(u, x) ==
  /\ role' = [role EXCEPT ![u] = @ \cup {x}]
  /\ held' = [r \in Requests |->
       IF \E k \in req[r].token : Owner[k] = u
         THEN held[r] \cup {x} ELSE held[r]]
  /\ UNCHANGED <<time, limiter, sessions, confirmed, req, signedIn, signedOut, late>>

(* AddClubMember, an upsert: an invitation may give another role. *)
AddClubMember(u, x) ==
  /\ role' = [role EXCEPT ![u] = {x}]
  /\ held' = [r \in Requests |->
       IF \E k \in req[r].token : Owner[k] = u
         THEN held[r] \cup {x} ELSE held[r]]
  /\ UNCHANGED <<time, limiter, sessions, confirmed, req, signedIn, signedOut, late>>

(* handleAuthLogout *)
Logout(k) ==
  /\ k \in signedIn
  /\ sessions' = {s \in sessions : s.token # k}
  /\ signedOut' = signedOut \cup {k}
  /\ UNCHANGED <<time, limiter, role, confirmed, req, signedIn, held, late>>

(* handleAuthRequest tries the caller's key, then the mail address's. *)
AskForLink(caller, address) ==
  /\ Attempt(caller, address)
  /\ UNCHANGED <<time, tables, req, history>>

(* The round is confirmed, or reopened. *)
ChangeRound ==
  /\ confirmed' = ~confirmed
  /\ held' = [r \in Requests |->
       IF confirmed' /\ req[r] # Idle THEN held[r] \cup {"public"} ELSE held[r]]
  /\ UNCHANGED <<time, limiter, sessions, role, req, signedIn, signedOut, late>>

(* StartHousekeeping *)
Housekeeping ==
  /\ sessions' = {s \in sessions : s.expires >= time}
  /\ sweep
  /\ UNCHANGED <<time, role, confirmed, req, history>>

Tick ==
  /\ time < MaxTime
  /\ time' = time + 1
  /\ UNCHANGED <<limiter, tables, req, history>>

Step(r) ==
  \/ SelectSession(r) \/ TouchSession(r) \/ Load(r) \/ requireRole(r) \/ Act(r)

Next ==
  \/ \E r \in Requests : Step(r) \/ \E op \in Operations : Arrive(r, op)
  \/ \E k \in Tokens : SignIn(k) \/ Logout(k)
  \/ \E u \in Users, x \in Granted : AddClubMember(u, x)
  \/ \E caller \in Callers, address \in Keys \ Callers : AskForLink(caller, address)
  \/ ChangeRound \/ Housekeeping \/ Tick

Spec == Init /\ [][Next]_vars

-----------------------------------------------------------------------------
(***************************************************************************)
(* Whatever a handler does or shows, its caller was entitled to: the       *)
(* request came with a valid session, and at some moment since the caller  *)
(* has had the role; or, for the page without a login, the round was       *)
(* confirmed.  Sign-outs, new roles, housekeeping and reopened rounds may  *)
(* fall between any two of its statements.                                 *)
(***************************************************************************)
Entitled ==
  \A r \in Requests : req[r].at = "act" =>
    IF req[r].op = "public"
      THEN req[r].shows => "public" \in held[r]
      ELSE /\ "session" \in held[r]
           /\ req[r].op # "dashboard" =>
                \E x \in held[r] \cap Roles : AtLeast(x, Required(req[r].op))

(***************************************************************************)
(* Once a logout has been answered, no later request gets in with that     *)
(* cookie: a request still under way does not bring the session back.      *)
(***************************************************************************)
LogoutIsFinal == \A r \in late : req[r].at \in {"idle", "select"}
===============================================================================
