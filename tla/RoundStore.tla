------------------------------ MODULE RoundStore ------------------------------
(***************************************************************************)
(* One round on the server: its row in table rounds, its rows in table     *)
(* throws, and the requests of package httpapi that write them.            *)
(*                                                                         *)
(* The store holds a single SQLite connection, so statements never run     *)
(* side by side; but a request releases it between two statements, and the *)
(* statements of concurrent requests interleave.  A request is therefore a *)
(* process and each of its statements one action.  ResetRound is one       *)
(* action because its two statements share a transaction.                  *)
(*                                                                         *)
(* Left out: the checks that come before the first statement on the round  *)
(* (sign-in, role, body), which read nothing these requests write; the     *)
(* scorekeeper's id; and the column recorded_at, which orders the trail    *)
(* and not the score.                                                      *)
(***************************************************************************)
EXTENDS Scoring

CONSTANTS
  Requests,      (* the requests that can be in progress at once           *)
  ClientIds,     (* device-made ids, one per tap                           *)
  ThrowIds,      (* row ids of table throws                                *)
  ThrowOf,       (* the zone and air of each tap                           *)
  TeamFlags,     (* the team's designations, from its season entry         *)
  SeasonFormat   (* the season's play format                               *)

ASSUME RoundStoreAssumption ==
  /\ ThrowOf \in [ClientIds -> Throw]
  /\ TeamFlags \in Flags

VARIABLES
  status,    (* rounds.status                                              *)
  total,     (* rounds.total_x2, the cached score                          *)
  throws,    (* the round's rows of table throws                           *)
  feed,      (* {} or the round as the last published event shows it       *)
  req,       (* per request: where it is and what it holds                 *)
  acked      (* history: taps answered 200 since the round was last reset  *)

row  == <<status, total, throws>>
vars == <<row, feed, req, acked>>

Statuses == {"ready", "running", "grace", "confirmed"}

Calls ==
  [op: {"add"}, client: ClientIds] \cup [op: {"void"}, id: ThrowIds]
    \cup [op: {"start", "grace", "reset", "confirm"}]

Rows == [id: ThrowIds, client: ClientIds, void: BOOLEAN]

Live == {t.client : t \in {u \in throws : ~u.void}}

Stored(c) == \E t \in throws : t.client = c

(* The score of a set of live throws: what RecomputeRoundTotal stores. *)
RoundTotal(live) ==
  LET order == SetToSeq(live)
  IN  ScoreRound([i \in DOMAIN order |-> ThrowOf[order[i]]],
                 TeamFlags, SeasonFormat)

(* total_x2 defaults to 0 and ResetRound writes 0. *)
ASSUME EmptyRoundAssumption == RoundTotal({}) = 0

Totals == {RoundTotal(live) : live \in SUBSET ClientIds}

Views == [status: Statuses, total: Totals]

(* A request: the statement it runs next (at), what it asks for (call, {}  *)
(* when idle), the live throws it has read (snap), the round it is about   *)
(* to publish (view), and whether a reset crossed it (history).            *)
Idle ==
  [at |-> "idle", call |-> {}, snap |-> {}, view |-> {}, crossed |-> FALSE]

RequestStates ==
  [at: {"idle", "check", "write", "fetch", "rescore", "cache", "view", "publish"},
   call: SUBSET Calls, snap: SUBSET ClientIds, view: SUBSET Views,
   crossed: BOOLEAN]

TypeOK ==
  /\ status \in Statuses
  /\ total \in Totals
  /\ throws \subseteq Rows
  /\ feed \subseteq Views
  /\ req \in [Requests -> RequestStates]
  /\ acked \subseteq ClientIds

Init ==
  /\ status = "ready"
  /\ total = 0
  /\ throws = {}
  /\ feed = {}
  /\ req = [r \in Requests |-> Idle]
  /\ acked = {}

-----------------------------------------------------------------------------
(* The request is before statement "at" of operation c.op. *)
Doing(r, at, c) == req[r].at = at /\ req[r].call = {c}

Goto(r, at) == req' = [req EXCEPT ![r].at = at]

Return(r) == req' = [req EXCEPT ![r] = Idle]

(* A request arrives.  Throw writes look at the round's status first. *)
Begin(r, c) ==
  /\ req[r].at = "idle"
  /\ req' = [req EXCEPT ![r] =
       [Idle EXCEPT !.at = IF c.op \in {"add", "void"} THEN "check" ELSE "write",
                    !.call = {c}]]
  /\ UNCHANGED <<row, feed, acked>>

(* AddThrow and VoidThrow: a confirmed round answers ErrRoundClosed. *)
CheckStatus(r) ==
  /\ req[r].at = "check"
  /\ IF status = "confirmed" THEN Return(r) ELSE Goto(r, "write")
  /\ UNCHANGED <<row, feed, acked>>

(* Mutant: a plain INSERT, without the unique constraint. *)
InsertThrowTwice(r, c) ==
  /\ Doing(r, "write", c) /\ c.op = "add"
  /\ \E i \in ThrowIds :
       /\ \A t \in throws : t.id # i
       /\ throws' = throws \cup
            {[id |-> i, client |-> c.client, void |-> FALSE]}
  /\ Goto(r, "fetch")
  /\ UNCHANGED <<status, total, feed, acked>>

(* Mutant: an upsert, ON CONFLICT DO UPDATE SET void = 0. *)
InsertThrowRevives(r, c) ==
  /\ Doing(r, "write", c) /\ c.op = "add"
  /\ IF Stored(c.client)
       THEN throws' = {IF t.client = c.client THEN [t EXCEPT !.void = FALSE]
                                              ELSE t : t \in throws}
       ELSE \E i \in ThrowIds :
              /\ \A t \in throws : t.id # i
              /\ throws' = throws \cup
                   {[id |-> i, client |-> c.client, void |-> FALSE]}
  /\ Goto(r, "fetch")
  /\ UNCHANGED <<status, total, feed, acked>>

(* Mutant: a throw that is already stored is not rescored. *)
InsertThrowShortcut(r, c) ==
  /\ Doing(r, "write", c) /\ c.op = "add"
  /\ IF Stored(c.client)
       THEN Goto(r, "view") /\ UNCHANGED throws
       ELSE /\ Goto(r, "fetch")
            /\ \E i \in ThrowIds :
                 /\ \A t \in throws : t.id # i
                 /\ throws' = throws \cup
                      {[id |-> i, client |-> c.client, void |-> FALSE]}
  /\ UNCHANGED <<status, total, feed, acked>>

(* AddThrow: INSERT ... ON CONFLICT (round_id, client_id) DO NOTHING.  A   *)
(* new row gets an id no row holds; the ids of deleted rows are free again.*)
InsertThrow(r, c) ==
  /\ Doing(r, "write", c) /\ c.op = "add"
  /\ IF Stored(c.client)
       THEN UNCHANGED throws
       ELSE \E i \in ThrowIds :
              /\ \A t \in throws : t.id # i
              /\ throws' = throws \cup
                   {[id |-> i, client |-> c.client, void |-> FALSE]}
  /\ Goto(r, "fetch")
  /\ UNCHANGED <<status, total, feed, acked>>

(* AddThrow: read the stored throw back; a reset may have deleted it. *)
FetchThrow(r, c) ==
  /\ Doing(r, "fetch", c)
  /\ IF Stored(c.client) THEN Goto(r, "rescore") ELSE Return(r)
  /\ UNCHANGED <<row, feed, acked>>

(* Mutant: the undone row is deleted instead of voided. *)
MarkVoidDeletes(r, c) ==
  /\ Doing(r, "write", c) /\ c.op = "void"
  /\ throws' = {t \in throws : t.id # c.id}
  /\ IF \E t \in throws : t.id = c.id THEN Goto(r, "rescore") ELSE Return(r)
  /\ UNCHANGED <<status, total, feed, acked>>

(* VoidThrow: UPDATE throws SET void = 1; no such row is ErrNotFound. *)
MarkVoid(r, c) ==
  /\ Doing(r, "write", c) /\ c.op = "void"
  /\ throws' = {IF t.id = c.id THEN [t EXCEPT !.void = TRUE] ELSE t : t \in throws}
  /\ IF \E t \in throws : t.id = c.id THEN Goto(r, "rescore") ELSE Return(r)
  /\ UNCHANGED <<status, total, feed, acked>>

(* RecomputeRoundTotal: read the round's throws. *)
ReadThrows(r) ==
  /\ req[r].at = "rescore"
  /\ req' = [req EXCEPT ![r].at = "cache", ![r].snap = Live]
  /\ UNCHANGED <<row, feed, acked>>

(* Mutant: the total is increased instead of recomputed. *)
CacheTotalAdds(r) ==
  /\ req[r].at = "cache"
  /\ total' = total + RoundTotal(req[r].snap)
  /\ req' = [req EXCEPT ![r].at = "view", ![r].snap = {}]
  /\ UNCHANGED <<status, throws, feed, acked>>

(* RecomputeRoundTotal: UPDATE rounds SET total_x2. *)
CacheTotal(r) ==
  /\ req[r].at = "cache"
  /\ total' = RoundTotal(req[r].snap)
  /\ req' = [req EXCEPT ![r].at = "view", ![r].snap = {}]
  /\ UNCHANGED <<status, throws, feed, acked>>

StartRound(r) ==
  /\ Doing(r, "write", [op |-> "start"])
  /\ status' = "running"
  /\ Goto(r, "view")
  /\ UNCHANGED <<total, throws, feed, acked>>

EnterGrace(r) ==
  /\ Doing(r, "write", [op |-> "grace"])
  /\ status' = "grace"
  /\ Goto(r, "view")
  /\ UNCHANGED <<total, throws, feed, acked>>

(* Mutant: confirming a round is not announced. *)
ConfirmRoundSilently(r) ==
  /\ Doing(r, "write", [op |-> "confirm"])
  /\ status' = "confirmed"
  /\ Return(r)
  /\ UNCHANGED <<total, throws, feed, acked>>

ConfirmRound(r) ==
  /\ Doing(r, "write", [op |-> "confirm"])
  /\ status' = "confirmed"
  /\ Goto(r, "view")
  /\ UNCHANGED <<total, throws, feed, acked>>

(* ResetRound, one transaction: the throws are deleted and the round is as *)
(* it was before its start.                                                *)
ResetRound(r) ==
  /\ Doing(r, "write", [op |-> "reset"])
  /\ status' = "ready"
  /\ total' = 0
  /\ throws' = {}
  /\ acked' = {}
  /\ req' = [q \in Requests |->
       IF q = r THEN [req[q] EXCEPT !.at = "view"]
       ELSE [req[q] EXCEPT !.crossed = (req[q].at # "idle")]]
  /\ UNCHANGED feed

(* The handler reads the round it is going to publish. *)
ReadRound(r) ==
  /\ req[r].at = "view"
  /\ req' = [req EXCEPT ![r].at = "publish",
                        ![r].view = {[status |-> status, total |-> total]}]
  /\ UNCHANGED <<row, feed, acked>>

(* The event goes to the hub and the request is answered. *)
Publish(r) ==
  /\ req[r].at = "publish"
  /\ feed' = req[r].view
  /\ acked' = acked \cup
       {c.client : c \in {d \in req[r].call : d.op = "add" /\ ~req[r].crossed}}
  /\ Return(r)
  /\ UNCHANGED row

(* The client went away, or the process stopped: the request ends before   *)
(* its next statement, and what it has written stays written.              *)
Abort(r) ==
  /\ req[r].at # "idle"
  /\ Return(r)
  /\ UNCHANGED <<row, feed, acked>>

Step(r) ==
  \/ CheckStatus(r)
  \/ \E c \in Calls : InsertThrow(r, c) \/ FetchThrow(r, c) \/ MarkVoid(r, c)
  \/ ReadThrows(r) \/ CacheTotal(r)
  \/ StartRound(r) \/ EnterGrace(r) \/ ConfirmRound(r) \/ ResetRound(r)
  \/ ReadRound(r) \/ Publish(r)

Next ==
  \E r \in Requests : (\E c \in Calls : Begin(r, c)) \/ Step(r) \/ Abort(r)

Spec == Init /\ [][Next]_vars

-----------------------------------------------------------------------------
(***************************************************************************)
(* No tap is ever scored twice, however often and however concurrently it  *)
(* is sent: one row per client id, one throw per row id.                   *)
(***************************************************************************)
OneRowPerTap ==
  \A t, u \in throws : t.client = u.client \/ t.id = u.id => t = u

(***************************************************************************)
(* A tap the server has answered 200 is stored, live or voided, until a    *)
(* reset: the queue forgets a write once it is answered, so nothing would  *)
(* ever send it again.  (An answer a reset crossed does not count.)        *)
(***************************************************************************)
AckedThrowsAreStored == \A c \in acked : Stored(c)

(***************************************************************************)
(* An undo is final: a voided row stays in the trail, voided, in every     *)
(* step but the reset itself, whatever the round's status is -- in         *)
(* particular a retry of the tap it voids does not bring it back.          *)
(***************************************************************************)
UndoSticks ==
  [][(\E r \in Requests : ResetRound(r)) \/ \A t \in throws : t.void => t \in throws']_vars
===============================================================================
