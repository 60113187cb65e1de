------------------------------ MODULE RoundDevice ------------------------------
(***************************************************************************)
(* The round of module RoundStore, scored by one device that waits for     *)
(* each answer before it makes the next request.  What it offers depends   *)
(* on the screen's own clock and write queue, not on the round's status:   *)
(* the clock runs although its START failed, and a page loaded in the      *)
(* grace period shows START.  Any request may be cut short between two     *)
(* statements (the client went away, or the process stopped), any answer   *)
(* lost, and any write refused.                                            *)
(*                                                                         *)
(* A device that does not wait is in module RoundScreen.  The preroll, in  *)
(* which nothing is offered, is part of the START.                         *)
(***************************************************************************)
EXTENDS RoundStore

VARIABLES
  clock,    (* the phase of the screen                                     *)
  adopted,  (* its clock was adopted from a running round: TIME is never   *)
            (* called, and START does not start it                         *)
  owed,     (* {} or the write at the head of the queue, sent until it is  *)
            (* answered                                                    *)
  behind    (* history: what is known to be out of date: the cached total, *)
            (* or what spectators were shown                               *)

page       == <<clock, adopted, owed>>
deviceVars == <<vars, page, behind>>

Clocks == {"ready", "running", "grace", "done"}
Writes == {"add", "void"}

(* The page's types: the queue owes nothing but throw writes. *)
DeviceTypeOK ==
  /\ TypeOK
  /\ clock \in Clocks /\ adopted \in BOOLEAN
  /\ owed \subseteq {c \in Calls : c.op \in Writes}
  /\ behind \subseteq {"total", "feed"}

AllIdle == \A r \in Requests : req[r].at = "idle"

canScore == clock \in {"running", "grace"}

(* Mutant: confirming does not wait for the queue. *)
OfferedHasty(c) ==
  CASE c.op = "start"   -> clock = "ready"
    [] c.op = "grace"   -> clock = "running" /\ ~adopted
    [] c.op = "reset"   -> canScore
    [] c.op = "confirm" -> canScore
    [] c.op \in Writes  -> owed = {c} \/ (canScore /\ owed = {})

(* The requests the page may make: START, TIME, a false start, a confirm   *)
(* once the queue is empty, a new tap, and the retry of the one before.    *)
Offered(c) ==
  CASE c.op = "start"   -> clock = "ready"
    [] c.op = "grace"   -> clock = "running" /\ ~adopted
    [] c.op = "reset"   -> canScore
    [] c.op = "confirm" -> canScore /\ owed = {}
    [] c.op \in Writes  -> owed = {c} \/ (canScore /\ owed = {})

(* What is behind for good if the write owed is given up now: it may have  *)
(* been cut short before the rescoring.                                    *)
Stale == IF total = RoundTotal(Live) THEN {} ELSE {"total"}

(* The page makes a request.  Time and a false start change its clock at   *)
(* once, and a false start empties the queue.                              *)
Ask(r, c) ==
  /\ AllIdle /\ Offered(c) /\ Begin(r, c)
  /\ clock' = CASE c.op = "grace" -> "grace"
                [] c.op = "reset" -> "ready"
                [] OTHER          -> clock
  /\ owed' = CASE c.op \in Writes -> {c}
               [] c.op = "reset"  -> {}
               [] OTHER           -> owed
  /\ behind' = IF c.op = "reset" /\ owed # {} THEN behind \cup Stale ELSE behind
  /\ UNCHANGED adopted

Is(r, ops) == \E c \in req[r].call : c.op \in ops

(* The request is over for the page, answered or not.  A failed START      *)
(* starts the clock all the same; a failed write is still owed.            *)
Over(r, answered) ==
  /\ clock' = IF Is(r, {"start"}) /\ ~adopted      THEN "running"
              ELSE IF Is(r, {"confirm"}) /\ answered THEN "done"
              ELSE clock
  /\ owed' = IF Is(r, Writes) /\ answered THEN {} ELSE owed
  /\ UNCHANGED adopted

(* What the request's present statement brings up to date. *)
Mended(r) ==
  CASE req[r].at = "cache" \/ Doing(r, "write", [op |-> "reset"]) -> {"total"}
    [] req[r].at = "publish"                                      -> {"feed"}
    [] OTHER                                                      -> {}

(* A write refused because the round is confirmed, or has no such throw.   *)
Refused(r) == Is(r, Writes) /\ req[r].at \in {"check", "write"}

(* The request's next statement.  If it is the last, its answer may be     *)
(* lost.                                                                   *)
Serve(r) ==
  /\ Step(r)
  /\ \/ req'[r].at # "idle" /\ UNCHANGED page
     \/ req'[r].at = "idle" /\ \E answered \in BOOLEAN : Over(r, answered)
  /\ behind' = (behind \ Mended(r))
                 \cup (IF Refused(r) /\ owed' = {} THEN Stale ELSE {})

(* What spectators will not see of a request cut short before its event. *)
Unseen(r) ==
  IF req[r].at \in {"fetch", "rescore", "cache", "view", "publish"} THEN {"feed"} ELSE {}

CutShort(r) ==
  /\ Abort(r)
  /\ Over(r, FALSE)
  /\ behind' = behind \cup Unseen(r)

(* The write owed is turned away before it reaches the round (400, 401,    *)
(* 403 or 404), and the queue drops it; or it was lost with the storage.   *)
GiveUp ==
  /\ AllIdle /\ owed # {}
  /\ owed' = {}
  /\ behind' = behind \cup Stale
  /\ UNCHANGED <<vars, clock, adopted>>

(* The page is loaded again: its clock follows the round's status, and its *)
(* queue is in the storage.                                                *)
Reload ==
  /\ AllIdle
  /\ clock' = CASE status = "running"   -> "running"
                [] status = "confirmed" -> "done"
                [] OTHER                -> "ready"
  /\ adopted' = (status = "running")
  /\ UNCHANGED <<vars, owed, behind>>

DeviceInit ==
  Init /\ clock = "ready" /\ adopted = FALSE /\ owed = {} /\ behind = {}

DeviceNext ==
  \/ \E r \in Requests :
       (\E c \in Calls : Ask(r, c)) \/ Serve(r) \/ CutShort(r)
  \/ GiveUp \/ Reload

DeviceSpec == DeviceInit /\ [][DeviceNext]_deviceVars

-----------------------------------------------------------------------------
(***************************************************************************)
(* A throw write that gets as far as its event has put the cached total    *)
(* right, whatever earlier requests left behind when they were cut short:  *)
(* the retry of an interrupted write repairs the total.                    *)
(***************************************************************************)
WriteHealsTotal ==
  \A r \in Requests :
    req[r].at \in {"view", "publish"} /\ Is(r, Writes)
      => total = RoundTotal(Live)

(***************************************************************************)
(* Between two requests, spectators have been shown the round as it is:    *)
(* the last event carries its present status and total, unless a request   *)
(* that changed them was cut short before its event.                       *)
(***************************************************************************)
FeedIsCurrent ==
  AllIdle /\ feed # {} /\ "feed" \notin behind
    => feed = {[status |-> status, total |-> total]}

(***************************************************************************)
(* To one device that waits the store is the paper score sheet of module   *)
(* ScoreSheet, wherever its requests are cut short, and whatever the round *)
(* is in when the screen offers them: each throw, undo, reset and          *)
(* confirmation takes effect once, in one step; what a confirmed round's   *)
(* row publishes as its total is the score of its throws, and neither      *)
(* changes until the round is reopened.  That a total left stale by a      *)
(* request cut short does not become official rests on the queue: the      *)
(* write is owed until it is answered, and confirming waits for it.  (A    *)
(* write given up half done leaves its total behind; then the official     *)
(* score is one that nobody is shown.)                                     *)
(***************************************************************************)
Sheet ==
  INSTANCE ScoreSheet WITH
    Score <- RoundTotal,
    sheet <- [c \in ClientIds |->
                IF c \in Live THEN "live" ELSE IF Stored(c) THEN "void" ELSE "absent"],
    official <- IF status # "confirmed" THEN {}
                ELSE {IF "total" \in behind THEN RoundTotal(Live) ELSE total}

ImplementsScoreSheet == Sheet!Spec
===============================================================================
