------------------------------ MODULE ScoreSheet ------------------------------
(***************************************************************************)
(* What scoring a round promises, without requests, statements, caches or  *)
(* clocks: a paper score sheet.  Throws are entered and struck out as long *)
(* as the sheet is not official; confirming it makes the score of the      *)
(* entered throws official.  An official sheet is not written on: it can   *)
(* only be reopened as it stands, which withdraws its score, or thrown     *)
(* away after a false start.                                               *)
(***************************************************************************)
CONSTANTS
  ClientIds,   (* the throws that may be tapped        *)
  Score(_)     (* what a set of live throws is worth   *)

VARIABLES
  sheet,       (* per throw: "absent", "live" or "void" (struck out)       *)
  official     (* {} until the round is confirmed, then {its score}        *)

vars == <<sheet, official>>

BlankSheet == [c \in ClientIds |-> "absent"]

LiveThrows == {c \in ClientIds : sheet[c] = "live"}

Open == official = {}

Init == sheet = BlankSheet /\ official = {}

Enter(c) ==
  /\ Open /\ sheet[c] = "absent"
  /\ sheet' = [sheet EXCEPT ![c] = "live"]
  /\ UNCHANGED official

StrikeOut(c) ==
  /\ Open /\ sheet[c] = "live"
  /\ sheet' = [sheet EXCEPT ![c] = "void"]
  /\ UNCHANGED official

Confirm ==
  /\ official' = {Score(LiveThrows)}
  /\ UNCHANGED sheet

(* A start or a grace that reaches a confirmed round. *)
Reopen ==
  /\ official' = {}
  /\ UNCHANGED sheet

FalseStart == sheet' = BlankSheet /\ official' = {}

Next ==
  \/ Confirm \/ Reopen \/ FalseStart
  \/ \E c \in ClientIds : Enter(c) \/ StrikeOut(c)

Spec == Init /\ [][Next]_vars
===============================================================================
