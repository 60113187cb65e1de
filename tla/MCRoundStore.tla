----------------------------- MODULE MCRoundStore -----------------------------
(***************************************************************************)
(* Values of the constants of module RoundStore for TLC.                   *)
(***************************************************************************)
EXTENDS RoundStore

CONSTANTS t1, t2, t3

MCSameThrow == [c \in ClientIds |-> [zone |-> "20-30", air |-> TRUE]]

MCSymmetry ==
  Permutations(Requests) \cup Permutations(ClientIds) \cup Permutations(ThrowIds)

MCThrowOf ==
  [c \in ClientIds |->
     CASE c = t1 -> [zone |-> "10-20", air |-> FALSE]
       [] c = t2 -> [zone |-> "20-30", air |-> TRUE]
       [] OTHER  -> [zone |-> "40-50", air |-> FALSE]]

MCTeam == [tiny |-> FALSE, roller |-> FALSE, division |-> "handler"]

(* A season format stored as data, in which the best throw counts. *)
MCBestOne == [Format90Top5 EXCEPT !.scoredThrowCap = 1]
MCFormat60All == Format60All
===============================================================================
