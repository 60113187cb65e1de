------------------------------ MODULE MCScoring ------------------------------
(* Values for TLC. *)
EXTENDS Season

MCAllThrows == Throw

MCTeams == Flags

(* A custom season format, stored as data: the best two throws of a round, *)
(* and a tiny-dog cap low enough to bind within MaxThrows.                 *)
Custom ==
  [Format90Top5 EXCEPT !.scoredThrowCap = 2, !.tinyWeeklyCap = 15]

MCFormats == {FormatWWC, Custom}
=============================================================================
