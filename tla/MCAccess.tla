------------------------------- MODULE MCAccess -------------------------------
(* Values for TLC: every cookie is one user's. *)
EXTENDS Access

CONSTANTS ann

MCOwner == [k \in Tokens |-> ann]
===============================================================================
