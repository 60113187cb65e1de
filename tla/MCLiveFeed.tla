------------------------------ MODULE MCLiveFeed ------------------------------
(***************************************************************************)
(* Values of the constants of module LiveFeed for TLC: one viewer, and a   *)
(* second session whose events it must not see but which share its ids.    *)
(***************************************************************************)
EXTENDS LiveFeed

CONSTANTS s1, s2, v1

MCWatched == v1 :> s1
===============================================================================
