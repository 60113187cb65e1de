------------------------------- MODULE MCSignIn -------------------------------
(* Values for TLC: two requests and two addresses, nobody seeded. *)
EXTENDS SignIn, TLC

CONSTANTS r1, r2, ann, bob

MCRequests == {r1, r2}
MCAddresses == {ann, bob}

(* Requests and addresses are only ever compared for equality. *)
MCSymmetry == Permutations(MCRequests) \cup Permutations(MCAddresses)
===============================================================================
