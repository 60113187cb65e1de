----------------------------- MODULE MCRoundDevice -----------------------------
(***************************************************************************)
(* Module RoundDevice with the values of module MCRoundStore.              *)
(***************************************************************************)
EXTENDS RoundDevice, MCRoundStore
===============================================================================
