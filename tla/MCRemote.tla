----------------------------- MODULE MCRemote -----------------------------
(***************************************************************************)
(* Remote for TLC: the constants are given in the configurations.          *)
(***************************************************************************)
EXTENDS Remote
=============================================================================
