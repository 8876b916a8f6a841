----------------------------- MODULE MCLifecycle ------------------------------
(***************************************************************************)
(* Lifecycle for TLC: the configuration gives the constants.               *)
(***************************************************************************)
EXTENDS Lifecycle
===============================================================================
