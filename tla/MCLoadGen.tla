------------------------------ MODULE MCLoadGen -------------------------------
(***************************************************************************)
(* LoadGen for TLC: the configuration gives the constants.                 *)
(***************************************************************************)
EXTENDS LoadGen
===============================================================================
