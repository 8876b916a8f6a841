----------------------------- MODULE MCBlocklist ------------------------------
(***************************************************************************)
(* Instances of Blocklist for TLC.                                         *)
(***************************************************************************)
EXTENDS Blocklist

MCOne == <<"u">>

\* The same URL before and after another one.
MCSources == <<"u", "v", "u">>
===============================================================================
