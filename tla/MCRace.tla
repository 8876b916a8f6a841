------------------------------- MODULE MCRace --------------------------------
(***************************************************************************)
(* Instances of Race for TLC.                                              *)
(***************************************************************************)
EXTENDS Race, TLC

\* One reply that wins, one truncated and one SERVFAIL that only fall back.
MCReplies == {[rcode |-> "NXDOMAIN", tc |-> FALSE],
              [rcode |-> "NOERROR", tc |-> TRUE],
              [rcode |-> "SERVFAIL", tc |-> FALSE]}

\* Only a useful reply: enough to fill pools.
MCOneReply == {[rcode |-> "NOERROR", tc |-> FALSE]}

\* Only the part of the state space where every leg is still at work.
MCLegsAtWork ==
  /\ lifecycle # "stopped"
  /\ \A q \in Queries : sent[q] = <<>> /\ outcome[q] = Undecided

\* Queries are interchangeable.
MCSymmetry == Permutations(Queries)
==============================================================================
