------------------------------ MODULE MCPeerCache ------------------------------
(***************************************************************************)
(* Small instances of PeerCache for TLC.                                   *)
(***************************************************************************)
EXTENDS PeerCache

CONSTANTS q1, q2, a, b, n1, k1

\* cache.Hash
MCOneName == [n \in {n1} |-> k1]

\* One TTL too small to be stored, one that is stored and soon too old to serve.
MCTTLs == {4, 6}
MCOneTTL == {6}

\* q1, if it came, found no siblings and an answer for b's store; q2 races at a.
\* Then nobody reads a's peer set; DO and CD on both queries shows nothing new.
MCWarmed ==
  /\ ~(query[q1].dnssec /\ query[q2].dnssec)
  /\ query[q1].at = b /\ asked[q1] = {} /\ (phase[q2] # "idle" => phase[q1] # "direct")
  /\ phase[q1] = "done" => given[q1].held /\ useful(given[q1].msg)
  /\ query[q2].at = a
  /\ peers[b] \subseteq {a} /\ (phase[q2] # "idle" => peers[a] = asked[q2])
===============================================================================
