\* Three queries to one upstream: legs that share a pool of one connection.
SPECIFICATION Spec
CONSTANTS
  Queries = {q1, q2, q3}
  Upstreams = {u1}
  MaxIdleConns = 1
  Replies <- MCOneReply
  NoLeg = NoLeg
  NoMsg = NoMsg
SYMMETRY MCSymmetry
INVARIANTS
  TypeOK
  DrainBound
CHECK_DEADLOCK FALSE
