\* Four queries to one upstream: legs that refill the pool another one drains.
SPECIFICATION Spec
CONSTANTS
  Queries = {q1, q2, q3, q4}
  Upstreams = {u1}
  MaxIdleConns = 1
  Replies <- MCOneReply
  NoLeg = NoLeg
  NoMsg = NoMsg
SYMMETRY MCSymmetry
CONSTRAINT MCLegsAtWork
INVARIANT DrainFitsAttempts
CHECK_DEADLOCK FALSE
