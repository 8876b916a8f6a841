\* One query, one hung sibling, an upstream that fails.
SPECIFICATION Spec
CONSTANTS
  q1 = q1
  q2 = q2
  a = a
  b = b
  n1 = n1
  k1 = k1
  Upstream = Upstream
  Queries = {q1}
  Replicas = {a, b}
  Names = {n1}
  Keys = {k1}
  hash <- MCOneName
  TTLs <- MCOneTTL
  MaxTime = 2
CHECK_DEADLOCK FALSE
INVARIANTS
  NeverWaitsOnPeer
