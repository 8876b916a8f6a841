\* What one replica has stored reaches a client of the other, or has become too
\* old to: every order in which the sibling's and the upstream's leg can end,
\* fail or time out.
SPECIFICATION FairSpec
CONSTANTS
  q1 = q1
  q2 = q2
  a = a
  b = b
  n1 = n1
  k1 = k1
  Upstream = Upstream
  Queries = {q1, q2}
  Replicas = {a, b}
  Names = {n1}
  Keys = {k1}
  hash <- MCOneName
  TTLs <- MCTTLs
  MaxTime = 3
CONSTRAINT MCWarmed
CHECK_DEADLOCK FALSE
INVARIANTS
  TypeOK
  UpstreamIsHeard
  HopsShrinkTTL
  NotMuchBeyondUpstreamExpiry
  OwnBits
PROPERTIES
  ImplementsContest
  QueryReturns
  LegsEnd
