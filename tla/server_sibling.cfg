\* What a store may give away, against the README.
SPECIFICATION Spec
CONSTANTS
  Words <- MCWords
  duration <- MCduration
  number <- MCnumber
  hosts <- MChosts
  ValidUpstreams = {"good", "short", "bad", "file"}
  ValidURLs = {"good", "short"}
  ValidNames = {"good"}
  ValidAddrs = {"good"}
  ValidSelectors = {"", "good"}
  ValidZones = {"good"}
  Shipped <- MCShipped
  Corefiles <- MCCorefiles
  MaxLines = 1
  MaxArgs = 3
  Replicas = {a, b}
  Names = {n}
  Queries = {q1, q2}
CHECK_DEADLOCK FALSE
INVARIANT BlockedNeverShared
