\* From init to three queries on two replicas.
SPECIFICATION Spec
CONSTANTS
  Words <- MCWords
  duration <- MCduration
  number <- MCnumber
  hosts <- MChosts
  ValidUpstreams = {"good", "short", "bad", "file"}
  ValidURLs = {"good", "short"}
  ValidNames = {"good"}
  ValidAddrs = {"good"}
  ValidSelectors = {"", "good"}
  ValidZones = {"good"}
  Shipped <- MCShipped
  Corefiles <- MCCorefiles
  MaxLines = 3
  MaxArgs = 3
  Replicas = {a, b}
  Names = {n}
  Queries = {q1, q2, q3}
CHECK_DEADLOCK FALSE
INVARIANTS
  ConfigIsRunnable
  ProxiesSeeTheBlock
  BlockedIsNeverAnswered
