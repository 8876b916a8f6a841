\* One generation and its predecessor, a sibling that comes and goes, three attempts to bind.
SPECIFICATION FairSpec
CONSTANTS
  Pods = {a}
  bindAttempts = 3
  MaxChanges = 2
CHECK_DEADLOCK FALSE
INVARIANTS
  TypeOK
  PortFreeAfterShutdown
  QuietAfterShutdown
PROPERTIES
  ShutdownEnds
  PortReleased
  PeersSettle
  PortIsTaken
