\* One generation with three sources, two of them the same URL: every way a
\* fetch, the timer and a shutdown can interleave.
SPECIFICATION FairSpec
CONSTANTS
  Generations = 1
  Urls = {"u", "v"}
  urls <- MCSources
  Names = {a, b, c}
  Allow = {c}
CHECK_DEADLOCK FALSE
INVARIANTS
  TypeOK
  KeepsLastGood
  NothingStale
  ReadyMeansLoadedOrFailedOpen
  UnfilteredIsSignalled
PROPERTIES
  ReadyEventually
  ShutdownEnds
