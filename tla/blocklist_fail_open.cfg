\* The fail_open gauge against its help text.
SPECIFICATION Spec
CONSTANTS
  Generations = 2
  Urls = {"u"}
  urls <- MCOne
  Names = {a}
  Allow = {}
INVARIANT FailOpenMeansUnfiltered
CHECK_DEADLOCK FALSE
