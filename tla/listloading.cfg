\* Lists of up to four lines, with names in every spelling, in every order.
SPECIFICATION Spec
CONSTANTS
  Labels <- MCLabels
  GoodLabels <- MCGoodLabels
  lower <- MClower
  code <- MCcode
  TooLong <- MCTooLong
  IPs <- MCIPs
  localNames <- MClocalNames
  Lines <- MCLines
  Queries <- MCQueries
  MaxLines = 4
CHECK_DEADLOCK FALSE
INVARIANTS
  BlocksWhatItNames
  Canonical
