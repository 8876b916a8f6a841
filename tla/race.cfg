\* One query to two upstreams: every order in which its legs can end, fail or be
\* abandoned.
SPECIFICATION FairSpec
CONSTANTS
  Queries = {q1}
  Upstreams = {u1, u2}
  MaxIdleConns = 1
  Replies <- MCReplies
  NoLeg = NoLeg
  NoMsg = NoMsg
INVARIANTS
  ExactlyOneReply
  SendNeverBlocks
  FailureHasCause
PROPERTIES
  ImplementsContest
  QueryReturns
  LegsEnd
CHECK_DEADLOCK FALSE
