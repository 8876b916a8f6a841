\* Two workers, room for two names and up to four to ask: fewer than the channel
\* holds, and more than it holds with one worker at work.
SPECIFICATION FairSpec
CONSTANTS
  Workers = {v, w}
  PerWorker = 1
  MaxNames = 4
CHECK_DEADLOCK FALSE
INVARIANTS
  TypeOK
  GreenMeansAnswered
  AnswersBelong
PROPERTIES
  RunReturns
