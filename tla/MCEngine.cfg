SPECIFICATION FairSpec
CONSTANTS
  MaxIdle = 3
  MaxChunks = 2
  MaxCalls = 2
  MaxLogs = 2
INVARIANTS
  TypeOK
  CallsOnceInOrder
  ResponsesAnswerCalls
  NothingBeforeResultIsLost
  AtMostOneLateCall
  StalledIsStuck
PROPERTIES
  InvocationEnds
CHECK_DEADLOCK FALSE
