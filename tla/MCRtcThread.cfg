SPECIFICATION ThreadSpec
CONSTANTS
  c1 = c1
  c2 = c2
  c3 = c3
  Callers <- MCCallers
INVARIANTS
  ThreadTypeOK
  NoLostWakeUp
  NoLostCall
  NothingRunsAfterStop
PROPERTIES
  StopReturns
  SendsReturn
  PostsReturn
  ImplementsCalls
CHECK_DEADLOCK FALSE
