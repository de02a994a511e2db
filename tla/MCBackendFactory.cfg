SPECIFICATION BackendSpec
INVARIANT
  ThreadsOutliveFactory
CHECK_DEADLOCK FALSE
