\* Client and server both end; a client nobody signals waits for ever.
CONSTANT MaxSignals = 4
SPECIFICATION Spec
CHECK_DEADLOCK FALSE
INVARIANTS
  TypeOK
  RepliesMatch
PROPERTIES
  ReadReturns
  ServerEnds
