\* A run of accesses is bounded, so it ends.
CONSTANTS
  NB_PAGES = 5
  CounterRange = 8
  TimeRange = 8
  MaxAccesses = 9
SPECIFICATION Spec
CHECK_DEADLOCK FALSE
INVARIANTS
  TypeOK
  TableConsistent
PROPERTY LRUUntilWrap
