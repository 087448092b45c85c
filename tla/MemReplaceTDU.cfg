\* The masks of updateTDU() select no bit.
CONSTANTS
  NB_PAGES = 5
  CounterRange = 8
  TimeRange = 8
  MaxAccesses = 9
SPECIFICATION Spec
CHECK_DEADLOCK FALSE
INVARIANT TDUFollowsUse
