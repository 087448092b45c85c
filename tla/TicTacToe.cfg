\* The processes end, and may hang when there is no player.
CONSTANTS
  N = 3
  MaxDepth = 3
SPECIFICATION Spec
CHECK_DEADLOCK FALSE
INVARIANTS
  TypeOK
  OutcomeTold
  OneRequestOutstanding
PROPERTIES
  OverEnds
  ImplementsGame
