\* The comment of process_cmd() on background processes, against the code.
CONSTANTS
  MaxPid = 3
  N = 1
  Commands <- MCCommands
SPECIFICATION Spec
CHECK_DEADLOCK FALSE
PROPERTY BackgroundCollected
