\* A shell nobody types at waits for ever.
CONSTANTS
  MaxPid = 5
  N = 2
  Commands <- MCCommands
SPECIFICATION Spec
CHECK_DEADLOCK FALSE
INVARIANTS
  TypeOK
  PromptClean
  ThreadsSound
PROPERTIES
  OwnChildrenOnly
  ShellReturns
