\* waitpid() gets any argument: -1, a stranger, the caller itself.
\* The system really stops: a failed ASSERT panics, and a process may join
\* itself.
CONSTANTS
  MaxPid = 4
  AnyPid = TRUE
SPECIFICATION Spec
CHECK_DEADLOCK FALSE
INVARIANTS
  TypeOK
  ParentOnList
  LiveHasPageTable
  NoLostWakeup
  ReapedIsDead
