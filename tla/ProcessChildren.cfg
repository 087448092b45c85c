\* Programs wait for their own uncollected children, by pid.
\* The system really stops: exit of the root process panics the kernel.
CONSTANTS
  MaxPid = 4
  AnyPid = FALSE
SPECIFICATION Spec
CHECK_DEADLOCK FALSE
INVARIANTS
  KernelSafe
  NotAllBlocked
  KeptPcbHasChild
PROPERTY ImplementsWaitContract
