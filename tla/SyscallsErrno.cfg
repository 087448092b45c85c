\* The comment above set_errno_addr(), against a call of another program that
\* comes in between.
CONSTANTS
  p1 = p1
  p2 = p2
  t1 = t1
  t2 = t2
  t3 = t3
  Process = {p1, p2}
  Thread = {t1, t2, t3}
  Owner <- MCOwner
  Main <- MCMain
  Addr = {"errno1", "errno2"}
SPECIFICATION Spec
INVARIANT ErrnoKept
