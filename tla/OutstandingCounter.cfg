SPECIFICATION Spec
CONSTANTS
  Threads = {t1}
  MaxOps = 3
INVARIANT NoUnderflow
CHECK_DEADLOCK FALSE
