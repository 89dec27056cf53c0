CONSTANTS
  Programs <- MCSplice
  MAXINLINE = 3
SPECIFICATION Spec
CHECK_DEADLOCK FALSE
INVARIANTS Agrees
