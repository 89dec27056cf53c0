\* Lists of three commands in line (20 in lisp.c), so that programs of a few
\* expressions reach the limit.  A program ends.
CONSTANTS
  Programs <- MCPrograms
  MAXINLINE = 3
SPECIFICATION Spec
CHECK_DEADLOCK FALSE
INVARIANTS Faithful ChecksInTime
