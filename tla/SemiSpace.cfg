\* Halves of 25 bytes, margin 5, largest cell 4: a top environment of half the
\* heap, odd and even corrals, and copies that hit the margin all occur.
CONSTANTS
  HEAPHALF = 25
  GUARDPAGE = 5
  HEAPBMOD = 1
  MaxAlloc = 1
  MaxErr = 1
  MaxCell = 4
  TBUFS = 3
SPECIFICATION FairSpec
INVARIANTS InBounds CorralIsApart
PROPERTIES ClobberHasCause Recorralled
