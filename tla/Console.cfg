CONSTANTS
  Keys <- MCKeys
  Str <- MCStr
  Ident <- MCIdent
  Bytes <- MCBytes
  Reports <- MCReports
  LOCK = "lock"
  MOD = "mod"
  NONE = "none"
  FIRST = 2
  REPEAT = 1
  FIFOSIZE = 1
  VBUF = 2
  HIGH = 2
  LOW = 1
  RXQSIZ = 3
SPECIFICATION FairSpec
INVARIANTS Whole RepeatsHeld Agree
PROPERTY Flows
