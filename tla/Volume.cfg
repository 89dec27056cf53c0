CONSTANTS
  Names = {f1, f2}
  NFATENT = 4
  FATENTS = 3
  BPC = 2
  MAXGEN = 2
  MAXSIZE = 3
  MAXFAIL = 1
  MAXCRASH = 1
SYMMETRY Alike
SPECIFICATION Spec
INVARIANTS TypeOK WindowOnly ChainsSound OwnData Durable NotFullEarly
CHECK_DEADLOCK FALSE
