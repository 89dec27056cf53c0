\* Programs that set *error-continue*, and one include file within another.
SPECIFICATION FairSpec
CONSTANTS
  MAXFINS = 2
  ERRCONT = TRUE
INVARIANTS HandlerFits ReadsAfresh DeferHolds
PROPERTIES BreakOutlivesGC BreakTaken
