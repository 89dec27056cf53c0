CONSTANTS
  Typed <- MCTyped
  Texts <- MCSlash
SPECIFICATION Spec
INVARIANTS ReadsRightAlways
