CONSTANTS
  Typed <- MCTyped
  Texts <- MCTexts
SPECIFICATION Spec
INVARIANTS ReadsRight ErrorsRead Reprints
