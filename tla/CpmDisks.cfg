\* Two cards, two images of one sector each.
SPECIFICATION FairSpec
CONSTANTS
  Cards = {c1, c2}
  NONE = NONE
  DISKS = 2
  Sectors = {1}
  Values = {1}
INVARIANTS TypeOK ReadsBack OwnDirectory
PROPERTIES OnlyWhatWasWritten Settles
