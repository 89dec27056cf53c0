\* The environment, two more objects and a continuation; programs that assign
\* and use continuations, as long as they are tame.
SPECIFICATION Spec
CONSTANTS
  Objects = {1, 2, 3, 4}
  Conts = {4}
  LIMIT = 4
  Kinds = {{"stack", "assign", "callcc"}}
INVARIANTS CorralClosed OneCopy
PROPERTIES ChangesMarked
CONSTRAINT Tame
VIEW View
