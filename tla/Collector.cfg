\* The environment, one more object and a continuation; programs that make and
\* apply functions and assign, and programs that use continuations.
SPECIFICATION FairSpec
CONSTANTS
  Objects = {1, 2, 3}
  Conts = {3}
  LIMIT = 3
  Kinds = {{"pairs", "stack", "apply", "assign"}, {"stack", "apply", "callcc"}}
INVARIANTS NoDangling
PROPERTIES ImplementsStore Invisible GCEnds
VIEW View
