------------------------------ MODULE MCVolume ------------------------------
EXTENDS Volume, TLC

\* The names of the files are all alike.
Alike == Permutations(Names)

=============================================================================
