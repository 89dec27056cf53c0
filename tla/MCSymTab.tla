------------------------------ MODULE MCSymTab ------------------------------
(***************************************************************************)
(* SymTab with a hash function that sends all names but one to the bucket  *)
(* of the true value: the bucket's two slots are taken over, and the       *)
(* search of the table is needed.                                          *)
(***************************************************************************)
EXTENDS SymTab, TLC

CONSTANTS a, b, c, yes

MCNames == {a, b, c, yes}
\* a and b differ in nothing but their names.
Alike   == Permutations({a, b})
MCHash  == [n \in MCNames |-> IF n = c THEN 2 ELSE 1]
=============================================================================
