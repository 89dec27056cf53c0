---------------------------- MODULE MCCollector ----------------------------
(***************************************************************************)
(* Collector with a view of its states that leaves out the cells nothing   *)
(* leads to: no action reads them before it has made them anew.            *)
(***************************************************************************)
EXTENDS Collector

View == <<{<<a, mem[a], forward[a]>> : a \in Reach}, hp, reg, fence, sp, pc, kind,
          left \cap {mem[a].id : a \in Reach}, reused, stored>>
=============================================================================
