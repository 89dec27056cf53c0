-------------------------- MODULE Collector_proofs --------------------------
(***************************************************************************)
(* The collector and its corral, proved for heaps of any size and any      *)
(* number of objects.                                                      *)
(***************************************************************************)
EXTENDS Collector, FiniteSetTheorems, WellFoundedInduction, TLAPS

-----------------------------------------------------------------------------
(* Reachability.  Reach is defined by recursion on sets of cells that grow; *)
(* what matters is that it is the least closed set with the roots.         *)

\* The set A of cells leads to no other cell.
Closed(A, m) == \A a \in A : m[a].car \in A \cup {NIL} /\ m[a].cdr \in A \cup {NIL}

\* The fields of all cells are cells.
Linked(m) == \A a \in Cells : m[a].car \in Cells \cup {NIL} /\ m[a].cdr \in Cells \cup {NIL}

Wider(m, A) == (UNION {{m[a].car, m[a].cdr} : a \in A}) \ (A \cup {NIL})

Closure(m) ==
  LET closure[A \in SUBSET Cells] ==
        LET new == (UNION {{m[a].car, m[a].cdr} : a \in A}) \ (A \cup {NIL})
        IN  IF new = {} THEN A ELSE closure[A \cup new]
  IN  closure

Roots(r) == {r.topenv, r.S, r.D, r.v} \ {NIL}

LEMMA ReachIsClosure == Reach = Closure(mem)[Roots(reg)]
BY DEF Reach, ReachFrom, Closure, Roots

\* The cells that every closed set with A has.
Least(m) == [A \in SUBSET Cells |->
               {a \in Cells : \A B \in SUBSET Cells : A \subseteq B /\ Closed(B, m) => a \in B}]

LEMMA CellsFinite == IsFiniteSet(Cells) /\ NIL \notin Cells /\ HALF \in Nat /\ HALF > 0
<1>1. Cardinality(Objects) \in Nat
  BY CollectorAssumption, FS_CardinalityType
<1>2. Cardinality(Objects) # 0
  BY CollectorAssumption, FS_EmptySet
<1>3. HALF \in Nat /\ HALF > 0
  BY <1>1, <1>2, CollectorAssumption DEF HALF
<1>4. IsFiniteSet(1 .. 2 * HALF)
  BY <1>3, FS_Interval
<1> QED
  BY <1>3, <1>4 DEF Cells, NIL

LEMMA WiderProps ==
  ASSUME NEW m, Linked(m), NEW A \in SUBSET Cells
  PROVE  /\ Wider(m, A) \in SUBSET Cells
         /\ Wider(m, A) \cap A = {}
         /\ Wider(m, A) = {} <=> Closed(A, m)
         /\ \A B \in SUBSET Cells : A \subseteq B /\ Closed(B, m) => Wider(m, A) \subseteq B
<1>1. \A x : x \in Wider(m, A) <=> (\E a \in A : x = m[a].car \/ x = m[a].cdr) /\ x \notin A /\ x # NIL
  BY DEF Wider
<1>2. Wider(m, A) \in SUBSET Cells
  BY <1>1 DEF Linked
<1>3. Wider(m, A) \cap A = {}
  BY <1>1
<1>4. Wider(m, A) = {} <=> Closed(A, m)
  BY <1>1 DEF Closed
<1>5. ASSUME NEW B \in SUBSET Cells, A \subseteq B, Closed(B, m) PROVE Wider(m, A) \subseteq B
  BY <1>1, <1>5 DEF Closed
<1> QED
  BY <1>2, <1>3, <1>4, <1>5

LEMMA ClosureStep ==
  ASSUME NEW m, Linked(m)
  PROVE  Closure(m) = [A \in SUBSET Cells |->
           IF Wider(m, A) = {} THEN A ELSE Closure(m)[A \cup Wider(m, A)]]
<1> DEFINE Eq(g) == g = [A \in SUBSET Cells |->
                           IF Wider(m, A) = {} THEN A ELSE g[A \cup Wider(m, A)]]
<1>1. Closure(m) = CHOOSE g : Eq(g)
  BY DEF Closure, Wider
<1>2. ASSUME NEW A \in SUBSET Cells
      PROVE  Least(m)[A] = IF Wider(m, A) = {} THEN A ELSE Least(m)[A \cup Wider(m, A)]
  <2>1. CASE Wider(m, A) = {}
    <3>1. Closed(A, m)
      BY <2>1, WiderProps
    <3> QED
      BY <2>1, <3>1 DEF Least
  <2>2. CASE Wider(m, A) # {}
    <3>1. A \cup Wider(m, A) \in SUBSET Cells
      BY WiderProps
    <3>2. \A B \in SUBSET Cells : Closed(B, m) => (A \subseteq B <=> A \cup Wider(m, A) \subseteq B)
      BY WiderProps
    <3> QED
      BY <2>2, <3>1, <3>2 DEF Least
  <2> QED
    BY <2>1, <2>2
<1>3. Eq(Least(m))
  <2>1. Least(m) = [A \in SUBSET Cells |-> Least(m)[A]]
    BY DEF Least
  <2> QED
    BY <2>1, <1>2, Zenon
<1>4. Eq(Closure(m))
  <2> HIDE DEF Eq
  <2> QED
    BY <1>1, <1>3, Zenon
<1> QED
  BY <1>4

LEMMA ClosureAt ==
  ASSUME NEW m, Linked(m), NEW A \in SUBSET Cells
  PROVE  Closure(m)[A] = IF Wider(m, A) = {} THEN A ELSE Closure(m)[A \cup Wider(m, A)]
<1> DEFINE F(B) == IF Wider(m, B) = {} THEN B ELSE Closure(m)[B \cup Wider(m, B)]
<1>1. Closure(m) = [B \in SUBSET Cells |-> F(B)]
  BY ClosureStep
<1> HIDE DEF F
<1>2. Closure(m)[A] = F(A)
  BY <1>1
<1> QED
  BY <1>2 DEF F

LEMMA ClosureIsLeast ==
  ASSUME NEW m, Linked(m), NEW A0 \in SUBSET Cells
  PROVE  Closure(m)[A0] = Least(m)[A0]
<1> DEFINE Bad  == {A \in SUBSET Cells : Closure(m)[A] # Least(m)[A]}
           Rest == {Cells \ A : A \in Bad}
<1>1. SUFFICES ASSUME Bad # {} PROVE FALSE
  OBVIOUS
<1>2. Rest \subseteq FiniteSubsetsOf(Cells) /\ Rest # {}
  <2>1. FiniteSubsetsOf(Cells) = SUBSET Cells
    BY CellsFinite, FS_FiniteSubsetsOfFinite
  <2>2. Rest \subseteq SUBSET Cells
    OBVIOUS
  <2>3. PICK A \in Bad : TRUE
    BY <1>1
  <2>4. Cells \ A \in Rest
    OBVIOUS
  <2> HIDE DEF Rest
  <2> QED
    BY <2>1, <2>2, <2>4
<1>3. PICK x \in Rest : \A y \in Rest : ~ (<<y, x>> \in StrictSubsetOrdering(Cells))
  <2> HIDE DEF Rest
  <2> QED
    BY <1>2, FS_StrictSubsetOrderingWellFounded, WFMin
<1>4. PICK A \in Bad : x = Cells \ A
  BY <1>3
<1>5. Wider(m, A) # {} => A \cup Wider(m, A) \notin Bad
  <2> SUFFICES ASSUME Wider(m, A) # {}, A \cup Wider(m, A) \in Bad PROVE FALSE
    OBVIOUS
  <2> DEFINE y == Cells \ (A \cup Wider(m, A))
  <2>1. y \in Rest
    OBVIOUS
  <2>2. y \subseteq x /\ y # x
    BY <1>4, WiderProps
  <2>3. <<y, x>> \in StrictSubsetOrdering(Cells)
    BY <2>2, <1>4 DEF StrictSubsetOrdering
  <2> QED
    BY <2>1, <2>3, <1>3
<1>6. Closure(m)[A] = Least(m)[A]
  <2>1. CASE Wider(m, A) = {}
    <3>1. Closure(m)[A] = A
      BY <2>1, ClosureAt
    <3>2. Closed(A, m)
      BY <2>1, WiderProps
    <3> QED
      BY <3>1, <3>2 DEF Least
  <2>2. CASE Wider(m, A) # {}
    <3> DEFINE W == A \cup Wider(m, A)
    <3>1. W \in SUBSET Cells
      BY WiderProps
    <3>2. Closure(m)[A] = Closure(m)[W]
      BY <2>2, ClosureAt
    <3>3. Closure(m)[W] = Least(m)[W]
      BY <2>2, <1>5, <3>1
    <3>4. \A B \in SUBSET Cells : Closed(B, m) => (A \subseteq B <=> W \subseteq B)
      BY WiderProps
    <3>5. Least(m)[W] = Least(m)[A]
      BY <3>1, <3>4 DEF Least
    <3> QED
      BY <3>2, <3>3, <3>5
  <2> QED
    BY <2>1, <2>2
<1> QED
  BY <1>4, <1>6

\* The least closed set: what m leads to from the cells of A0.
LEMMA Leads ==
  ASSUME NEW m, Linked(m), NEW A0 \in SUBSET Cells
  PROVE  /\ Closure(m)[A0] \in SUBSET Cells
         /\ A0 \subseteq Closure(m)[A0]
         /\ Closed(Closure(m)[A0], m)
         /\ \A B \in SUBSET Cells : A0 \subseteq B /\ Closed(B, m) => Closure(m)[A0] \subseteq B
<1> DEFINE L == Least(m)[A0]
<1>1. Closure(m)[A0] = L
  BY ClosureIsLeast
<1>2. \A a : a \in L <=> a \in Cells /\ \A B \in SUBSET Cells : A0 \subseteq B /\ Closed(B, m) => a \in B
  BY DEF Least
<1> HIDE DEF L
<1>3. ASSUME NEW a \in L PROVE m[a].car \in L \cup {NIL} /\ m[a].cdr \in L \cup {NIL}
  BY <1>2 DEF Closed, Linked
<1> QED
  BY <1>1, <1>2, <1>3 DEF Closed

-----------------------------------------------------------------------------
(* What a program has: cells of different objects.                         *)

Sound(A, m, r) ==
  /\ A \in SUBSET Cells
  /\ Roots(r) \subseteq A /\ Closed(A, m)
  /\ \A a \in A : m[a].id \in Objects
  /\ \A a, b \in A : m[a].id = m[b].id => a = b

\* Only the cells of A matter.
LEMMA SoundHere ==
  ASSUME NEW A, NEW m, NEW n, NEW r, Sound(A, m, r),
         \A a \in A : n[a] = m[a]
  PROVE  Sound(A, n, r)
BY DEF Sound, Closed

\* What is sound of more cells is sound of those that are reached.
LEMMA Shrink ==
  ASSUME NEW A, NEW m, NEW r, Linked(m), Sound(A, m, r)
  PROVE  /\ Closure(m)[Roots(r)] \subseteq A
         /\ Sound(Closure(m)[Roots(r)], m, r)
<1> DEFINE R == Closure(m)[Roots(r)]
<1>1. Roots(r) \in SUBSET Cells
  BY DEF Sound
<1>2. /\ R \in SUBSET Cells /\ Roots(r) \subseteq R /\ Closed(R, m)
      /\ \A B \in SUBSET Cells : Roots(r) \subseteq B /\ Closed(B, m) => R \subseteq B
  BY <1>1, Leads
<1>3. R \subseteq A
  BY <1>2 DEF Sound
<1> HIDE DEF R
<1>4. Sound(R, m, r)
  BY <1>2, <1>3 DEF Sound
<1> QED
  BY <1>3, <1>4 DEF R

-----------------------------------------------------------------------------
(* The invariant. *)

Cell == [id : Objects \cup {NIL}, car : Cells \cup {NIL}, cdr : Cells \cup {NIL}]

\* In use: in the corral, or given out in this half.
LiveIn(h, a) == InTop(a) \/ (InHeap(a) /\ a < h.hp)

\* Sizes and places.
Fence ==
  /\ heapstart \in 0 .. Cardinality(Objects)
  /\ half \in {"low", "high"} /\ topend \in BOOLEAN /\ topchg \in BOOLEAN

IsReg(r) == r \in [{"topenv", "S", "D", "v"} -> Cells \cup {NIL}]

Types ==
  /\ mem \in [Cells -> Cell] /\ forward \in [Cells -> Cells] /\ hp \in Nat
  /\ IsReg(reg) /\ Fence
  /\ sp \in Nat /\ pc \in {"run", "topenv", "corral", "S", "D", "v", "end"}
  /\ kind \in Kinds

\* The cells B are closed, and the top environment is in them.
HoldsEnv(B, m, e) == {e} \ {NIL} \subseteq B /\ Closed(B, m)

\* A corral that counts as unchanged has the top environment's cells, all of
\* them, and no others.
EnvIsCorral(m, e, n) == \A B \in SUBSET (1 .. n) : HoldsEnv(B, m, e) => B = 1 .. n
CorralIsEnv == topend /\ ~topchg => EnvIsCorral(mem, reg.topenv, heapstart)

\* While the program runs.
Running ==
  /\ \A a \in Cells : forward[a] = a
  /\ hp \in heapbase .. heapbase + LIMIT
  /\ topend => reg.topenv <= heapstart
  /\ \A a \in Reach : LiveIn(Now, a)
  /\ Sound(Reach, mem, reg)

\* The cell a has been copied, or is in the corral.
Has(h, a) == LiveIn(h, h.forward[a])

\* The cell a is copied to t; t has been expanded or not.
Image(h, s, a, t) ==
  /\ h.mem[t].id = h.mem[a].id
  /\ \A f \in Fields :
       IF InTop(t) \/ t < s
       THEN /\ h.mem[t][f] = Copied(h, h.mem[a][f])
            /\ h.mem[a][f] = NIL \/ Has(h, h.mem[a][f])
       ELSE h.mem[t][f] = h.mem[a][f]

(***************************************************************************)
(* While cells are copied: A is what was reached when the collection       *)
(* began, r the registers then.                                            *)
(***************************************************************************)
Moving(A, r, h, s) ==
  /\ h.mem \in [Cells -> Cell] /\ h.forward \in [Cells -> Cells]
  /\ Sound(A, h.mem, r)
  /\ \A a \in A : InTop(a) \/ ~InHeap(a)
  /\ \A a \in A : InTop(a) => h.forward[a] = a
  /\ \A a \in A : h.forward[a] = a \/ Has(h, a)
  /\ \A a \in A : Has(h, a) => Image(h, s, a, h.forward[a])
  /\ \A t \in heapbase .. h.hp - 1 : \E a \in A : h.forward[a] = t
  /\ h.hp \in heapbase .. heapbase + Cardinality(Objects) /\ s \in heapbase .. h.hp

Before(x, r) == reg[x] = r[x]
After(x, r)  == reg[x] = Copied(Now, r[x]) /\ (r[x] = NIL \/ Has(Now, r[x]))

\* No fewer cells would do: all of A was reached.
Minimal(A, m, r) == \A B \in SUBSET A : Roots(r) \subseteq B /\ Closed(B, m) => B = A

\* Nothing but the top environment has been copied.
EnvFirst(A, m, r, h) ==
  \A B \in SUBSET A : HoldsEnv(B, m, r.topenv) => \A a \in A : Has(h, a) => a \in B

CollectingFrom(A, r) ==
  /\ Moving(A, r, Now, sp)
  /\ Minimal(A, mem, r)
  /\ topend => reg.topenv <= heapstart
  /\ pc \in {"topenv", "corral"} => ~topend /\ EnvFirst(A, mem, r, Now)
  /\ IF pc = "topenv" THEN Before("topenv", r) ELSE After("topenv", r)
  /\ IF pc \in {"topenv", "corral", "S"} THEN Before("S", r) ELSE After("S", r)
  /\ IF pc \in {"v", "end"} THEN After("D", r) ELSE Before("D", r)
  /\ IF pc = "end" THEN After("v", r) ELSE Before("v", r)

Collecting == \E A, r : CollectingFrom(A, r)

\* Nothing in an unchanged corral refers to a cell outside.
Shut == topend /\ ~topchg => \A a \in 1 .. heapstart, f \in Fields : mem[a][f] <= heapstart

PastTypes == left \subseteq Conts /\ reused \in BOOLEAN /\ stored \in BOOLEAN

Inv ==
  /\ Types /\ Shut /\ CorralIsEnv
  /\ pc = "run" => Running
  /\ pc # "run" => Collecting

-----------------------------------------------------------------------------
(* Where things are. *)

LEMMA Places ==
  ASSUME Fence
  PROVE  /\ heapbase \in Nat /\ heapbase > 0
         /\ Cardinality(Objects) \in Nat /\ Cardinality(Objects) > 0
         /\ heapbase + Cardinality(Objects) \in Cells
         /\ heapbase + LIMIT \in Cells \cup {HALF + 1}
         /\ \A a \in Cells : a < heapbase + LIMIT => (InHeap(a) <=> a >= heapbase)
         /\ \A a \in Cells : InTop(a) => a < heapbase
         /\ \A a \in Cells : InTop(a) => ~InHeap(a)
<1>1. Cardinality(Objects) \in Nat
  BY CollectorAssumption, FS_CardinalityType
<1>2. Cardinality(Objects) # 0
  BY CollectorAssumption, FS_EmptySet
<1>3. LIMIT \in Nat /\ LIMIT >= Cardinality(Objects)
  BY CollectorAssumption
<1> DEFINE n == Cardinality(Objects)
<1>4. heapstart \in 0 .. n /\ half \in {"low", "high"}
  BY DEF Fence
<1> HIDE DEF n
<1>5. HALF = LIMIT + n /\ n \in Nat /\ n > 0
  BY <1>1, <1>2 DEF HALF, n
<1>6. CASE half = "low"
  BY <1>3, <1>4, <1>5, <1>6 DEF heapbase, Cells, InTop, InHeap, n
<1>7. CASE half = "high"
  BY <1>3, <1>4, <1>5, <1>7 DEF heapbase, Cells, InTop, InHeap, n
<1> QED
  BY <1>4, <1>6, <1>7

\* There is room for a cell that has not been copied.
LEMMA Room ==
  ASSUME Fence, NEW A, NEW r, NEW h, NEW s, Moving(A, r, h, s),
         NEW a \in A, ~Has(h, a)
  PROVE  h.hp < heapbase + Cardinality(Objects)
<1> DEFINE T == heapbase .. h.hp - 1
           f == [t \in T |-> h.mem[t].id]
           D == Objects \ {h.mem[a].id}
<1>1. heapbase \in Nat /\ h.hp \in Nat /\ h.hp >= heapbase /\ Cardinality(Objects) \in Nat
  BY Places DEF Moving
<1>2. ASSUME NEW t \in T PROVE \E b \in A : h.forward[b] = t /\ Has(h, b) /\ h.mem[t].id = h.mem[b].id /\ b # a
  <2>1. PICK b \in A : h.forward[b] = t
    BY DEF Moving
  <2>2. t \in Cells /\ t < heapbase + LIMIT /\ t >= heapbase /\ t < h.hp
    <3>1. t < heapbase + Cardinality(Objects) /\ t >= heapbase /\ t < h.hp /\ t \in Nat
      BY <1>1 DEF Moving
    <3>2. LIMIT \in Nat /\ LIMIT >= Cardinality(Objects)
      BY CollectorAssumption
    <3> QED
      BY <1>1, <3>1, <3>2, Places, CellsFinite DEF Cells
  <2>3. InHeap(t)
    BY <2>2, Places
  <2>4. Has(h, b)
    BY <2>1, <2>2, <2>3 DEF Has, LiveIn
  <2> QED
    BY <2>1, <2>4 DEF Moving, Image
<1>3. f \in [T -> D]
  <2>1. ASSUME NEW t \in T PROVE h.mem[t].id \in D
    <3>1. PICK b \in A : h.forward[b] = t /\ Has(h, b) /\ h.mem[t].id = h.mem[b].id /\ b # a
      BY <1>2
    <3> QED
      BY <3>1 DEF Moving, Sound
  <2> QED
    BY <2>1
<1>4. \A t, u \in T : f[t] = f[u] => t = u
  <2>1. SUFFICES ASSUME NEW t \in T, NEW u \in T, h.mem[t].id = h.mem[u].id PROVE t = u
    OBVIOUS
  <2>2. PICK b \in A : h.forward[b] = t /\ h.mem[t].id = h.mem[b].id
    BY <1>2
  <2>3. PICK c \in A : h.forward[c] = u /\ h.mem[u].id = h.mem[c].id
    BY <1>2
  <2>4. \A x, y \in A : h.mem[x].id = h.mem[y].id => x = y
    BY DEF Moving, Sound
  <2>5. b = c
    BY <2>1, <2>2, <2>3, <2>4
  <2> QED
    BY <2>2, <2>3, <2>5
<1>5. f \in Injection(T, D)
  <2>1. DOMAIN f = T
    OBVIOUS
  <2> HIDE DEF f, T, D
  <2> QED
    BY <1>3, <1>4, <2>1 DEF Injection, IsInjective
<1>6. IsFiniteSet(D) /\ Cardinality(D) = Cardinality(Objects) - 1
  <2>1. h.mem[a].id \in Objects /\ IsFiniteSet(Objects)
    BY CollectorAssumption DEF Moving, Sound
  <2> QED
    BY <2>1, FS_RemoveElement
<1>7. Cardinality(T) <= Cardinality(D)
  <2> HIDE DEF f, T, D
  <2> QED
    BY <1>5, <1>6, FS_Injection
<1>8. Cardinality(T) = h.hp - heapbase
  <2>1. Cardinality(T) = IF heapbase > h.hp - 1 THEN 0 ELSE h.hp - 1 - heapbase + 1
    <3>1. heapbase \in Int /\ h.hp - 1 \in Int
      BY <1>1
    <3> QED
      BY <3>1, FS_Interval
  <2> QED
    BY <1>1, <2>1
<1> QED
  <2> HIDE DEF T, D
  <2> QED
    BY <1>1, <1>6, <1>7, <1>8

-----------------------------------------------------------------------------
(* One call of copycell(). *)

\* What a call leaves as it was: cells, and where they were copied to.
Keeps(A, h, g, a) ==
  /\ \A b \in A : Has(h, b) => Has(g, b) /\ g.forward[b] = h.forward[b]
  /\ \A b \in A : Has(g, b) => Has(h, b) \/ b = a
  /\ \A c \in Cells : c # h.hp => g.mem[c] = h.mem[c]
  /\ \A b \in A : g.mem[b] = h.mem[b]
  /\ g.hp >= h.hp

\* The fields of a cell of A are in A.
LEMMA InA ==
  ASSUME NEW A, NEW r, NEW h, NEW s, Moving(A, r, h, s), NEW a \in A, NEW f \in Fields
  PROVE  h.mem[a][f] \in A \cup {NIL}
BY DEF Moving, Sound, Closed, Fields

LEMMA CopyNothing ==
  ASSUME Fence, NEW A, NEW r, NEW h, NEW s, Moving(A, r, h, s), NEW a \in A \cup {NIL},
         a = NIL \/ InTop(h.forward[a]) \/ InHeap(h.forward[a])
  PROVE  /\ CopyCell(h, a) = h
         /\ a = NIL \/ Has(h, a)
         /\ Keeps(A, h, h, a)
<1>1. CopyCell(h, a) = h
  BY DEF CopyCell
<1>2. a = NIL \/ Has(h, a)
  <2>1. SUFFICES ASSUME a \in A, a # NIL, ~Has(h, a) PROVE FALSE
    OBVIOUS
  <2>2. h.forward[a] = a
    BY <2>1 DEF Moving
  <2>3. a \in Cells
    BY <2>1 DEF Moving, Sound
  <2>4. InTop(a) \/ ~InHeap(a)
    BY <2>1 DEF Moving
  <2>5. InTop(a)
    BY <2>1, <2>2, <2>4
  <2> QED
    BY <2>1, <2>2, <2>5 DEF Has, LiveIn
<1>3. Keeps(A, h, h, a)
  <2>1. h.hp \in Nat
    BY Places DEF Moving
  <2> QED
    BY <2>1 DEF Keeps
<1> QED
  BY <1>1, <1>2, <1>3

LEMMA CopyAnew ==
  ASSUME Fence, NEW A, NEW r, NEW h, NEW s, Moving(A, r, h, s), NEW a \in A,
         a # NIL, ~InTop(h.forward[a]), ~InHeap(h.forward[a])
  PROVE  /\ Moving(A, r, CopyCell(h, a), s)
         /\ Has(CopyCell(h, a), a)
         /\ Keeps(A, h, CopyCell(h, a), a)
<1> DEFINE t == h.hp
           g == [mem     |-> [h.mem EXCEPT ![h.hp] = h.mem[a]],
                 forward |-> [h.forward EXCEPT ![h.hp] = h.hp, ![a] = h.hp],
                 hp      |-> h.hp + 1]
<1>1. CopyCell(h, a) = g
  BY DEF CopyCell
<1>2. /\ h.mem \in [Cells -> Cell] /\ h.forward \in [Cells -> Cells]
      /\ A \in SUBSET Cells
  BY DEF Moving, Sound
<1>3. ~Has(h, a)
  BY DEF Has, LiveIn
<1>4. t < heapbase + Cardinality(Objects)
  BY <1>3, Room
<1>5. /\ t \in Nat /\ t >= heapbase /\ heapbase \in Nat /\ t \in Cells /\ t < heapbase + LIMIT
      /\ s \in Nat /\ s <= t
  <2>1. LIMIT \in Nat /\ LIMIT >= Cardinality(Objects) /\ Cardinality(Objects) \in Nat
    BY CollectorAssumption, Places
  <2>2. t \in Nat /\ t >= heapbase /\ heapbase \in Nat /\ heapbase > 0 /\ s \in Nat /\ s <= t
    BY Places DEF Moving
  <2>3. heapbase + Cardinality(Objects) \in Cells
    BY Places
  <2> QED
    BY <1>4, <2>1, <2>2, <2>3, CellsFinite DEF Cells
<1>6. InHeap(t) /\ ~InTop(t)
  BY <1>5, Places
<1>7. t \notin A
  BY <1>6 DEF Moving
<1>8. \A b \in A : h.forward[b] # t
  <2>1. SUFFICES ASSUME NEW b \in A, h.forward[b] = t PROVE FALSE
    OBVIOUS
  <2>2. Has(h, b)
    BY <2>1, <1>7 DEF Moving
  <2> QED
    BY <1>5, <1>6, <2>1, <2>2 DEF Has, LiveIn
<1>9. /\ g.mem[t] = h.mem[a] /\ g.forward[a] = t /\ g.hp = t + 1
      /\ \A c \in Cells : c # t => g.mem[c] = h.mem[c]
      /\ \A b \in A : b # a => g.forward[b] = h.forward[b]
      /\ g.mem \in [Cells -> Cell] /\ g.forward \in [Cells -> Cells]
  BY <1>2, <1>5, <1>7
<1> HIDE DEF g
<1>10. \A b \in A : g.mem[b] = h.mem[b]
  BY <1>2, <1>7, <1>9
<1>11. Has(g, a)
  BY <1>5, <1>6, <1>9 DEF Has, LiveIn
<1>12. ASSUME NEW b \in A, b # a PROVE Has(g, b) <=> Has(h, b)
  <2>1. h.forward[b] \in Cells
    BY <1>2
  <2>2. \A c \in Cells : c \in Nat
    BY CellsFinite DEF Cells
  <2>3. h.forward[b] \in Nat
    BY <2>1, <2>2
  <2> QED
    BY <1>5, <1>8, <1>9, <1>12, <2>3 DEF Has, LiveIn
<1>13. Keeps(A, h, g, a)
  <2>1. \A b \in A : Has(h, b) => Has(g, b) /\ g.forward[b] = h.forward[b]
    BY <1>3, <1>9, <1>12
  <2>2. \A b \in A : Has(g, b) => Has(h, b) \/ b = a
    BY <1>12
  <2>3. \A c \in Cells : c # h.hp => g.mem[c] = h.mem[c]
    BY <1>9
  <2>4. g.hp >= h.hp
    BY <1>5, <1>9
  <2> QED
    BY <1>10, <2>1, <2>2, <2>3, <2>4 DEF Keeps
<1>14. Sound(A, g.mem, r)
  BY <1>10, SoundHere DEF Moving
<1>15. \A b \in A : InTop(b) => g.forward[b] = b
  <2>1. InTop(a) => Has(h, a)
    BY DEF Moving, Has, LiveIn
  <2> QED
    BY <1>3, <1>9, <2>1 DEF Moving
<1>16. \A b \in A : g.forward[b] = b \/ Has(g, b)
  BY <1>9, <1>11, <1>12 DEF Moving
<1>17. ASSUME NEW b \in A, Has(g, b) PROVE Image(g, s, b, g.forward[b])
  <2>1. CASE b = a
    <3>1. g.mem[g.forward[a]] = g.mem[a]
      BY <1>9, <1>10
    <3>2. ~(InTop(g.forward[a]) \/ g.forward[a] < s)
      BY <1>5, <1>6, <1>9
    <3> QED
      BY <2>1, <3>1, <3>2 DEF Image
  <2>2. CASE b # a
    <3> DEFINE u == h.forward[b]
    <3>1. Has(h, b) /\ g.forward[b] = u
      BY <1>9, <1>12, <1>17, <2>2
    <3>2. Image(h, s, b, u)
      BY <3>1 DEF Moving
    <3>3. u # t /\ u \in Cells
      BY <1>2, <1>8
    <3>4. g.mem[u] = h.mem[u] /\ g.mem[b] = h.mem[b]
      BY <1>9, <1>10, <3>3
    <3>5. ASSUME NEW f \in Fields, h.mem[b][f] = NIL \/ Has(h, h.mem[b][f])
          PROVE  /\ Copied(g, h.mem[b][f]) = Copied(h, h.mem[b][f])
                 /\ h.mem[b][f] = NIL \/ Has(g, h.mem[b][f])
      <4>1. h.mem[b][f] \in A \cup {NIL}
        BY InA
      <4> QED
        BY <1>13, <3>5, <4>1 DEF Keeps, Copied
    <3> HIDE DEF u
    <3> QED
      BY <3>1, <3>2, <3>4, <3>5 DEF Image
  <2> QED
    BY <2>1, <2>2
<1>18. ASSUME NEW u \in heapbase .. g.hp - 1 PROVE \E b \in A : g.forward[b] = u
  <2>1. CASE u = t
    BY <1>9, <2>1
  <2>2. CASE u # t
    <3>1. u \in heapbase .. h.hp - 1
      BY <1>5, <1>9, <2>2
    <3>2. PICK b \in A : h.forward[b] = u
      BY <3>1 DEF Moving
    <3>3. b # a
      <4>1. u \in Cells /\ u < heapbase + LIMIT /\ u >= heapbase /\ u < h.hp
        <5>1. u \in Cells
          BY <1>2, <3>2
        <5>2. u \in Nat /\ u >= heapbase /\ u < h.hp
          BY <1>5, <3>1
        <5>3. LIMIT \in Nat
          BY CollectorAssumption
        <5> QED
          BY <1>5, <5>1, <5>2, <5>3
      <4>2. InHeap(u)
        BY <4>1, Places
      <4> QED
        BY <1>3, <3>2, <4>1, <4>2 DEF Has, LiveIn
    <3> QED
      BY <1>9, <3>2, <3>3
  <2> QED
    BY <2>1, <2>2
<1>19. g.hp \in heapbase .. heapbase + Cardinality(Objects) /\ s \in heapbase .. g.hp
  BY <1>4, <1>5, <1>9, Places DEF Moving
<1>21. \A b \in A : InTop(b) \/ ~InHeap(b)
  BY DEF Moving
<1>22. Moving(A, r, g, s)
  BY <1>9, <1>14, <1>15, <1>16, <1>17, <1>18, <1>19, <1>21 DEF Moving
<1> QED
  BY <1>1, <1>11, <1>13, <1>22

LEMMA CopyOne ==
  ASSUME Fence, NEW A, NEW r, NEW h, NEW s, Moving(A, r, h, s), NEW a \in A \cup {NIL}
  PROVE  /\ Moving(A, r, CopyCell(h, a), s)
         /\ a = NIL \/ Has(CopyCell(h, a), a)
         /\ Keeps(A, h, CopyCell(h, a), a)
<1>1. NIL \notin A
  BY CellsFinite DEF Moving, Sound
<1>2. CASE a = NIL \/ InTop(h.forward[a]) \/ InHeap(h.forward[a])
  BY <1>2, CopyNothing
<1>3. CASE ~(a = NIL \/ InTop(h.forward[a]) \/ InHeap(h.forward[a]))
  BY <1>3, CopyAnew
<1> QED
  BY <1>2, <1>3

-----------------------------------------------------------------------------
(* What instructions do to what is sound. *)

\* Registers are loaded, and at most the fields of the cell c are written.
LEMMA WriteSound ==
  ASSUME NEW A, NEW m, NEW r, Sound(A, m, r), NEW n, NEW r2, Roots(r2) \subseteq A, NEW c,
         \A a \in A : a # c => n[a] = m[a],
         c \in A => n[c].id = m[c].id /\ n[c].car \in A \cup {NIL} /\ n[c].cdr \in A \cup {NIL}
  PROVE  Sound(A, n, r2)
<1>1. \A a \in A : n[a].id = m[a].id
  OBVIOUS
<1>2. Closed(A, n)
  BY DEF Sound, Closed
<1> QED
  BY <1>1, <1>2 DEF Sound

\* A cell p is made of a new object.
LEMMA MakeSound ==
  ASSUME NEW A, NEW m, NEW r, Sound(A, m, r), NEW n, NEW r2, NEW p \in Cells, p \notin A,
         \A a \in A : n[a] = m[a],
         n[p].id \in Objects, \A a \in A : m[a].id # n[p].id,
         n[p].car \in A \cup {NIL}, n[p].cdr \in A \cup {NIL}, Roots(r2) \subseteq A \cup {p}
  PROVE  Sound(A \cup {p}, n, r2)
<1> DEFINE B == A \cup {p}
<1>1. B \in SUBSET Cells
  BY DEF Sound
<1>2. Closed(B, n)
  BY DEF Sound, Closed
<1>3. \A a \in B : n[a].id \in Objects
  BY DEF Sound
<1>4. \A a, b \in B : n[a].id = n[b].id => a = b
  BY DEF Sound
<1> QED
  BY <1>1, <1>2, <1>3, <1>4 DEF Sound

-----------------------------------------------------------------------------
(* The steps of the program. *)

LEMMA AllLinked ==
  ASSUME NEW m, m \in [Cells -> Cell]
  PROVE  Linked(m)
BY DEF Linked, Cell

\* It is enough to find cells A that contain all that is reached.
LEMMA StillRunning ==
  ASSUME Types', NEW A, Sound(A, mem', reg'),
         \A a \in Cells : forward'[a] = a,
         hp' \in heapbase' .. heapbase' + LIMIT,
         topend' => reg'.topenv <= heapstart',
         \A a \in A : LiveIn(Now, a)'
  PROVE  Running'
<1> DEFINE R == Closure(mem')[Roots(reg')]
<1>1. Reach' = R
  BY DEF Reach, ReachFrom, Closure, Roots
<1>2. R \subseteq A /\ Sound(R, mem', reg')
  BY Shrink, AllLinked DEF Types
<1> HIDE DEF R
<1>3. (\A a \in Reach' : LiveIn(Now, a)') /\ Sound(Reach', mem', reg')
  BY <1>1, <1>2
<1> QED
  BY <1>3 DEF Running

\* No object that is reached.
IsNew(o) == o \in Objects /\ \A a \in Reach : mem[a].id # o

LEMMA Working ==
  ASSUME Types, Running
  PROVE  /\ Operands \subseteq Reach \cup {NIL}
         /\ \A x \in Operands : Parts(x) \subseteq Reach \cup {NIL}
         /\ \A x \in {"topenv", "S", "D", "v"} : reg[x] \in Reach \cup {NIL}
         /\ reg.S # NIL => mem[reg.S].car \in Reach \cup {NIL} /\ mem[reg.S].cdr \in Reach \cup {NIL}
         /\ reg.D # NIL => mem[reg.D].car \in Reach \cup {NIL} /\ mem[reg.D].cdr \in Reach \cup {NIL}
         /\ Reach \in SUBSET Cells /\ Sound(Reach, mem, reg)
         /\ \A ids \in SUBSET Objects : \A o \in Fresh(ids) : o \in ids /\ IsNew(o)
<1>1. Sound(Reach, mem, reg)
  BY DEF Running
<1>2. /\ reg.topenv \in Reach \cup {NIL} /\ reg.v \in Reach \cup {NIL}
      /\ reg.S \in Reach \cup {NIL} /\ reg.D \in Reach \cup {NIL}
  BY <1>1 DEF Sound, Roots
<1>3. /\ reg.S # NIL => mem[reg.S].car \in Reach \cup {NIL} /\ mem[reg.S].cdr \in Reach \cup {NIL}
      /\ reg.D # NIL => mem[reg.D].car \in Reach \cup {NIL} /\ mem[reg.D].cdr \in Reach \cup {NIL}
  BY <1>1, <1>2 DEF Sound, Closed
<1>4. Operands \subseteq Reach \cup {NIL}
  BY <1>2, <1>3 DEF Operands
<1>5. ASSUME NEW x \in Reach \cup {NIL} PROVE Parts(x) \subseteq Reach \cup {NIL}
  BY <1>1 DEF Sound, Closed, Parts
<1>6. ASSUME NEW ids \in SUBSET Objects, NEW o \in Fresh(ids) PROVE o \in ids /\ IsNew(o)
  BY <1>6 DEF Fresh, IsNew
<1> QED
  BY <1>1, <1>2, <1>3, <1>4, <1>5, <1>6 DEF Sound

\* The corral is as it was, or its change is noted.
Marked == topend /\ ~topchg' => \A a \in 1 .. heapstart : mem'[a] = mem[a]

RunStep == Types' /\ Shut' /\ CorralIsEnv' /\ Running' /\ pc' = "run" /\ Marked

LEMMA CorralCells ==
  ASSUME Fence
  PROVE  1 .. heapstart \subseteq Cells /\ heapstart \in Nat
<1>1. Cardinality(Objects) \in Nat /\ LIMIT \in Nat /\ HALF = LIMIT + Cardinality(Objects)
  BY Places, CollectorAssumption DEF HALF
<1> QED
  BY <1>1 DEF Fence, Cells

\* A corral that has not changed is what it was.
LEMMA SameCorral ==
  ASSUME Shut, CorralIsEnv, heapstart' = heapstart, topend' => topend /\ reg'.topenv = reg.topenv,
         topend /\ ~topchg' => ~topchg /\ \A a \in 1 .. heapstart : mem'[a] = mem[a]
  PROVE  Shut' /\ CorralIsEnv'
<1>1. Shut'
  BY DEF Shut
<1>2. ASSUME NEW m, NEW n, NEW e, NEW k, EnvIsCorral(m, e, k), \A a \in 1 .. k : n[a] = m[a]
      PROVE  EnvIsCorral(n, e, k)
  BY <1>2 DEF EnvIsCorral, HoldsEnv, Closed
<1>3. CorralIsEnv'
  <2>1. SUFFICES ASSUME topend', ~topchg' PROVE EnvIsCorral(mem', reg'.topenv, heapstart')
    BY DEF CorralIsEnv
  <2>2. EnvIsCorral(mem, reg.topenv, heapstart)
    BY <2>1 DEF CorralIsEnv
  <2>3. reg'.topenv = reg.topenv /\ heapstart' = heapstart /\ \A a \in 1 .. heapstart : mem'[a] = mem[a]
    BY <2>1
  <2>4. EnvIsCorral(mem', reg.topenv, heapstart)
    BY <1>2, <2>2, <2>3
  <2> QED
    BY <2>3, <2>4
<1> QED
  BY <1>1, <1>3

\* The top environment does not lead to the cell on top of the stack.
TopApart == pc = "run" => \E B \in SUBSET Cells : HoldsEnv(B, mem, reg.topenv) /\ reg.S \notin B

\* So that cell is not in a corral that counts as unchanged.
LEMMA TopOutside ==
  ASSUME Inv, pc = "run", TopApart, reg.S # NIL
  PROVE  InTop(reg.S) => topchg
<1> SUFFICES ASSUME topend, reg.S <= heapstart, ~topchg PROVE FALSE
  BY DEF InTop
<1>1. Types /\ Fence /\ Running /\ Shut /\ CorralIsEnv
  BY DEF Inv, Types
<1>2. 1 .. heapstart \subseteq Cells /\ heapstart \in Nat
  BY <1>1, CorralCells
<1>3. \A a \in Cells : a \in Nat /\ a > 0
  BY CellsFinite DEF Cells
<1>4. PICK B \in SUBSET Cells : HoldsEnv(B, mem, reg.topenv) /\ reg.S \notin B
  BY DEF TopApart
<1> DEFINE C == B \cap (1 .. heapstart)
<1>5. reg.topenv \in C \cup {NIL}
  <2>1. reg.topenv \in Cells \cup {NIL} /\ reg.topenv <= heapstart /\ reg.topenv \in B \cup {NIL}
    BY <1>1, <1>4 DEF Types, IsReg, Running, HoldsEnv
  <2> QED
    BY <1>2, <1>3, <2>1
<1>6. ASSUME NEW a \in C PROVE mem[a].car \in C \cup {NIL} /\ mem[a].cdr \in C \cup {NIL}
  <2>1. mem[a]["car"] <= heapstart /\ mem[a]["cdr"] <= heapstart
    BY <1>1 DEF Shut, Fields
  <2>2. mem[a].car \in B \cup {NIL} /\ mem[a].cdr \in B \cup {NIL}
    BY <1>4 DEF HoldsEnv, Closed
  <2> QED
    BY <1>2, <1>3, <2>1, <2>2
<1>7. HoldsEnv(C, mem, reg.topenv)
  BY <1>5, <1>6 DEF HoldsEnv, Closed
<1>8. C = 1 .. heapstart
  BY <1>1, <1>7 DEF CorralIsEnv, EnvIsCorral
<1>9. reg.S \in 1 .. heapstart
  BY <1>1, <1>2, <1>3 DEF Types, IsReg
<1> QED
  BY <1>4, <1>8, <1>9

\* An instruction that makes no cell and writes at most to the cell c.
LEMMA Steady ==
  ASSUME Inv, pc = "run",
         UNCHANGED <<forward, hp, half, heapstart, topend, sp, pc, kind>>,
         topchg' \in BOOLEAN, mem' \in [Cells -> Cell], IsReg(reg'), reg'.topenv = reg.topenv,
         Sound(Reach, mem', reg'),
         NEW c, \A a \in Cells : a # c => mem'[a] = mem[a],
         InTop(c) => topchg', topchg => topchg'
  PROVE  RunStep
<1>1. /\ forward' = forward /\ hp' = hp /\ half' = half /\ heapstart' = heapstart
      /\ topend' = topend /\ sp' = sp /\ pc' = pc /\ kind' = kind
  OBVIOUS
<1>2. Types /\ Running /\ Shut /\ CorralIsEnv
  BY DEF Inv
<1>3. Types'
  BY <1>1, <1>2 DEF Types, Fence
<1>4. topend /\ ~topchg' => \A a \in 1 .. heapstart : mem'[a] = mem[a]
  <2>1. SUFFICES ASSUME topend, ~topchg', NEW a \in 1 .. heapstart PROVE mem'[a] = mem[a]
    OBVIOUS
  <2>2. a \in Cells /\ heapstart \in Nat
    BY <1>2, CorralCells DEF Types
  <2>3. InTop(a)
    BY <2>1, <2>2 DEF InTop
  <2> QED
    BY <2>1, <2>2, <2>3
<1>5. Shut' /\ CorralIsEnv'
  BY <1>1, <1>2, <1>4, SameCorral
<1>6. /\ \A a \in Cells : forward'[a] = a
      /\ hp' \in heapbase' .. heapbase' + LIMIT
      /\ topend' => reg'.topenv <= heapstart'
  BY <1>1, <1>2 DEF Running, heapbase
<1>A. PICK A : A = Reach
  OBVIOUS
<1>7. (\A a \in A : LiveIn(Now, a)') /\ Sound(A, mem', reg')
  BY <1>1, <1>2, <1>A DEF Running, LiveIn, InTop, InHeap, Now, heapbase
<1>8. Running'
  BY <1>3, <1>6, <1>7, StillRunning
<1> QED
  BY <1>1, <1>3, <1>4, <1>5, <1>8 DEF RunStep, Marked

\* An instruction that only moves what is in the registers.
LEMMA MoveStep ==
  ASSUME Inv, pc = "run", UNCHANGED <<mem, forward, hp, half, heapstart, topend, topchg, sp, pc, kind>>,
         reg' \in [{"topenv", "S", "D", "v"} -> Reach \cup {NIL}], reg'.topenv = reg.topenv
  PROVE  RunStep
<1>2. Types /\ Running
  BY DEF Inv
<1>3. Reach \in SUBSET Cells /\ Sound(Reach, mem, reg)
  BY <1>2, Working
<1>4. IsReg(reg')
  BY <1>3 DEF IsReg
<1>5. Sound(Reach, mem', reg')
  <2>1. Roots(reg') \subseteq Reach
    BY DEF Roots
  <2> QED
    BY <1>3, <2>1 DEF Sound
<1>6. mem' \in [Cells -> Cell] /\ topchg' \in BOOLEAN /\ (topchg => topchg')
  BY <1>2 DEF Types, Fence
<1>7. ~InTop(heapstart + 1) /\ \A a \in Cells : mem'[a] = mem[a]
  BY <1>2, CorralCells DEF Types, InTop
<1> QED
  BY <1>4, <1>5, <1>6, <1>7, Steady

LEMMA LoadStep ==
  ASSUME Inv, NEW x, Load(x), UNCHANGED kind, x \in Reach \cup {NIL}
  PROVE  RunStep
<1>1. UNCHANGED <<mem, forward, hp, half, heapstart, topend, topchg, sp, pc, kind>>
      /\ pc = "run" /\ reg' = [reg EXCEPT !.v = x]
  BY DEF Load, heap, fence
<1>2. Types /\ Running
  BY <1>1 DEF Inv
<1>3. reg' \in [{"topenv", "S", "D", "v"} -> Reach \cup {NIL}] /\ reg'.topenv = reg.topenv
  BY <1>1, <1>2, Working DEF Types, IsReg
<1> QED
  BY <1>1, <1>3, MoveStep

LEMMA ContinueStep ==
  ASSUME Inv, NEW x, Continue(x), UNCHANGED kind, x \in Reach \cup {NIL}
  PROVE  RunStep
<1>1. UNCHANGED <<mem, forward, hp, half, heapstart, topend, topchg, sp, pc, kind>>
      /\ pc = "run" /\ reg' = [reg EXCEPT !.D = x]
  BY DEF Continue, heap, fence
<1>2. Types /\ Running
  BY <1>1 DEF Inv
<1>3. reg' \in [{"topenv", "S", "D", "v"} -> Reach \cup {NIL}] /\ reg'.topenv = reg.topenv
  BY <1>1, <1>2, Working DEF Types, IsReg
<1> QED
  BY <1>1, <1>3, MoveStep

LEMMA ErrorStep ==
  ASSUME Inv, Error, UNCHANGED kind
  PROVE  RunStep
<1>1. UNCHANGED <<mem, forward, hp, half, heapstart, topend, topchg, sp, pc, kind>>
      /\ pc = "run"
      /\ \/ reg' = [reg EXCEPT !.S = NIL]
         \/ reg' = [reg EXCEPT !.S = NIL, !.D = NIL, !.v = NIL]
  BY DEF Error, heap, fence
<1>2. Types /\ Running
  BY <1>1 DEF Inv
<1>3. reg' \in [{"topenv", "S", "D", "v"} -> Reach \cup {NIL}] /\ reg'.topenv = reg.topenv
  BY <1>1, <1>2, Working DEF Types, IsReg
<1> QED
  BY <1>1, <1>3, MoveStep

LEMMA PopStep ==
  ASSUME Inv, Pop, UNCHANGED kind
  PROVE  RunStep
<1>1. UNCHANGED <<mem, forward, hp, half, heapstart, topend, topchg, sp, pc, kind>>
      /\ pc = "run" /\ reg.S # NIL
      /\ reg' = [reg EXCEPT !.v = mem[reg.S].car, !.S = mem[reg.S].cdr]
  BY DEF Pop, heap, fence
<1>2. Types /\ Running
  BY <1>1 DEF Inv
<1>3. reg' \in [{"topenv", "S", "D", "v"} -> Reach \cup {NIL}] /\ reg'.topenv = reg.topenv
  BY <1>1, <1>2, Working DEF Types, IsReg
<1> QED
  BY <1>1, <1>3, MoveStep

LEMMA SetTopStep ==
  ASSUME Inv, TopApart, SetTop, UNCHANGED kind
  PROVE  RunStep
<1>1. /\ UNCHANGED <<reg, forward, hp, half, heapstart, topend, topchg, sp, pc, kind>>
      /\ pc = "run" /\ reg.S # NIL
      /\ mem' = [mem EXCEPT ![reg.S].car = reg.v]
  BY DEF SetTop, fence
<1>2. Types /\ Running
  BY <1>1 DEF Inv
<1>3. reg.S \in Cells /\ reg.v \in Cells \cup {NIL} /\ mem \in [Cells -> Cell]
  BY <1>1, <1>2 DEF Types, IsReg
<1>4. /\ mem' \in [Cells -> Cell]
      /\ \A a \in Cells : a # reg.S => mem'[a] = mem[a]
      /\ mem'[reg.S].id = mem[reg.S].id /\ mem'[reg.S].car = reg.v /\ mem'[reg.S].cdr = mem[reg.S].cdr
  BY <1>1, <1>3 DEF Cell
<1>5. /\ Reach \in SUBSET Cells /\ Sound(Reach, mem, reg)
      /\ reg.v \in Reach \cup {NIL} /\ mem[reg.S].cdr \in Reach \cup {NIL}
  BY <1>1, <1>2, Working
<1>6. Sound(Reach, mem', reg)
  <2>1. Roots(reg) \subseteq Reach /\ \A a \in Reach : a # reg.S => mem'[a] = mem[a]
    BY <1>4, <1>5 DEF Sound
  <2> QED
    BY <1>4, <1>5, <2>1, WriteSound
<1>7. Sound(Reach, mem', reg') /\ IsReg(reg') /\ reg'.topenv = reg.topenv
  BY <1>1, <1>2, <1>6 DEF Types, IsReg
<1>8. InTop(reg.S) => topchg'
  BY <1>1, TopOutside
<1>9. topchg' \in BOOLEAN /\ (topchg => topchg')
  BY <1>1, <1>2 DEF Types, Fence
<1> QED
  BY <1>1, <1>4, <1>7, <1>8, <1>9, Steady

LEMMA EndStep ==
  ASSUME Inv, TopApart, End, UNCHANGED kind
  PROVE  RunStep
<1>1. /\ UNCHANGED <<forward, hp, half, heapstart, topend, topchg, sp, pc, kind>>
      /\ pc = "run" /\ reg.S # NIL /\ reg.D # NIL
      /\ mem' = [mem EXCEPT ![reg.S].cdr = mem[reg.D].car]
      /\ reg' = [reg EXCEPT !.D = mem[reg.D].cdr]
  BY DEF End, fence
<1>2. Types /\ Running
  BY <1>1 DEF Inv
<1>3. /\ Reach \in SUBSET Cells /\ Sound(Reach, mem, reg)
      /\ reg.topenv \in Reach \cup {NIL} /\ reg.v \in Reach \cup {NIL} /\ reg.S \in Reach
      /\ mem[reg.S].car \in Reach \cup {NIL}
      /\ mem[reg.D].car \in Reach \cup {NIL} /\ mem[reg.D].cdr \in Reach \cup {NIL}
  BY <1>1, <1>2, Working
<1>4. reg.S \in Cells /\ mem[reg.D].car \in Cells \cup {NIL} /\ mem \in [Cells -> Cell]
  BY <1>2, <1>3 DEF Types
<1>5. /\ mem' \in [Cells -> Cell]
      /\ \A a \in Cells : a # reg.S => mem'[a] = mem[a]
      /\ mem'[reg.S].id = mem[reg.S].id /\ mem'[reg.S].car = mem[reg.S].car
      /\ mem'[reg.S].cdr = mem[reg.D].car
  BY <1>1, <1>4 DEF Cell
<1>6. /\ reg' \in [{"topenv", "S", "D", "v"} -> Reach \cup {NIL}] /\ reg'.topenv = reg.topenv
  BY <1>1, <1>2, <1>3 DEF Types, IsReg
<1>7. Roots(reg') \subseteq Reach /\ IsReg(reg')
  BY <1>3, <1>6 DEF Roots, IsReg
<1>8. Sound(Reach, mem', reg')
  <2>1. \A a \in Reach : a # reg.S => mem'[a] = mem[a]
    BY <1>3, <1>5
  <2> QED
    BY <1>3, <1>5, <1>7, <2>1, WriteSound
<1>9. InTop(reg.S) => topchg'
  BY <1>1, TopOutside
<1>10. topchg' \in BOOLEAN /\ (topchg => topchg')
  BY <1>1, <1>2 DEF Types, Fence
<1> QED
  BY <1>1, <1>5, <1>6, <1>7, <1>8, <1>9, <1>10, Steady

LEMMA BindStep ==
  ASSUME Inv, TopApart, NEW x, Bind(x), UNCHANGED kind, x \in Reach \cup {NIL}
  PROVE  RunStep
<1>1. /\ UNCHANGED <<forward, hp, half, heapstart, topend, topchg, sp, pc, kind>>
      /\ pc = "run" /\ reg.S # NIL
      /\ mem' = [mem EXCEPT ![reg.S] = [id |-> mem[reg.S].id, car |-> x, cdr |-> mem[reg.S].car]]
      /\ reg' = [reg EXCEPT !.v = reg.S, !.S = mem[reg.S].cdr]
  BY DEF Bind, fence
<1>2. Types /\ Running
  BY <1>1 DEF Inv
<1>3. /\ Reach \in SUBSET Cells /\ Sound(Reach, mem, reg)
      /\ reg.topenv \in Reach \cup {NIL} /\ reg.S \in Reach \cup {NIL} /\ reg.D \in Reach \cup {NIL}
      /\ mem[reg.S].car \in Reach \cup {NIL} /\ mem[reg.S].cdr \in Reach \cup {NIL}
  BY <1>1, <1>2, Working
<1>4. reg.S \in Cells /\ mem \in [Cells -> Cell] /\ x \in Cells \cup {NIL}
  BY <1>1, <1>2, <1>3 DEF Types, IsReg
<1>5. mem[reg.S] \in Cell
  BY <1>4
<1>6. /\ mem' \in [Cells -> Cell]
      /\ \A a \in Cells : a # reg.S => mem'[a] = mem[a]
      /\ mem'[reg.S].id = mem[reg.S].id /\ mem'[reg.S].car = x /\ mem'[reg.S].cdr = mem[reg.S].car
  BY <1>1, <1>4, <1>5 DEF Cell
<1>7. /\ IsReg(reg') /\ reg'.topenv = reg.topenv /\ reg'.S = mem[reg.S].cdr
      /\ reg'.D = reg.D /\ reg'.v = reg.S
  BY <1>1, <1>2, <1>4, <1>5 DEF Types, IsReg, Cell
<1>8. Sound(Reach, mem', reg')
  <2>1. Roots(reg') \subseteq Reach /\ \A a \in Reach : a # reg.S => mem'[a] = mem[a]
    BY <1>3, <1>6, <1>7 DEF Roots
  <2>2. mem'[reg.S].car \in Reach \cup {NIL} /\ mem'[reg.S].cdr \in Reach \cup {NIL}
    BY <1>3, <1>6
  <2> QED
    BY <1>3, <1>6, <2>1, <2>2, WriteSound
<1>9. InTop(reg.S) => topchg'
  BY <1>1, TopOutside
<1>10. topchg' \in BOOLEAN /\ (topchg => topchg')
  BY <1>1, <1>2 DEF Types, Fence
<1> QED
  BY <1>1, <1>6, <1>7, <1>8, <1>9, <1>10, Steady

LEMMA AssignStep ==
  ASSUME Inv, NEW c, NEW f \in Fields, NEW x, Assign(c, f, x), UNCHANGED kind,
         c \in Reach, x \in Reach \cup {NIL}
  PROVE  RunStep
<1>1. /\ UNCHANGED <<reg, forward, hp, half, heapstart, topend, sp, pc, kind>>
      /\ pc = "run"
      /\ mem' = [mem EXCEPT ![c][f] = x]
      /\ topchg' = (topchg \/ InTop(c))
  BY DEF Assign
<1>2. Types /\ Running
  BY <1>1 DEF Inv
<1>3. Reach \in SUBSET Cells /\ Sound(Reach, mem, reg)
  BY <1>2, Working
<1>4. c \in Cells /\ mem \in [Cells -> Cell] /\ x \in Cells \cup {NIL} /\ mem[c] \in Cell
  BY <1>2, <1>3 DEF Types
<1>5. /\ mem' \in [Cells -> Cell]
      /\ \A a \in Cells : a # c => mem'[a] = mem[a]
      /\ mem'[c].id = mem[c].id /\ mem'[c].car \in {mem[c].car, x} /\ mem'[c].cdr \in {mem[c].cdr, x}
  <2>1. CASE f = "car"
    BY <1>1, <1>4, <2>1 DEF Cell
  <2>2. CASE f = "cdr"
    BY <1>1, <1>4, <2>2 DEF Cell
  <2> QED
    BY <2>1, <2>2 DEF Fields
<1>6. Sound(Reach, mem', reg)
  <2>1. Roots(reg) \subseteq Reach /\ \A a \in Reach : a # c => mem'[a] = mem[a]
    BY <1>3, <1>5 DEF Sound
  <2>2. mem'[c].car \in Reach \cup {NIL} /\ mem'[c].cdr \in Reach \cup {NIL}
    BY <1>3, <1>5 DEF Sound, Closed
  <2> QED
    BY <1>3, <1>5, <2>1, <2>2, WriteSound
<1>7. Sound(Reach, mem', reg') /\ IsReg(reg') /\ reg'.topenv = reg.topenv
  BY <1>1, <1>2, <1>6 DEF Types, IsReg
<1>8. topchg' \in BOOLEAN /\ (topchg => topchg') /\ (InTop(c) => topchg')
  BY <1>1, <1>2 DEF Types, Fence, InTop
<1> QED
  BY <1>1, <1>5, <1>7, <1>8, Steady

\* An instruction that makes a cell.
LEMMA MakeStep ==
  ASSUME Inv, pc = "run", hp < heapbase + LIMIT, NEW o, IsNew(o), NEW x \in Reach \cup {NIL},
         NEW y \in Reach \cup {NIL}, MkPair(o, x, y), UNCHANGED kind, reg'.topenv = reg.topenv,
         reg' \in [{"topenv", "S", "D", "v"} -> Reach \cup {NIL, hp}]
  PROVE  RunStep /\ hp \in Cells /\ hp \notin Reach /\ Sound(Reach \cup {hp}, mem', reg')
         /\ (\A a \in Reach : mem'[a] = mem[a]) /\ mem'[hp] = [id |-> o, car |-> x, cdr |-> y]
<1>1. /\ UNCHANGED <<half, heapstart, topend, topchg, sp, pc, kind>>
      /\ mem' = [mem EXCEPT ![hp] = [id |-> o, car |-> x, cdr |-> y]]
      /\ forward' = [forward EXCEPT ![hp] = hp]
      /\ hp' = hp + 1
  BY DEF MkPair, fence
<1>2. Types /\ Running /\ Shut /\ CorralIsEnv /\ Fence
  BY DEF Inv, Types
<1>3. LIMIT \in Nat /\ heapbase \in Nat /\ hp \in Nat /\ hp >= heapbase /\ heapbase > 0
  BY <1>2, Places, CollectorAssumption DEF Types, Running
<1>4. hp \in Cells
  BY <1>2, <1>3, Places, CellsFinite DEF Cells
<1>5. InHeap(hp) /\ ~InTop(hp)
  BY <1>2, <1>3, <1>4, Places
<1>6. hp \notin Reach
  BY <1>2, <1>3, <1>5 DEF Running, LiveIn, Now
<1>7. /\ Reach \in SUBSET Cells /\ Sound(Reach, mem, reg)
      /\ o \in Objects /\ \A a \in Reach : mem[a].id # o
  BY <1>2, Working DEF IsNew
<1>8. mem \in [Cells -> Cell] /\ forward \in [Cells -> Cells] /\ x \in Cells \cup {NIL} /\ y \in Cells \cup {NIL}
  BY <1>2, <1>7 DEF Types
<1>9. /\ mem' \in [Cells -> Cell] /\ forward' \in [Cells -> Cells]
      /\ \A a \in Cells : a # hp => mem'[a] = mem[a]
      /\ mem'[hp] = [id |-> o, car |-> x, cdr |-> y]
  BY <1>1, <1>4, <1>7, <1>8 DEF Cell
<1>10. \A a \in Cells : forward'[a] = a
  BY <1>1, <1>2, <1>4, <1>8 DEF Running
<1>11. Types'
  <2>1. IsReg(reg')
    BY <1>4, <1>7 DEF IsReg
  <2> QED
    BY <1>1, <1>2, <1>3, <1>9, <2>1 DEF Types, Fence
<1>12. topend => \A a \in 1 .. heapstart : mem'[a] = mem[a]
  <2>1. SUFFICES ASSUME topend, NEW a \in 1 .. heapstart PROVE mem'[a] = mem[a]
    OBVIOUS
  <2>2. a \in Cells /\ heapstart \in Nat
    BY <1>2, CorralCells
  <2>3. InTop(a)
    BY <2>1, <2>2 DEF InTop
  <2> QED
    BY <1>5, <1>9, <2>2, <2>3
<1>13. Shut' /\ CorralIsEnv'
  BY <1>1, <1>2, <1>12, SameCorral
<1>14. hp' \in heapbase' .. heapbase' + LIMIT
  <2>1. heapbase' = heapbase
    BY <1>1 DEF heapbase
  <2> QED
    BY <1>1, <1>3, <2>1
<1>15. topend' => reg'.topenv <= heapstart'
  BY <1>1, <1>2 DEF Running
<1>16. \A a \in Reach \cup {hp} : LiveIn(Now, a)'
  <2>1. \A a \in Reach \cup {hp} : a \in Nat /\ (InTop(a) \/ (InHeap(a) /\ a <= hp))
    <3>1. \A a \in Reach : InTop(a) \/ (InHeap(a) /\ a < hp)
      BY <1>2 DEF Running, LiveIn, Now
    <3>2. \A a \in Cells : a \in Nat
      BY CellsFinite DEF Cells
    <3> QED
      BY <1>3, <1>4, <1>5, <1>7, <3>1, <3>2
  <2>2. \A a : InTop(a)' <=> InTop(a)
    BY <1>1 DEF InTop
  <2>3. \A a : InHeap(a)' <=> InHeap(a)
    BY <1>1 DEF InHeap, heapbase
  <2>4. \A a \in Nat : a <= hp => a < hp'
    BY <1>1, <1>3
  <2> QED
    BY <2>1, <2>2, <2>3, <2>4 DEF LiveIn, Now
<1>17. Sound(Reach \cup {hp}, mem', reg') /\ \A a \in Reach : mem'[a] = mem[a]
  <2>1. \A a \in Reach : mem'[a] = mem[a]
    BY <1>6, <1>7, <1>9
  <2>2. mem'[hp].id = o /\ mem'[hp].car = x /\ mem'[hp].cdr = y
    BY <1>9
  <2>3. Roots(reg') \subseteq Reach \cup {hp}
    BY DEF Roots
  <2>4. \A a \in Reach : mem[a].id # mem'[hp].id
    BY <1>7, <2>2
  <2> QED
    BY <1>4, <1>6, <1>7, <2>1, <2>2, <2>3, <2>4, MakeSound
<1>A. PICK A : A = Reach \cup {hp}
  OBVIOUS
<1>18. Running'
  <2>1. (\A a \in A : LiveIn(Now, a)') /\ Sound(A, mem', reg')
    BY <1>16, <1>17, <1>A
  <2> QED
    BY <1>10, <1>11, <1>14, <1>15, <2>1, StillRunning
<1>19. RunStep
  BY <1>1, <1>11, <1>12, <1>13, <1>18 DEF RunStep, Marked
<1> QED
  BY <1>4, <1>6, <1>9, <1>17, <1>19

LEMMA ConsStep ==
  ASSUME Inv, pc = "run", hp < heapbase + LIMIT, NEW o, IsNew(o), NEW x \in Reach \cup {NIL},
         NEW y \in Reach \cup {NIL}, Cons(o, x, y), UNCHANGED kind
  PROVE  RunStep
<1>1. MkPair(o, x, y) /\ reg' = [reg EXCEPT !.v = hp] /\ Types /\ Running
  BY DEF Cons, Inv
<1>2. reg' \in [{"topenv", "S", "D", "v"} -> Reach \cup {NIL, hp}] /\ reg'.topenv = reg.topenv
  BY <1>1, Working DEF Types, IsReg
<1> QED
  BY <1>1, <1>2, MakeStep

LEMMA PushStep ==
  ASSUME Inv, pc = "run", hp < heapbase + LIMIT, NEW o, IsNew(o), Push(o), UNCHANGED kind
  PROVE  RunStep
<1>1. MkPair(o, reg.v, reg.S) /\ reg' = [reg EXCEPT !.S = hp] /\ Types /\ Running
  BY DEF Push, Inv
<1>2. reg' \in [{"topenv", "S", "D", "v"} -> Reach \cup {NIL, hp}] /\ reg'.topenv = reg.topenv
  BY <1>1, Working DEF Types, IsReg
<1>3. reg.v \in Reach \cup {NIL} /\ reg.S \in Reach \cup {NIL}
  BY <1>1, Working
<1> QED
  BY <1>1, <1>2, <1>3, MakeStep

LEMMA BindRestStep ==
  ASSUME Inv, pc = "run", hp < heapbase + LIMIT, NEW o, IsNew(o), NEW x \in Reach \cup {NIL},
         BindRest(o, x), UNCHANGED kind
  PROVE  RunStep
<1>1. MkPair(o, x, reg.S) /\ reg' = [reg EXCEPT !.v = hp, !.S = NIL] /\ Types /\ Running
  BY DEF BindRest, Inv
<1>2. reg' \in [{"topenv", "S", "D", "v"} -> Reach \cup {NIL, hp}] /\ reg'.topenv = reg.topenv
  BY <1>1, Working DEF Types, IsReg
<1>3. reg.S \in Reach \cup {NIL}
  BY <1>1, Working
<1> QED
  BY <1>1, <1>2, <1>3, MakeStep

LEMMA EvalCStep ==
  ASSUME Inv, pc = "run", hp < heapbase + LIMIT, NEW o, IsNew(o), EvalC(o), UNCHANGED kind
  PROVE  RunStep
<1>1. MkPair(o, reg.S, reg.D) /\ reg' = [reg EXCEPT !.D = hp, !.S = NIL] /\ Types /\ Running
  BY DEF EvalC, Inv
<1>2. reg' \in [{"topenv", "S", "D", "v"} -> Reach \cup {NIL, hp}] /\ reg'.topenv = reg.topenv
  BY <1>1, Working DEF Types, IsReg
<1>3. reg.S \in Reach \cup {NIL} /\ reg.D \in Reach \cup {NIL}
  BY <1>1, Working
<1> QED
  BY <1>1, <1>2, <1>3, MakeStep

LEMMA ProgramStep ==
  ASSUME Inv, TopApart, pc = "run", Program, UNCHANGED kind
  PROVE  RunStep
<1>1. Types /\ Running
  BY DEF Inv
<1>2. /\ Operands \subseteq Reach \cup {NIL}
      /\ \A x \in Operands : Parts(x) \subseteq Reach \cup {NIL}
      /\ reg.S \in Reach \cup {NIL} /\ reg.D \in Reach \cup {NIL}
      /\ \A o \in Fresh(Objects \ Conts) : IsNew(o)
      /\ \A o \in Fresh(Conts) : IsNew(o)
  BY <1>1, Working, CollectorAssumption
<1>3. CASE MakeCC
  BY <1>2, <1>3, LoadStep DEF MakeCC
<1>4. CASE hp < heapbase + LIMIT /\ \E o \in Fresh(Objects \ Conts) : Push(o)
  BY <1>2, <1>4, PushStep
<1>5. CASE hp < heapbase + LIMIT /\ \E o \in Fresh(Objects \ Conts) : \E x, y \in Operands : Cons(o, x, y)
  BY <1>2, <1>5, ConsStep
<1>6. CASE hp < heapbase + LIMIT /\ \E o \in Fresh(Objects \ Conts) : \E x \in Operands : BindRest(o, x)
  BY <1>2, <1>6, BindRestStep
<1>7. CASE Pop
  BY <1>7, PopStep
<1>8. CASE SetTop
  BY <1>8, SetTopStep
<1>9. CASE Error
  BY <1>9, ErrorStep
<1>10. CASE \E x \in Operands : Bind(x)
  BY <1>2, <1>10, BindStep
<1>11. CASE \E x \in Operands : Continue(x)
  BY <1>2, <1>11, ContinueStep
<1>12. CASE \E x \in Operands \cup UNION {Parts(a) : a \in Operands} : Load(x)
  <2>1. PICK x \in Operands \cup UNION {Parts(a) : a \in Operands} : Load(x)
    BY <1>12
  <2>2. x \in Reach \cup {NIL}
    BY <1>2
  <2> QED
    BY <2>1, <2>2, LoadStep
<1>13. CASE \E a \in Operands \ {NIL}, f \in Fields, x \in Operands : Assign(a, f, x)
  BY <1>2, <1>13, AssignStep
<1>14. CASE Instruction
  BY <1>3, <1>4, <1>5, <1>6, <1>7, <1>8, <1>9, <1>10, <1>11, <1>12, <1>13, <1>14 DEF Instruction
<1>15. CASE hp < heapbase + LIMIT /\ \E o \in Fresh(Conts) : EvalC(o)
  BY <1>2, <1>15, EvalCStep
<1>16. CASE End
  BY <1>16, EndStep
<1> QED
  BY <1>14, <1>15, <1>16 DEF Program

\* A collection begins with what is reached; what it began with stays the same.
Begins    == \E A, r : A = Reach /\ r = reg /\ mem' = mem /\ CollectingFrom(A, r)'
Continues == \A A, r : CollectingFrom(A, r) =>
               CollectingFrom(A, r)' /\ \A a \in A : mem'[a] = mem[a]

Safe   == Types /\ Shut /\ CorralIsEnv
GCStep == Safe' /\ pc' # "run" /\ UNCHANGED kind
          /\ IF pc = "run" THEN Begins ELSE Collecting /\ Continues

\* The collection that began with A goes on.
GoesOn(A, r) == Safe' /\ pc' # "run" /\ CollectingFrom(A, r)' /\ \A a \in A : mem'[a] = mem[a]

LEMMA ItGoesOn ==
  ASSUME Inv, pc # "run", UNCHANGED kind, \A A, r : CollectingFrom(A, r) => GoesOn(A, r)
  PROVE  GCStep
<1>1. Collecting
  BY DEF Inv
<1>2. Continues
  BY DEF Continues, GoesOn
<1>3. Safe' /\ pc' # "run"
  BY <1>1 DEF Collecting, GoesOn
<1> QED
  BY <1>1, <1>2, <1>3 DEF GCStep

LEMMA StaysCollecting ==
  ASSUME GCStep
  PROVE  Collecting'
<1>1. CASE pc = "run"
  BY <1>1 DEF GCStep, Begins, Collecting
<1>2. CASE pc # "run"
  <2>1. PICK A, r : CollectingFrom(A, r)
    BY <1>2 DEF GCStep, Collecting
  <2>2. CollectingFrom(A, r)'
    BY <1>2, <2>1 DEF GCStep, Continues
  <2> QED
    BY <2>2 DEF Collecting
<1> QED
  BY <1>1, <1>2

LEMMA StaysMinimal ==
  ASSUME NEW A, NEW m, NEW n, NEW r, Minimal(A, m, r), \A a \in A : n[a] = m[a]
  PROVE  Minimal(A, n, r)
BY DEF Minimal, Closed

LEMMA ReachIsMinimal ==
  ASSUME Types
  PROVE  Minimal(Reach, mem, reg)
<1>1. Linked(mem) /\ Roots(reg) \in SUBSET Cells
  BY AllLinked DEF Types, IsReg, Roots
<1>2. Reach = Closure(mem)[Roots(reg)]
  BY ReachIsClosure
<1>3. Reach \in SUBSET Cells /\ \A B \in SUBSET Cells : Roots(reg) \subseteq B /\ Closed(B, mem) => Reach \subseteq B
  BY <1>1, <1>2, Leads
<1> QED
  BY <1>3 DEF Minimal

LEMMA SameFence ==
  ASSUME UNCHANGED <<half, heapstart, topend>>
  PROVE  /\ heapbase' = heapbase
         /\ \A a : InTop(a)' <=> InTop(a)
         /\ \A a : InHeap(a)' <=> InHeap(a)
BY DEF heapbase, InTop, InHeap

LEMMA Frame ==
  ASSUME UNCHANGED <<half, heapstart, topend>>,
         NEW A, NEW r, NEW h, NEW s, Moving(A, r, h, s),
         mem' = h.mem, forward' = h.forward, hp' = h.hp, sp' = s
  PROVE  /\ Moving(A, r, Now, sp)'
         /\ \A a : Has(Now, a)' <=> Has(h, a)
         /\ \A x : Copied(Now, x)' = Copied(h, x)
<1>1. /\ heapbase' = heapbase
      /\ \A a : InTop(a)' <=> InTop(a)
      /\ \A a : InHeap(a)' <=> InHeap(a)
  BY SameFence
<1>2. \A a : Has(Now, a)' <=> Has(h, a)
  BY <1>1 DEF Has, LiveIn, Now
<1>3. \A x : Copied(Now, x)' = Copied(h, x)
  BY DEF Copied, Now
<1>4. \A a, t : Image(Now, sp, a, t)' <=> Image(h, s, a, t)
  BY <1>1, <1>2, <1>3 DEF Image, Now
<1>5. Sound(A, mem', r)
  BY DEF Moving
<1>6. Moving(A, r, Now, sp)'
  BY <1>1, <1>2, <1>4, <1>5 DEF Moving, Now
<1> QED
  BY <1>2, <1>3, <1>6

\* The other half begins; whatever is reached is not in it.
LEMMA OtherHalf ==
  ASSUME Inv, NewHeap, heapstart' = heapstart \/ (half' = "high" /\ heapstart' = 0)
  PROVE  /\ heapbase' \in Nat /\ hp' = heapbase' /\ sp' = heapbase'
         /\ half' \in {"low", "high"} /\ heapstart' \in 0 .. Cardinality(Objects)
         /\ \A a \in Reach : ~InHeap(a)'
         /\ \A a : InHeap(a)' => a >= heapbase'
         /\ hp' \in Nat /\ sp' \in Nat
<1>1. Types /\ Fence /\ Running
  BY DEF Inv, Types, NewHeap
<1>2. half' = (IF half = "low" THEN "high" ELSE "low")
  BY DEF NewHeap
<1>3. hp' = (IF half = "high" THEN heapstart + 1 ELSE HALF + 1) /\ sp' = hp'
  BY DEF NewHeap
<1>4. half \in {"low", "high"} /\ heapstart \in Nat /\ heapstart' \in 0 .. Cardinality(Objects) /\ HALF \in Nat
  BY <1>1, CellsFinite, Places DEF Fence
<1>5. heapbase' = hp' /\ heapbase' \in Nat
  <2>1. CASE half = "low"
    BY <1>2, <1>3, <1>4, <2>1 DEF heapbase
  <2>2. CASE half = "high"
    <3>1. half' = "low" /\ heapstart' = heapstart
      BY <1>2, <2>2
    <3> QED
      BY <1>2, <1>3, <1>4, <2>2, <3>1 DEF heapbase
  <2> QED
    BY <1>4, <2>1, <2>2
<1>6. Reach \in SUBSET Cells
  BY <1>1, Working
<1>7. heapstart <= HALF
  BY <1>1, CellsFinite, CollectorAssumption, Places DEF Fence, HALF
<1>8. ASSUME NEW a \in Reach PROVE ~InHeap(a)'
  <2>1. a \in Cells /\ a \in Nat /\ (InTop(a) \/ InHeap(a))
    BY <1>1, <1>4, <1>6 DEF Running, LiveIn, Cells
  <2>2. CASE half = "low"
    BY <1>2, <1>3, <1>4, <1>5, <1>7, <2>1, <2>2 DEF InTop, InHeap
  <2>3. CASE half = "high"
    BY <1>2, <1>3, <1>4, <1>5, <1>7, <2>1, <2>3 DEF InTop, InHeap, heapbase
  <2> QED
    BY <1>4, <2>2, <2>3
<1> QED
  BY <1>2, <1>3, <1>4, <1>5, <1>8 DEF InHeap

\* A collection begins: nothing has been copied, only the corral is in place.
LEMMA KeepTopStep ==
  ASSUME Inv, KeepTop, UNCHANGED kind
  PROVE  GCStep
<1>1. /\ UNCHANGED <<mem, forward, reg, heapstart, topend, topchg, kind>>
      /\ topend /\ ~topchg /\ NewHeap /\ pc' = "S" /\ pc = "run"
  BY DEF KeepTop, NewHeap
<1>2. Types /\ Running /\ Shut /\ Fence
  BY <1>1 DEF Inv, Types
<1>3. /\ heapbase' \in Nat /\ hp' = heapbase' /\ sp' = heapbase'
      /\ half' \in {"low", "high"}
      /\ \A a \in Reach : ~InHeap(a)'
      /\ \A a : InHeap(a)' => a >= heapbase'
  BY <1>1, OtherHalf
<1>4. Types'
  BY <1>1, <1>2, <1>3 DEF Types, Fence
<1>5. Shut' /\ CorralIsEnv'
  BY <1>1, <1>2, SameCorral DEF Inv
<1>A. PICK A : A = Reach
  OBVIOUS
<1>R. PICK r : r = reg
  OBVIOUS
<1>7. Sound(A, mem', r) /\ A \in SUBSET Cells
  BY <1>1, <1>2, <1>A, <1>R, Working
<1>8. \A a : InTop(a)' <=> InTop(a)
  BY <1>1 DEF InTop
<1>9. \A a \in Cells : forward'[a] = a
  BY <1>1, <1>2 DEF Running
<1>10. ASSUME NEW a \in Cells PROVE Has(Now, a)' <=> InTop(a)
  <2>1. a \in Nat
    BY CellsFinite DEF Cells
  <2> QED
    BY <1>3, <1>8, <1>9, <2>1 DEF Has, LiveIn, Now
<1>11. ASSUME NEW a \in A, InTop(a) PROVE Image(Now, sp, a, a)'
  <2>1. a \in 1 .. heapstart /\ a \in Cells
    BY <1>1, <1>2, <1>7, <1>11, CellsFinite, CorralCells DEF InTop, Cells
  <2>2. ASSUME NEW f \in Fields
        PROVE  mem[a][f] = NIL \/ (mem[a][f] \in Cells /\ InTop(mem[a][f]))
    <3>1. mem[a][f] <= heapstart
      BY <1>1, <1>2, <2>1 DEF Shut
    <3>2. mem[a][f] \in Cells \cup {NIL}
      BY <1>2, <2>1 DEF Types, Cell, Fields
    <3> QED
      BY <1>1, <3>1, <3>2 DEF InTop
  <2>3. ASSUME NEW f \in Fields
        PROVE  mem[a][f] = Copied(Now, mem[a][f])' /\ (mem[a][f] = NIL \/ Has(Now, mem[a][f])')
    BY <1>1, <1>9, <1>10, <2>2 DEF Copied, Now
  <2> QED
    BY <1>1, <1>8, <1>11, <2>3 DEF Image, Now, Copied, Has, LiveIn
<1>12. Moving(A, r, Now, sp)'
  <2>1. mem' \in [Cells -> Cell] /\ forward' \in [Cells -> Cells]
    BY <1>4 DEF Types
  <2>2. \A a \in A : Has(Now, a)' => Image(Now, sp, a, forward[a])'
    BY <1>7, <1>9, <1>10, <1>11
  <2>4. \A a \in A : (InTop(a) \/ ~InHeap(a))' /\ (InTop(a)' => forward'[a] = a)
                     /\ (forward'[a] = a \/ Has(Now, a)')
    BY <1>3, <1>7, <1>9, <1>A
  <2>5. /\ \A t \in heapbase' .. hp' - 1 : \E a \in A : forward'[a] = t
        /\ hp' \in heapbase' .. heapbase' + Cardinality(Objects) /\ sp' \in heapbase' .. hp'
    <3>1. Cardinality(Objects) \in Nat
      BY <1>2, Places
    <3>2. heapbase' .. hp' - 1 = {}
      <4>1. \A n \in Nat : n .. n - 1 = {}
        OBVIOUS
      <4> QED
        BY <1>3, <4>1
    <3>3. hp' \in heapbase' .. heapbase' + Cardinality(Objects) /\ sp' \in heapbase' .. hp'
      BY <1>3, <3>1
    <3> QED
      BY <3>2, <3>3
  <2> QED
    BY <1>7, <2>1, <2>2, <2>4, <2>5 DEF Moving, Now
<1>13. topend' => reg'.topenv <= heapstart'
  BY <1>1, <1>2 DEF Running
<1>14. After("topenv", r)'
  <2>1. reg.topenv \in Cells \cup {NIL} /\ reg'.topenv = reg.topenv
    BY <1>1, <1>2 DEF Types, IsReg
  <2>2. reg.topenv \in Cells => InTop(reg.topenv)
    BY <1>1, <1>2 DEF Running, InTop
  <2> QED
    BY <1>1, <1>9, <1>10, <1>R, <2>1, <2>2 DEF After, Copied, Now
<1>15. Before("S", r)' /\ Before("D", r)' /\ Before("v", r)'
  BY <1>1, <1>R DEF Before
<1>16. Minimal(A, mem', r)
  BY <1>1, <1>2, <1>A, <1>R, ReachIsMinimal
<1>17. CollectingFrom(A, r)'
  BY <1>1, <1>12, <1>13, <1>14, <1>15, <1>16 DEF CollectingFrom
<1>18. Begins
  BY <1>1, <1>17, <1>A, <1>R DEF Begins
<1> QED
  BY <1>1, <1>4, <1>5, <1>18 DEF GCStep, Safe

LEMMA GiveUpTopStep ==
  ASSUME Inv, GiveUpTop, UNCHANGED kind
  PROVE  GCStep
<1>1. /\ UNCHANGED <<mem, forward, reg, topchg, kind>>
      /\ NewHeap /\ topend' = FALSE /\ pc' = "topenv" /\ pc = "run"
      /\ heapstart' = (IF topchg /\ half' = "high" THEN 0 ELSE heapstart)
  BY DEF GiveUpTop, NewHeap
<1>2. Types /\ Running /\ Fence
  BY <1>1 DEF Inv, Types
<1>3. /\ heapbase' \in Nat /\ hp' = heapbase' /\ sp' = heapbase'
      /\ half' \in {"low", "high"} /\ heapstart' \in 0 .. Cardinality(Objects)
      /\ \A a \in Reach : ~InHeap(a)'
      /\ \A a : InHeap(a)' => a >= heapbase'
  BY <1>1, OtherHalf
<1>4. Types'
  BY <1>1, <1>2, <1>3 DEF Types, Fence
<1>5. Shut' /\ CorralIsEnv'
  BY <1>1 DEF Shut, CorralIsEnv
<1>A. PICK A : A = Reach
  OBVIOUS
<1>R. PICK r : r = reg
  OBVIOUS
<1>7. Sound(A, mem', r) /\ A \in SUBSET Cells
  BY <1>1, <1>2, <1>A, <1>R, Working
<1>8. \A a : ~InTop(a)'
  BY <1>1 DEF InTop
<1>9. \A a \in Cells : forward'[a] = a
  BY <1>1, <1>2 DEF Running
<1>10. ASSUME NEW a \in A PROVE ~Has(Now, a)'
  BY <1>3, <1>7, <1>8, <1>9, <1>A DEF Has, LiveIn, Now
<1>12. Moving(A, r, Now, sp)'
  <2>1. mem' \in [Cells -> Cell] /\ forward' \in [Cells -> Cells]
    BY <1>4 DEF Types
  <2>2. \A a \in A : Has(Now, a)' => Image(Now, sp, a, forward[a])'
    BY <1>10
  <2>4. \A a \in A : (InTop(a) \/ ~InHeap(a))' /\ (InTop(a)' => forward'[a] = a)
                     /\ (forward'[a] = a \/ Has(Now, a)')
    BY <1>3, <1>7, <1>9, <1>A
  <2>5. /\ \A t \in heapbase' .. hp' - 1 : \E a \in A : forward'[a] = t
        /\ hp' \in heapbase' .. heapbase' + Cardinality(Objects) /\ sp' \in heapbase' .. hp'
    <3>1. Cardinality(Objects) \in Nat
      BY <1>2, Places
    <3>2. heapbase' .. hp' - 1 = {}
      <4>1. \A n \in Nat : n .. n - 1 = {}
        OBVIOUS
      <4> QED
        BY <1>3, <4>1
    <3>3. hp' \in heapbase' .. heapbase' + Cardinality(Objects) /\ sp' \in heapbase' .. hp'
      BY <1>3, <3>1
    <3> QED
      BY <3>2, <3>3
  <2> QED
    BY <1>7, <2>1, <2>2, <2>4, <2>5 DEF Moving, Now
<1>13. Before("topenv", r)' /\ Before("S", r)' /\ Before("D", r)' /\ Before("v", r)'
  BY <1>1, <1>R DEF Before
<1>14. EnvFirst(A, mem, r, Now)'
  <2>1. \A a \in A : ~Has(Now, a)'
    BY <1>10
  <2> QED
    BY <2>1 DEF EnvFirst
<1>15. Minimal(A, mem', r)
  BY <1>1, <1>2, <1>A, <1>R, ReachIsMinimal
<1>16. CollectingFrom(A, r)'
  BY <1>1, <1>12, <1>13, <1>14, <1>15 DEF CollectingFrom
<1>17. Begins
  BY <1>1, <1>16, <1>A, <1>R DEF Begins
<1> QED
  BY <1>1, <1>4, <1>5, <1>17 DEF GCStep, Safe

\* The cells of the corral stay as they are.
LEMMA CorralStays ==
  ASSUME Inv, UNCHANGED <<heapstart, topend, topchg>>, topend => reg'.topenv = reg.topenv,
         \A c \in Cells : c < heapbase => mem'[c] = mem[c]
  PROVE  Shut' /\ CorralIsEnv'
<1>1. Fence /\ Shut /\ CorralIsEnv
  BY DEF Inv, Types
<1>2. ASSUME topend, NEW a \in 1 .. heapstart PROVE mem'[a] = mem[a]
  <2>1. a \in Cells /\ InTop(a)
    BY <1>1, <1>2, CorralCells DEF InTop
  <2> QED
    BY <1>1, <2>1, Places
<1> QED
  BY <1>1, <1>2, SameCorral

\* What is moving has the types it should have.
LEMMA MovingTypes ==
  ASSUME Fence, NEW A, NEW r, NEW h, NEW s, Moving(A, r, h, s)
  PROVE  /\ h.mem \in [Cells -> Cell] /\ h.forward \in [Cells -> Cells]
         /\ h.hp \in Nat /\ s \in Nat /\ heapbase \in Nat /\ heapbase <= s /\ s <= h.hp
         /\ \A x \in A \cup {NIL} : Copied(h, x) \in Cells \cup {NIL}
         /\ A \in SUBSET Cells
<1>1. A \in SUBSET Cells
  BY DEF Moving, Sound
<1> QED
  BY <1>1, Places DEF Moving, Copied

LEMMA CopyRootStep ==
  ASSUME Inv, NEW x \in {"topenv", "S", "D", "v"}, NEW next, CopyRoot(x, next), UNCHANGED kind,
         <<x, next>> \in {<<"topenv", "corral">>, <<"S", "D">>, <<"D", "v">>, <<"v", "end">>}
  PROVE  GCStep
<1> SUFFICES ASSUME NEW A, NEW r, CollectingFrom(A, r) PROVE GoesOn(A, r)
  BY ItGoesOn DEF CopyRoot
<1> DEFINE h == CopyCell(Now, reg[x])
<1>1. /\ pc = x /\ sp = hp /\ mem' = h.mem /\ forward' = h.forward /\ hp' = h.hp
      /\ reg' = [reg EXCEPT ![x] = Copied(h, reg[x])]
      /\ pc' = next
      /\ UNCHANGED <<half, heapstart, topend, topchg, sp, kind>>
  BY DEF CopyRoot, fence
<1>2. Types /\ Fence
  BY DEF Inv, Types
<1>3. CollectingFrom(A, r)
  OBVIOUS
<1>4. Moving(A, r, Now, sp)
  BY <1>3 DEF CollectingFrom
<1>5. reg[x] = r[x]
  BY <1>1, <1>3 DEF CollectingFrom, Before
<1>6. Sound(A, mem, r)
  BY <1>4 DEF Moving, Now
<1>7. /\ r["topenv"] \in A \cup {NIL} /\ r["S"] \in A \cup {NIL}
      /\ r["D"] \in A \cup {NIL} /\ r["v"] \in A \cup {NIL}
  BY <1>6 DEF Sound, Roots
<1>8. r[x] \in A \cup {NIL}
  BY <1>7
<1>9. Moving(A, r, h, sp) /\ (r[x] = NIL \/ Has(h, r[x])) /\ Keeps(A, Now, h, r[x])
  BY <1>2, <1>4, <1>5, <1>8, CopyOne
<1> HIDE DEF h
<1>10. /\ Moving(A, r, Now, sp)'
       /\ \A a : Has(Now, a)' <=> Has(h, a)
       /\ \A y : Copied(Now, y)' = Copied(h, y)
  BY <1>1, <1>9, Frame
<1>11. /\ mem' \in [Cells -> Cell] /\ forward' \in [Cells -> Cells] /\ hp' \in Nat
       /\ Copied(h, r[x]) \in Cells \cup {NIL}
  BY <1>1, <1>2, <1>8, <1>9, MovingTypes
<1>12. /\ IsReg(reg') /\ reg'[x] = Copied(h, r[x])
       /\ \A y \in {"topenv", "S", "D", "v"} : y # x => reg'[y] = reg[y]
  BY <1>1, <1>2, <1>5, <1>11 DEF Types, IsReg
<1>13. Types'
  BY <1>1, <1>2, <1>11, <1>12 DEF Types, Fence
<1>14. Shut' /\ CorralIsEnv'
  <2>1. \A c \in Cells : c < heapbase => mem'[c] = mem[c]
    <3>1. hp >= heapbase /\ hp \in Nat /\ heapbase \in Nat
      BY <1>2, <1>4, MovingTypes DEF Now
    <3>2. \A c \in Cells : c < heapbase => c # hp
      BY <3>1, CellsFinite DEF Cells
    <3> QED
      BY <1>1, <1>9, <3>2 DEF Keeps, Now
  <2>2. topend => reg'.topenv = reg.topenv
    BY <1>1, <1>3, <1>12 DEF CollectingFrom
  <2> QED
    BY <1>1, <2>1, <2>2, CorralStays
<1>15. ASSUME NEW y \in {"topenv", "S", "D", "v"}, y # x, After(y, r) PROVE After(y, r)'
  <2>1. r[y] \in A \cup {NIL}
    BY <1>7
  <2>2. Copied(Now, r[y]) = Copied(h, r[y]) /\ (r[y] = NIL \/ Has(h, r[y]))
    BY <1>9, <1>15, <2>1 DEF After, Keeps, Copied, Now
  <2> QED
    BY <1>10, <1>12, <1>15, <2>2 DEF After
<1>16. After(x, r)'
  BY <1>9, <1>10, <1>12 DEF After
<1>17. ASSUME NEW y \in {"topenv", "S", "D", "v"}, y # x, Before(y, r) PROVE Before(y, r)'
  BY <1>12, <1>17 DEF Before
<1>M. (\A a \in A : mem'[a] = mem[a]) /\ Minimal(A, mem', r)
  <2>1. \A a \in A : mem'[a] = mem[a]
    BY <1>1, <1>9 DEF Keeps, Now
  <2> QED
    BY <1>3, <2>1, StaysMinimal DEF CollectingFrom
<1>18. CASE x = "topenv" /\ next = "corral"
  <2>1. ~topend /\ EnvFirst(A, mem, r, Now)
    BY <1>1, <1>3, <1>18 DEF CollectingFrom
  <2>2. EnvFirst(A, mem, r, Now)'
    <3>1. ASSUME NEW B \in SUBSET A, HoldsEnv(B, mem', r.topenv), NEW a \in A, Has(h, a) PROVE a \in B
      <4>1. HoldsEnv(B, mem, r.topenv)
        BY <1>M, <3>1 DEF HoldsEnv, Closed
      <4>2. Has(Now, a) \/ a = r.topenv
        BY <1>9, <1>18, <3>1 DEF Keeps
      <4>3. a # NIL
        BY <1>6, CellsFinite DEF Sound
      <4> QED
        BY <2>1, <4>1, <4>2, <4>3 DEF EnvFirst, HoldsEnv
    <3> QED
      BY <1>10, <3>1 DEF EnvFirst
  <2>3. Before("S", r)' /\ Before("D", r)' /\ Before("v", r)'
    BY <1>1, <1>3, <1>17, <1>18 DEF CollectingFrom
  <2>4. CollectingFrom(A, r)'
    BY <1>1, <1>10, <1>16, <1>M, <1>18, <2>1, <2>2, <2>3 DEF CollectingFrom
  <2> QED
    BY <1>1, <1>13, <1>14, <1>M, <1>18, <2>4 DEF GoesOn, Safe
<1>19. CASE x = "S" /\ next = "D"
  <2>1. After("topenv", r)' /\ Before("D", r)' /\ Before("v", r)'
    BY <1>1, <1>3, <1>15, <1>17, <1>19 DEF CollectingFrom
  <2>2. topend' => reg'.topenv <= heapstart'
    BY <1>1, <1>3, <1>12, <1>19 DEF CollectingFrom
  <2>3. CollectingFrom(A, r)'
    BY <1>1, <1>10, <1>16, <1>M, <1>19, <2>1, <2>2 DEF CollectingFrom
  <2> QED
    BY <1>1, <1>13, <1>14, <1>M, <1>19, <2>3 DEF GoesOn, Safe
<1>20. CASE x = "D" /\ next = "v"
  <2>1. After("topenv", r)' /\ After("S", r)' /\ Before("v", r)'
    BY <1>1, <1>3, <1>15, <1>17, <1>20 DEF CollectingFrom
  <2>2. topend' => reg'.topenv <= heapstart'
    BY <1>1, <1>3, <1>12, <1>20 DEF CollectingFrom
  <2>3. CollectingFrom(A, r)'
    BY <1>1, <1>10, <1>16, <1>M, <1>20, <2>1, <2>2 DEF CollectingFrom
  <2> QED
    BY <1>1, <1>13, <1>14, <1>M, <1>20, <2>3 DEF GoesOn, Safe
<1>21. CASE x = "v" /\ next = "end"
  <2>1. After("topenv", r)' /\ After("S", r)' /\ After("D", r)'
    BY <1>1, <1>3, <1>15, <1>21 DEF CollectingFrom
  <2>2. topend' => reg'.topenv <= heapstart'
    BY <1>1, <1>3, <1>12, <1>21 DEF CollectingFrom
  <2>3. CollectingFrom(A, r)'
    BY <1>1, <1>10, <1>16, <1>M, <1>21, <2>1, <2>2 DEF CollectingFrom
  <2> QED
    BY <1>1, <1>13, <1>14, <1>M, <1>21, <2>3 DEF GoesOn, Safe
<1> QED
  BY <1>18, <1>19, <1>20, <1>21

\* No two cells are copied to one.
LEMMA OneImage ==
  ASSUME NEW A, NEW r, NEW h, NEW s, Moving(A, r, h, s),
         NEW a \in A, NEW b \in A, Has(h, a), Has(h, b), h.forward[a] = h.forward[b]
  PROVE  a = b
<1>1. h.mem[h.forward[a]].id = h.mem[a].id /\ h.mem[h.forward[b]].id = h.mem[b].id
  BY DEF Moving, Image
<1>2. \A x, y \in A : h.mem[x].id = h.mem[y].id => x = y
  BY DEF Moving, Sound
<1> QED
  BY <1>1, <1>2

\* The cell at s has its fields' new addresses: one cell more is done.
LEMMA OneMore ==
  ASSUME Fence, NEW A, NEW r, NEW h, NEW s, Moving(A, r, h, s), s < h.hp,
         NEW a \in A, Has(h, a), h.forward[a] = s,
         \A f \in Fields : h.mem[a][f] = NIL \/ Has(h, h.mem[a][f]),
         NEW g, g.forward = h.forward, g.hp = h.hp,
         g.mem = [h.mem EXCEPT ![s].car = Copied(h, h.mem[a].car),
                               ![s].cdr = Copied(h, h.mem[a].cdr)]
  PROVE  Moving(A, r, g, s + 1)
<1>1. /\ h.mem \in [Cells -> Cell] /\ h.forward \in [Cells -> Cells]
      /\ h.hp \in Nat /\ s \in Nat /\ heapbase \in Nat /\ heapbase <= s /\ s <= h.hp
      /\ A \in SUBSET Cells
      /\ \A x \in A \cup {NIL} : Copied(h, x) \in Cells \cup {NIL}
  BY MovingTypes
<1>2. s \in Cells /\ h.mem[a].car \in A \cup {NIL} /\ h.mem[a].cdr \in A \cup {NIL}
  BY <1>1, InA DEF Fields
<1>3. InHeap(s) /\ ~InTop(s)
  <2>1. InTop(s) \/ InHeap(s)
    BY DEF Has, LiveIn
  <2> QED
    BY <1>1, <1>2, <2>1, Places
<1>4. s \notin A
  BY <1>3 DEF Moving
<1>5. /\ g.forward = h.forward /\ g.hp = h.hp
      /\ g.mem \in [Cells -> Cell]
      /\ \A c \in Cells : c # s => g.mem[c] = h.mem[c]
      /\ g.mem[s].id = h.mem[s].id
      /\ g.mem[s].car = Copied(h, h.mem[a].car) /\ g.mem[s].cdr = Copied(h, h.mem[a].cdr)
  <2>1. Copied(h, h.mem[a].car) \in Cells \cup {NIL} /\ Copied(h, h.mem[a].cdr) \in Cells \cup {NIL}
    BY <1>1, <1>2
  <2>2. h.mem[s] \in Cell
    BY <1>1, <1>2
  <2>3. PICK c : c = [h.mem[s] EXCEPT !.car = Copied(h, h.mem[a].car), !.cdr = Copied(h, h.mem[a].cdr)]
    OBVIOUS
  <2>4. /\ c \in Cell /\ c.id = h.mem[s].id
        /\ c.car = Copied(h, h.mem[a].car) /\ c.cdr = Copied(h, h.mem[a].cdr)
    BY <2>1, <2>2, <2>3 DEF Cell
  <2>5. g.mem = [h.mem EXCEPT ![s] = c]
    BY <1>1, <1>2, <2>3
  <2> QED
    BY <1>1, <1>2, <2>4, <2>5
<1>6. \A b \in A : g.mem[b] = h.mem[b]
  BY <1>1, <1>4, <1>5
<1>7. Sound(A, g.mem, r)
  BY <1>6, SoundHere DEF Moving
<1>8. /\ \A b : Has(g, b) <=> Has(h, b)
      /\ \A x : Copied(g, x) = Copied(h, x)
  BY <1>5 DEF Has, LiveIn, Copied
<1>9. ASSUME NEW b \in A, Has(g, b) PROVE Image(g, s + 1, b, g.forward[b])
  <2> DEFINE u == h.forward[b]
  <2>1. Has(h, b) /\ g.forward[b] = u /\ u \in Cells /\ u \in Nat
    BY <1>1, <1>5, <1>8, <1>9, CellsFinite DEF Cells
  <2>2. Image(h, s, b, u)
    BY <2>1 DEF Moving
  <2>3. CASE b = a
    <3>1. u = s /\ u < s + 1
      BY <1>1, <2>3
    <3>2. g.mem[u].id = g.mem[b].id
      BY <1>5, <1>6, <2>2, <2>3 DEF Image
    <3>3. \A f \in Fields : /\ g.mem[u][f] = Copied(g, g.mem[b][f])
                            /\ g.mem[b][f] = NIL \/ Has(g, g.mem[b][f])
      <4>1. g.mem[b] = h.mem[a]
        BY <1>6, <2>3
      <4>2. \A f \in Fields : h.mem[a][f] = NIL \/ Has(g, h.mem[a][f])
        BY <1>8
      <4>3. g.mem[s]["car"] = Copied(g, h.mem[a]["car"]) /\ g.mem[s]["cdr"] = Copied(g, h.mem[a]["cdr"])
        BY <1>5, <1>8
      <4>4. \A f \in Fields : g.mem[s][f] = Copied(g, h.mem[a][f])
        BY <4>3 DEF Fields
      <4> QED
        BY <3>1, <4>1, <4>2, <4>4
    <3> HIDE DEF u
    <3> QED
      BY <2>1, <3>1, <3>2, <3>3 DEF Image
  <2>4. CASE b # a
    <3>1. u # s
      BY <2>1, <2>4, OneImage
    <3>2. g.mem[u] = h.mem[u] /\ g.mem[b] = h.mem[b]
      BY <1>5, <1>6, <2>1, <3>1
    <3>3. InTop(u) \/ u < s + 1 <=> InTop(u) \/ u < s
      BY <1>1, <2>1, <3>1
    <3> HIDE DEF u
    <3>4. g.mem[u].id = g.mem[b].id
      BY <2>2, <3>2 DEF Image
    <3>5. ASSUME NEW f \in Fields
          PROVE  IF InTop(u) \/ u < s + 1
                 THEN /\ g.mem[u][f] = Copied(g, g.mem[b][f])
                      /\ g.mem[b][f] = NIL \/ Has(g, g.mem[b][f])
                 ELSE g.mem[u][f] = g.mem[b][f]
      BY <1>8, <2>2, <3>2, <3>3 DEF Image
    <3> QED
      BY <2>1, <3>4, <3>5 DEF Image
  <2> QED
    BY <2>3, <2>4
<1>10. s + 1 \in heapbase .. g.hp
  BY <1>1, <1>5
<1>11. /\ \A b \in A : InTop(b) \/ ~InHeap(b)
       /\ \A b \in A : InTop(b) => g.forward[b] = b
       /\ \A b \in A : g.forward[b] = b \/ Has(g, b)
       /\ \A t \in heapbase .. g.hp - 1 : \E b \in A : g.forward[b] = t
       /\ g.hp \in heapbase .. heapbase + Cardinality(Objects)
  BY <1>5, <1>8 DEF Moving
<1> QED
  BY <1>1, <1>5, <1>7, <1>9, <1>10, <1>11 DEF Moving

LEMMA ExpandStep ==
  ASSUME Inv, Expand, UNCHANGED kind
  PROVE  GCStep
<1> SUFFICES ASSUME NEW A, NEW r, CollectingFrom(A, r) PROVE GoesOn(A, r)
  BY ItGoesOn DEF Expand
<1> DEFINE car == mem[sp].car
           cdr == mem[sp].cdr
           h1  == CopyCell(Now, car)
           h   == CopyCell(h1, cdr)
<1>1. /\ pc # "run" /\ sp < hp
      /\ mem' = [h.mem EXCEPT ![sp].car = Copied(h, car), ![sp].cdr = Copied(h, cdr)]
      /\ forward' = h.forward /\ hp' = h.hp
      /\ sp' = sp + 1
      /\ UNCHANGED <<reg, half, heapstart, topend, topchg, pc, kind>>
  BY DEF Expand, fence
<1>2. Types /\ Fence
  BY DEF Inv, Types
<1>3. CollectingFrom(A, r)
  OBVIOUS
<1>4. Moving(A, r, Now, sp)
  BY <1>3 DEF CollectingFrom
<1>5. sp \in Nat /\ hp \in Nat /\ heapbase \in Nat /\ heapbase <= sp /\ A \in SUBSET Cells
  BY <1>2, <1>4, MovingTypes DEF Now
<1>6. PICK a \in A : forward[a] = sp
  <2>4. sp < hp
    BY <1>1
  <2>1. sp \in heapbase .. hp - 1
    BY <1>5, <2>4
  <2>2. \A t \in heapbase .. hp - 1 : \E a \in A : forward[a] = t
    BY <1>4 DEF Moving, Now
  <2> QED
    BY <2>1, <2>2
<1>7. sp \in Cells
  <2>1. forward \in [Cells -> Cells]
    BY <1>2 DEF Types
  <2> QED
    BY <1>5, <1>6, <2>1
<1>8. InHeap(sp) /\ ~InTop(sp)
  <2>1. LIMIT \in Nat /\ LIMIT >= Cardinality(Objects) /\ Cardinality(Objects) \in Nat
    BY <1>2, CollectorAssumption, Places
  <2>2. hp <= heapbase + Cardinality(Objects)
    BY <1>4 DEF Moving, Now
  <2>4. sp < hp
    BY <1>1
  <2>3. sp < heapbase + LIMIT
    BY <1>5, <2>4, <2>1, <2>2
  <2> QED
    BY <1>2, <1>5, <1>7, <2>3, Places
<1>9. Has(Now, a)
  BY <1>1, <1>6, <1>8 DEF Has, LiveIn, Now
<1>10. mem[a].car = car /\ mem[a].cdr = cdr
  <2>1. Image(Now, sp, a, sp)
    BY <1>4, <1>6, <1>9 DEF Moving, Now
  <2>2. ~(InTop(sp) \/ sp < sp)
    BY <1>5, <1>8
  <2>3. \A f \in Fields : mem[sp][f] = mem[a][f]
    BY <2>1, <2>2 DEF Image, Now
  <2> QED
    BY <2>3 DEF Fields
<1>11. Sound(A, mem, r)
  BY <1>4 DEF Moving, Now
<1>12. car \in A \cup {NIL} /\ cdr \in A \cup {NIL}
  BY <1>10, <1>11 DEF Sound, Closed
<1> HIDE DEF car, cdr, h1, h
<1>13. Moving(A, r, h1, sp) /\ (car = NIL \/ Has(h1, car)) /\ Keeps(A, Now, h1, car)
  BY <1>2, <1>4, <1>12, CopyOne DEF h1
<1>14. Moving(A, r, h, sp) /\ (cdr = NIL \/ Has(h, cdr)) /\ Keeps(A, h1, h, cdr)
  BY <1>2, <1>12, <1>13, CopyOne DEF h
<1>15. car = NIL \/ Has(h, car)
  BY <1>12, <1>13, <1>14 DEF Keeps
<1>16. /\ \A b \in A : Has(Now, b) => Has(h, b) /\ h.forward[b] = forward[b]
       /\ \A b \in A : Has(h, b) => Has(Now, b) \/ b = car \/ b = cdr
  <2>1. \A b \in A : Has(Now, b) => Has(h1, b) /\ h1.forward[b] = forward[b]
    BY <1>13 DEF Keeps, Now
  <2>2. \A b \in A : Has(h1, b) => Has(h, b) /\ h.forward[b] = h1.forward[b]
    BY <1>14 DEF Keeps
  <2>3. \A b \in A : Has(h1, b) => Has(Now, b) \/ b = car
    BY <1>13 DEF Keeps
  <2>4. \A b \in A : Has(h, b) => Has(h1, b) \/ b = cdr
    BY <1>14 DEF Keeps
  <2> QED
    BY <1>5, <2>1, <2>2, <2>3, <2>4
<1>17. hp <= h1.hp /\ h1.hp <= h.hp /\ h1.hp \in Nat /\ h.hp \in Nat
  BY <1>2, <1>13, <1>14, MovingTypes DEF Keeps, Now
<1>18. \A c \in Cells : c < hp => h.mem[c] = mem[c]
  <2>1. \A c \in Cells : c < hp => c # hp /\ c # h1.hp
    BY <1>5, <1>17, CellsFinite DEF Cells
  <2> QED
    BY <1>13, <1>14, <2>1 DEF Keeps, Now
<1>19. h.mem[a].car = car /\ h.mem[a].cdr = cdr
  BY <1>10, <1>13, <1>14 DEF Keeps, Now
<1> DEFINE g == [mem |-> mem', forward |-> forward', hp |-> hp']
<1>20. Has(h, a) /\ h.forward[a] = sp
  BY <1>6, <1>9, <1>16
<1>21. \A f \in Fields : h.mem[a][f] = NIL \/ Has(h, h.mem[a][f])
  BY <1>14, <1>15, <1>19 DEF Fields
<1>22. /\ g.forward = h.forward /\ g.hp = h.hp
       /\ g.mem = [h.mem EXCEPT ![sp].car = Copied(h, h.mem[a].car),
                                ![sp].cdr = Copied(h, h.mem[a].cdr)]
  BY <1>1, <1>19
<1>23. sp < h.hp
  BY <1>1, <1>5, <1>17
<1>24. Moving(A, r, g, sp + 1)
  <2> HIDE DEF g
  <2> QED
    BY <1>2, <1>14, <1>20, <1>21, <1>22, <1>23, OneMore
<1>25. mem' = g.mem /\ forward' = g.forward /\ hp' = g.hp
  OBVIOUS
<1> HIDE DEF g
<1>26. /\ Moving(A, r, Now, sp)'
       /\ \A b : Has(Now, b)' <=> Has(g, b)
       /\ \A y : Copied(Now, y)' = Copied(g, y)
  BY <1>1, <1>24, <1>25, Frame
<1>27. /\ \A b : Has(g, b) <=> Has(h, b)
       /\ \A y : Copied(g, y) = Copied(h, y)
  BY <1>22 DEF Has, LiveIn, Copied
<1>28. Types'
  <2>1. mem' \in [Cells -> Cell] /\ forward' \in [Cells -> Cells] /\ hp' \in Nat /\ sp + 1 \in Nat
    BY <1>2, <1>24, <1>25, MovingTypes
  <2> QED
    BY <1>1, <1>2, <2>1 DEF Types, Fence, IsReg
<1>29. Shut' /\ CorralIsEnv'
  <2>1. h.mem \in [Cells -> Cell]
    BY <1>14 DEF Moving
  <2>2. ASSUME NEW c \in Cells, c < heapbase PROVE mem'[c] = mem[c]
    <3>1. c # sp /\ c < hp
      BY <1>1, <1>5, <2>2, CellsFinite DEF Cells
    <3>2. mem'[c] = h.mem[c]
      BY <1>1, <2>1, <3>1
    <3> QED
      BY <1>18, <3>1, <3>2
  <2> QED
    BY <1>1, <2>2, CorralStays
<1>30. ASSUME NEW y \in {"topenv", "S", "D", "v"}, After(y, r) PROVE After(y, r)'
  <2>1. r[y] \in A \cup {NIL}
    BY <1>11 DEF Sound, Roots
  <2>2. Copied(Now, r[y]) = Copied(h, r[y]) /\ (r[y] = NIL \/ Has(h, r[y]))
    BY <1>16, <1>30, <2>1 DEF After, Copied, Now
  <2> QED
    BY <1>1, <1>26, <1>27, <1>30, <2>2 DEF After
<1>31. ASSUME NEW y \in {"topenv", "S", "D", "v"}, Before(y, r) PROVE Before(y, r)'
  BY <1>1, <1>31 DEF Before
<1>M. (\A b \in A : mem'[b] = mem[b]) /\ Minimal(A, mem', r)
  <2>1. sp \notin A
    BY <1>4, <1>8 DEF Moving
  <2>2. h.mem \in [Cells -> Cell]
    BY <1>14 DEF Moving
  <2>3. \A b \in A : mem'[b] = h.mem[b]
    BY <1>1, <1>5, <2>1, <2>2
  <2>4. \A b \in A : h.mem[b] = mem[b]
    BY <1>13, <1>14 DEF Keeps, Now
  <2>5. \A b \in A : mem'[b] = mem[b]
    BY <2>3, <2>4
  <2> QED
    BY <1>3, <2>5, StaysMinimal DEF CollectingFrom
<1>32. pc \in {"topenv", "corral"} => ~topend /\ EnvFirst(A, mem, r, Now)'
  <2>1. SUFFICES ASSUME pc \in {"topenv", "corral"} PROVE ~topend /\ EnvFirst(A, mem, r, Now)'
    OBVIOUS
  <2>2. ~topend /\ EnvFirst(A, mem, r, Now)
    BY <1>3, <2>1 DEF CollectingFrom
  <2>3. ASSUME NEW B \in SUBSET A, HoldsEnv(B, mem', r.topenv), NEW b \in A, Has(h, b) PROVE b \in B
    <3>1. HoldsEnv(B, mem, r.topenv)
      BY <1>M, <2>3 DEF HoldsEnv, Closed
    <3>2. a \in B
      BY <1>9, <2>2, <3>1 DEF EnvFirst
    <3>3. car \in B \cup {NIL} /\ cdr \in B \cup {NIL}
      BY <1>10, <3>1, <3>2 DEF HoldsEnv, Closed
    <3>4. b # NIL
      BY <1>5, CellsFinite
    <3> QED
      BY <1>16, <2>2, <2>3, <3>1, <3>3, <3>4 DEF EnvFirst
  <2> QED
    BY <1>26, <1>27, <2>2, <2>3 DEF EnvFirst
<1>33. CollectingFrom(A, r)'
  <2>1. topend' => reg'.topenv <= heapstart'
    BY <1>1, <1>3 DEF CollectingFrom
  <2>2. IF pc' = "topenv" THEN Before("topenv", r)' ELSE After("topenv", r)'
    BY <1>1, <1>3, <1>30, <1>31 DEF CollectingFrom
  <2>3. IF pc' \in {"topenv", "corral", "S"} THEN Before("S", r)' ELSE After("S", r)'
    BY <1>1, <1>3, <1>30, <1>31 DEF CollectingFrom
  <2>4. IF pc' \in {"v", "end"} THEN After("D", r)' ELSE Before("D", r)'
    BY <1>1, <1>3, <1>30, <1>31 DEF CollectingFrom
  <2>5. IF pc' = "end" THEN After("v", r)' ELSE Before("v", r)'
    BY <1>1, <1>3, <1>30, <1>31 DEF CollectingFrom
  <2> QED
    BY <1>1, <1>26, <1>32, <1>M, <2>1, <2>2, <2>3, <2>4, <2>5 DEF CollectingFrom
<1> QED
  BY <1>1, <1>28, <1>29, <1>33, <1>M DEF GoesOn, Safe

\* The environment has been copied: it becomes the corral, or does not.
LEMMA BuildCorralStep ==
  ASSUME Inv, BuildCorral, UNCHANGED kind
  PROVE  GCStep
<1> SUFFICES ASSUME NEW A, NEW r, CollectingFrom(A, r) PROVE GoesOn(A, r)
  BY ItGoesOn DEF BuildCorral
<1>1. /\ pc = "corral" /\ sp = hp /\ pc' = "S"
      /\ UNCHANGED <<mem, forward, hp, reg, half, sp, kind>>
      /\ IF half = "low" /\ heapstart = 0
         THEN heapstart' = hp - 1 /\ topend' = TRUE /\ topchg' = FALSE
         ELSE UNCHANGED <<heapstart, topend, topchg>>
  BY DEF BuildCorral, heap
<1>2. Types /\ Fence /\ Shut
  BY DEF Inv, Types
<1>3. CollectingFrom(A, r)
  OBVIOUS
<1>4. Moving(A, r, Now, sp)
  BY <1>3 DEF CollectingFrom
<1>5. /\ ~topend /\ EnvFirst(A, mem, r, Now)
      /\ After("topenv", r) /\ Before("S", r) /\ Before("D", r) /\ Before("v", r)
  BY <1>1, <1>3 DEF CollectingFrom
<1>6. Before("S", r)' /\ Before("D", r)' /\ Before("v", r)'
  BY <1>1, <1>5 DEF Before
<1>7. CASE ~(half = "low" /\ heapstart = 0)
  <2>1. UNCHANGED <<half, heapstart, topend, topchg>>
    BY <1>1, <1>7
  <2> DEFINE h == Now
  <2>2. mem' = h.mem /\ forward' = h.forward /\ hp' = h.hp /\ sp' = sp
    BY <1>1 DEF Now
  <2> HIDE DEF h
  <2>3. Moving(A, r, h, sp)
    BY <1>4 DEF h
  <2>4. /\ Moving(A, r, Now, sp)'
        /\ \A b : Has(Now, b)' <=> Has(h, b)
        /\ \A y : Copied(Now, y)' = Copied(h, y)
    BY <2>1, <2>2, <2>3, Frame
  <2>5. After("topenv", r)'
    BY <1>1, <1>5, <2>4 DEF After, h
  <2>6. ~topend'
    BY <1>5, <2>1
  <2>7. CollectingFrom(A, r)'
    BY <1>1, <1>3, <1>6, <2>4, <2>5, <2>6 DEF CollectingFrom
  <2>8. Types' /\ Shut' /\ CorralIsEnv'
    BY <1>1, <1>2, <2>1, <2>6 DEF Types, Fence, Shut, CorralIsEnv
  <2> QED
    BY <1>1, <2>7, <2>8 DEF GoesOn, Safe
<1>8. CASE half = "low" /\ heapstart = 0
  <2>1. heapstart' = hp - 1 /\ topend' = TRUE /\ topchg' = FALSE /\ half' = "low"
    BY <1>1, <1>8
  <2>2. heapbase = 1
    BY <1>8 DEF heapbase
  <2>3. /\ A \in SUBSET Cells /\ hp \in Nat /\ hp >= 1
        /\ mem \in [Cells -> Cell] /\ forward \in [Cells -> Cells]
    BY <1>2, <1>4, <2>2, MovingTypes DEF Now
  <2>4. /\ Cardinality(Objects) \in Nat /\ LIMIT \in Nat /\ LIMIT >= Cardinality(Objects)
        /\ hp <= 1 + Cardinality(Objects)
    BY <1>2, <1>4, <2>2, CollectorAssumption, Places DEF Moving, Now
  <2>5. HALF \in Nat /\ hp - 1 <= HALF
    BY <2>3, <2>4 DEF HALF
  <2>6. heapbase' = hp
    BY <2>1, <2>3 DEF heapbase
  <2>7. \A a \in Cells : a \in Nat /\ a > 0
    BY CellsFinite DEF Cells
  <2>8. /\ \A a \in Cells : InTop(a)' <=> a < hp
        /\ \A a \in Cells : InHeap(a)' <=> a >= hp /\ a <= HALF
        /\ \A a \in Cells : InHeap(a) <=> a <= HALF
        /\ \A a \in Cells : ~InTop(a)
    BY <1>5, <1>8, <2>1, <2>2, <2>3, <2>6, <2>7 DEF InTop, InHeap
  <2>9. \A a \in Cells : LiveIn(Now, a) <=> a < hp
    BY <2>3, <2>5, <2>7, <2>8 DEF LiveIn, Now
  <2>10. \A a \in Cells : LiveIn(Now, a)' <=> a < hp
    BY <1>1, <2>3, <2>7, <2>8 DEF LiveIn, Now
  <2>11. \A a \in A : Has(Now, a)' <=> Has(Now, a)
    <3>1. \A a \in A : Has(Now, a) <=> forward[a] < hp
      BY <2>3, <2>9 DEF Has, Now
    <3>2. \A a \in A : Has(Now, a)' <=> forward[a] < hp
      BY <1>1, <2>3, <2>10 DEF Has, Now
    <3> QED
      BY <3>1, <3>2
  <2>12. \A x : Copied(Now, x)' = Copied(Now, x)
    BY <1>1 DEF Copied, Now
  <2>13. ASSUME NEW a \in A, Has(Now, a), NEW f \in Fields
         PROVE  /\ mem[forward[a]][f] = Copied(Now, mem[a][f])
                /\ mem[a][f] = NIL \/ Has(Now, mem[a][f])
                /\ mem[a][f] \in A \cup {NIL}
    <3>1. Image(Now, sp, a, forward[a])
      BY <1>4, <2>13 DEF Moving, Now
    <3>2. forward[a] < sp
      BY <1>1, <2>3, <2>9, <2>13 DEF Has, Now
    <3>3. Now.mem[a][f] \in A \cup {NIL}
      BY <1>4, InA
    <3> QED
      BY <3>1, <3>2, <3>3 DEF Image, Now
  <2>14. ASSUME NEW a \in A, Has(Now, a) PROVE Image(Now, sp, a, forward[a])'
    <3>1. mem[forward[a]].id = mem[a].id
      BY <1>4, <2>14 DEF Moving, Image, Now
    <3>2. forward[a] < hp /\ forward[a] \in Cells
      BY <2>3, <2>9, <2>14 DEF Has, Now
    <3>3. forward'[a] < sp'
      BY <1>1, <3>2
    <3>4. \A f \in Fields : /\ mem[forward[a]][f] = Copied(Now, mem[a][f])'
                            /\ mem[a][f] = NIL \/ Has(Now, mem[a][f])'
      BY <1>1, <2>11, <2>12, <2>13, <2>14
    <3> QED
      BY <1>1, <3>1, <3>3, <3>4 DEF Image, Now
  <2>15. Moving(A, r, Now, sp)'
    <3>1. mem' \in [Cells -> Cell] /\ forward' \in [Cells -> Cells]
      BY <1>1, <2>3
    <3>2. Sound(A, mem', r)
      BY <1>1, <1>4 DEF Moving, Now
    <3>3. \A a \in A : a > HALF
      BY <1>4, <2>3, <2>5, <2>7, <2>8 DEF Moving
    <3>4. \A a \in A : ~InHeap(a)' /\ ~InTop(a)'
      BY <2>3, <2>5, <2>7, <2>8, <3>3
    <3>5. \A a \in A : forward'[a] = a \/ Has(Now, a)'
      BY <1>1, <1>4, <2>11 DEF Moving, Now
    <3>6. \A a \in A : Has(Now, a)' => Image(Now, sp, a, forward[a])'
      BY <2>11, <2>14
    <3>7. heapbase' .. hp' - 1 = {}
      <4>1. \A n \in Nat : n .. n - 1 = {}
        OBVIOUS
      <4> QED
        BY <1>1, <2>3, <2>6, <4>1
    <3>8. hp' \in heapbase' .. heapbase' + Cardinality(Objects) /\ sp' \in heapbase' .. hp'
      BY <1>1, <2>3, <2>4, <2>6
    <3> QED
      BY <3>1, <3>2, <3>4, <3>5, <3>6, <3>7, <3>8 DEF Moving, Now
  <2>16. Types'
    <3>1. heapstart' \in 0 .. Cardinality(Objects)
      BY <2>1, <2>3, <2>4
    <3>2. Fence'
      BY <2>1, <3>1 DEF Fence
    <3> QED
      BY <1>1, <1>2, <3>2 DEF Types, IsReg
  <2>17. r["topenv"] \in A \cup {NIL}
    BY <1>4 DEF Moving, Sound, Roots
  <2>18. reg["topenv"] = Copied(Now, r["topenv"]) /\ (r["topenv"] = NIL \/ Has(Now, r["topenv"]))
    BY <1>5 DEF After
  <2>19. \A x \in A \cup {NIL} : (x = NIL \/ Has(Now, x)) => Copied(Now, x) < hp /\ Copied(Now, x) \in Nat
    BY <2>3, <2>7, <2>9 DEF Has, Copied, Now, NIL
  <2>20. reg'.topenv <= heapstart'
    BY <1>1, <2>1, <2>3, <2>17, <2>18, <2>19
  <2>21. After("topenv", r)'
    BY <1>1, <2>11, <2>12, <2>17, <2>18 DEF After
  <2>22. Shut'
    <3>1. SUFFICES ASSUME NEW t \in 1 .. hp - 1, NEW f \in Fields PROVE mem[t][f] <= hp - 1
      BY <1>1, <2>1 DEF Shut
    <3>2. PICK a \in A : forward[a] = t
      BY <1>4, <2>2 DEF Moving, Now
    <3>3. Has(Now, a)
      BY <2>3, <2>9, <3>2 DEF Has, Now
    <3>4. mem[t][f] = Copied(Now, mem[a][f])
      BY <2>13, <3>2, <3>3
    <3>5. mem[t][f] < hp /\ mem[t][f] \in Nat
      BY <2>13, <2>19, <3>3, <3>4
    <3> QED
      BY <2>3, <3>5
  <2>23. CollectingFrom(A, r)'
    BY <1>1, <1>3, <1>6, <2>15, <2>20, <2>21 DEF CollectingFrom
  <2>24. EnvIsCorral(mem, reg.topenv, hp - 1)
    <3>1. SUFFICES ASSUME NEW B \in SUBSET (1 .. hp - 1), HoldsEnv(B, mem, reg.topenv), NEW t \in 1 .. hp - 1
                   PROVE  t \in B
      BY DEF EnvIsCorral
    <3> DEFINE C == {a \in A : Has(Now, a) /\ forward[a] \in B}
    <3>2. \A x \in A : Has(Now, x) => Copied(Now, x) = forward[x] /\ forward[x] # NIL /\ x # NIL
      BY <2>3, CellsFinite DEF Copied, Now
    <3>3. \A x \in A \cup {NIL} : (x = NIL \/ Has(Now, x)) /\ Copied(Now, x) \in B \cup {NIL} => x \in C \cup {NIL}
      BY <3>2
    <3>4. r.topenv \in C \cup {NIL}
      <4>1. Copied(Now, r["topenv"]) \in B \cup {NIL}
        BY <2>18, <3>1 DEF HoldsEnv
      <4> QED
        BY <2>17, <2>18, <3>3, <4>1
    <3>5. ASSUME NEW a \in C, NEW f \in Fields PROVE mem[a][f] \in C \cup {NIL}
      <4>1. mem[forward[a]][f] \in B \cup {NIL}
        BY <3>1 DEF HoldsEnv, Closed, Fields
      <4>2. /\ Copied(Now, mem[a][f]) \in B \cup {NIL}
            /\ mem[a][f] = NIL \/ Has(Now, mem[a][f])
            /\ mem[a][f] \in A \cup {NIL}
        BY <2>13, <4>1
      <4> QED
        BY <3>3, <4>2
    <3>6. HoldsEnv(C, mem, r.topenv)
      <4>1. \A a \in C : mem[a]["car"] \in C \cup {NIL} /\ mem[a]["cdr"] \in C \cup {NIL}
        BY <3>5 DEF Fields
      <4> QED
        BY <3>4, <4>1 DEF HoldsEnv, Closed
    <3>7. PICK a \in A : forward[a] = t
      BY <1>4, <2>2 DEF Moving, Now
    <3>8. Has(Now, a)
      BY <2>3, <2>9, <3>7 DEF Has, Now
    <3>9. a \in C
      BY <1>5, <3>6, <3>8 DEF EnvFirst
    <3> QED
      BY <3>7, <3>9
  <2>25. CorralIsEnv'
    BY <1>1, <2>1, <2>24 DEF CorralIsEnv
  <2> QED
    BY <1>1, <2>16, <2>22, <2>23, <2>25 DEF GoesOn, Safe
<1> QED
  BY <1>7, <1>8

\* The end of a collection: what was reached has its images, which are kept.
Kept      == {a \in Cells : InTop(a) \/ (InHeap(a) /\ a < hp)}
Taken(A) == {a \in A : Has(Now, a)}
Images(B) == {forward[b] : b \in B}

LEMMA TheImages ==
  ASSUME Inv, EndGC, NEW A, NEW r, CollectingFrom(A, r)
  PROVE  /\ Images(Taken(A)) \subseteq Kept /\ NIL \notin Images(Taken(A))
         /\ \A a \in Taken(A) : a \in A /\ a # NIL /\ forward[a] \in Images(Taken(A)) /\ forward[a] # NIL
         /\ \A a, b \in Taken(A) : forward[a] = forward[b] => a = b
         /\ \A a \in Taken(A) : /\ mem'[forward[a]].id = mem[a].id
                                 /\ mem'[forward[a]].car = Copied(Now, mem[a].car)
                                 /\ mem'[forward[a]].cdr = Copied(Now, mem[a].cdr)
                                 /\ mem[a].car \in Taken(A) \cup {NIL}
                                 /\ mem[a].cdr \in Taken(A) \cup {NIL}
         /\ \A x \in {"topenv", "S", "D", "v"} :
              reg'[x] = Copied(Now, r[x]) /\ r[x] \in Taken(A) \cup {NIL}
         /\ Sound(A, mem, r)
<1>1. /\ pc = "end" /\ sp = hp
      /\ mem' = [a \in Cells |-> IF a \in Kept THEN mem[a] ELSE Free]
      /\ UNCHANGED reg
  BY DEF EndGC, fence, Kept
<1>2. Types /\ Fence
  BY DEF Inv, Types
<1>4. Moving(A, r, Now, sp)
  BY DEF CollectingFrom
<1>5. After("topenv", r) /\ After("S", r) /\ After("D", r) /\ After("v", r)
  BY <1>1 DEF CollectingFrom
<1>6. /\ mem \in [Cells -> Cell] /\ forward \in [Cells -> Cells] /\ hp \in Nat
      /\ A \in SUBSET Cells /\ Sound(A, mem, r) /\ NIL \notin A
  <2>1. A \in SUBSET Cells
    BY <1>2, <1>4, MovingTypes
  <2>2. Sound(A, mem, r)
    BY <1>4 DEF Moving, Now
  <2> QED
    BY <1>2, <2>1, <2>2, CellsFinite DEF Types
<1>7. Images(Taken(A)) \subseteq Kept
  BY <1>6 DEF Has, LiveIn, Now, Images, Taken, Kept
<1>8. ASSUME NEW a \in Taken(A)
      PROVE  /\ mem'[forward[a]].id = mem[a].id
             /\ \A f \in Fields : /\ mem'[forward[a]][f] = Copied(Now, mem[a][f])
                                  /\ mem[a][f] \in Taken(A) \cup {NIL}
  <2>1. mem'[forward[a]] = mem[forward[a]]
    BY <1>1, <1>7 DEF Images, Kept
  <2>2. Image(Now, sp, a, forward[a])
    BY <1>4 DEF Moving, Now, Taken
  <2>3. InTop(forward[a]) \/ forward[a] < sp
    BY <1>1 DEF Has, LiveIn, Now, Taken
  <2>4. \A f \in Fields : Now.mem[a][f] \in A \cup {NIL}
    BY <1>4, InA DEF Taken
  <2> QED
    BY <2>1, <2>2, <2>3, <2>4 DEF Image, Now, Taken
<1>9. \A a, b \in Taken(A) : forward[a] = forward[b] => a = b
  <2>1. \A a, b \in Taken(A) : Now.forward[a] = Now.forward[b] => a = b
    BY <1>4, OneImage DEF Taken
  <2> QED
    BY <2>1 DEF Now
<1>10. \A x \in {"topenv", "S", "D", "v"} :
         reg'[x] = Copied(Now, r[x]) /\ r[x] \in Taken(A) \cup {NIL}
  <2>1. \A x \in {"topenv", "S", "D", "v"} : r[x] \in A \cup {NIL}
    BY <1>6 DEF Sound, Roots
  <2> QED
    BY <1>1, <1>5, <2>1 DEF After, Taken
<1>11. /\ NIL \notin Images(Taken(A))
       /\ \A a \in Taken(A) : a \in A /\ a # NIL /\ forward[a] \in Images(Taken(A)) /\ forward[a] # NIL
  BY <1>6, CellsFinite DEF Images, Taken
<1> QED
  BY <1>6, <1>7, <1>8, <1>9, <1>10, <1>11 DEF Fields

\* A collection ends: the images of what was reached are what is reached.
LEMMA EndGCSound ==
  ASSUME Inv, EndGC, NEW A, NEW r, CollectingFrom(A, r)
  PROVE  Sound(Images(Taken(A)), mem', reg')
<1> DEFINE A2 == Images(Taken(A))
<1>0. Sound(A, mem, r)
  BY TheImages
<1>1. A2 \in SUBSET Cells
  BY TheImages DEF Kept
<1>C. \A x \in Taken(A) \cup {NIL} : Copied(Now, x) \in A2 \cup {NIL}
  BY TheImages DEF Copied, Now
<1>2. \A t \in A2 : \E a \in Taken(A) : t = forward[a]
  BY DEF Images
<1>3. Roots(reg') \subseteq A2
  <2>1. \A x \in {"topenv", "S", "D", "v"} : reg'[x] = Copied(Now, r[x]) /\ r[x] \in Taken(A) \cup {NIL}
    BY TheImages
  <2>2. \A x \in {"topenv", "S", "D", "v"} : reg'[x] \in A2 \cup {NIL}
    BY <1>C, <2>1
  <2> HIDE DEF A2
  <2> QED
    BY <2>2 DEF Roots
<1>4. Closed(A2, mem')
  <2>1. SUFFICES ASSUME NEW t \in A2 PROVE mem'[t].car \in A2 \cup {NIL} /\ mem'[t].cdr \in A2 \cup {NIL}
    BY DEF Closed
  <2>2. PICK a \in Taken(A) : t = forward[a]
    BY <1>2
  <2>3. /\ mem'[t].car = Copied(Now, mem[a].car) /\ mem[a].car \in Taken(A) \cup {NIL}
        /\ mem'[t].cdr = Copied(Now, mem[a].cdr) /\ mem[a].cdr \in Taken(A) \cup {NIL}
    BY <2>2, TheImages
  <2> QED
    BY <1>C, <2>3
<1>5. \A t \in A2 : mem'[t].id \in Objects
  <2>1. SUFFICES ASSUME NEW t \in A2 PROVE mem'[t].id \in Objects
    OBVIOUS
  <2>2. PICK a \in Taken(A) : t = forward[a]
    BY <1>2
  <2>3. mem'[t].id = mem[a].id /\ a \in A
    BY <2>2, TheImages
  <2> QED
    BY <1>0, <2>3 DEF Sound
<1>6. \A t, u \in A2 : mem'[t].id = mem'[u].id => t = u
  <2>1. SUFFICES ASSUME NEW t \in A2, NEW u \in A2, mem'[t].id = mem'[u].id PROVE t = u
    OBVIOUS
  <2>2. PICK a \in Taken(A) : t = forward[a]
    BY <1>2
  <2>3. PICK b \in Taken(A) : u = forward[b]
    BY <1>2
  <2>4. mem[a].id = mem[b].id /\ a \in A /\ b \in A
    BY <2>1, <2>2, <2>3, TheImages
  <2>5. a = b
    BY <1>0, <2>4 DEF Sound
  <2> QED
    BY <2>2, <2>3, <2>5
<1> HIDE DEF A2
<1>7. Sound(A2, mem', reg')
  BY <1>1, <1>3, <1>4, <1>5, <1>6 DEF Sound
<1> QED
  BY <1>7 DEF A2

LEMMA EndGCStep ==
  ASSUME Inv, EndGC, UNCHANGED kind
  PROVE  Safe' /\ Running' /\ pc' = "run"
<1>1. /\ pc = "end" /\ sp = hp
      /\ mem' = [a \in Cells |-> IF a \in Kept THEN mem[a] ELSE Free]
      /\ forward' = [a \in Cells |-> a]
      /\ sp' = 0 /\ pc' = "run"
      /\ UNCHANGED <<hp, reg, half, heapstart, topend, topchg, kind>>
  BY DEF EndGC, fence, Kept
<1>2. Types /\ Fence /\ Collecting /\ Shut /\ CorralIsEnv
  BY <1>1 DEF Inv, Types
<1>3. PICK A, r : CollectingFrom(A, r)
  BY <1>2 DEF Collecting
<1>4. Moving(A, r, Now, sp) /\ (topend => reg.topenv <= heapstart)
  BY <1>3 DEF CollectingFrom
<1>B. PICK B : B = Images(Taken(A))
  OBVIOUS
<1>5. Sound(B, mem', reg') /\ B \subseteq Kept
  BY <1>3, <1>B, EndGCSound, TheImages
<1>6. /\ heapbase' = heapbase
      /\ \A a : InTop(a)' <=> InTop(a)
      /\ \A a : InHeap(a)' <=> InHeap(a)
  BY <1>1, SameFence
<1>7. Types'
  <2>1. Free \in Cell
    BY DEF Free, Cell
  <2>2. mem' \in [Cells -> Cell] /\ forward' \in [Cells -> Cells]
    BY <1>1, <1>2, <2>1 DEF Types
  <2> QED
    BY <1>1, <1>2, <2>2 DEF Types, Fence, IsReg
<1>8. Shut' /\ CorralIsEnv'
  <2>1. ASSUME topend, NEW a \in 1 .. heapstart PROVE mem'[a] = mem[a]
    <3>1. a \in Cells /\ InTop(a)
      BY <1>2, <2>1, CorralCells DEF InTop
    <3> QED
      BY <1>1, <3>1 DEF Kept
  <2> QED
    BY <1>1, <1>2, <2>1, SameCorral
<1>9. \A t \in B : LiveIn(Now, t)'
  BY <1>1, <1>5, <1>6 DEF LiveIn, Now, Kept
<1>10. hp' \in heapbase' .. heapbase' + LIMIT
  <2>1. hp \in heapbase .. heapbase + Cardinality(Objects)
    BY <1>4 DEF Moving, Now
  <2>2. heapbase \in Nat /\ LIMIT \in Nat /\ LIMIT >= Cardinality(Objects) /\ Cardinality(Objects) \in Nat
    BY <1>2, Places, CollectorAssumption
  <2> QED
    BY <1>1, <1>6, <2>1, <2>2
<1>11. /\ \A a \in Cells : forward'[a] = a
       /\ topend' => reg'.topenv <= heapstart'
  BY <1>1, <1>4
<1>12. Running'
  BY <1>5, <1>7, <1>9, <1>10, <1>11, StillRunning
<1> QED
  BY <1>1, <1>7, <1>8, <1>12 DEF Safe

-----------------------------------------------------------------------------
(* The invariant holds. *)

LEMMA InitInv ==
  ASSUME Init
  PROVE  Inv
<1>1. PICK o \in Objects :
        /\ mem = [a \in Cells |-> IF a = 1 THEN [id |-> o, car |-> NIL, cdr |-> NIL] ELSE Free]
        /\ forward = [a \in Cells |-> a] /\ hp = 2
        /\ reg = [topenv |-> 1, S |-> NIL, D |-> NIL, v |-> NIL]
        /\ half = "low" /\ heapstart = 0 /\ topend = FALSE /\ topchg = FALSE
        /\ sp = 0 /\ pc = "run" /\ kind \in Kinds
  BY DEF Init
<1>2. Cardinality(Objects) \in Nat
  BY CollectorAssumption, FS_CardinalityType
<1>3. Fence
  <2>1. 0 \in 0 .. Cardinality(Objects)
    BY <1>2
  <2> QED
    BY <1>1, <2>1 DEF Fence
<1>4. 1 \in Cells /\ HALF >= 1 /\ HALF \in Nat
  BY CellsFinite DEF Cells
<1>5. LIMIT \in Nat /\ LIMIT >= 1
  BY <1>2, <1>3, CollectorAssumption, Places
<1>6. mem \in [Cells -> Cell] /\ forward \in [Cells -> Cells]
  BY <1>1 DEF Cell, Free
<1>7. IsReg(reg) /\ Roots(reg) = {1}
  BY <1>1, <1>4 DEF IsReg, Roots, NIL
<1>8. Types
  BY <1>1, <1>3, <1>6, <1>7 DEF Types
<1>9. Sound({1}, mem, reg)
  <2>1. mem[1] = [id |-> o, car |-> NIL, cdr |-> NIL]
    BY <1>1, <1>4
  <2>2. Closed({1}, mem)
    BY <2>1 DEF Closed
  <2> QED
    BY <1>1, <1>4, <1>7, <2>1, <2>2 DEF Sound
<1> DEFINE R == Closure(mem)[Roots(reg)]
<1>10. Reach = R
  BY ReachIsClosure
<1>11. R \subseteq {1} /\ Sound(R, mem, reg)
  BY <1>6, <1>9, AllLinked, Shrink
<1> HIDE DEF R
<1>12. \A a \in Reach : LiveIn(Now, a)
  BY <1>1, <1>4, <1>10, <1>11 DEF LiveIn, InHeap, InTop, heapbase, Now
<1>14. Sound(Reach, mem, reg)
  BY <1>10, <1>11
<1>15. hp \in heapbase .. heapbase + LIMIT
  BY <1>1, <1>5 DEF heapbase
<1>16. Running
  BY <1>1, <1>12, <1>14, <1>15 DEF Running
<1> QED
  BY <1>1, <1>8, <1>16 DEF Inv, Shut, CorralIsEnv

LEMMA CollectorStep ==
  ASSUME Inv, GC, UNCHANGED kind
  PROVE  \/ GCStep
         \/ EndGC /\ Safe' /\ Running' /\ pc' = "run"
<1>1. CASE KeepTop
  BY <1>1, KeepTopStep
<1>2. CASE GiveUpTop
  BY <1>2, GiveUpTopStep
<1>3. CASE Expand
  BY <1>3, ExpandStep
<1>4. CASE BuildCorral
  BY <1>4, BuildCorralStep
<1>5. CASE EndGC
  BY <1>5, EndGCStep
<1>6. CASE CopyRoot("topenv", "corral")
  BY <1>6, CopyRootStep
<1>7. CASE CopyRoot("S", "D")
  BY <1>7, CopyRootStep
<1>8. CASE CopyRoot("D", "v")
  BY <1>8, CopyRootStep
<1>9. CASE CopyRoot("v", "end")
  BY <1>9, CopyRootStep
<1> QED
  BY <1>1, <1>2, <1>3, <1>4, <1>5, <1>6, <1>7, <1>8, <1>9 DEF GC

LEMMA ProgramRuns ==
  ASSUME Program
  PROVE  pc = "run"
<1>1. CASE Instruction
  BY <1>1 DEF Instruction, Push, Cons, BindRest, MkPair, Pop, SetTop, MakeCC, Error, Bind, Continue, Load, Assign
<1> QED
  BY <1>1 DEF Program, EvalC, MkPair, End

LEMMA StillCollecting ==
  ASSUME UNCHANGED vars, NEW A, NEW r, CollectingFrom(A, r)
  PROVE  CollectingFrom(A, r)'
<1>1. UNCHANGED <<mem, forward, hp, reg, half, heapstart, topend, sp, pc>>
  BY DEF vars, heap, fence
<1> DEFINE h == Now
<1>2. mem' = h.mem /\ forward' = h.forward /\ hp' = h.hp /\ sp' = sp
  BY <1>1 DEF Now
<1>3. Moving(A, r, h, sp)
  BY DEF CollectingFrom
<1> HIDE DEF h
<1>4. /\ Moving(A, r, Now, sp)'
      /\ \A b : Has(Now, b)' <=> Has(h, b)
      /\ \A y : Copied(Now, y)' = Copied(h, y)
  BY <1>1, <1>2, <1>3, Frame
<1>5. \A x : (After(x, r) => After(x, r)') /\ (Before(x, r) => Before(x, r)')
  BY <1>1, <1>4 DEF After, Before, h
<1>6. Minimal(A, mem', r) /\ (EnvFirst(A, mem, r, Now) => EnvFirst(A, mem, r, Now)')
  <2>1. \A b : Has(Now, b)' <=> Has(Now, b)
    BY <1>4 DEF h
  <2> QED
    BY <1>1, <2>1 DEF CollectingFrom, EnvFirst
<1> QED
  BY <1>1, <1>4, <1>5, <1>6 DEF CollectingFrom

LEMMA Stutter ==
  ASSUME Inv, UNCHANGED vars
  PROVE  Inv'
<1>1. UNCHANGED <<mem, forward, hp, reg, half, heapstart, topend, topchg, sp, pc, kind>>
  BY DEF vars, heap, fence
<1>2. Types' /\ Shut' /\ CorralIsEnv'
  <2>1. Types'
    BY <1>1 DEF Inv, Types, Fence, IsReg
  <2> QED
    BY <1>1, <2>1, SameCorral DEF Inv
<1>3. CASE pc = "run"
  <2>1. Sound(Reach, mem, reg)
    BY <1>3 DEF Inv, Running
  <2>2. PICK A : A = Reach
    OBVIOUS
  <2>3. Sound(A, mem', reg')
    BY <1>1, <2>1, <2>2
  <2>4. /\ heapbase' = heapbase
        /\ \A a : InTop(a)' <=> InTop(a)
        /\ \A a : InHeap(a)' <=> InHeap(a)
    BY <1>1, SameFence
  <2>5. \A a \in A : LiveIn(Now, a)'
    BY <1>1, <1>3, <2>2, <2>4 DEF Inv, Running, LiveIn, Now
  <2>7. /\ \A a \in Cells : forward'[a] = a
        /\ hp' \in heapbase' .. heapbase' + LIMIT
        /\ topend' => reg'.topenv <= heapstart'
    BY <1>1, <1>3, <2>4 DEF Inv, Running
  <2>8. Running'
    BY <1>2, <2>3, <2>5, <2>7, StillRunning
  <2> QED
    BY <1>1, <1>2, <1>3, <2>8 DEF Inv
<1>4. CASE pc # "run"
  <2>1. PICK A, r : CollectingFrom(A, r)
    BY <1>4 DEF Inv, Collecting
  <2>2. CollectingFrom(A, r)'
    BY <2>1, StillCollecting
  <2> QED
    BY <1>1, <1>2, <1>4, <2>2 DEF Inv, Collecting
<1> QED
  BY <1>3, <1>4

LEMMA NextInv ==
  ASSUME Inv, TopApart, [Next]_vars
  PROVE  Inv'
<1>1. CASE Program /\ UNCHANGED kind
  BY <1>1, ProgramRuns, ProgramStep DEF RunStep, Inv
<1>2. CASE GC /\ UNCHANGED kind
  BY <1>2, CollectorStep, StaysCollecting DEF GCStep, Safe, Inv
<1>3. CASE UNCHANGED vars
  BY <1>3, Stutter
<1> QED
  BY <1>1, <1>2, <1>3 DEF Next, Remember, Collect

LEMMA InvTypeOK ==
  ASSUME Inv, PastTypes
  PROVE  TypeOK
<1>1. Types /\ Fence
  BY DEF Inv, Types
<1>2. /\ heapbase \in Nat /\ Cardinality(Objects) \in Nat /\ LIMIT \in Nat
      /\ HALF = LIMIT + Cardinality(Objects)
  BY <1>1, Places, CollectorAssumption DEF HALF
<1>3. heapstart \in 0 .. HALF
  BY <1>1, <1>2 DEF Fence
<1>4. CASE pc = "run"
  <2>1. hp \in heapbase .. heapbase + HALF
    BY <1>2, <1>4 DEF Inv, Running
  <2> QED
    BY <1>1, <1>3, <1>4, <2>1 DEF TypeOK, PastTypes, Types, Fence, IsReg, Cell
<1>5. CASE pc # "run"
  <2>1. PICK A, r : Moving(A, r, Now, sp)
    BY <1>5 DEF Inv, Collecting, CollectingFrom
  <2>2. hp \in heapbase .. heapbase + Cardinality(Objects) /\ sp \in heapbase .. hp
    BY <2>1 DEF Moving, Now
  <2>3. hp \in heapbase .. heapbase + HALF
    BY <1>2, <2>2
  <2> QED
    BY <1>1, <1>3, <2>2, <2>3 DEF TypeOK, PastTypes, Types, Fence, IsReg, Cell
<1> QED
  BY <1>4, <1>5

LEMMA StepIsMarked ==
  ASSUME Inv, TopApart, [Next]_vars, pc = "run", topend, ~topchg'
  PROVE  \A a \in 1 .. heapstart : mem'[a] = mem[a]
<1>1. CASE Program /\ UNCHANGED kind
  BY <1>1, ProgramStep DEF RunStep, Marked
<1>2. CASE GC /\ UNCHANGED kind
  BY <1>2 DEF GC, KeepTop, GiveUpTop, Expand, BuildCorral, EndGC, CopyRoot
<1>3. CASE UNCHANGED vars
  BY <1>3 DEF vars, heap
<1> QED
  BY <1>1, <1>2, <1>3 DEF Next, Remember, Collect

-----------------------------------------------------------------------------
(* What a collection shows.  While cells are copied, a cell that is reached *)
(* is one of A or the copy of one: its twin there.                         *)

Twins(t, o) ==
  /\ mem[t].id = mem[o].id
  /\ \A f \in Fields : Id(mem[t][f]) = Id(mem[o][f]) /\ (mem[t][f] = NIL <=> mem[o][f] = NIL)

LEMMA EveryTwin ==
  ASSUME Types, NEW A, NEW r, CollectingFrom(A, r)
  PROVE  /\ \A t \in Reach : \E o \in A : Twins(t, o)
         /\ \A o \in A : \E t \in Reach : Twins(t, o)
         /\ Reach \in SUBSET Cells
<1>1. Moving(A, r, Now, sp) /\ Fence /\ Minimal(A, mem, r)
  BY DEF CollectingFrom, Types
<1>2. /\ mem \in [Cells -> Cell] /\ forward \in [Cells -> Cells]
      /\ A \in SUBSET Cells /\ Sound(A, mem, r) /\ NIL \notin A
  <2>1. A \in SUBSET Cells
    BY <1>1, MovingTypes
  <2>2. Sound(A, mem, r)
    BY <1>1 DEF Moving, Now
  <2> QED
    BY <2>1, <2>2, CellsFinite DEF Types
<1> DEFINE copied == {a \in A : Has(Now, a)}
           Copies == {forward[a] : a \in copied}
<1>3. ASSUME NEW a \in copied
      PROVE  /\ forward[a] \in Cells /\ forward[a] # NIL
             /\ mem[forward[a]].id = mem[a].id
             /\ \/ \A f \in Fields : /\ mem[forward[a]][f] = Copied(Now, mem[a][f])
                                     /\ mem[a][f] \in copied \cup {NIL}
                \/ \A f \in Fields : /\ mem[forward[a]][f] = mem[a][f]
                                     /\ mem[a][f] \in A \cup {NIL}
  <2>1. Image(Now, sp, a, forward[a])
    BY <1>1 DEF Moving, Now
  <2>2. \A f \in Fields : Now.mem[a][f] \in A \cup {NIL}
    BY <1>1, InA
  <2>3. forward[a] \in Cells /\ forward[a] # NIL
    BY <1>2, CellsFinite
  <2> QED
    BY <2>1, <2>2, <2>3 DEF Image, Now
<1>4. ASSUME NEW x \in copied \cup {NIL}
      PROVE  /\ Copied(Now, x) \in Copies \cup {NIL}
             /\ Id(Copied(Now, x)) = Id(x) /\ (Copied(Now, x) = NIL <=> x = NIL)
  BY <1>2, <1>3 DEF Copied, Now, Id
<1>5. \A x \in {"topenv", "S", "D", "v"} :
        /\ r[x] \in A \cup {NIL}
        /\ \/ reg[x] = r[x]
           \/ reg[x] = Copied(Now, r[x]) /\ r[x] \in copied \cup {NIL}
  <2>1. \A x \in {"topenv", "S", "D", "v"} : r[x] \in A \cup {NIL}
    BY <1>2 DEF Sound, Roots
  <2>2. \A x \in {"topenv", "S", "D", "v"} : Before(x, r) \/ After(x, r)
    BY DEF CollectingFrom
  <2> QED
    BY <2>1, <2>2 DEF Before, After
<1>6. ASSUME NEW t \in A \cup Copies PROVE \E o \in A : Twins(t, o)
  <2>1. CASE t \in A
    BY <2>1 DEF Twins
  <2>2. CASE t \in Copies
    <3>1. PICK a \in copied : t = forward[a]
      BY <2>2
    <3>2. CASE \A f \in Fields : /\ mem[forward[a]][f] = Copied(Now, mem[a][f])
                                 /\ mem[a][f] \in copied \cup {NIL}
      <4>1. \A f \in Fields : Id(mem[t][f]) = Id(mem[a][f]) /\ (mem[t][f] = NIL <=> mem[a][f] = NIL)
        BY <1>4, <3>1, <3>2
      <4> QED
        BY <1>3, <3>1, <4>1 DEF Twins
    <3>3. CASE \A f \in Fields : mem[forward[a]][f] = mem[a][f]
      BY <1>3, <3>1, <3>3 DEF Twins
    <3> QED
      BY <1>3, <3>2, <3>3
  <2> QED
    BY <2>1, <2>2
<1>7. A \cup Copies \in SUBSET Cells
  BY <1>2, <1>3
<1>8. ASSUME NEW t \in A \cup Copies, NEW f \in Fields PROVE mem[t][f] \in A \cup Copies \cup {NIL}
  <2>1. CASE t \in A
    <3>1. Now.mem[t][f] \in A \cup {NIL}
      BY <1>1, <2>1, InA
    <3> QED
      BY <3>1 DEF Now
  <2>2. CASE t \in Copies
    BY <1>3, <1>4, <2>2
  <2> QED
    BY <2>1, <2>2
<1> HIDE DEF copied, Copies
<1>9. /\ Reach \in SUBSET Cells /\ Roots(reg) \subseteq Reach /\ Closed(Reach, mem)
      /\ \A B \in SUBSET Cells : Roots(reg) \subseteq B /\ Closed(B, mem) => Reach \subseteq B
  <2>1. Linked(mem) /\ Roots(reg) \in SUBSET Cells
    BY <1>2, AllLinked DEF Types, IsReg, Roots
  <2> QED
    BY <2>1, ReachIsClosure, Leads
<1>10. Reach \subseteq A \cup Copies
  <2>1. Roots(reg) \subseteq A \cup Copies
    BY <1>4, <1>5 DEF Roots
  <2>2. Closed(A \cup Copies, mem)
    BY <1>8 DEF Closed, Fields
  <2> QED
    BY <1>7, <1>9, <2>1, <2>2
<1> DEFINE X == {o \in A : o \in Reach \/ (o \in copied /\ forward[o] \in Reach)}
<1>11. Roots(r) \subseteq X
  <2>1. ASSUME NEW x \in {"topenv", "S", "D", "v"}, r[x] # NIL PROVE r[x] \in X
    <3>1. reg[x] \in Reach \cup {NIL}
      BY <1>9 DEF Roots
    <3>2. CASE reg[x] = r[x]
      BY <1>5, <2>1, <3>1, <3>2
    <3>3. CASE reg[x] = Copied(Now, r[x]) /\ r[x] \in copied \cup {NIL}
      <4>1. reg[x] = forward[r[x]] /\ reg[x] # NIL /\ r[x] \in copied
        BY <1>4, <2>1, <3>3 DEF Copied, Now
      <4> QED
        BY <1>5, <2>1, <3>1, <4>1
    <3> QED
      BY <1>5, <3>2, <3>3
  <2> QED
    BY <2>1 DEF Roots
<1>12. ASSUME NEW o \in X, NEW f \in Fields PROVE mem[o][f] \in X \cup {NIL}
  <2>1. mem[o][f] \in A \cup {NIL}
    <3>1. Now.mem[o][f] \in A \cup {NIL}
      BY <1>1, InA
    <3> QED
      BY <3>1 DEF Now
  <2>2. CASE o \in Reach
    <3>1. mem[o][f] \in Reach \cup {NIL}
      BY <1>9, <2>2 DEF Closed, Fields
    <3> QED
      BY <2>1, <3>1
  <2>3. CASE o \in copied /\ forward[o] \in Reach
    <3>1. mem[forward[o]][f] \in Reach \cup {NIL}
      BY <1>9, <2>3 DEF Closed, Fields
    <3>2. CASE mem[forward[o]][f] = mem[o][f]
      BY <2>1, <3>1, <3>2
    <3>3. CASE mem[forward[o]][f] = Copied(Now, mem[o][f]) /\ mem[o][f] \in copied \cup {NIL}
      <4>1. mem[o][f] = NIL \/ (mem[forward[o]][f] = forward[mem[o][f]] /\ mem[forward[o]][f] # NIL)
        BY <1>4, <3>3 DEF Copied, Now
      <4> QED
        BY <2>1, <3>1, <3>3, <4>1
    <3> QED
      BY <1>3, <2>3, <3>2, <3>3
  <2> QED
    BY <2>2, <2>3
<1>13. X = A
  <2>1. Closed(X, mem)
    <3>1. \A o \in X : mem[o].car \in X \cup {NIL} /\ mem[o].cdr \in X \cup {NIL}
      BY <1>12 DEF Fields
    <3> HIDE DEF X
    <3> QED
      BY <3>1 DEF Closed
  <2>2. X \in SUBSET A
    OBVIOUS
  <2> HIDE DEF X
  <2> QED
    BY <1>1, <1>11, <2>1, <2>2 DEF Minimal
<1>14. ASSUME NEW o \in A PROVE \E t \in Reach : Twins(t, o)
  <2>1. CASE o \in Reach
    BY <2>1 DEF Twins
  <2>2. CASE o \in copied /\ forward[o] \in Reach
    <3>1. CASE \A f \in Fields : /\ mem[forward[o]][f] = Copied(Now, mem[o][f])
                                 /\ mem[o][f] \in copied \cup {NIL}
      <4>1. \A f \in Fields : Id(mem[forward[o]][f]) = Id(mem[o][f])
                              /\ (mem[forward[o]][f] = NIL <=> mem[o][f] = NIL)
        BY <1>4, <3>1
      <4> QED
        BY <1>3, <2>2, <4>1 DEF Twins
    <3>2. CASE \A f \in Fields : mem[forward[o]][f] = mem[o][f]
      BY <1>3, <2>2, <3>2 DEF Twins
    <3> QED
      BY <1>3, <2>2, <3>1, <3>2
  <2> QED
    BY <1>13, <2>1, <2>2
<1> QED
  BY <1>6, <1>9, <1>10, <1>14

\* The collector's view of things in terms of what it began with.
ShownBy(A, m) ==
  LET id(x) == IF x = NIL THEN NIL ELSE m[x].id
  IN  {<<m[a].id, id(m[a].car), id(m[a].cdr)>> : a \in A}

LEMMA Shown ==
  ASSUME Types, NEW A, NEW r, CollectingFrom(A, r)
  PROVE  Seen = ShownBy(A, mem)
<1> DEFINE See(a) == <<Id(a), Id(mem[a].car), Id(mem[a].cdr)>>
           Obj(a) == <<mem[a].id, Id(mem[a].car), Id(mem[a].cdr)>>
<1>1. /\ \A t \in Reach : \E o \in A : Twins(t, o)
      /\ \A o \in A : \E t \in Reach : Twins(t, o)
      /\ Reach \in SUBSET Cells
  BY EveryTwin
<1>2. ShownBy(A, mem) = {Obj(a) : a \in A}
  BY DEF ShownBy, Id
<1>3. NIL \notin Cells
  BY CellsFinite
<1>4. Seen = {Obj(a) : a \in Reach}
  <2>1. \A a \in Reach : See(a) = Obj(a)
    BY <1>1, <1>3 DEF Id
  <2>2. Seen = {See(a) : a \in Reach}
    BY DEF Seen
  <2> QED
    BY <2>1, <2>2
<1>5. \A t, o : Twins(t, o) => Obj(t) = Obj(o)
  BY DEF Twins, Fields
<1> HIDE DEF Obj
<1>6. {Obj(a) : a \in Reach} = {Obj(a) : a \in A}
  BY <1>1, <1>5
<1> QED
  BY <1>2, <1>4, <1>6

\* Cells of one object agree about it, at every step of a collection.
LEMMA Alike ==
  ASSUME Inv, NEW a \in Reach, NEW b \in Reach, mem[a].id = mem[b].id
  PROVE  /\ pc = "run" => a = b
         /\ \A f \in Fields : Id(mem[a][f]) = Id(mem[b][f]) /\ (mem[a][f] = NIL <=> mem[b][f] = NIL)
<1>1. CASE pc = "run"
  <2>1. Sound(Reach, mem, reg)
    BY <1>1 DEF Inv, Running
  <2>2. \A c, d \in Reach : mem[c].id = mem[d].id => c = d
    BY <2>1 DEF Sound
  <2> QED
    BY <2>2
<1>2. CASE pc # "run"
  <2>1. PICK A, r : CollectingFrom(A, r)
    BY <1>2 DEF Inv, Collecting
  <2>2. Types
    BY DEF Inv
  <2>3. \A t \in Reach : \E o \in A : Twins(t, o)
    BY <2>1, <2>2, EveryTwin
  <2>4. PICK o \in A : Twins(a, o)
    BY <2>3
  <2>5. PICK p \in A : Twins(b, p)
    BY <2>3
  <2>6. \A c, d \in A : mem[c].id = mem[d].id => c = d
    BY <2>1 DEF CollectingFrom, Moving, Sound, Now
  <2>7. o = p
    BY <2>4, <2>5, <2>6 DEF Twins
  <2> QED
    BY <1>2, <2>4, <2>5, <2>7 DEF Twins
<1> QED
  BY <1>1, <1>2

\* The program never meets two copies of one object; the copies that there
\* are during a collection agree with the originals.
LEMMA InvOneCopy ==
  ASSUME Inv
  PROVE  OneCopy
BY Alike DEF OneCopy, Id

-----------------------------------------------------------------------------
(* No step of a collection shows. *)

RegBy(r, m) == [x \in {"topenv", "S", "D", "v"} |-> IF r[x] = NIL THEN NIL ELSE m[r[x]].id]

\* The program sees the cells and the registers the collection began with.
AsBegun ==
  /\ SeenReg = RegBy(reg, mem)
  /\ Seen = ShownBy(Reach, mem)
  /\ \A A, r : CollectingFrom(A, r) => SeenReg = RegBy(r, mem) /\ Seen = ShownBy(A, mem)

LEMMA InvAsBegun ==
  ASSUME Inv
  PROVE  AsBegun
<1>1. Types /\ DOMAIN reg = {"topenv", "S", "D", "v"}
  BY DEF Inv, Types, IsReg
<1>2. SeenReg = RegBy(reg, mem)
  BY <1>1 DEF SeenReg, RegBy, Id
<1>3. Reach \in SUBSET Cells
  <2>1. Linked(mem) /\ Roots(reg) \in SUBSET Cells
    BY <1>1, AllLinked DEF Types, IsReg, Roots
  <2> QED
    BY <2>1, ReachIsClosure, Leads
<1>4. Seen = ShownBy(Reach, mem)
  <2>1. \A a \in Reach : Id(a) = mem[a].id
    BY <1>3, CellsFinite DEF Id
  <2> QED
    BY <2>1 DEF Seen, ShownBy, Id
<1>5. ASSUME NEW A, NEW r, CollectingFrom(A, r)
      PROVE  SeenReg = RegBy(r, mem) /\ Seen = ShownBy(A, mem)
  <2>1. Moving(A, r, Now, sp)
    BY <1>5 DEF CollectingFrom
  <2>2. A \in SUBSET Cells /\ Roots(r) \subseteq A
    BY <2>1, MovingTypes, <1>1 DEF Moving, Sound
  <2>3. \A x \in {"topenv", "S", "D", "v"} : Before(x, r) \/ After(x, r)
    BY <1>5 DEF CollectingFrom
  <2>4. ASSUME NEW x \in {"topenv", "S", "D", "v"}
        PROVE  Id(reg[x]) = IF r[x] = NIL THEN NIL ELSE mem[r[x]].id
    <3>1. CASE r[x] = NIL \/ reg[x] = r[x]
      BY <2>3, <3>1 DEF Before, After, Copied, Id
    <3>2. CASE r[x] # NIL /\ reg[x] # r[x]
      <4>1. r[x] \in A /\ reg[x] = forward[r[x]] /\ Has(Now, r[x])
        BY <2>2, <2>3, <3>2 DEF Before, After, Copied, Now, Roots
      <4>2. Image(Now, sp, r[x], forward[r[x]])
        BY <2>1, <4>1 DEF Moving, Now
      <4>3. forward[r[x]] # NIL
        BY <1>1, <2>2, <4>1, CellsFinite DEF Types
      <4> QED
        BY <3>2, <4>1, <4>2, <4>3 DEF Image, Id, Now
    <3> QED
      BY <3>1, <3>2
  <2>5. SeenReg = RegBy(r, mem)
    BY <1>1, <2>4 DEF SeenReg, RegBy
  <2> QED
    BY <1>1, <1>5, <2>5, Shown
<1> QED
  BY <1>2, <1>4, <1>5 DEF AsBegun

\* What was the same in all cells of a closed set shows the same.
LEMMA SameShows ==
  ASSUME NEW A, NEW m, NEW n, NEW r, Closed(A, m), Roots(r) \subseteq A, \A a \in A : n[a] = m[a]
  PROVE  ShownBy(A, n) = ShownBy(A, m) /\ RegBy(r, n) = RegBy(r, m)
<1> DEFINE Id1(x) == IF x = NIL THEN NIL ELSE m[x].id
           Id2(x) == IF x = NIL THEN NIL ELSE n[x].id
<1>1. \A x \in A \cup {NIL} : Id1(x) = Id2(x)
  OBVIOUS
<1>2. \A a \in A : m[a].car \in A \cup {NIL} /\ m[a].cdr \in A \cup {NIL} /\ n[a] = m[a]
  BY DEF Closed
<1>3. \A x \in {"topenv", "S", "D", "v"} : r[x] \in A \cup {NIL}
  BY DEF Roots
<1>4. ShownBy(A, m) = {<<m[a].id, Id1(m[a].car), Id1(m[a].cdr)>> : a \in A}
  BY DEF ShownBy
<1>5. ShownBy(A, n) = {<<n[a].id, Id2(n[a].car), Id2(n[a].cdr)>> : a \in A}
  BY DEF ShownBy
<1>6. RegBy(r, m) = [x \in {"topenv", "S", "D", "v"} |-> Id1(r[x])]
  BY DEF RegBy
<1>7. RegBy(r, n) = [x \in {"topenv", "S", "D", "v"} |-> Id2(r[x])]
  BY DEF RegBy
<1> HIDE DEF Id1, Id2
<1>8. \A a \in A : /\ n[a].id = m[a].id
                   /\ Id2(n[a].car) = Id1(m[a].car) /\ Id2(n[a].cdr) = Id1(m[a].cdr)
  BY <1>1, <1>2
<1>9. ShownBy(A, n) = ShownBy(A, m)
  BY <1>4, <1>5, <1>8
<1> QED
  BY <1>1, <1>3, <1>6, <1>7, <1>9

\* The end of a collection keeps all that is reached.
LEMMA EndGCKeeps ==
  ASSUME Inv, EndGC
  PROVE  /\ Reach \in SUBSET Cells /\ Closed(Reach, mem) /\ Roots(reg) \subseteq Reach
         /\ \A a \in Reach : mem'[a] = mem[a]
         /\ Reach' = Reach
<1> DEFINE kept == {a \in Cells : InTop(a) \/ (InHeap(a) /\ a < hp)}
<1>1. /\ pc = "end" /\ sp = hp /\ reg' = reg
      /\ mem' = [a \in Cells |-> IF a \in kept THEN mem[a] ELSE Free]
  BY DEF EndGC
<1>2. Types /\ Fence /\ Collecting
  BY <1>1 DEF Inv, Types
<1>3. PICK A, r : CollectingFrom(A, r)
  BY <1>2 DEF Collecting
<1>4. Moving(A, r, Now, sp)
  BY <1>3 DEF CollectingFrom
<1>5. After("topenv", r) /\ After("S", r) /\ After("D", r) /\ After("v", r)
  BY <1>1, <1>3 DEF CollectingFrom
<1>6. /\ mem \in [Cells -> Cell] /\ forward \in [Cells -> Cells]
      /\ A \in SUBSET Cells /\ Sound(A, mem, r)
  <2>1. A \in SUBSET Cells
    BY <1>2, <1>4, MovingTypes
  <2> QED
    BY <1>2, <1>4, <2>1 DEF Moving, Now, Types
<1> DEFINE copied == {a \in A : Has(Now, a)}
           A2 == {forward[a] : a \in copied}
<1>7. A2 \subseteq kept /\ A2 \in SUBSET Cells
  BY <1>6 DEF Has, LiveIn, Now
<1>8. ASSUME NEW a \in copied, NEW f \in Fields
      PROVE  mem[forward[a]][f] \in A2 \cup {NIL}
  <2>1. Image(Now, sp, a, forward[a])
    BY <1>4 DEF Moving, Now
  <2>2. InTop(forward[a]) \/ forward[a] < sp
    BY <1>1 DEF Has, LiveIn, Now
  <2>3. Now.mem[a][f] \in A \cup {NIL}
    BY <1>4, InA
  <2> QED
    BY <2>1, <2>2, <2>3 DEF Image, Now, Copied
<1>9. Closed(A2, mem)
  <2>1. \A t \in A2 : mem[t].car \in A2 \cup {NIL} /\ mem[t].cdr \in A2 \cup {NIL}
    BY <1>8 DEF Fields
  <2> HIDE DEF A2
  <2> QED
    BY <2>1 DEF Closed
<1>10. Roots(reg) \subseteq A2
  <2>1. \A x \in {"topenv", "S", "D", "v"} : r[x] \in A \cup {NIL}
    BY <1>6 DEF Sound, Roots
  <2>2. \A x \in {"topenv", "S", "D", "v"} : reg[x] \in A2 \cup {NIL}
    BY <1>5, <2>1 DEF After, Copied, Now
  <2> HIDE DEF A2
  <2> QED
    BY <2>2 DEF Roots
<1>11. \A t \in A2 : mem'[t] = mem[t]
  BY <1>1, <1>7
<1> HIDE DEF A2, kept
<1>12. /\ Linked(mem) /\ Linked(mem') /\ Roots(reg) \in SUBSET Cells
  <2>1. Free \in Cell
    BY DEF Free, Cell
  <2>2. mem' \in [Cells -> Cell]
    BY <1>1, <1>6, <2>1
  <2> QED
    BY <1>2, <1>6, <2>2, AllLinked DEF Types, IsReg, Roots
<1>13. Reach = Closure(mem)[Roots(reg)]
  BY ReachIsClosure
<1>14. Reach' = Closure(mem')[Roots(reg)]
  <2>1. Reach' = Closure(mem')[Roots(reg')]
    BY DEF Reach, ReachFrom, Closure, Roots
  <2> QED
    BY <1>1, <2>1
<1>15. /\ Reach \in SUBSET Cells /\ Roots(reg) \subseteq Reach /\ Closed(Reach, mem)
       /\ \A B \in SUBSET Cells : Roots(reg) \subseteq B /\ Closed(B, mem) => Reach \subseteq B
  BY <1>12, <1>13, Leads
<1>16. /\ Reach' \in SUBSET Cells /\ Roots(reg) \subseteq Reach' /\ Closed(Reach', mem')
       /\ \A B \in SUBSET Cells : Roots(reg) \subseteq B /\ Closed(B, mem') => Reach' \subseteq B
  BY <1>12, <1>14, Leads
<1>17. Reach \subseteq A2
  BY <1>7, <1>9, <1>10, <1>15
<1>18. Closed(Reach, mem')
  BY <1>11, <1>15, <1>17 DEF Closed
<1>19. Reach' \subseteq Reach
  BY <1>15, <1>16, <1>18
<1>20. Closed(Reach', mem)
  BY <1>11, <1>16, <1>17, <1>19 DEF Closed
<1>21. Reach \subseteq Reach'
  BY <1>15, <1>16, <1>20
<1> QED
  BY <1>11, <1>15, <1>17, <1>19, <1>21

LEMMA StepShowsNothing ==
  ASSUME Inv, TopApart, AsBegun, AsBegun', [Next]_vars, pc # "run" \/ pc' # "run"
  PROVE  UNCHANGED <<SeenReg, Seen>>
<1>1. CASE Program /\ UNCHANGED kind
  BY <1>1, ProgramRuns, ProgramStep DEF RunStep
<1>2. CASE UNCHANGED vars
  <2>1. mem' = mem /\ reg' = reg
    BY <1>2 DEF vars, heap
  <2>2. Reach' = Closure(mem')[Roots(reg')] /\ Reach = Closure(mem)[Roots(reg)]
    BY DEF Reach, ReachFrom, Closure, Roots
  <2>3. Reach' = Reach
    BY <2>1, <2>2
  <2> QED
    BY <2>1, <2>3 DEF AsBegun
<1>3. CASE GCStep /\ pc = "run"
  <2>1. PICK A, r : A = Reach /\ r = reg /\ mem' = mem /\ CollectingFrom(A, r)'
    BY <1>3 DEF GCStep, Begins
  <2>2. SeenReg' = RegBy(r, mem') /\ Seen' = ShownBy(A, mem')
    BY <2>1 DEF AsBegun
  <2> QED
    BY <2>1, <2>2 DEF AsBegun
<1>4. CASE GCStep /\ pc # "run"
  <2>0. PICK A, r : CollectingFrom(A, r)
    BY <1>4 DEF GCStep, Collecting
  <2>1. CollectingFrom(A, r) /\ CollectingFrom(A, r)' /\ \A a \in A : mem'[a] = mem[a]
    BY <1>4, <2>0 DEF GCStep, Continues
  <2>2. SeenReg = RegBy(r, mem) /\ Seen = ShownBy(A, mem)
    BY <2>1 DEF AsBegun
  <2>3. SeenReg' = RegBy(r, mem') /\ Seen' = ShownBy(A, mem')
    BY <2>1 DEF AsBegun
  <2>4. Closed(A, mem) /\ Roots(r) \subseteq A
    BY <2>1 DEF CollectingFrom, Moving, Sound, Now
  <2>5. ShownBy(A, mem') = ShownBy(A, mem) /\ RegBy(r, mem') = RegBy(r, mem)
    BY <2>1, <2>4, SameShows
  <2> QED
    BY <2>2, <2>3, <2>5
<1>5. CASE EndGC
  <2>1. /\ Closed(Reach, mem) /\ Roots(reg) \subseteq Reach
        /\ \A a \in Reach : mem'[a] = mem[a]
        /\ Reach' = Reach /\ reg' = reg
    BY <1>5, EndGCKeeps DEF EndGC
  <2>2. PICK A : A = Reach
    OBVIOUS
  <2>3. ShownBy(A, mem') = ShownBy(A, mem) /\ RegBy(reg, mem') = RegBy(reg, mem)
    BY <2>1, <2>2, SameShows
  <2> QED
    BY <2>1, <2>2, <2>3 DEF AsBegun
<1> QED
  BY <1>1, <1>2, <1>3, <1>4, <1>5, CollectorStep DEF Next, Remember, Collect

-----------------------------------------------------------------------------
(***************************************************************************)
(* The heap with its collector implements the store without one (Store).   *)
(***************************************************************************)
(* What is in use in the store: the least closed set of objects. *)

Graph == [Objects -> [car : Objects \cup {NIL}, cdr : Objects \cup {NIL}]]

ClosedIn(B, g) == \A o \in B : g[o].car \in B \cup {NIL} /\ g[o].cdr \in B \cup {NIL}

More(g, A) == A \cup ({g[p][f] : p \in A, f \in Promise!Fields} \ {NIL})

ClosureIn(g) ==
  LET closure[A \in SUBSET Objects] ==
        LET B == A \cup ({g[p][f] : p \in A, f \in Promise!Fields} \ {NIL})
        IN  IF B = A THEN A ELSE closure[B]
  IN  closure

LeastIn(g) == [A \in SUBSET Objects |->
                 {o \in Objects : \A B \in SUBSET Objects : A \subseteq B /\ ClosedIn(B, g) => o \in B}]

LEMMA MoreProps ==
  ASSUME NEW g \in Graph, NEW A \in SUBSET Objects
  PROVE  /\ More(g, A) \in SUBSET Objects /\ A \subseteq More(g, A)
         /\ More(g, A) = A <=> ClosedIn(A, g)
         /\ \A B \in SUBSET Objects : A \subseteq B /\ ClosedIn(B, g) => More(g, A) \subseteq B
<1>1. \A x : x \in More(g, A) <=> x \in A \/ ((\E p \in A : x = g[p].car \/ x = g[p].cdr) /\ x # NIL)
  BY DEF More, Promise!Fields
<1>2. \A p \in A : g[p].car \in Objects \cup {NIL} /\ g[p].cdr \in Objects \cup {NIL}
  BY DEF Graph
<1>3. NIL \notin Objects
  BY CollectorAssumption
<1>4. More(g, A) \in SUBSET Objects /\ A \subseteq More(g, A)
  BY <1>1, <1>2
<1>5. More(g, A) = A <=> ClosedIn(A, g)
  <2>1. ASSUME ClosedIn(A, g) PROVE More(g, A) \subseteq A
    BY <1>1, <2>1 DEF ClosedIn
  <2>2. ASSUME More(g, A) = A PROVE ClosedIn(A, g)
    <3>1. \A p \in A : /\ g[p].car # NIL => g[p].car \in More(g, A)
                       /\ g[p].cdr # NIL => g[p].cdr \in More(g, A)
      BY <1>1
    <3> QED
      BY <2>2, <3>1 DEF ClosedIn
  <2>3. ClosedIn(A, g) => More(g, A) = A
    BY <1>4, <2>1
  <2> QED
    BY <2>2, <2>3
<1>6. ASSUME NEW B \in SUBSET Objects, A \subseteq B, ClosedIn(B, g) PROVE More(g, A) \subseteq B
  BY <1>1, <1>6 DEF ClosedIn
<1> QED
  BY <1>4, <1>5, <1>6

LEMMA ClosureInStep ==
  ASSUME NEW g \in Graph
  PROVE  ClosureIn(g) = [A \in SUBSET Objects |->
           IF More(g, A) = A THEN A ELSE ClosureIn(g)[More(g, A)]]
<1> DEFINE Eq(h) == h = [A \in SUBSET Objects |-> IF More(g, A) = A THEN A ELSE h[More(g, A)]]
<1>1. ClosureIn(g) = CHOOSE h : Eq(h)
  BY DEF ClosureIn, More
<1>2. ASSUME NEW A \in SUBSET Objects
      PROVE  LeastIn(g)[A] = IF More(g, A) = A THEN A ELSE LeastIn(g)[More(g, A)]
  <2>1. CASE More(g, A) = A
    <3>1. ClosedIn(A, g)
      BY <2>1, MoreProps
    <3> QED
      BY <2>1, <3>1 DEF LeastIn
  <2>2. CASE More(g, A) # A
    <3>1. More(g, A) \in SUBSET Objects
      BY MoreProps
    <3>2. \A B \in SUBSET Objects : ClosedIn(B, g) => (A \subseteq B <=> More(g, A) \subseteq B)
      BY MoreProps
    <3> QED
      BY <2>2, <3>1, <3>2 DEF LeastIn
  <2> QED
    BY <2>1, <2>2
<1>3. Eq(LeastIn(g))
  <2>1. LeastIn(g) = [A \in SUBSET Objects |-> LeastIn(g)[A]]
    BY DEF LeastIn
  <2> QED
    BY <2>1, <1>2, Zenon
<1>4. Eq(ClosureIn(g))
  <2> HIDE DEF Eq
  <2> QED
    BY <1>1, <1>3, Zenon
<1> QED
  BY <1>4

LEMMA ClosureInIsLeast ==
  ASSUME NEW g \in Graph, NEW A0 \in SUBSET Objects
  PROVE  ClosureIn(g)[A0] = LeastIn(g)[A0]
<1> DEFINE Bad  == {A \in SUBSET Objects : ClosureIn(g)[A] # LeastIn(g)[A]}
           Rest == {Objects \ A : A \in Bad}
<1>1. SUFFICES ASSUME Bad # {} PROVE FALSE
  OBVIOUS
<1>2. Rest \subseteq FiniteSubsetsOf(Objects) /\ Rest # {}
  <2>1. FiniteSubsetsOf(Objects) = SUBSET Objects
    BY CollectorAssumption, FS_FiniteSubsetsOfFinite
  <2>2. Rest \subseteq SUBSET Objects
    OBVIOUS
  <2>3. PICK A \in Bad : TRUE
    BY <1>1
  <2>4. Objects \ A \in Rest
    OBVIOUS
  <2> HIDE DEF Rest
  <2> QED
    BY <2>1, <2>2, <2>4
<1>3. PICK x \in Rest : \A y \in Rest : ~ (<<y, x>> \in StrictSubsetOrdering(Objects))
  <2> HIDE DEF Rest
  <2> QED
    BY <1>2, CollectorAssumption, FS_StrictSubsetOrderingWellFounded, WFMin
<1>4. PICK A \in Bad : x = Objects \ A
  BY <1>3
<1> DEFINE W == More(g, A)
<1>5. W \in SUBSET Objects /\ A \subseteq W
      /\ \A B \in SUBSET Objects : A \subseteq B /\ ClosedIn(B, g) => W \subseteq B
  BY MoreProps
<1>6. W # A => W \notin Bad
  <2> SUFFICES ASSUME W # A, W \in Bad PROVE FALSE
    OBVIOUS
  <2> DEFINE y == Objects \ W
  <2>1. y \in Rest
    OBVIOUS
  <2>2. y \subseteq x /\ y # x
    BY <1>4, <1>5
  <2>3. <<y, x>> \in StrictSubsetOrdering(Objects)
    BY <2>2, <1>4 DEF StrictSubsetOrdering
  <2> QED
    BY <2>1, <2>3, <1>3
<1>7. ClosureIn(g)[A] = LeastIn(g)[A]
  <2>1. CASE W = A
    <3>1. ClosureIn(g)[A] = A
      BY <2>1, ClosureInStep
    <3>2. ClosedIn(A, g)
      BY <2>1, MoreProps
    <3> QED
      BY <3>1, <3>2 DEF LeastIn
  <2>2. CASE W # A
    <3>1. ClosureIn(g)[A] = ClosureIn(g)[W]
      BY <2>2, ClosureInStep
    <3>2. ClosureIn(g)[W] = LeastIn(g)[W]
      BY <2>2, <1>5, <1>6
    <3>3. \A B \in SUBSET Objects : ClosedIn(B, g) => (A \subseteq B <=> W \subseteq B)
      BY <1>5
    <3> HIDE DEF W
    <3>4. LeastIn(g)[W] = LeastIn(g)[A]
      BY <1>5, <3>3 DEF LeastIn
    <3> QED
      BY <3>1, <3>2, <3>4
  <2> QED
    BY <2>1, <2>2
<1> QED
  BY <1>4, <1>7

LEMMA LeadsIn ==
  ASSUME NEW g \in Graph, NEW roots, roots \subseteq Objects \cup {NIL}
  PROVE  LET R == Promise!Reachable(roots, g) IN
         /\ R \in SUBSET Objects /\ roots \ {NIL} \subseteq R /\ ClosedIn(R, g)
         /\ \A B \in SUBSET Objects : roots \ {NIL} \subseteq B /\ ClosedIn(B, g) => R \subseteq B
<1> DEFINE A0 == roots \ {NIL}
           L == LeastIn(g)[A0]
<1>1. A0 \in SUBSET Objects
  OBVIOUS
<1>2. Promise!Reachable(roots, g) = ClosureIn(g)[A0]
  BY DEF Promise!Reachable, ClosureIn
<1> HIDE DEF A0
<1>3. Promise!Reachable(roots, g) = L
  BY <1>1, <1>2, ClosureInIsLeast
<1>4. \A o : o \in L <=> o \in Objects /\ \A B \in SUBSET Objects : A0 \subseteq B /\ ClosedIn(B, g) => o \in B
  BY <1>1 DEF LeastIn
<1> HIDE DEF L
<1>5. ClosedIn(L, g)
  <2>1. ASSUME NEW o \in L PROVE g[o].car \in L \cup {NIL} /\ g[o].cdr \in L \cup {NIL}
    <3>1. g[o].car \in Objects \cup {NIL} /\ g[o].cdr \in Objects \cup {NIL}
      BY <1>4 DEF Graph
    <3> QED
      BY <1>4, <3>1 DEF ClosedIn
  <2> QED
    BY <2>1 DEF ClosedIn
<1>6. L \in SUBSET Objects /\ A0 \subseteq L
      /\ \A B \in SUBSET Objects : A0 \subseteq B /\ ClosedIn(B, g) => L \subseteq B
  BY <1>1, <1>4
<1> QED
  BY <1>3, <1>5, <1>6 DEF A0

-----------------------------------------------------------------------------
(***************************************************************************)
(* A picture: cells A with all they lead to, and the fields g of objects   *)
(* that say of every cell's object what the cell says.                     *)
(***************************************************************************)
ObjOf(m, x) == IF x = NIL THEN NIL ELSE m[x].id

Drawn(A, m, r) ==
  /\ A \in SUBSET Cells /\ Roots(r) \subseteq A /\ Closed(A, m)
  /\ \A a \in A : m[a].id \in Objects

Picture(A, m, g) ==
  \A a \in A : g[m[a].id] = [car |-> ObjOf(m, m[a].car), cdr |-> ObjOf(m, m[a].cdr)]

LEMMA Pictured ==
  ASSUME NEW A, NEW m, NEW g, Picture(A, m, g), NEW a \in A
  PROVE  g[m[a].id].car = ObjOf(m, m[a].car) /\ g[m[a].id].cdr = ObjOf(m, m[a].cdr)
<1>1. PICK p : p = g[m[a].id]
  OBVIOUS
<1>2. p = [car |-> ObjOf(m, m[a].car), cdr |-> ObjOf(m, m[a].cdr)]
  BY <1>1 DEF Picture
<1> QED
  BY <1>1, <1>2

Ids(A, m) == {m[a].id : a \in A}

SeenFrom(R, m) ==
  LET Of(o) == {a \in R : m[a].id = o}
  IN  [o \in Objects |->
         IF Of(o) = {} THEN [car |-> NIL, cdr |-> NIL]
         ELSE LET a == CHOOSE b \in Of(o) : TRUE
              IN  [car |-> ObjOf(m, m[a].car), cdr |-> ObjOf(m, m[a].cdr)]]

LEMMA SeenIsFrom == SeenObj = SeenFrom(Reach, mem)
BY DEF SeenObj, SeenFrom, Id, ObjOf

\* The objects in use are those of the cells that are reached.
LEMMA SameReach ==
  ASSUME NEW m, Linked(m), NEW r, NEW A, Drawn(A, m, r), NEW g \in Graph, Picture(A, m, g)
  PROVE  LET R == Closure(m)[Roots(r)] IN
         /\ R \subseteq A
         /\ Promise!Reachable({ObjOf(m, r.topenv), ObjOf(m, r.S), ObjOf(m, r.D), ObjOf(m, r.v)}, g) = Ids(R, m)
<1> DEFINE R == Closure(m)[Roots(r)]
           roots == {ObjOf(m, r.topenv), ObjOf(m, r.S), ObjOf(m, r.D), ObjOf(m, r.v)}
           P == Promise!Reachable(roots, g)
<1>1. NIL \notin Objects /\ NIL \notin A /\ Roots(r) \in SUBSET Cells
  BY CollectorAssumption, CellsFinite DEF Drawn
<1>2. /\ R \in SUBSET Cells /\ Roots(r) \subseteq R /\ Closed(R, m)
      /\ \A B \in SUBSET Cells : Roots(r) \subseteq B /\ Closed(B, m) => R \subseteq B
  BY <1>1, Leads
<1>3. R \subseteq A
  BY <1>2 DEF Drawn
<1> HIDE DEF R
<1>4. \A a \in R : m[a].id \in Objects
  BY <1>3 DEF Drawn
<1>5. \A x \in R \cup {NIL} : ObjOf(m, x) \in Ids(R, m) \cup {NIL}
  BY DEF ObjOf, Ids
<1>6. Ids(R, m) \in SUBSET Objects
  BY <1>4 DEF Ids
<1>7. /\ r.topenv \in R \cup {NIL} /\ r.S \in R \cup {NIL}
      /\ r.D \in R \cup {NIL} /\ r.v \in R \cup {NIL}
  BY <1>2 DEF Roots
<1>8. roots \subseteq Objects \cup {NIL} /\ roots \ {NIL} \subseteq Ids(R, m)
  BY <1>5, <1>6, <1>7
<1> HIDE DEF roots
<1>9. /\ P \in SUBSET Objects /\ roots \ {NIL} \subseteq P /\ ClosedIn(P, g)
      /\ \A B \in SUBSET Objects : roots \ {NIL} \subseteq B /\ ClosedIn(B, g) => P \subseteq B
  BY <1>8, LeadsIn
<1> HIDE DEF P
<1>10. \A a \in R : /\ m[a].car \in R \cup {NIL} /\ m[a].cdr \in R \cup {NIL}
                    /\ g[m[a].id].car = ObjOf(m, m[a].car) /\ g[m[a].id].cdr = ObjOf(m, m[a].cdr)
  <2>2. \A a \in R : g[m[a].id].car = ObjOf(m, m[a].car) /\ g[m[a].id].cdr = ObjOf(m, m[a].cdr)
    BY <1>3, Pictured
  <2> QED
    BY <1>2, <2>2 DEF Closed
<1>11. P \subseteq Ids(R, m)
  <2>1. ASSUME NEW o \in Ids(R, m) PROVE g[o].car \in Ids(R, m) \cup {NIL} /\ g[o].cdr \in Ids(R, m) \cup {NIL}
    <3>1. PICK a \in R : o = m[a].id
      BY DEF Ids
    <3> QED
      BY <1>5, <1>10, <3>1
  <2>2. ClosedIn(Ids(R, m), g)
    BY <2>1 DEF ClosedIn
  <2> QED
    BY <1>6, <1>8, <1>9, <2>2
<1> DEFINE B == {a \in R : m[a].id \in P}
<1>12. \A x \in R : ObjOf(m, x) \in P => x \in B
  BY <1>1, <1>3 DEF ObjOf
<1>13. Roots(r) \subseteq B
  <2>1. \A x \in {r.topenv, r.S, r.D, r.v} : x # NIL => ObjOf(m, x) \in roots \ {NIL}
    BY <1>1, <1>4, <1>7 DEF roots, ObjOf
  <2>2. \A x \in {r.topenv, r.S, r.D, r.v} : x # NIL => x \in B
    BY <1>7, <1>9, <1>12, <2>1
  <2> HIDE DEF B
  <2> QED
    BY <2>2 DEF Roots
<1>14. Closed(B, m)
  <2>1. ASSUME NEW a \in B PROVE m[a].car \in B \cup {NIL} /\ m[a].cdr \in B \cup {NIL}
    <3>1. ObjOf(m, m[a].car) \in P \cup {NIL} /\ ObjOf(m, m[a].cdr) \in P \cup {NIL}
      BY <1>9, <1>10 DEF ClosedIn
    <3>2. \A x \in R : ObjOf(m, x) # NIL
      BY <1>1, <1>3, <1>4 DEF ObjOf
    <3> QED
      BY <1>10, <1>12, <3>1, <3>2
  <2> HIDE DEF B
  <2> QED
    BY <2>1 DEF Closed
<1>15. R \subseteq B
  BY <1>2, <1>13, <1>14
<1>16. Ids(R, m) \subseteq P
  BY <1>15 DEF Ids
<1>17. P = Ids(R, m)
  BY <1>11, <1>16
<1> QED
  BY <1>3, <1>17 DEF P, R, roots

\* What the program sees in a picture.
LEMMA SeenInPicture ==
  ASSUME NEW R, NEW m, NEW g, Picture(R, m, g)
  PROVE  SeenFrom(R, m) = [o \in Objects |-> IF o \in Ids(R, m) THEN g[o] ELSE [car |-> NIL, cdr |-> NIL]]
<1> DEFINE Of(o) == {a \in R : m[a].id = o}
           See(o) == LET a == CHOOSE b \in Of(o) : TRUE
                     IN  [car |-> ObjOf(m, m[a].car), cdr |-> ObjOf(m, m[a].cdr)]
<1>1. SeenFrom(R, m) = [o \in Objects |-> IF Of(o) = {} THEN [car |-> NIL, cdr |-> NIL] ELSE See(o)]
  BY DEF SeenFrom
<1>2. \A o : Of(o) = {} <=> o \notin Ids(R, m)
  BY DEF Ids
<1>3. ASSUME NEW o, Of(o) # {} PROVE See(o) = g[o]
  <2>1. (CHOOSE b \in Of(o) : TRUE) \in Of(o)
    BY <1>3
  <2>2. PICK a : a = CHOOSE b \in Of(o) : TRUE
    OBVIOUS
  <2>3. a \in R /\ m[a].id = o
    BY <2>1, <2>2
  <2>4. See(o) = [car |-> ObjOf(m, m[a].car), cdr |-> ObjOf(m, m[a].cdr)]
    BY <2>2
  <2> QED
    BY <2>3, <2>4 DEF Picture
<1> HIDE DEF Of, See
<1> QED
  BY <1>1, <1>2, <1>3

-----------------------------------------------------------------------------
(* The steps of the program. *)

\* What the program sees while it runs.
LEMMA View ==
  ASSUME Inv, pc = "run"
  PROVE  /\ Types /\ Reach \in SUBSET Cells /\ Drawn(Reach, mem, reg) /\ NIL \notin Reach
         /\ \A a, b \in Reach : mem[a].id = mem[b].id => a = b
         /\ SeenReg = [x \in {"topenv", "S", "D", "v"} |-> ObjOf(mem, reg[x])]
         /\ Picture(Reach, mem, SeenObj) /\ SeenObj \in Graph
         /\ Promise!InUse = Ids(Reach, mem)
<1>1. Types /\ DOMAIN reg = {"topenv", "S", "D", "v"}
  BY DEF Inv, Types, IsReg
<1>2. Sound(Reach, mem, reg)
  BY DEF Inv, Running
<1>3. Reach \in SUBSET Cells /\ Drawn(Reach, mem, reg) /\ NIL \notin Reach
      /\ \A a, b \in Reach : mem[a].id = mem[b].id => a = b
  BY <1>2, CellsFinite DEF Sound, Drawn
<1>4. SeenReg = [x \in {"topenv", "S", "D", "v"} |-> ObjOf(mem, reg[x])]
  BY <1>1 DEF SeenReg, Id, ObjOf
<1>5. PICK g : g = [o \in Objects |-> IF o \in Ids(Reach, mem)
                    THEN LET a == CHOOSE b \in Reach : mem[b].id = o
                         IN  [car |-> ObjOf(mem, mem[a].car), cdr |-> ObjOf(mem, mem[a].cdr)]
                    ELSE [car |-> NIL, cdr |-> NIL]]
  OBVIOUS
<1>6. Picture(Reach, mem, g)
  <2>1. ASSUME NEW a \in Reach
        PROVE  g[mem[a].id] = [car |-> ObjOf(mem, mem[a].car), cdr |-> ObjOf(mem, mem[a].cdr)]
    <3>1. mem[a].id \in Objects /\ mem[a].id \in Ids(Reach, mem)
      BY <1>3 DEF Drawn, Ids
    <3>2. (CHOOSE b \in Reach : mem[b].id = mem[a].id) = a
      BY <1>3
    <3> QED
      BY <1>5, <3>1, <3>2
  <2> QED
    BY <2>1 DEF Picture
<1>7. SeenObj = [o \in Objects |-> IF o \in Ids(Reach, mem) THEN g[o] ELSE [car |-> NIL, cdr |-> NIL]]
  BY <1>6, SeenIsFrom, SeenInPicture
<1>8. Picture(Reach, mem, SeenObj)
  <2>1. \A a \in Reach : SeenObj[mem[a].id] = g[mem[a].id]
    BY <1>3, <1>7 DEF Drawn, Ids
  <2> QED
    BY <1>6, <2>1 DEF Picture
<1>9. \A x \in Reach \cup {NIL} : ObjOf(mem, x) \in Objects \cup {NIL}
  BY <1>3 DEF ObjOf, Drawn
<1>10. SeenObj \in Graph
  <2>1. ASSUME NEW o \in Objects PROVE SeenObj[o] \in [car : Objects \cup {NIL}, cdr : Objects \cup {NIL}]
    <3>1. CASE o \in Ids(Reach, mem)
      <4>1. PICK a \in Reach : o = mem[a].id
        BY <3>1 DEF Ids
      <4>2. SeenObj[o] = [car |-> ObjOf(mem, mem[a].car), cdr |-> ObjOf(mem, mem[a].cdr)]
        BY <1>8, <4>1 DEF Picture
      <4>3. mem[a].car \in Reach \cup {NIL} /\ mem[a].cdr \in Reach \cup {NIL}
        BY <1>3 DEF Drawn, Closed
      <4> QED
        BY <1>9, <4>2, <4>3
    <3>2. CASE o \notin Ids(Reach, mem)
      BY <1>7, <3>2
    <3> QED
      BY <3>1, <3>2
  <2> QED
    BY <1>7, <2>1 DEF Graph
<1>11. Promise!InUse = Ids(Reach, mem)
  <2>1. Linked(mem)
    BY <1>1, AllLinked DEF Types
  <2>2. Promise!Reachable({ObjOf(mem, reg.topenv), ObjOf(mem, reg.S), ObjOf(mem, reg.D), ObjOf(mem, reg.v)}, SeenObj)
          = Ids(Closure(mem)[Roots(reg)], mem)
    BY <1>3, <1>8, <1>10, <2>1, SameReach
  <2>3. SeenReg.topenv = ObjOf(mem, reg.topenv) /\ SeenReg.S = ObjOf(mem, reg.S)
        /\ SeenReg.D = ObjOf(mem, reg.D) /\ SeenReg.v = ObjOf(mem, reg.v)
    BY <1>4
  <2>4. Promise!InUse = Promise!Reachable({SeenReg.topenv, SeenReg.S, SeenReg.D, SeenReg.v}, SeenObj)
    BY DEF Promise!InUse
  <2> QED
    BY <2>2, <2>3, <2>4, ReachIsClosure
<1> QED
  BY <1>1, <1>3, <1>4, <1>8, <1>10, <1>11

\* A step that leads to a picture with the fields g becomes that in the store.
LEMMA Becoming ==
  ASSUME mem' \in [Cells -> Cell], IsReg(reg'),
         NEW A, Drawn(A, mem', reg'), NEW g \in Graph, Picture(A, mem', g),
         NEW q, q = [x \in {"topenv", "S", "D", "v"} |-> ObjOf(mem', reg'[x])]
  PROVE  Promise!Become(q, g)
<1>1. SeenReg' = q
  <2>1. SeenReg' = [x \in DOMAIN reg' |-> ObjOf(mem', reg'[x])]
    BY DEF SeenReg, Id, ObjOf
  <2> QED
    BY <2>1 DEF IsReg
<1> DEFINE R == Closure(mem')[Roots(reg')]
<1>2. Reach' = R
  BY DEF Reach, ReachFrom, Closure, Roots
<1>3. /\ R \subseteq A
      /\ Promise!Reachable({ObjOf(mem', reg'.topenv), ObjOf(mem', reg'.S), ObjOf(mem', reg'.D), ObjOf(mem', reg'.v)}, g)
           = Ids(R, mem')
  BY AllLinked, SameReach
<1> HIDE DEF R
<1>4. Promise!Reachable({q.topenv, q.S, q.D, q.v}, g) = Ids(R, mem')
  BY <1>3
<1>5. Picture(R, mem', g)
  BY <1>3 DEF Picture
<1>6. SeenFrom(R, mem') = [o \in Objects |-> IF o \in Ids(R, mem') THEN g[o] ELSE [car |-> NIL, cdr |-> NIL]]
  BY <1>5, SeenInPicture
<1>7. SeenObj' = SeenFrom(R, mem')
  BY <1>2 DEF SeenObj, SeenFrom, Id, ObjOf
<1> QED
  BY <1>1, <1>4, <1>6, <1>7 DEF Promise!Become, Promise!Free

\* What an instruction works on is what it works on in the store.
LEMMA SameOperands ==
  ASSUME Inv, pc = "run"
  PROVE  /\ Operands \subseteq Reach \cup {NIL}
         /\ \A x \in Operands : ObjOf(mem, x) \in Promise!Operands
         /\ \A x \in Operands : \A y \in Parts(x) :
              y \in Reach \cup {NIL} /\ ObjOf(mem, y) \in Promise!Parts(ObjOf(mem, x))
         /\ \A z \in {"topenv", "S", "D", "v"} :
              /\ SeenReg[z] = ObjOf(mem, reg[z]) /\ reg[z] \in Reach \cup {NIL}
              /\ SeenReg[z] = NIL <=> reg[z] = NIL
              /\ reg[z] # NIL => /\ SeenReg[z] = mem[reg[z]].id /\ reg[z] \in Reach
                                 /\ SeenObj[SeenReg[z]].car = ObjOf(mem, mem[reg[z]].car)
                                 /\ SeenObj[SeenReg[z]].cdr = ObjOf(mem, mem[reg[z]].cdr)
                                 /\ mem[reg[z]].car \in Reach \cup {NIL}
                                 /\ mem[reg[z]].cdr \in Reach \cup {NIL}
<1>1. /\ Reach \in SUBSET Cells /\ Drawn(Reach, mem, reg) /\ NIL \notin Reach
      /\ SeenReg = [x \in {"topenv", "S", "D", "v"} |-> ObjOf(mem, reg[x])]
      /\ Picture(Reach, mem, SeenObj)
  BY View
<1>2. \A z \in {"topenv", "S", "D", "v"} : SeenReg[z] = ObjOf(mem, reg[z])
  BY <1>1
<1>3. /\ \A z \in {"topenv", "S", "D", "v"} : reg[z] \in Reach \cup {NIL}
      /\ \A a \in Reach : mem[a].car \in Reach \cup {NIL} /\ mem[a].cdr \in Reach \cup {NIL}
      /\ \A a \in Reach : mem[a].id \in Objects /\ mem[a].id # NIL
  BY <1>1, CollectorAssumption DEF Drawn, Roots, Closed
<1>4. \A a \in Reach : /\ SeenObj[mem[a].id].car = ObjOf(mem, mem[a].car)
                       /\ SeenObj[mem[a].id].cdr = ObjOf(mem, mem[a].cdr)
  BY <1>1, Pictured
<1>5. \A z \in {"topenv", "S", "D", "v"} :
        /\ SeenReg[z] = ObjOf(mem, reg[z]) /\ reg[z] \in Reach \cup {NIL}
        /\ SeenReg[z] = NIL <=> reg[z] = NIL
        /\ reg[z] # NIL => /\ SeenReg[z] = mem[reg[z]].id /\ reg[z] \in Reach
                           /\ SeenObj[SeenReg[z]].car = ObjOf(mem, mem[reg[z]].car)
                           /\ SeenObj[SeenReg[z]].cdr = ObjOf(mem, mem[reg[z]].cdr)
                           /\ mem[reg[z]].car \in Reach \cup {NIL}
                           /\ mem[reg[z]].cdr \in Reach \cup {NIL}
  BY <1>2, <1>3, <1>4 DEF ObjOf
<1>6. Operands \subseteq Reach \cup {NIL}
  BY <1>3 DEF Operands
<1>7. ObjOf(mem, NIL) = NIL
  BY DEF ObjOf
<1>8. \A x \in Operands : ObjOf(mem, x) \in Promise!Operands
  <2>1. /\ SeenReg.topenv = ObjOf(mem, reg.topenv) /\ SeenReg.v = ObjOf(mem, reg.v)
        /\ (SeenReg.S = NIL <=> reg.S = NIL)
        /\ reg.S # NIL => SeenObj[SeenReg.S].car = ObjOf(mem, mem[reg.S].car)
    BY <1>5
  <2> QED
    BY <1>7, <2>1 DEF Operands, Promise!Operands
<1>9. ASSUME NEW x \in Operands, NEW y \in Parts(x)
      PROVE  y \in Reach \cup {NIL} /\ ObjOf(mem, y) \in Promise!Parts(ObjOf(mem, x))
  <2>1. x # NIL /\ x \in Reach /\ mem[x].id \notin Conts /\ y \in {mem[x].car, mem[x].cdr}
    BY <1>6 DEF Parts, IsCont
  <2>2. ObjOf(mem, x) = mem[x].id /\ ObjOf(mem, x) # NIL
    BY <1>3, <2>1 DEF ObjOf
  <2> QED
    BY <1>3, <1>4, <2>1, <2>2 DEF Promise!Parts
<1> QED
  BY <1>5, <1>6, <1>8, <1>9

\* An instruction that only moves what is in the registers.
LEMMA OnlyMoving ==
  ASSUME Inv, pc = "run", mem' = mem, reg' \in [{"topenv", "S", "D", "v"} -> Reach \cup {NIL}],
         NEW q, q = [x \in {"topenv", "S", "D", "v"} |-> ObjOf(mem, reg'[x])]
  PROVE  Promise!Become(q, SeenObj)
<1>2. PICK A : A = Reach
  OBVIOUS
<1>3. /\ Types /\ A \in SUBSET Cells /\ Drawn(A, mem, reg)
      /\ Picture(A, mem, SeenObj) /\ SeenObj \in Graph
  BY <1>2, View
<1>4. IsReg(reg') /\ mem' \in [Cells -> Cell]
  BY <1>2, <1>3 DEF Types, IsReg
<1>5. Drawn(A, mem', reg') /\ Picture(A, mem', SeenObj)
  BY <1>2, <1>3 DEF Drawn, Roots
<1>6. q = [y \in {"topenv", "S", "D", "v"} |-> ObjOf(mem', reg'[y])]
  OBVIOUS
<1> QED
  BY <1>3, <1>4, <1>5, <1>6, Becoming

LEMMA LoadShows ==
  ASSUME Inv, NEW x, Load(x), x \in Reach \cup {NIL}
  PROVE  Promise!Load(ObjOf(mem, x))
<1>1. pc = "run" /\ mem' = mem /\ reg' = [reg EXCEPT !.v = x]
  BY DEF Load, heap
<1>2. /\ SeenReg = [y \in {"topenv", "S", "D", "v"} |-> ObjOf(mem, reg[y])] /\ IsReg(reg)
      /\ \A y \in {"topenv", "S", "D", "v"} : reg[y] \in Reach \cup {NIL}
  BY <1>1, View, SameOperands DEF Types
<1>3. reg' \in [{"topenv", "S", "D", "v"} -> Reach \cup {NIL}]
  BY <1>1, <1>2 DEF IsReg
<1>4. [SeenReg EXCEPT !.v = ObjOf(mem, x)] = [y \in {"topenv", "S", "D", "v"} |-> ObjOf(mem, reg'[y])]
  BY <1>1, <1>2 DEF IsReg
<1>5. Promise!Become([SeenReg EXCEPT !.v = ObjOf(mem, x)], SeenObj)
  BY <1>1, <1>3, <1>4, OnlyMoving
<1> QED
  BY <1>5 DEF Promise!Load

LEMMA PopShows ==
  ASSUME Inv, Pop
  PROVE  Promise!Pop
<1>1. /\ pc = "run" /\ mem' = mem /\ reg.S # NIL
      /\ reg' = [reg EXCEPT !.v = mem[reg.S].car, !.S = mem[reg.S].cdr]
  BY DEF Pop, heap
<1>2. /\ SeenReg = [y \in {"topenv", "S", "D", "v"} |-> ObjOf(mem, reg[y])] /\ IsReg(reg)
      /\ \A y \in {"topenv", "S", "D", "v"} : reg[y] \in Reach \cup {NIL}
      /\ SeenReg.S # NIL
      /\ SeenObj[SeenReg.S].car = ObjOf(mem, mem[reg.S].car)
      /\ SeenObj[SeenReg.S].cdr = ObjOf(mem, mem[reg.S].cdr)
      /\ mem[reg.S].car \in Reach \cup {NIL} /\ mem[reg.S].cdr \in Reach \cup {NIL}
  BY <1>1, View, SameOperands DEF Types
<1>3. reg' \in [{"topenv", "S", "D", "v"} -> Reach \cup {NIL}]
  BY <1>1, <1>2 DEF IsReg
<1> DEFINE q == [SeenReg EXCEPT !.v = SeenObj[SeenReg.S].car, !.S = SeenObj[SeenReg.S].cdr]
<1>4. q = [y \in {"topenv", "S", "D", "v"} |-> ObjOf(mem, reg'[y])]
  BY <1>1, <1>2 DEF IsReg
<1> HIDE DEF q
<1>5. Promise!Become(q, SeenObj)
  BY <1>1, <1>3, <1>4, OnlyMoving
<1> QED
  BY <1>2, <1>5 DEF Promise!Pop, q

LEMMA ContinueShows ==
  ASSUME Inv, NEW x, Continue(x), x \in Reach \cup {NIL}
  PROVE  Promise!Continue(ObjOf(mem, x))
<1>1. /\ pc = "run" /\ mem' = mem /\ reg.S # NIL /\ mem[reg.S].cdr = NIL
      /\ reg' = [reg EXCEPT !.D = x]
      /\ x = NIL \/ mem[x].id \in Conts
  BY DEF Continue, IsCont, heap
<1>2. /\ SeenReg = [y \in {"topenv", "S", "D", "v"} |-> ObjOf(mem, reg[y])] /\ IsReg(reg)
      /\ \A y \in {"topenv", "S", "D", "v"} : reg[y] \in Reach \cup {NIL}
      /\ SeenReg.S # NIL
      /\ SeenObj[SeenReg.S].cdr = ObjOf(mem, mem[reg.S].cdr)
  BY <1>1, View, SameOperands DEF Types
<1>3. reg' \in [{"topenv", "S", "D", "v"} -> Reach \cup {NIL}]
  BY <1>1, <1>2 DEF IsReg
<1>4. [SeenReg EXCEPT !.D = ObjOf(mem, x)] = [y \in {"topenv", "S", "D", "v"} |-> ObjOf(mem, reg'[y])]
  BY <1>1, <1>2 DEF IsReg
<1>5. Promise!Become([SeenReg EXCEPT !.D = ObjOf(mem, x)], SeenObj)
  BY <1>1, <1>3, <1>4, OnlyMoving
<1>6. ObjOf(mem, x) \in Conts \cup {NIL} /\ SeenObj[SeenReg.S].cdr = NIL
  BY <1>1, <1>2 DEF ObjOf
<1> QED
  BY <1>2, <1>5, <1>6 DEF Promise!Continue

LEMMA ErrorShows ==
  ASSUME Inv, Error
  PROVE  Promise!Error
<1>1. /\ pc = "run" /\ mem' = mem
      /\ \/ reg' = [reg EXCEPT !.S = NIL]
         \/ reg' = [reg EXCEPT !.S = NIL, !.D = NIL, !.v = NIL]
  BY DEF Error, heap
<1>2. /\ SeenReg = [y \in {"topenv", "S", "D", "v"} |-> ObjOf(mem, reg[y])] /\ IsReg(reg)
      /\ \A y \in {"topenv", "S", "D", "v"} : reg[y] \in Reach \cup {NIL}
  BY <1>1, View, SameOperands DEF Types
<1>3. reg' \in [{"topenv", "S", "D", "v"} -> Reach \cup {NIL}] /\ ObjOf(mem, NIL) = NIL
  BY <1>1, <1>2 DEF IsReg, ObjOf
<1>4. CASE reg' = [reg EXCEPT !.S = NIL]
  <2>1. [SeenReg EXCEPT !.S = NIL] = [y \in {"topenv", "S", "D", "v"} |-> ObjOf(mem, reg'[y])]
    BY <1>2, <1>3, <1>4 DEF IsReg
  <2>2. Promise!Become([SeenReg EXCEPT !.S = NIL], SeenObj)
    BY <1>1, <1>3, <2>1, OnlyMoving
  <2> QED
    BY <2>2 DEF Promise!Error
<1>5. CASE reg' = [reg EXCEPT !.S = NIL, !.D = NIL, !.v = NIL]
  <2>1. [SeenReg EXCEPT !.S = NIL, !.D = NIL, !.v = NIL]
          = [y \in {"topenv", "S", "D", "v"} |-> ObjOf(mem, reg'[y])]
    BY <1>2, <1>3, <1>5 DEF IsReg
  <2>2. Promise!Become([SeenReg EXCEPT !.S = NIL, !.D = NIL, !.v = NIL], SeenObj)
    BY <1>1, <1>3, <2>1, OnlyMoving
  <2> QED
    BY <2>2 DEF Promise!Error
<1> QED
  BY <1>1, <1>4, <1>5

\* An instruction that writes to the cell c alone.
LEMMA Writing ==
  ASSUME Inv, pc = "run", IsReg(reg'), mem' \in [Cells -> Cell],
         NEW c \in Reach, \A a \in Cells : a # c => mem'[a] = mem[a], mem'[c].id = mem[c].id,
         mem'[c].car \in Reach \cup {NIL}, mem'[c].cdr \in Reach \cup {NIL},
         Roots(reg') \subseteq Reach,
         NEW h, h = [car |-> ObjOf(mem, mem'[c].car), cdr |-> ObjOf(mem, mem'[c].cdr)],
         NEW q, q = [x \in {"topenv", "S", "D", "v"} |-> ObjOf(mem, reg'[x])]
  PROVE  Promise!Become(q, [SeenObj EXCEPT ![mem[c].id] = h])
<1>1. PICK A : A = Reach
  OBVIOUS
<1>2. /\ A \in SUBSET Cells /\ Drawn(A, mem, reg) /\ NIL \notin A
      /\ \A a, b \in A : mem[a].id = mem[b].id => a = b
      /\ Picture(A, mem, SeenObj) /\ SeenObj \in Graph
  BY <1>1, View
<1>3. \A a \in A : mem'[a].id = mem[a].id /\ mem[a].id \in Objects
  BY <1>1, <1>2 DEF Drawn
<1>4. \A x \in A \cup {NIL} : ObjOf(mem', x) = ObjOf(mem, x) /\ ObjOf(mem, x) \in Objects \cup {NIL}
  BY <1>3 DEF ObjOf
<1>5. \A a \in A : mem[a].car \in A \cup {NIL} /\ mem[a].cdr \in A \cup {NIL}
  BY <1>2 DEF Drawn, Closed
<1>6. \A a \in A : mem'[a].car \in A \cup {NIL} /\ mem'[a].cdr \in A \cup {NIL}
  BY <1>1, <1>2, <1>5
<1>7. Drawn(A, mem', reg')
  BY <1>1, <1>2, <1>3, <1>6 DEF Drawn, Closed
<1> DEFINE g == [SeenObj EXCEPT ![mem[c].id] = h]
<1>8. h \in [car : Objects \cup {NIL}, cdr : Objects \cup {NIL}]
  BY <1>1, <1>4
<1>9. g \in Graph
  BY <1>2, <1>8 DEF Graph
<1>10. g[mem[c].id] = h /\ \A o \in Objects : o # mem[c].id => g[o] = SeenObj[o]
  BY <1>1, <1>2, <1>3 DEF Graph
<1> HIDE DEF g
<1>11. Picture(A, mem', g)
  <2>1. ASSUME NEW a \in A
        PROVE  g[mem'[a].id] = [car |-> ObjOf(mem', mem'[a].car), cdr |-> ObjOf(mem', mem'[a].cdr)]
    <3>1. CASE a = c
      BY <1>1, <1>3, <1>4, <1>10, <3>1
    <3>2. CASE a # c
      <4>1. g[mem'[a].id] = SeenObj[mem[a].id] /\ mem'[a] = mem[a]
        BY <1>1, <1>2, <1>3, <1>10, <3>2
      <4>2. SeenObj[mem[a].id] = [car |-> ObjOf(mem, mem[a].car), cdr |-> ObjOf(mem, mem[a].cdr)]
        BY <1>2 DEF Picture
      <4> QED
        BY <1>4, <1>5, <4>1, <4>2
    <3> QED
      BY <3>1, <3>2
  <2> QED
    BY <2>1 DEF Picture
<1>12. q = [x \in {"topenv", "S", "D", "v"} |-> ObjOf(mem', reg'[x])]
  <2>1. \A x \in {"topenv", "S", "D", "v"} : reg'[x] \in A \cup {NIL}
    BY <1>1 DEF Roots
  <2> QED
    BY <1>4, <2>1
<1>13. Promise!Become(q, g)
  BY <1>7, <1>9, <1>11, <1>12, Becoming
<1> QED
  BY <1>13 DEF g

LEMMA SetTopShows ==
  ASSUME Inv, SetTop
  PROVE  Promise!SetTop
<1>1. /\ pc = "run" /\ reg' = reg /\ reg.S # NIL
      /\ mem' = [mem EXCEPT ![reg.S].car = reg.v]
  BY DEF SetTop
<1>2. PICK A : A = Reach
  OBVIOUS
<1>3. /\ Types /\ A \in SUBSET Cells /\ Drawn(A, mem, reg)
      /\ SeenReg = [y \in {"topenv", "S", "D", "v"} |-> ObjOf(mem, reg[y])]
      /\ Picture(A, mem, SeenObj) /\ SeenObj \in Graph
  BY <1>1, <1>2, View
<1>4. /\ SeenReg.S # NIL /\ SeenReg.S = mem[reg.S].id /\ reg.S \in A /\ reg.S \in Cells
      /\ SeenObj[SeenReg.S].cdr = ObjOf(mem, mem[reg.S].cdr)
      /\ SeenReg.v = ObjOf(mem, reg.v) /\ reg.v \in A \cup {NIL}
  BY <1>1, <1>2, <1>3, SameOperands
<1>5. /\ mem' \in [Cells -> Cell] /\ \A a \in Cells : a # reg.S => mem'[a] = mem[a]
      /\ mem'[reg.S].id = mem[reg.S].id /\ mem'[reg.S].car = reg.v /\ mem'[reg.S].cdr = mem[reg.S].cdr
  BY <1>1, <1>3, <1>4 DEF Types, IsReg, Cell
<1>6. mem[reg.S].cdr \in A \cup {NIL} /\ Roots(reg') \subseteq A /\ IsReg(reg')
  BY <1>1, <1>3, <1>4 DEF Drawn, Closed, Types, IsReg
<1> DEFINE h == [car |-> SeenReg.v, cdr |-> SeenObj[SeenReg.S].cdr]
<1>7. h = [car |-> ObjOf(mem, mem'[reg.S].car), cdr |-> ObjOf(mem, mem'[reg.S].cdr)]
  BY <1>4, <1>5
<1>8. SeenReg = [x \in {"topenv", "S", "D", "v"} |-> ObjOf(mem, reg'[x])]
  BY <1>1, <1>3
<1> HIDE DEF h
<1>9. Promise!Become(SeenReg, [SeenObj EXCEPT ![mem[reg.S].id] = h])
  BY <1>1, <1>2, <1>4, <1>5, <1>6, <1>7, <1>8, Writing
<1>10. [SeenObj EXCEPT ![SeenReg.S].car = SeenReg.v] = [SeenObj EXCEPT ![mem[reg.S].id] = h]
  <2>1. mem[reg.S].id \in Objects
    BY <1>3, <1>4 DEF Drawn
  <2>2. PICK p : p = SeenObj[SeenReg.S]
    OBVIOUS
  <2>3. p \in [car : Objects \cup {NIL}, cdr : Objects \cup {NIL}]
    BY <1>3, <1>4, <2>1, <2>2 DEF Graph
  <2>4. [p EXCEPT !.car = SeenReg.v] = h
    BY <2>2, <2>3 DEF h
  <2>5. [SeenObj EXCEPT ![SeenReg.S].car = SeenReg.v]
          = [SeenObj EXCEPT ![SeenReg.S] = [p EXCEPT !.car = SeenReg.v]]
    BY <2>2
  <2> QED
    BY <1>4, <2>4, <2>5
<1>11. Promise!Become(SeenReg, [SeenObj EXCEPT ![SeenReg.S].car = SeenReg.v])
  BY <1>9, <1>10
<1> QED
  BY <1>4, <1>11 DEF Promise!SetTop

LEMMA EndShows ==
  ASSUME Inv, End
  PROVE  Promise!End
<1>1. /\ pc = "run" /\ reg.S # NIL /\ reg.D # NIL
      /\ mem' = [mem EXCEPT ![reg.S].cdr = mem[reg.D].car]
      /\ reg' = [reg EXCEPT !.D = mem[reg.D].cdr]
  BY DEF End
<1>2. PICK A : A = Reach
  OBVIOUS
<1>3. /\ Types /\ A \in SUBSET Cells /\ Drawn(A, mem, reg)
      /\ SeenReg = [y \in {"topenv", "S", "D", "v"} |-> ObjOf(mem, reg[y])]
      /\ Picture(A, mem, SeenObj) /\ SeenObj \in Graph
  BY <1>1, <1>2, View
<1>4. /\ SeenReg.S # NIL /\ SeenReg.S = mem[reg.S].id /\ reg.S \in A /\ reg.S \in Cells
      /\ SeenObj[SeenReg.S].car = ObjOf(mem, mem[reg.S].car)
      /\ mem[reg.S].car \in A \cup {NIL}
      /\ SeenReg.D # NIL
      /\ SeenObj[SeenReg.D].car = ObjOf(mem, mem[reg.D].car)
      /\ SeenObj[SeenReg.D].cdr = ObjOf(mem, mem[reg.D].cdr)
      /\ mem[reg.D].car \in A \cup {NIL} /\ mem[reg.D].cdr \in A \cup {NIL}
      /\ \A y \in {"topenv", "S", "D", "v"} : reg[y] \in A \cup {NIL}
  BY <1>1, <1>2, <1>3, SameOperands
<1>5. /\ mem' \in [Cells -> Cell] /\ \A a \in Cells : a # reg.S => mem'[a] = mem[a]
      /\ mem'[reg.S].id = mem[reg.S].id /\ mem'[reg.S].car = mem[reg.S].car
      /\ mem'[reg.S].cdr = mem[reg.D].car
  BY <1>1, <1>3, <1>4 DEF Types, Cell
<1>6. reg' \in [{"topenv", "S", "D", "v"} -> A \cup {NIL}]
  BY <1>1, <1>3, <1>4 DEF Types, IsReg
<1>7. Roots(reg') \subseteq A /\ IsReg(reg')
  BY <1>3, <1>6 DEF Roots, IsReg
<1> DEFINE h == [car |-> SeenObj[SeenReg.S].car, cdr |-> SeenObj[SeenReg.D].car]
           q == [SeenReg EXCEPT !.D = SeenObj[SeenReg.D].cdr]
<1>8. h = [car |-> ObjOf(mem, mem'[reg.S].car), cdr |-> ObjOf(mem, mem'[reg.S].cdr)]
  BY <1>4, <1>5
<1>9. q = [x \in {"topenv", "S", "D", "v"} |-> ObjOf(mem, reg'[x])]
  BY <1>1, <1>3, <1>4 DEF Types, IsReg
<1> HIDE DEF h, q
<1>10. Promise!Become(q, [SeenObj EXCEPT ![mem[reg.S].id] = h])
  BY <1>1, <1>2, <1>4, <1>5, <1>7, <1>8, <1>9, Writing
<1>11. [SeenObj EXCEPT ![SeenReg.S].cdr = SeenObj[SeenReg.D].car] = [SeenObj EXCEPT ![mem[reg.S].id] = h]
  <2>1. mem[reg.S].id \in Objects
    BY <1>3, <1>4 DEF Drawn
  <2>2. PICK p : p = SeenObj[SeenReg.S]
    OBVIOUS
  <2>3. p \in [car : Objects \cup {NIL}, cdr : Objects \cup {NIL}]
    BY <1>3, <1>4, <2>1, <2>2 DEF Graph
  <2>4. [p EXCEPT !.cdr = SeenObj[SeenReg.D].car] = h
    BY <2>2, <2>3 DEF h
  <2>5. [SeenObj EXCEPT ![SeenReg.S].cdr = SeenObj[SeenReg.D].car]
          = [SeenObj EXCEPT ![SeenReg.S] = [p EXCEPT !.cdr = SeenObj[SeenReg.D].car]]
    BY <2>2
  <2> QED
    BY <1>4, <2>4, <2>5
<1>12. Promise!Become(q, [SeenObj EXCEPT ![SeenReg.S].cdr = SeenObj[SeenReg.D].car])
  BY <1>10, <1>11
<1> QED
  BY <1>4, <1>12 DEF Promise!End, q

LEMMA BindShows ==
  ASSUME Inv, NEW x, Bind(x), x \in Reach \cup {NIL}
  PROVE  Promise!Bind(ObjOf(mem, x))
<1>1. /\ pc = "run" /\ reg.S # NIL
      /\ mem' = [mem EXCEPT ![reg.S] = [id |-> mem[reg.S].id, car |-> x, cdr |-> mem[reg.S].car]]
      /\ reg' = [reg EXCEPT !.v = reg.S, !.S = mem[reg.S].cdr]
  BY DEF Bind
<1>2. PICK A : A = Reach
  OBVIOUS
<1>3. /\ Types /\ A \in SUBSET Cells /\ Drawn(A, mem, reg)
      /\ SeenReg = [y \in {"topenv", "S", "D", "v"} |-> ObjOf(mem, reg[y])]
      /\ Picture(A, mem, SeenObj) /\ SeenObj \in Graph
  BY <1>1, <1>2, View
<1>4. /\ SeenReg.S # NIL /\ SeenReg.S = mem[reg.S].id /\ reg.S \in A /\ reg.S \in Cells
      /\ SeenObj[SeenReg.S].car = ObjOf(mem, mem[reg.S].car)
      /\ SeenObj[SeenReg.S].cdr = ObjOf(mem, mem[reg.S].cdr)
  BY <1>1, <1>2, <1>3, SameOperands
<1>5. mem[reg.S].car \in A \cup {NIL} /\ mem[reg.S].cdr \in A \cup {NIL} /\ mem[reg.S] \in Cell
  BY <1>3, <1>4 DEF Drawn, Closed, Types
<1>6. /\ mem' \in [Cells -> Cell] /\ \A a \in Cells : a # reg.S => mem'[a] = mem[a]
      /\ mem'[reg.S].id = mem[reg.S].id /\ mem'[reg.S].car = x /\ mem'[reg.S].cdr = mem[reg.S].car
  BY <1>1, <1>2, <1>3, <1>4, <1>5 DEF Types, Cell
<1>7. /\ IsReg(reg') /\ reg'.topenv = reg.topenv /\ reg'.S = mem[reg.S].cdr /\ reg'.v = reg.S
  BY <1>1, <1>3, <1>4, <1>5 DEF Types, IsReg
<1>8. Roots(reg') \subseteq A
  <2>1. reg'.D = reg.D
    BY <1>1, <1>3 DEF Types, IsReg
  <2> QED
    BY <1>3, <1>4, <1>5, <1>7, <2>1 DEF Drawn, Roots
<1> DEFINE h == [car |-> ObjOf(mem, x), cdr |-> SeenObj[SeenReg.S].car]
           q == [SeenReg EXCEPT !.v = SeenReg.S, !.S = SeenObj[SeenReg.S].cdr]
<1>9. h = [car |-> ObjOf(mem, mem'[reg.S].car), cdr |-> ObjOf(mem, mem'[reg.S].cdr)]
  BY <1>4, <1>6
<1>10. q = [y \in {"topenv", "S", "D", "v"} |-> ObjOf(mem, reg'[y])]
  <2>1. SeenReg.S = ObjOf(mem, reg.S)
    BY <1>3
  <2>2. /\ ObjOf(mem, reg'["S"]) = SeenObj[SeenReg.S].cdr /\ ObjOf(mem, reg'["v"]) = SeenReg.S
        /\ ObjOf(mem, reg'["topenv"]) = ObjOf(mem, reg["topenv"])
        /\ ObjOf(mem, reg'["D"]) = ObjOf(mem, reg["D"])
    BY <1>1, <1>3, <1>4, <1>7, <2>1 DEF Types, IsReg
  <2> QED
    BY <1>3, <2>2
<1> HIDE DEF h, q
<1>11. Promise!Become(q, [SeenObj EXCEPT ![mem[reg.S].id] = h])
  BY <1>1, <1>2, <1>4, <1>5, <1>6, <1>7, <1>8, <1>9, <1>10, Writing
<1>12. [SeenObj EXCEPT ![SeenReg.S] = [car |-> ObjOf(mem, x), cdr |-> SeenObj[SeenReg.S].car]]
         = [SeenObj EXCEPT ![mem[reg.S].id] = h]
  BY <1>4 DEF h
<1>13. Promise!Become(q, [SeenObj EXCEPT ![SeenReg.S] = [car |-> ObjOf(mem, x), cdr |-> SeenObj[SeenReg.S].car]])
  BY <1>11, <1>12
<1> QED
  BY <1>4, <1>13 DEF Promise!Bind, q

LEMMA AssignShows ==
  ASSUME Inv, NEW c \in Reach, NEW f \in Fields, NEW x, Assign(c, f, x), x \in Reach \cup {NIL}
  PROVE  Promise!Assign(ObjOf(mem, c), f, ObjOf(mem, x))
<1>1. pc = "run" /\ reg' = reg /\ mem' = [mem EXCEPT ![c][f] = x] /\ ~IsCont(c)
  BY DEF Assign
<1>2. PICK A : A = Reach
  OBVIOUS
<1>3. /\ Types /\ A \in SUBSET Cells /\ Drawn(A, mem, reg) /\ NIL \notin A
      /\ SeenReg = [y \in {"topenv", "S", "D", "v"} |-> ObjOf(mem, reg[y])]
      /\ Picture(A, mem, SeenObj) /\ SeenObj \in Graph
  BY <1>1, <1>2, View
<1>4. PICK p : p = SeenObj[mem[c].id]
  OBVIOUS
<1>5. p = [car |-> ObjOf(mem, mem[c].car), cdr |-> ObjOf(mem, mem[c].cdr)]
  BY <1>2, <1>3, <1>4 DEF Picture
<1>6. /\ c \in Cells /\ c # NIL /\ mem[c] \in Cell /\ ObjOf(mem, c) = mem[c].id
      /\ mem[c].car \in A \cup {NIL} /\ mem[c].cdr \in A \cup {NIL}
  BY <1>2, <1>3 DEF Types, Drawn, Closed, ObjOf
<1>7. x \in Cells \cup {NIL} /\ IsReg(reg') /\ Roots(reg') \subseteq A
  BY <1>1, <1>2, <1>3 DEF Types, Drawn
<1> DEFINE h == [p EXCEPT ![f] = ObjOf(mem, x)]
<1>8. /\ mem' \in [Cells -> Cell] /\ \A a \in Cells : a # c => mem'[a] = mem[a]
      /\ mem'[c].id = mem[c].id
      /\ mem'[c].car \in A \cup {NIL} /\ mem'[c].cdr \in A \cup {NIL}
      /\ h = [car |-> ObjOf(mem, mem'[c].car), cdr |-> ObjOf(mem, mem'[c].cdr)]
  <2>1. mem \in [Cells -> Cell]
    BY <1>3 DEF Types
  <2>2. CASE f = "car"
    <3>1. /\ mem' \in [Cells -> Cell] /\ \A a \in Cells : a # c => mem'[a] = mem[a]
          /\ mem'[c].id = mem[c].id /\ mem'[c].car = x /\ mem'[c].cdr = mem[c].cdr
      BY <1>1, <1>6, <1>7, <2>1, <2>2 DEF Cell
    <3>2. h = [car |-> ObjOf(mem, x), cdr |-> ObjOf(mem, mem[c].cdr)]
      BY <1>5, <2>2
    <3> QED
      BY <1>2, <1>6, <3>1, <3>2
  <2>3. CASE f = "cdr"
    <3>1. /\ mem' \in [Cells -> Cell] /\ \A a \in Cells : a # c => mem'[a] = mem[a]
          /\ mem'[c].id = mem[c].id /\ mem'[c].car = mem[c].car /\ mem'[c].cdr = x
      BY <1>1, <1>6, <1>7, <2>1, <2>3 DEF Cell
    <3>2. h = [car |-> ObjOf(mem, mem[c].car), cdr |-> ObjOf(mem, x)]
      BY <1>5, <2>3
    <3> QED
      BY <1>2, <1>6, <3>1, <3>2
  <2> QED
    BY <2>2, <2>3 DEF Fields
<1> HIDE DEF h
<1>9. SeenReg = [y \in {"topenv", "S", "D", "v"} |-> ObjOf(mem, reg'[y])]
  BY <1>1, <1>3
<1>10. Promise!Become(SeenReg, [SeenObj EXCEPT ![mem[c].id] = h])
  BY <1>1, <1>2, <1>7, <1>8, <1>9, Writing
<1>11. [SeenObj EXCEPT ![ObjOf(mem, c)][f] = ObjOf(mem, x)] = [SeenObj EXCEPT ![mem[c].id] = h]
  BY <1>4, <1>6 DEF h
<1>12. Promise!Become(SeenReg, [SeenObj EXCEPT ![ObjOf(mem, c)][f] = ObjOf(mem, x)])
  BY <1>10, <1>11
<1> QED
  BY <1>1, <1>6, <1>12 DEF Promise!Assign, IsCont

LEMMA NextCell ==
  ASSUME Inv, pc = "run", hp < heapbase + LIMIT
  PROVE  hp \in Cells /\ hp \notin Reach
<1>1. Running /\ Types
  BY DEF Inv
<1>2. hp \in Cells
  BY <1>1, Places, CellsFinite, CollectorAssumption DEF Running, Types, Cells
<1>3. hp \in Nat /\ heapbase \in Nat /\ hp >= heapbase
  BY <1>1, Places, CollectorAssumption DEF Running, Types
<1>4. InHeap(hp) /\ ~InTop(hp)
  BY <1>1, <1>2, <1>3, Places DEF Types
<1> QED
  BY <1>1, <1>2, <1>3, <1>4 DEF Running, LiveIn, Now

\* An instruction that makes a cell.
LEMMA Adding ==
  ASSUME Inv, pc = "run", hp < heapbase + LIMIT, NEW o \in Objects, \A a \in Reach : mem[a].id # o,
         NEW x \in Reach \cup {NIL}, NEW y \in Reach \cup {NIL},
         MkPair(o, x, y), UNCHANGED kind, IsReg(reg'), reg'.topenv = reg.topenv,
         Roots(reg') \subseteq Reach \cup {hp},
         NEW q, q = [z \in {"topenv", "S", "D", "v"} |-> IF reg'[z] = hp THEN o ELSE ObjOf(mem, reg'[z])]
  PROVE  /\ Promise!Become(q, [SeenObj EXCEPT ![o] = [car |-> ObjOf(mem, x), cdr |-> ObjOf(mem, y)]])
         /\ o \in Objects \ Promise!InUse
<1>1. PICK A : A = Reach
  OBVIOUS
<1>2. /\ A \in SUBSET Cells /\ Drawn(A, mem, reg) /\ NIL \notin A /\ Types
      /\ Picture(A, mem, SeenObj) /\ SeenObj \in Graph /\ Promise!InUse = Ids(A, mem)
  BY <1>1, View
<1>3. x \in Cells \cup {NIL} /\ y \in Cells \cup {NIL}
  BY <1>1, <1>2
<1>4. /\ hp \in Cells /\ hp \notin A
      /\ \A a \in A : mem'[a] = mem[a]
      /\ mem'[hp] = [id |-> o, car |-> x, cdr |-> y]
  <2>1. hp \in Cells /\ hp \notin A
    BY <1>1, NextCell
  <2>2. mem \in [Cells -> Cell] /\ mem' = [mem EXCEPT ![hp] = [id |-> o, car |-> x, cdr |-> y]]
    BY <1>2 DEF Types, MkPair
  <2> QED
    BY <1>2, <2>1, <2>2
<1>5. mem' \in [Cells -> Cell]
  BY <1>2, <1>3, <1>4 DEF MkPair, Types, Cell
<1> DEFINE B == A \cup {hp}
           h == [car |-> ObjOf(mem, x), cdr |-> ObjOf(mem, y)]
           g == [SeenObj EXCEPT ![o] = h]
<1>6. hp # NIL /\ mem'[hp].id = o /\ mem'[hp].car = x /\ mem'[hp].cdr = y
  BY <1>4, CellsFinite
<1>7. \A a \in A : /\ mem[a].id \in Objects
                   /\ mem[a].car \in A \cup {NIL} /\ mem[a].cdr \in A \cup {NIL}
  BY <1>2 DEF Drawn, Closed
<1>8. Drawn(B, mem', reg')
  <2>1. Closed(B, mem')
    BY <1>1, <1>4, <1>6, <1>7 DEF Closed
  <2>2. \A a \in B : mem'[a].id \in Objects
    BY <1>4, <1>6, <1>7
  <2> QED
    BY <1>1, <1>2, <1>4, <2>1, <2>2 DEF Drawn
<1>9. \A z \in A \cup {NIL} : ObjOf(mem', z) = ObjOf(mem, z) /\ ObjOf(mem, z) \in Objects \cup {NIL}
  BY <1>4, <1>7 DEF ObjOf
<1>10. g \in Graph
  <2>1. h \in [car : Objects \cup {NIL}, cdr : Objects \cup {NIL}]
    BY <1>1, <1>9
  <2> HIDE DEF h
  <2> QED
    BY <1>2, <2>1 DEF Graph
<1>11. g[o] = h /\ \A p \in Objects : p # o => g[p] = SeenObj[p]
  BY <1>2 DEF Graph
<1>12. h = [car |-> ObjOf(mem', x), cdr |-> ObjOf(mem', y)]
  BY <1>1, <1>9
<1> HIDE DEF g, h
<1>13. Picture(B, mem', g)
  <2>1. ASSUME NEW a \in B
        PROVE  g[mem'[a].id] = [car |-> ObjOf(mem', mem'[a].car), cdr |-> ObjOf(mem', mem'[a].cdr)]
    <3>1. CASE a = hp
      BY <1>6, <1>11, <1>12, <3>1
    <3>2. CASE a \in A
      <4>1. mem'[a] = mem[a] /\ g[mem'[a].id] = SeenObj[mem[a].id]
        BY <1>1, <1>4, <1>7, <1>11, <3>2
      <4>2. SeenObj[mem[a].id] = [car |-> ObjOf(mem, mem[a].car), cdr |-> ObjOf(mem, mem[a].cdr)]
        BY <1>2, <3>2 DEF Picture
      <4> QED
        BY <1>7, <1>9, <3>2, <4>1, <4>2
    <3> QED
      BY <3>1, <3>2
  <2> HIDE DEF B
  <2> QED
    BY <2>1 DEF Picture
<1>14. q = [z \in {"topenv", "S", "D", "v"} |-> ObjOf(mem', reg'[z])]
  <2>1. \A z \in {"topenv", "S", "D", "v"} : reg'[z] \in A \cup {hp, NIL}
    BY <1>1 DEF Roots
  <2>2. ObjOf(mem', hp) = o
    BY <1>6 DEF ObjOf
  <2>3. \A z \in {"topenv", "S", "D", "v"} : ObjOf(mem', reg'[z])
                                        = IF reg'[z] = hp THEN o ELSE ObjOf(mem, reg'[z])
    BY <1>9, <2>1, <2>2
  <2> QED
    BY <2>3
<1>15. Promise!Become(q, g)
  BY <1>5, <1>8, <1>10, <1>13, <1>14, Becoming
<1>16. o \in Objects \ Promise!InUse
  BY <1>1, <1>2 DEF Ids
<1> QED
  BY <1>15, <1>16 DEF g, h

\* An instruction that makes a cell and puts it into a register.
LEMMA Making ==
  ASSUME Inv, hp < heapbase + LIMIT, NEW o, IsNew(o), NEW x \in Reach \cup {NIL}, NEW y \in Reach \cup {NIL},
         MkPair(o, x, y), UNCHANGED kind, reg' \in [{"topenv", "S", "D", "v"} -> Reach \cup {NIL, hp}],
         reg'.topenv = reg.topenv,
         NEW q, q = [z \in {"topenv", "S", "D", "v"} |-> IF reg'[z] = hp THEN o ELSE ObjOf(mem, reg'[z])]
  PROVE  /\ Promise!Become(q, [SeenObj EXCEPT ![o] = [car |-> ObjOf(mem, x), cdr |-> ObjOf(mem, y)]])
         /\ o \in Objects \ Promise!InUse
<1>1. pc = "run"
  BY DEF MkPair
<1>2. o \in Objects /\ \A a \in Reach : mem[a].id # o
  BY DEF IsNew
<1>3. hp \in Cells /\ hp # NIL /\ Reach \in SUBSET Cells
  BY <1>1, NextCell, View, CellsFinite
<1>4. IsReg(reg') /\ Roots(reg') \subseteq Reach \cup {hp}
  BY <1>3 DEF IsReg, Roots
<1> QED
  BY <1>1, <1>2, <1>4, Adding

\* What the registers hold before a cell is made is another cell.
LEMMA OtherCells ==
  ASSUME Inv, pc = "run", hp < heapbase + LIMIT
  PROVE  /\ IsReg(reg) /\ SeenReg = [z \in {"topenv", "S", "D", "v"} |-> ObjOf(mem, reg[z])]
         /\ \A z \in {"topenv", "S", "D", "v"} : reg[z] \in Reach \cup {NIL} /\ reg[z] # hp
         /\ hp # NIL /\ ObjOf(mem, NIL) = NIL
<1>1. hp \in Cells /\ hp \notin Reach /\ hp # NIL
  BY NextCell, CellsFinite
<1> QED
  BY <1>1, View, SameOperands DEF Types, ObjOf

LEMMA ConsShows ==
  ASSUME Inv, hp < heapbase + LIMIT, NEW o, IsNew(o), NEW x \in Reach \cup {NIL}, NEW y \in Reach \cup {NIL},
         Cons(o, x, y), UNCHANGED kind
  PROVE  Promise!Cons(o, ObjOf(mem, x), ObjOf(mem, y)) /\ o \notin Promise!InUse
<1>1. pc = "run" /\ MkPair(o, x, y) /\ reg' = [reg EXCEPT !.v = hp]
  BY DEF Cons, MkPair
<1>2. /\ IsReg(reg) /\ SeenReg = [z \in {"topenv", "S", "D", "v"} |-> ObjOf(mem, reg[z])]
      /\ \A z \in {"topenv", "S", "D", "v"} : reg[z] \in Reach \cup {NIL} /\ reg[z] # hp
  BY <1>1, OtherCells
<1>3. reg' \in [{"topenv", "S", "D", "v"} -> Reach \cup {NIL, hp}] /\ reg'.topenv = reg.topenv
  BY <1>1, <1>2 DEF IsReg
<1> DEFINE q == [SeenReg EXCEPT !.v = o]
<1>4. q = [z \in {"topenv", "S", "D", "v"} |-> IF reg'[z] = hp THEN o ELSE ObjOf(mem, reg'[z])]
  BY <1>1, <1>2 DEF IsReg
<1> HIDE DEF q
<1>5. /\ Promise!Become(q, [SeenObj EXCEPT ![o] = [car |-> ObjOf(mem, x), cdr |-> ObjOf(mem, y)]])
      /\ o \in Objects \ Promise!InUse
  BY <1>1, <1>3, <1>4, Making
<1> QED
  BY <1>5 DEF Promise!Cons, q

LEMMA PushShows ==
  ASSUME Inv, hp < heapbase + LIMIT, NEW o, IsNew(o), Push(o), UNCHANGED kind
  PROVE  Promise!Push(o) /\ o \notin Promise!InUse
<1>1. pc = "run" /\ MkPair(o, reg.v, reg.S) /\ reg' = [reg EXCEPT !.S = hp]
  BY DEF Push, MkPair
<1>2. /\ IsReg(reg) /\ SeenReg = [z \in {"topenv", "S", "D", "v"} |-> ObjOf(mem, reg[z])]
      /\ \A z \in {"topenv", "S", "D", "v"} : reg[z] \in Reach \cup {NIL} /\ reg[z] # hp
  BY <1>1, OtherCells
<1>3. reg' \in [{"topenv", "S", "D", "v"} -> Reach \cup {NIL, hp}] /\ reg'.topenv = reg.topenv
  BY <1>1, <1>2 DEF IsReg
<1> DEFINE q == [SeenReg EXCEPT !.S = o]
<1>4. q = [z \in {"topenv", "S", "D", "v"} |-> IF reg'[z] = hp THEN o ELSE ObjOf(mem, reg'[z])]
  BY <1>1, <1>2 DEF IsReg
<1>5. reg.v \in Reach \cup {NIL} /\ reg.S \in Reach \cup {NIL}
      /\ SeenReg.v = ObjOf(mem, reg.v) /\ SeenReg.S = ObjOf(mem, reg.S)
  BY <1>2
<1> HIDE DEF q
<1>6. /\ Promise!Become(q, [SeenObj EXCEPT ![o] = [car |-> ObjOf(mem, reg.v), cdr |-> ObjOf(mem, reg.S)]])
      /\ o \in Objects \ Promise!InUse
  BY <1>1, <1>3, <1>4, <1>5, Making
<1> QED
  BY <1>5, <1>6 DEF Promise!Push, q

LEMMA BindRestShows ==
  ASSUME Inv, hp < heapbase + LIMIT, NEW o, IsNew(o), NEW x \in Reach \cup {NIL}, BindRest(o, x), UNCHANGED kind
  PROVE  Promise!BindRest(o, ObjOf(mem, x)) /\ o \notin Promise!InUse
<1>1. pc = "run" /\ MkPair(o, x, reg.S) /\ reg' = [reg EXCEPT !.v = hp, !.S = NIL]
  BY DEF BindRest, MkPair
<1>2. /\ IsReg(reg) /\ SeenReg = [z \in {"topenv", "S", "D", "v"} |-> ObjOf(mem, reg[z])]
      /\ \A z \in {"topenv", "S", "D", "v"} : reg[z] \in Reach \cup {NIL} /\ reg[z] # hp
      /\ hp # NIL /\ ObjOf(mem, NIL) = NIL
  BY <1>1, OtherCells
<1>3. reg' \in [{"topenv", "S", "D", "v"} -> Reach \cup {NIL, hp}] /\ reg'.topenv = reg.topenv
  BY <1>1, <1>2 DEF IsReg
<1> DEFINE q == [SeenReg EXCEPT !.v = o, !.S = NIL]
<1>4. q = [z \in {"topenv", "S", "D", "v"} |-> IF reg'[z] = hp THEN o ELSE ObjOf(mem, reg'[z])]
  BY <1>1, <1>2 DEF IsReg
<1>5. reg.S \in Reach \cup {NIL} /\ SeenReg.S = ObjOf(mem, reg.S)
  BY <1>2
<1> HIDE DEF q
<1>6. /\ Promise!Become(q, [SeenObj EXCEPT ![o] = [car |-> ObjOf(mem, x), cdr |-> ObjOf(mem, reg.S)]])
      /\ o \in Objects \ Promise!InUse
  BY <1>1, <1>3, <1>4, <1>5, Making
<1> QED
  BY <1>5, <1>6 DEF Promise!BindRest, q

LEMMA EvalCShows ==
  ASSUME Inv, hp < heapbase + LIMIT, NEW o, IsNew(o), EvalC(o), UNCHANGED kind
  PROVE  Promise!EvalC(o) /\ o \notin Promise!InUse
<1>1. pc = "run" /\ MkPair(o, reg.S, reg.D) /\ reg' = [reg EXCEPT !.D = hp, !.S = NIL]
  BY DEF EvalC, MkPair
<1>2. /\ IsReg(reg) /\ SeenReg = [z \in {"topenv", "S", "D", "v"} |-> ObjOf(mem, reg[z])]
      /\ \A z \in {"topenv", "S", "D", "v"} : reg[z] \in Reach \cup {NIL} /\ reg[z] # hp
      /\ hp # NIL /\ ObjOf(mem, NIL) = NIL
  BY <1>1, OtherCells
<1>3. reg' \in [{"topenv", "S", "D", "v"} -> Reach \cup {NIL, hp}] /\ reg'.topenv = reg.topenv
  BY <1>1, <1>2 DEF IsReg
<1> DEFINE q == [SeenReg EXCEPT !.D = o, !.S = NIL]
<1>4. q = [z \in {"topenv", "S", "D", "v"} |-> IF reg'[z] = hp THEN o ELSE ObjOf(mem, reg'[z])]
  BY <1>1, <1>2 DEF IsReg
<1>5. reg.S \in Reach \cup {NIL} /\ SeenReg.S = ObjOf(mem, reg.S)
      /\ reg.D \in Reach \cup {NIL} /\ SeenReg.D = ObjOf(mem, reg.D)
  BY <1>2
<1> HIDE DEF q
<1>6. /\ Promise!Become(q, [SeenObj EXCEPT ![o] = [car |-> ObjOf(mem, reg.S), cdr |-> ObjOf(mem, reg.D)]])
      /\ o \in Objects \ Promise!InUse
  BY <1>1, <1>3, <1>4, <1>5, Making
<1> QED
  BY <1>5, <1>6 DEF Promise!EvalC, q

LEMMA ProgramShows ==
  ASSUME Inv, Program, UNCHANGED kind
  PROVE  Promise!Next
<1>1. pc = "run"
  BY ProgramRuns
<1>2. /\ Operands \subseteq Reach \cup {NIL}
      /\ \A x \in Operands : ObjOf(mem, x) \in Promise!Operands
      /\ \A x \in Operands : \A y \in Parts(x) :
           y \in Reach \cup {NIL} /\ ObjOf(mem, y) \in Promise!Parts(ObjOf(mem, x))
      /\ reg.D \in Reach \cup {NIL} /\ SeenReg.D = ObjOf(mem, reg.D)
  BY <1>1, SameOperands
<1>F. /\ \A o \in Fresh(Objects \ Conts) : o \in Objects \ Conts /\ IsNew(o)
      /\ \A o \in Fresh(Conts) : o \in Conts /\ IsNew(o)
  BY <1>1, Working, CollectorAssumption DEF Inv
<1>3. ASSUME hp < heapbase + LIMIT, NEW o \in Fresh(Objects \ Conts), Push(o) PROVE Promise!Next
  <2>1. Promise!Push(o) /\ o \in (Objects \ Conts) \ Promise!InUse
    BY <1>3, <1>F, PushShows
  <2> QED
    BY <2>1 DEF Promise!Next
<1>4. ASSUME hp < heapbase + LIMIT, NEW o \in Fresh(Objects \ Conts), NEW x \in Operands, NEW y \in Operands,
             Cons(o, x, y)
      PROVE  Promise!Next
  <2>1. Promise!Cons(o, ObjOf(mem, x), ObjOf(mem, y)) /\ o \in (Objects \ Conts) \ Promise!InUse
    BY <1>2, <1>4, <1>F, ConsShows
  <2>2. ObjOf(mem, x) \in Promise!Operands /\ ObjOf(mem, y) \in Promise!Operands
    BY <1>2
  <2> QED
    BY <2>1, <2>2 DEF Promise!Next
<1>5. ASSUME hp < heapbase + LIMIT, NEW o \in Fresh(Objects \ Conts), NEW x \in Operands, BindRest(o, x)
      PROVE  Promise!Next
  <2>1. Promise!BindRest(o, ObjOf(mem, x)) /\ o \in (Objects \ Conts) \ Promise!InUse
    BY <1>2, <1>5, <1>F, BindRestShows
  <2>2. ObjOf(mem, x) \in Promise!Operands
    BY <1>2
  <2> QED
    BY <2>1, <2>2 DEF Promise!Next
<1>6. CASE Pop
  BY <1>6, PopShows DEF Promise!Next
<1>7. CASE SetTop
  BY <1>7, SetTopShows DEF Promise!Next
<1>8. CASE MakeCC
  <2>1. Promise!Load(SeenReg.D)
    BY <1>2, <1>8, LoadShows DEF MakeCC
  <2> QED
    BY <2>1 DEF Promise!Next
<1>9. CASE Error
  BY <1>9, ErrorShows DEF Promise!Next
<1>10. ASSUME NEW x \in Operands, Bind(x) PROVE Promise!Next
  <2>1. Promise!Bind(ObjOf(mem, x)) /\ ObjOf(mem, x) \in Promise!Operands
    BY <1>2, <1>10, BindShows
  <2> QED
    BY <2>1 DEF Promise!Next
<1>11. ASSUME NEW x \in Operands, Continue(x) PROVE Promise!Next
  <2>1. Promise!Continue(ObjOf(mem, x)) /\ ObjOf(mem, x) \in Promise!Operands
    BY <1>2, <1>11, ContinueShows
  <2> QED
    BY <2>1 DEF Promise!Next
<1>12. ASSUME NEW x \in Operands, Load(x) PROVE Promise!Next
  <2>1. Promise!Load(ObjOf(mem, x)) /\ ObjOf(mem, x) \in Promise!Operands
    BY <1>2, <1>12, LoadShows
  <2> QED
    BY <2>1 DEF Promise!Next
<1>13. ASSUME NEW c \in Operands, NEW x \in Parts(c), Load(x) PROVE Promise!Next
  <2>1. /\ Promise!Load(ObjOf(mem, x)) /\ ObjOf(mem, c) \in Promise!Operands
        /\ ObjOf(mem, x) \in Promise!Parts(ObjOf(mem, c))
    BY <1>2, <1>13, LoadShows
  <2> QED
    BY <2>1 DEF Promise!Next
<1>14. ASSUME NEW c \in Operands \ {NIL}, NEW f \in Fields, NEW x \in Operands, Assign(c, f, x)
       PROVE  Promise!Next
  <2>1. Promise!Assign(ObjOf(mem, c), f, ObjOf(mem, x))
    BY <1>2, <1>14, AssignShows
  <2>2. ObjOf(mem, c) \in Promise!Operands \ {NIL} /\ ObjOf(mem, x) \in Promise!Operands
    <3>1. mem[c].id # NIL
      BY <1>1, <1>2, View, CollectorAssumption DEF Drawn
    <3> QED
      BY <1>2, <3>1 DEF ObjOf
  <2>3. f \in Promise!Fields
    BY DEF Fields, Promise!Fields
  <2> QED
    BY <2>1, <2>2, <2>3 DEF Promise!Next
<1>15. (\E x \in Operands \cup UNION {Parts(a) : a \in Operands} : Load(x)) => Promise!Next
  BY <1>12, <1>13
<1>16. CASE Instruction
  BY <1>3, <1>4, <1>5, <1>6, <1>7, <1>8, <1>9, <1>10, <1>11, <1>14, <1>15, <1>16 DEF Instruction
<1>17. ASSUME hp < heapbase + LIMIT, NEW o \in Fresh(Conts), EvalC(o) PROVE Promise!Next
  <2>1. Promise!EvalC(o) /\ o \in Conts \ Promise!InUse
    BY <1>17, <1>F, EvalCShows
  <2> QED
    BY <2>1 DEF Promise!Next
<1>18. CASE End
  BY <1>18, EndShows DEF Promise!Next
<1> QED
  BY <1>16, <1>17, <1>18 DEF Program

-----------------------------------------------------------------------------
(* The steps of a collection, which the store does not see. *)

\* What an object's cells say can be told from what is seen.
FromSeen(T) ==
  [o \in Objects |->
     IF \A t \in T : t[1] # o THEN [car |-> NIL, cdr |-> NIL]
     ELSE LET t == CHOOSE u \in T : u[1] = o IN [car |-> t[2], cdr |-> t[3]]]

LEMMA SeenTellsAll ==
  ASSUME Inv
  PROVE  SeenObj = FromSeen(Seen)
<1>1. PICK A : A = Reach
  OBVIOUS
<1> DEFINE Say(a) == <<mem[a].id, ObjOf(mem, mem[a].car), ObjOf(mem, mem[a].cdr)>>
<1>2. Seen = {Say(a) : a \in A}
  <2>1. Seen = ShownBy(Reach, mem)
    BY InvAsBegun DEF AsBegun
  <2> QED
    BY <1>1, <2>1 DEF ShownBy, ObjOf
<1>3. \A a, b \in A : mem[a].id = mem[b].id => Say(a) = Say(b)
  <2>1. \A a, b \in A : mem[a].id = mem[b].id =>
          \A f \in Fields : Id(mem[a][f]) = Id(mem[b][f])
    BY <1>1, Alike
  <2>2. \A x : Id(x) = ObjOf(mem, x)
    BY DEF Id, ObjOf
  <2> QED
    BY <2>1, <2>2 DEF Fields
<1> DEFINE Of(o) == {a \in A : mem[a].id = o}
           See(o) == LET a == CHOOSE b \in Of(o) : TRUE
                     IN  [car |-> ObjOf(mem, mem[a].car), cdr |-> ObjOf(mem, mem[a].cdr)]
           Tell(o) == LET t == CHOOSE u \in Seen : u[1] = o IN [car |-> t[2], cdr |-> t[3]]
<1>4. SeenObj = [o \in Objects |-> IF Of(o) = {} THEN [car |-> NIL, cdr |-> NIL] ELSE See(o)]
  BY <1>1, SeenIsFrom DEF SeenFrom
<1>5. \A a : /\ Say(a)[1] = mem[a].id
             /\ Say(a)[2] = ObjOf(mem, mem[a].car) /\ Say(a)[3] = ObjOf(mem, mem[a].cdr)
  OBVIOUS
<1>6. ASSUME NEW o PROVE (Of(o) = {}) <=> \A t \in Seen : t[1] # o
  <2>1. (Of(o) = {}) <=> \A a \in A : mem[a].id # o
    OBVIOUS
  <2>2. (\A t \in Seen : t[1] # o) <=> \A a \in A : Say(a)[1] # o
    <3> HIDE DEF Say
    <3> QED
      BY <1>2
  <2>3. \A a \in A : Say(a)[1] = mem[a].id
    BY <1>5
  <2> HIDE DEF Of, Say
  <2> QED
    BY <2>1, <2>2, <2>3
<1>7. ASSUME NEW o, Of(o) # {} PROVE See(o) = Tell(o)
  <2>1. PICK a : a = CHOOSE b \in Of(o) : TRUE
    OBVIOUS
  <2>2. a \in A /\ mem[a].id = o
    BY <1>7, <2>1
  <2>3. PICK t : t = CHOOSE u \in Seen : u[1] = o
    OBVIOUS
  <2>4. Say(a) \in Seen /\ Say(a)[1] = o
    BY <1>2, <1>5, <2>2
  <2>5. t \in Seen /\ t[1] = o
    BY <2>3, <2>4
  <2>6. PICK b \in A : t = Say(b)
    BY <1>2, <2>5
  <2>7. t = Say(a)
    BY <1>3, <1>5, <2>2, <2>5, <2>6
  <2>8. See(o) = [car |-> ObjOf(mem, mem[a].car), cdr |-> ObjOf(mem, mem[a].cdr)]
    BY <2>1
  <2>9. Tell(o) = [car |-> t[2], cdr |-> t[3]]
    BY <2>3
  <2> QED
    BY <1>5, <2>7, <2>8, <2>9
<1>8. FromSeen(Seen) = [o \in Objects |-> IF \A t \in Seen : t[1] # o THEN [car |-> NIL, cdr |-> NIL]
                                          ELSE Tell(o)]
  BY DEF FromSeen
<1> HIDE DEF Of, See, Tell
<1> QED
  BY <1>4, <1>6, <1>7, <1>8

LEMMA InitShows ==
  ASSUME Init
  PROVE  Promise!Init
<1>1. PICK o \in Objects \ Conts :
        /\ mem = [a \in Cells |-> IF a = 1 THEN [id |-> o, car |-> NIL, cdr |-> NIL] ELSE Free]
        /\ reg = [topenv |-> 1, S |-> NIL, D |-> NIL, v |-> NIL]
        /\ pc = "run"
  BY DEF Init
<1>2. Inv
  BY InitInv
<1>3. 1 \in Cells /\ mem[1] = [id |-> o, car |-> NIL, cdr |-> NIL] /\ NIL # 1
  BY <1>1, CellsFinite DEF Cells, NIL
<1>4. /\ SeenReg = [x \in {"topenv", "S", "D", "v"} |-> ObjOf(mem, reg[x])]
      /\ Linked(mem)
  BY <1>1, <1>2, View, AllLinked DEF Types
<1>5. SeenReg = [topenv |-> o, S |-> NIL, D |-> NIL, v |-> NIL]
  BY <1>1, <1>3, <1>4 DEF ObjOf
<1>6. Roots(reg) = {1} /\ Closed({1}, mem)
  BY <1>1, <1>3 DEF Roots, Closed
<1>7. Reach \subseteq {1}
  BY <1>3, <1>4, <1>6, ReachIsClosure, Leads
<1>8. PICK g : g = [p \in Objects |-> [car |-> NIL, cdr |-> NIL]]
  OBVIOUS
<1>9. Picture(Reach, mem, g)
  BY <1>1, <1>3, <1>7, <1>8 DEF Picture, ObjOf
<1>10. SeenObj = [p \in Objects |-> IF p \in Ids(Reach, mem) THEN g[p] ELSE [car |-> NIL, cdr |-> NIL]]
  BY <1>9, SeenIsFrom, SeenInPicture
<1>11. SeenObj = [p \in Objects |-> Promise!Free]
  BY <1>8, <1>10 DEF Promise!Free
<1> QED
  BY <1>5, <1>11 DEF Promise!Init

\* What is seen is what the collector's invariant says of it.
SeenAsBegun == AsBegun /\ SeenObj = FromSeen(Seen)

\* Every instruction does to the objects in use what it does in the store, and
\* no step of a collection changes them.
LEMMA StepOfStore ==
  ASSUME Inv, TopApart, SeenAsBegun, SeenAsBegun', [Next]_vars
  PROVE  [Promise!Next]_<<SeenReg, SeenObj>>
<1>1. CASE Program /\ UNCHANGED kind
  BY <1>1, ProgramShows
<1>2. CASE (GC /\ UNCHANGED kind) \/ UNCHANGED vars
  <2>1. pc # "run" \/ pc' # "run" => UNCHANGED <<SeenReg, Seen>>
    BY StepShowsNothing DEF SeenAsBegun
  <2>2. UNCHANGED <<SeenReg, Seen>>
    <3>1. CASE pc # "run" \/ pc' # "run"
      BY <2>1, <3>1
    <3>2. CASE GC /\ UNCHANGED kind
      BY <2>1, <3>2, CollectorStep DEF GCStep, EndGC
    <3>3. CASE UNCHANGED vars
      <4>1. mem' = mem /\ reg' = reg
        BY <3>3 DEF vars, heap
      <4>2. Reach' = Closure(mem')[Roots(reg')] /\ Reach = Closure(mem)[Roots(reg)]
        BY DEF Reach, ReachFrom, Closure, Roots
      <4>3. Reach' = Reach
        BY <4>1, <4>2
      <4> QED
        BY <4>1, <4>3 DEF SeenAsBegun, AsBegun
    <3> QED
      BY <1>2, <3>2, <3>3
  <2>3. SeenObj = FromSeen(Seen) /\ SeenObj' = FromSeen(Seen')
    <3>1. (SeenObj = FromSeen(Seen))'
      BY DEF SeenAsBegun
    <3> QED
      BY <3>1 DEF SeenAsBegun, FromSeen
  <2> QED
    BY <2>2, <2>3
<1> QED
  BY <1>1, <1>2 DEF Next, Remember, Collect

-----------------------------------------------------------------------------
(***************************************************************************)
(* The top environment stays apart from the stack.  The stack's cells are  *)
(* nobody's but the stack's and the continuations', and each continuation  *)
(* has its own part of them, until it has been returned through: then what *)
(* it holds is S, or was.                                                  *)
(***************************************************************************)
\* What comes after a cell of a stack, or is the stack that a continuation saved.
Rest(m, a) == IF m[a].id \in Conts THEN m[a].car ELSE m[a].cdr

\* The stack's cells and the continuations among V that have a stack to give back.
Owners(V, K, m, l) == K \cup {a \in V : m[a].id \in Conts \ l}

\* The registers and the cells V lead to no others, but for what the
\* continuations l hold.
Lasting(V, m, r, l) ==
  /\ V \in SUBSET Cells /\ Roots(r) \subseteq V
  /\ \A a \in V : /\ m[a].cdr \in V \cup {NIL}
                  /\ m[a].id \notin l => m[a].car \in V \cup {NIL}

\* D is a list of continuations.
Dump(V, m, r) ==
  /\ r.D # NIL => m[r.D].id \in Conts
  /\ \A a \in V : m[a].id \in Conts /\ m[a].cdr # NIL => m[m[a].cdr].id \in Conts

\* K are the cells of the stacks, each of them with one owner.
Chain(V, K, m, r, l) ==
  /\ K \subseteq V /\ r.S \in K \cup {NIL}
  /\ \A a \in K : m[a].id \notin Conts
  /\ \A a \in Owners(V, K, m, l) :
       Rest(m, a) \in K \cup {NIL} /\ (r.S # NIL => Rest(m, a) # r.S)
  /\ \A a, b \in Owners(V, K, m, l) : Rest(m, a) = Rest(m, b) => a = b \/ Rest(m, a) = NIL

\* Nothing else leads to them.
Apart(V, K, m, r) ==
  /\ r.topenv \notin K /\ r.v \notin K
  /\ \A a \in V : m[a].id \notin Conts => m[a].car \notin K /\ (a \notin K => m[a].cdr \notin K)

Stacked(V, K, m, r, l) ==
  Lasting(V, m, r, l) /\ Dump(V, m, r) /\ Chain(V, K, m, r, l) /\ Apart(V, K, m, r)

StackInv ==
  IF pc = "run" THEN \E V, K : V \subseteq Reach /\ Stacked(V, K, mem, reg, left)
  ELSE \E A, r, V, K : CollectingFrom(A, r) /\ V \subseteq A /\ Stacked(V, K, mem, r, left)

\* Other cells than those of the stacks.
Off(V, K) == (V \ K) \cup {NIL}

\* What is not S, nor a stack that was saved, is off the stacks.
LEMMA OffTheStacks ==
  ASSUME NEW V, NEW K, NEW m, NEW r, NEW l, l \subseteq Conts, Stacked(V, K, m, r, l)
  PROVE  /\ NIL \notin V /\ NIL \notin K /\ K \subseteq V /\ V \in SUBSET Cells
         /\ r.topenv \in Off(V, K) /\ r.v \in Off(V, K) /\ r.D \in Off(V, K)
         /\ r.S # NIL => r.S \in K /\ m[r.S].car \in Off(V, K) /\ m[r.S].cdr \in K \cup {NIL}
         /\ \A a \in V : m[a].id \notin Conts =>
              m[a].car \in Off(V, K) /\ (a \notin K => m[a].cdr \in Off(V, K))
         /\ \A a \in V : m[a].id \in Conts => m[a].cdr \in Off(V, K)
         /\ \A k \in K : m[k].cdr \in K \cup {NIL} /\ m[k].id \notin Conts
<1>1. NIL \notin V /\ NIL \notin K /\ K \subseteq V /\ V \in SUBSET Cells
  BY CellsFinite DEF Stacked, Lasting, Chain
<1>2. \A k \in K : m[k].cdr \in K \cup {NIL} /\ m[k].id \notin Conts
  BY DEF Stacked, Chain, Owners, Rest
<1>3. r.topenv \in V \cup {NIL} /\ r.v \in V \cup {NIL} /\ r.D \in V \cup {NIL}
  BY DEF Stacked, Lasting, Roots
<1>4. r.D \notin K
  BY <1>1, <1>2 DEF Stacked, Dump
<1>5. r.topenv \in Off(V, K) /\ r.v \in Off(V, K) /\ r.D \in Off(V, K)
  BY <1>3, <1>4 DEF Stacked, Apart, Off
<1>6. \A a \in V : m[a].id \notin Conts =>
        m[a].car \in Off(V, K) /\ (a \notin K => m[a].cdr \in Off(V, K))
  BY DEF Stacked, Lasting, Apart, Off
<1>7. ASSUME NEW a \in V, m[a].id \in Conts PROVE m[a].cdr \in Off(V, K)
  BY <1>1, <1>2, <1>7 DEF Stacked, Lasting, Dump, Off
<1>8. r.S # NIL => r.S \in K
  BY DEF Stacked, Chain
<1> QED
  BY <1>1, <1>2, <1>5, <1>6, <1>7, <1>8

\* The top environment does not lead to the cell on top of the stack.
LEMMA StackKeepsApart ==
  ASSUME Inv, StackInv, ~KeepsLeft, left \subseteq Conts
  PROVE  TopApart
<1> SUFFICES ASSUME pc = "run"
             PROVE  \E B \in SUBSET Cells : HoldsEnv(B, mem, reg.topenv) /\ reg.S \notin B
  BY DEF TopApart
<1>1. PICK V, K : Stacked(V, K, mem, reg, left)
  BY DEF StackInv
<1>0. PICK e0 : e0 = {reg.topenv} \ {NIL}
  OBVIOUS
<1> DEFINE E == Closure(mem)[e0]
<1>2. /\ NIL \notin V /\ NIL \notin K /\ K \subseteq V /\ V \in SUBSET Cells
      /\ reg.topenv \in Off(V, K)
      /\ reg.S # NIL => reg.S \in K
      /\ \A a \in V : mem[a].id \notin Conts =>
           mem[a].car \in Off(V, K) /\ (a \notin K => mem[a].cdr \in Off(V, K))
      /\ \A a \in V : mem[a].id \in Conts => mem[a].cdr \in Off(V, K)
      /\ \A k \in K : mem[k].cdr \in K \cup {NIL} /\ mem[k].id \notin Conts
  BY <1>1, OffTheStacks
<1>3. Linked(mem) /\ e0 \in SUBSET Cells /\ e0 \subseteq V
  BY <1>0, <1>2, AllLinked DEF Inv, Types, Off
<1>4. /\ E \in SUBSET Cells /\ e0 \subseteq E /\ Closed(E, mem)
      /\ \A B \in SUBSET Cells : e0 \subseteq B /\ Closed(B, mem) => E \subseteq B
  BY <1>3, Leads
<1>5. \A a \in E : mem[a].id \notin left
  BY <1>0 DEF KeepsLeft, ReachFrom, Closure
<1> HIDE DEF E
<1>6. E \subseteq V
  <2> DEFINE B == E \cap V
  <2>1. \A a \in B : mem[a].car \in B \cup {NIL} /\ mem[a].cdr \in B \cup {NIL}
    BY <1>1, <1>4, <1>5 DEF Closed, Stacked, Lasting
  <2>2. B \in SUBSET Cells /\ e0 \subseteq B
    BY <1>3, <1>4
  <2> HIDE DEF B
  <2>3. E \subseteq B
    BY <1>4, <2>1, <2>2 DEF Closed
  <2> QED
    BY <2>3 DEF B
<1> DEFINE B == E \ {reg.S}
<1>7. ASSUME NEW a \in B PROVE mem[a].car \in B \cup {NIL} /\ mem[a].cdr \in B \cup {NIL}
  <2>1. a \in V /\ a \in E /\ mem[a].id \notin left
    BY <1>5, <1>6
  <2>2. mem[a].car \in E \cup {NIL} /\ mem[a].cdr \in E \cup {NIL}
    BY <1>4, <2>1 DEF Closed
  <2>3. CASE reg.S = NIL
    BY <2>2, <2>3
  <2>4. CASE reg.S # NIL /\ mem[a].id \notin Conts
    <3>1. mem[a].car # reg.S
      BY <1>2, <2>1, <2>4 DEF Off
    <3>2. CASE a \in K
      <4>1. a \in Owners(V, K, mem, left) /\ Rest(mem, a) = mem[a].cdr
        BY <2>4, <3>2 DEF Owners, Rest
      <4>2. mem[a].cdr # reg.S
        BY <1>1, <2>4, <4>1 DEF Stacked, Chain
      <4> QED
        BY <2>2, <3>1, <4>2
    <3>3. CASE a \notin K
      BY <1>2, <2>1, <2>2, <2>4, <3>1, <3>3 DEF Off
    <3> QED
      BY <3>2, <3>3
  <2>5. CASE reg.S # NIL /\ mem[a].id \in Conts
    <3>1. a \in Owners(V, K, mem, left) /\ Rest(mem, a) = mem[a].car
      BY <2>1, <2>5 DEF Owners, Rest
    <3>2. mem[a].car # reg.S
      BY <1>1, <2>5, <3>1 DEF Stacked, Chain
    <3> QED
      BY <1>2, <2>1, <2>2, <2>5, <3>2 DEF Off
  <2> QED
    BY <2>3, <2>4, <2>5
<1>8. HoldsEnv(B, mem, reg.topenv) /\ reg.S \notin B /\ B \in SUBSET Cells
  <2>1. e0 \subseteq B
    BY <1>0, <1>2, <1>4 DEF Off
  <2>2. B \in SUBSET Cells /\ reg.S \notin B
    BY <1>4
  <2> HIDE DEF B
  <2> QED
    BY <1>0, <1>7, <2>1, <2>2 DEF HoldsEnv, Closed
<1> QED
  BY <1>8

\* What is reached of these cells is stacked as they are.
LEMMA StackShrinks ==
  ASSUME NEW V, NEW K, NEW m, NEW r, NEW l, Stacked(V, K, m, r, l),
         NEW B, Roots(r) \subseteq B, Closed(B, m)
  PROVE  Stacked(V \cap B, K \cap B, m, r, l)
<1>1. Lasting(V \cap B, m, r, l)
  BY DEF Stacked, Lasting, Closed
<1>2. Dump(V \cap B, m, r)
  BY DEF Stacked, Dump
<1>3. Owners(V \cap B, K \cap B, m, l) \subseteq Owners(V, K, m, l) \cap B
  BY DEF Owners
<1>4. \A a \in B : Rest(m, a) \in B \cup {NIL}
  BY DEF Rest, Closed
<1>5. Chain(V \cap B, K \cap B, m, r, l)
  BY <1>3, <1>4 DEF Stacked, Chain, Roots
<1>6. Apart(V \cap B, K \cap B, m, r)
  BY DEF Stacked, Apart
<1> QED
  BY <1>1, <1>2, <1>5, <1>6 DEF Stacked

\* Only the cells of V matter, and which of them l has.
LEMMA StackedHere ==
  ASSUME NEW V, NEW K, NEW m, NEW r, NEW l, Stacked(V, K, m, r, l),
         NEW n, \A a \in V : n[a] = m[a],
         NEW k, \A a \in V : m[a].id \in k <=> m[a].id \in l
  PROVE  Stacked(V, K, n, r, k)
<1>1. Lasting(V, n, r, k)
  BY DEF Stacked, Lasting
<1>2. Dump(V, n, r)
  BY DEF Stacked, Dump, Lasting, Roots
<1>3. K \subseteq V
  BY DEF Stacked, Chain
<1>4. Owners(V, K, n, k) = Owners(V, K, m, l) /\ Owners(V, K, n, k) \subseteq V
  BY <1>3 DEF Owners
<1>5. \A a \in V : Rest(n, a) = Rest(m, a)
  BY DEF Rest
<1>6. Chain(V, K, n, r, k)
  BY <1>3, <1>4, <1>5 DEF Stacked, Chain
<1>7. Apart(V, K, n, r)
  BY DEF Stacked, Apart
<1> QED
  BY <1>1, <1>2, <1>6, <1>7 DEF Stacked

\* Registers other than S are loaded, or S is emptied.
LEMMA StackMoved ==
  ASSUME NEW V, NEW K, NEW m, NEW r, NEW l, Stacked(V, K, m, r, l),
         NEW q, q.topenv = r.topenv, q.S \in {r.S, NIL}, q.v \in Off(V, K),
         q.D \in V \cup {NIL}, q.D # NIL => m[q.D].id \in Conts
  PROVE  Stacked(V, K, m, q, l)
<1>1. Lasting(V, m, q, l)
  BY DEF Stacked, Lasting, Roots, Off
<1>2. Dump(V, m, q)
  BY DEF Stacked, Dump
<1>3. Chain(V, K, m, q, l)
  BY DEF Stacked, Chain
<1>4. Apart(V, K, m, q)
  <2>1. NIL \notin K
    BY CellsFinite DEF Stacked, Lasting, Chain
  <2> QED
    BY <2>1 DEF Stacked, Apart, Off
<1> QED
  BY <1>1, <1>2, <1>3, <1>4 DEF Stacked

\* A cell that is not a continuation is written to, but for the cdr of one of a
\* stack.
LEMMA StackWritten ==
  ASSUME NEW V, NEW K, NEW m, NEW r, NEW l, l \subseteq Conts, Stacked(V, K, m, r, l),
         NEW c \in V, m[c].id \notin Conts, NEW n, \A a \in V : a # c => n[a] = m[a],
         n[c].id = m[c].id, n[c].car \in Off(V, K),
         IF c \in K THEN n[c].cdr = m[c].cdr ELSE n[c].cdr \in Off(V, K)
  PROVE  Stacked(V, K, n, r, l)
<1>1. /\ NIL \notin K /\ K \subseteq V
      /\ \A k \in K : m[k].cdr \in K \cup {NIL} /\ m[k].id \notin Conts
  BY OffTheStacks
<1>2. \A a \in V : n[a].id = m[a].id /\ (n[a].id \in Conts => n[a] = m[a])
  OBVIOUS
<1>3. Lasting(V, n, r, l)
  BY <1>1 DEF Stacked, Lasting, Off
<1>4. Dump(V, n, r)
  BY <1>2 DEF Stacked, Dump, Lasting, Roots
<1>5. Owners(V, K, n, l) = Owners(V, K, m, l)
  BY <1>2 DEF Owners
<1>6. \A a \in Owners(V, K, m, l) : Rest(n, a) = Rest(m, a)
  BY <1>1, <1>2 DEF Owners, Rest
<1>7. Chain(V, K, n, r, l)
  BY <1>1, <1>2, <1>5, <1>6 DEF Stacked, Chain
<1>8. Apart(V, K, n, r)
  BY <1>1, <1>2 DEF Stacked, Apart, Off
<1> QED
  BY <1>3, <1>4, <1>7, <1>8 DEF Stacked

\* POP: the top of the stack is nobody's, and forgotten.
LEMMA StackPopped ==
  ASSUME NEW V, NEW K, NEW m, NEW r, NEW l, l \subseteq Conts, Stacked(V, K, m, r, l), r.S # NIL,
         NEW q, q.topenv = r.topenv, q.D = r.D, q.v = m[r.S].car, q.S = m[r.S].cdr
  PROVE  Stacked(V \ {r.S}, K \ {r.S}, m, q, l)
<1> DEFINE W == V \ {r.S}
           L == K \ {r.S}
<1>1. /\ NIL \notin V /\ NIL \notin K /\ K \subseteq V /\ V \in SUBSET Cells
      /\ r.topenv \in Off(V, K) /\ r.v \in Off(V, K) /\ r.D \in Off(V, K)
      /\ r.S \in K /\ m[r.S].car \in Off(V, K) /\ m[r.S].cdr \in K \cup {NIL}
      /\ \A a \in V : m[a].id \notin Conts =>
           m[a].car \in Off(V, K) /\ (a \notin K => m[a].cdr \in Off(V, K))
      /\ \A a \in V : m[a].id \in Conts => m[a].cdr \in Off(V, K)
      /\ \A k \in K : m[k].cdr \in K \cup {NIL} /\ m[k].id \notin Conts
  BY OffTheStacks
<1>2. \A a \in Owners(V, K, m, l) : Rest(m, a) \in K \cup {NIL} /\ Rest(m, a) # r.S
  BY DEF Stacked, Chain
<1>3. \A a, b \in Owners(V, K, m, l) : Rest(m, a) = Rest(m, b) => a = b \/ Rest(m, a) = NIL
  BY DEF Stacked, Chain
<1>4. Owners(W, L, m, l) \subseteq Owners(V, K, m, l) \ {r.S}
  BY <1>1 DEF Owners
<1>5. r.S \in Owners(V, K, m, l) /\ Rest(m, r.S) = m[r.S].cdr
  BY <1>1 DEF Owners, Rest
<1>6. ASSUME NEW a \in V PROVE m[a].cdr # r.S /\ (m[a].id \notin l => m[a].car # r.S)
  <2>1. CASE m[a].id \in Conts
    <3>1. m[a].cdr # r.S
      BY <1>1, <2>1 DEF Off
    <3>2. m[a].id \notin l => a \in Owners(V, K, m, l) /\ Rest(m, a) = m[a].car
      BY <2>1 DEF Owners, Rest
    <3> QED
      BY <1>2, <3>1, <3>2
  <2>2. CASE m[a].id \notin Conts
    <3>1. m[a].car # r.S
      BY <1>1, <2>2 DEF Off
    <3>2. a \in K => a \in Owners(V, K, m, l) /\ Rest(m, a) = m[a].cdr
      BY <2>2 DEF Owners, Rest
    <3>3. a \notin K => m[a].cdr # r.S
      BY <1>1, <2>2 DEF Off
    <3> QED
      BY <1>2, <3>1, <3>2, <3>3
  <2> QED
    BY <2>1, <2>2
<1>7. Lasting(W, m, q, l)
  <2>1. Roots(q) \subseteq W
    <3>1. r.topenv \in W \cup {NIL} /\ r.D \in W \cup {NIL} /\ m[r.S].car \in W \cup {NIL}
      BY <1>1 DEF Off
    <3>2. m[r.S].cdr \in W \cup {NIL}
      BY <1>1, <1>6
    <3> QED
      BY <3>1, <3>2 DEF Roots
  <2>2. \A a \in W : /\ m[a].cdr \in W \cup {NIL}
                     /\ m[a].id \notin l => m[a].car \in W \cup {NIL}
    BY <1>6 DEF Stacked, Lasting
  <2> QED
    BY <1>1, <2>1, <2>2 DEF Lasting
<1>8. Dump(W, m, q)
  BY DEF Stacked, Dump
<1>9. Chain(W, L, m, q, l)
  <2>1. L \subseteq W /\ q.S \in L \cup {NIL} /\ \A a \in L : m[a].id \notin Conts
    BY <1>1, <1>6
  <2>2. \A a \in Owners(W, L, m, l) : Rest(m, a) \in L \cup {NIL}
    BY <1>2, <1>4
  <2>3. \A a \in Owners(W, L, m, l) : q.S # NIL => Rest(m, a) # q.S
    BY <1>3, <1>4, <1>5
  <2>4. \A a, b \in Owners(W, L, m, l) : Rest(m, a) = Rest(m, b) => a = b \/ Rest(m, a) = NIL
    BY <1>3, <1>4
  <2> QED
    BY <2>1, <2>2, <2>3, <2>4 DEF Chain
<1>10. Apart(W, L, m, q)
  <2>1. q.topenv \notin L /\ q.v \notin L
    BY <1>1 DEF Off
  <2>2. \A a \in W : m[a].id \notin Conts => m[a].car \notin L /\ (a \notin L => m[a].cdr \notin L)
    BY <1>1 DEF Off
  <2> QED
    BY <2>1, <2>2 DEF Apart
<1> QED
  BY <1>7, <1>8, <1>9, <1>10 DEF Stacked

\* The surgery of c_apply(): the top of the stack becomes an association pair.
LEMMA StackBound ==
  ASSUME NEW V, NEW K, NEW m, NEW r, NEW l, l \subseteq Conts, Stacked(V, K, m, r, l), r.S # NIL,
         NEW x \in Off(V, K), NEW n, \A a \in V : a # r.S => n[a] = m[a],
         n[r.S].id = m[r.S].id, n[r.S].car = x, n[r.S].cdr = m[r.S].car,
         NEW q, q.topenv = r.topenv, q.D = r.D, q.v = r.S, q.S = m[r.S].cdr
  PROVE  Stacked(V, K \ {r.S}, n, q, l)
<1> DEFINE L == K \ {r.S}
<1>1. /\ NIL \notin V /\ NIL \notin K /\ K \subseteq V /\ V \in SUBSET Cells
      /\ r.topenv \in Off(V, K) /\ r.v \in Off(V, K) /\ r.D \in Off(V, K)
      /\ r.S \in K /\ m[r.S].car \in Off(V, K) /\ m[r.S].cdr \in K \cup {NIL}
      /\ \A a \in V : m[a].id \notin Conts =>
           m[a].car \in Off(V, K) /\ (a \notin K => m[a].cdr \in Off(V, K))
      /\ \A a \in V : m[a].id \in Conts => m[a].cdr \in Off(V, K)
      /\ \A k \in K : m[k].cdr \in K \cup {NIL} /\ m[k].id \notin Conts
  BY OffTheStacks
<1>2. \A a \in Owners(V, K, m, l) : Rest(m, a) \in K \cup {NIL} /\ Rest(m, a) # r.S
  BY DEF Stacked, Chain
<1>3. \A a, b \in Owners(V, K, m, l) : Rest(m, a) = Rest(m, b) => a = b \/ Rest(m, a) = NIL
  BY DEF Stacked, Chain
<1>4. \A a \in V : n[a].id = m[a].id
  OBVIOUS
<1>5. Owners(V, L, n, l) \subseteq Owners(V, K, m, l) \ {r.S}
  BY <1>1, <1>4 DEF Owners
<1>6. \A a \in Owners(V, L, n, l) : Rest(n, a) = Rest(m, a)
  <2>1. Owners(V, L, n, l) \subseteq V \ {r.S}
    BY <1>1, <1>5 DEF Owners
  <2> QED
    BY <2>1 DEF Rest
<1>7. r.S \in Owners(V, K, m, l) /\ Rest(m, r.S) = m[r.S].cdr
  BY <1>1 DEF Owners, Rest
<1>8. Lasting(V, n, q, l)
  <2>1. Roots(q) \subseteq V
    BY <1>1 DEF Roots, Off
  <2>2. \A a \in V : /\ n[a].cdr \in V \cup {NIL}
                     /\ n[a].id \notin l => n[a].car \in V \cup {NIL}
    BY <1>1 DEF Stacked, Lasting, Off
  <2> QED
    BY <1>1, <2>1, <2>2 DEF Lasting
<1>9. Dump(V, n, q)
  <2>1. \A a \in V : n[a].id \in Conts => n[a] = m[a]
    BY <1>1, <1>4
  <2> QED
    BY <1>4, <2>1 DEF Stacked, Dump, Lasting, Roots
<1>10. Chain(V, L, n, q, l)
  <2>1. L \subseteq V /\ q.S \in L \cup {NIL} /\ \A a \in L : n[a].id \notin Conts
    BY <1>1, <1>2, <1>7
  <2>2. \A a \in Owners(V, L, n, l) : Rest(n, a) \in L \cup {NIL}
    BY <1>2, <1>5, <1>6
  <2>3. \A a \in Owners(V, L, n, l) : q.S # NIL => Rest(n, a) # q.S
    BY <1>3, <1>5, <1>6, <1>7
  <2>4. \A a, b \in Owners(V, L, n, l) : Rest(n, a) = Rest(n, b) => a = b \/ Rest(n, a) = NIL
    BY <1>3, <1>5, <1>6
  <2> QED
    BY <2>1, <2>2, <2>3, <2>4 DEF Chain
<1>11. Apart(V, L, n, q)
  <2>1. q.topenv \notin L /\ q.v \notin L
    BY <1>1 DEF Off
  <2>2. \A a \in V : n[a].id \notin Conts => n[a].car \notin L /\ (a \notin L => n[a].cdr \notin L)
    BY <1>1, <1>4 DEF Off
  <2> QED
    BY <2>1, <2>2 DEF Apart
<1> QED
  BY <1>8, <1>9, <1>10, <1>11 DEF Stacked

\* The stack is given away: none of its cells is a stack's any more.
LEMMA StackGiven ==
  ASSUME NEW V, NEW K, NEW m, NEW r, NEW l, l \subseteq Conts, Stacked(V, K, m, r, l), r.S # NIL,
         NEW q, q.topenv = r.topenv, q.D = r.D, q.v = r.v, q.S = NIL
  PROVE  \E L : Stacked(V, L, m, q, l) /\ L \subseteq K /\ r.S \in Off(V, L)
<1> DEFINE Whole(B) == r.S \in B /\ \A b \in B : m[b].cdr \in B \cup {NIL}
<1>1. PICK X : X = {k \in K : \A B \in SUBSET K : Whole(B) => k \in B}
  OBVIOUS
<1>2. /\ NIL \notin V /\ NIL \notin K /\ K \subseteq V /\ V \in SUBSET Cells
      /\ r.S \in K /\ \A k \in K : m[k].cdr \in K \cup {NIL} /\ m[k].id \notin Conts
      /\ \A a \in V : m[a].id \notin Conts =>
           m[a].car \in Off(V, K) /\ (a \notin K => m[a].cdr \in Off(V, K))
  BY OffTheStacks
<1>3. r.S \in X /\ X \subseteq K
  BY <1>1, <1>2
<1>4. \A x \in X : m[x].cdr \in X \cup {NIL}
  BY <1>1, <1>2
<1>5. ASSUME NEW y \in X, y # r.S PROVE \E z \in X : m[z].cdr = y
  <2>1. SUFFICES ASSUME \A z \in X : m[z].cdr # y PROVE FALSE
    OBVIOUS
  <2>2. Whole(X \ {y}) /\ X \ {y} \in SUBSET K
    BY <1>3, <1>4, <1>5, <2>1
  <2> QED
    BY <1>1, <2>2
<1> DEFINE L == K \ X
<1>6. \A a \in Owners(V, K, m, l) : Rest(m, a) \in K \cup {NIL} /\ Rest(m, a) # r.S
  BY <1>2 DEF Stacked, Chain
<1>7. \A a, b \in Owners(V, K, m, l) : Rest(m, a) = Rest(m, b) => a = b \/ Rest(m, a) = NIL
  BY DEF Stacked, Chain
<1>8. Owners(V, L, m, l) \subseteq Owners(V, K, m, l) \ X
  BY <1>2, <1>3 DEF Owners
<1>9. ASSUME NEW a \in Owners(V, L, m, l) PROVE Rest(m, a) \in L \cup {NIL}
  <2>1. SUFFICES ASSUME Rest(m, a) \in X PROVE FALSE
    BY <1>6, <1>8
  <2>2. PICK z \in X : m[z].cdr = Rest(m, a)
    BY <1>5, <1>6, <1>8, <2>1
  <2>3. z \in Owners(V, K, m, l) /\ Rest(m, z) = m[z].cdr
    BY <1>2, <1>3 DEF Owners, Rest
  <2>4. Rest(m, a) # NIL
    BY <1>2, <1>3, <2>1
  <2>5. a = z
    BY <1>7, <1>8, <2>2, <2>3, <2>4
  <2> QED
    BY <1>8, <2>5
<1>10. Lasting(V, m, q, l)
  BY DEF Stacked, Lasting, Roots
<1>11. Dump(V, m, q)
  BY DEF Stacked, Dump
<1>12. Chain(V, L, m, q, l)
  BY <1>2, <1>7, <1>8, <1>9 DEF Chain
<1>13. Apart(V, L, m, q)
  <2>1. q.topenv \notin L /\ q.v \notin L
    BY DEF Stacked, Apart
  <2>2. ASSUME NEW a \in V, m[a].id \notin Conts
        PROVE  m[a].car \notin L /\ (a \notin L => m[a].cdr \notin L)
    <3>1. m[a].car \notin L /\ (a \notin K => m[a].cdr \notin L)
      BY <2>2 DEF Stacked, Apart
    <3>2. a \in X => m[a].cdr \notin L
      BY <1>2, <1>4
    <3> QED
      BY <3>1, <3>2
  <2> QED
    BY <2>1, <2>2 DEF Apart
<1>14. Stacked(V, L, m, q, l) /\ L \subseteq K /\ r.S \in Off(V, L)
  BY <1>2, <1>3, <1>10, <1>11, <1>12, <1>13 DEF Stacked, Off
<1> QED
  BY <1>14


\* A cell is made of what is off the stacks.
LEMMA StackMade ==
  ASSUME NEW V, NEW K, NEW m, NEW r, NEW l, l \subseteq Conts, Stacked(V, K, m, r, l),
         NEW p \in Cells, p \notin V, NEW n, \A a \in V : n[a] = m[a], n[p].id \notin Conts,
         n[p].car \in Off(V, K), n[p].cdr \in Off(V, K),
         NEW q, q.topenv = r.topenv, q.S = r.S, q.D = r.D, q.v = p
  PROVE  Stacked(V \cup {p}, K, n, q, l)
<1>1. NIL \notin V /\ NIL \notin K /\ K \subseteq V /\ V \in SUBSET Cells
  BY OffTheStacks
<1>2. Stacked(V, K, n, r, l)
  BY StackedHere
<1>3. Lasting(V \cup {p}, n, q, l)
  BY <1>1, <1>2 DEF Stacked, Lasting, Roots, Off
<1>4. Dump(V \cup {p}, n, q)
  BY <1>2 DEF Stacked, Dump
<1>5. Owners(V \cup {p}, K, n, l) = Owners(V, K, n, l)
  BY DEF Owners
<1>6. Chain(V \cup {p}, K, n, q, l)
  BY <1>2, <1>5 DEF Stacked, Chain
<1>7. Apart(V \cup {p}, K, n, q)
  BY <1>1, <1>2 DEF Stacked, Apart, Off
<1> QED
  BY <1>3, <1>4, <1>6, <1>7 DEF Stacked

\* PUSH: the new cell is the top of the stack.
LEMMA StackPushed ==
  ASSUME NEW V, NEW K, NEW m, NEW r, NEW l, l \subseteq Conts, Stacked(V, K, m, r, l),
         NEW p \in Cells, p \notin V, NEW n, \A a \in V : n[a] = m[a], n[p].id \notin Conts,
         n[p].car = r.v, n[p].cdr = r.S,
         NEW q, q.topenv = r.topenv, q.S = p, q.D = r.D, q.v = r.v
  PROVE  Stacked(V \cup {p}, K \cup {p}, n, q, l)
<1> DEFINE L == K \cup {p}
<1>1. /\ NIL \notin V /\ NIL \notin K /\ K \subseteq V /\ V \in SUBSET Cells /\ p # NIL
      /\ r.topenv \in Off(V, K) /\ r.v \in Off(V, K) /\ r.S \in K \cup {NIL}
      /\ \A a \in V : m[a].id \notin Conts =>
           m[a].car \in Off(V, K) /\ (a \notin K => m[a].cdr \in Off(V, K))
  BY OffTheStacks, CellsFinite
<1>2. Stacked(V, K, n, r, l)
  BY StackedHere
<1>3. Lasting(V \cup {p}, n, q, l)
  BY <1>1, <1>2 DEF Stacked, Lasting, Roots
<1>4. Dump(V \cup {p}, n, q)
  BY <1>2 DEF Stacked, Dump
<1>5. Owners(V \cup {p}, L, n, l) = Owners(V, K, n, l) \cup {p} /\ Rest(n, p) = r.S
  BY DEF Owners, Rest
<1>6. /\ \A a \in Owners(V, K, n, l) : Rest(n, a) \in K \cup {NIL} /\ (r.S # NIL => Rest(n, a) # r.S)
      /\ \A a, b \in Owners(V, K, n, l) : Rest(n, a) = Rest(n, b) => a = b \/ Rest(n, a) = NIL
  BY <1>2 DEF Stacked, Chain
<1>7. Chain(V \cup {p}, L, n, q, l)
  <2>1. L \subseteq V \cup {p} /\ q.S \in L \cup {NIL} /\ \A a \in L : n[a].id \notin Conts
    BY <1>1, <1>2 DEF Stacked, Chain
  <2>2. \A a \in Owners(V \cup {p}, L, n, l) : Rest(n, a) \in K \cup {NIL} /\ Rest(n, a) # p
    BY <1>1, <1>5, <1>6
  <2>3. \A a, b \in Owners(V \cup {p}, L, n, l) :
          Rest(n, a) = Rest(n, b) => a = b \/ Rest(n, a) = NIL
    BY <1>5, <1>6
  <2> QED
    BY <2>1, <2>2, <2>3 DEF Chain
<1>8. Apart(V \cup {p}, L, n, q)
  <2>1. q.topenv \notin L /\ q.v \notin L /\ n[p].car \notin L
    BY <1>1 DEF Off
  <2>2. ASSUME NEW a \in V, n[a].id \notin Conts
        PROVE  n[a].car \notin L /\ (a \notin L => n[a].cdr \notin L)
    BY <1>1, <2>2 DEF Off
  <2> QED
    BY <2>1, <2>2 DEF Apart
<1> QED
  BY <1>3, <1>4, <1>7, <1>8 DEF Stacked

\* c_evalc(): a new continuation has the stack.
LEMMA StackSaved ==
  ASSUME NEW V, NEW K, NEW m, NEW r, NEW l, l \subseteq Conts, Stacked(V, K, m, r, l),
         NEW o \in Conts, \A a \in V : m[a].id # o,
         NEW p \in Cells, p \notin V, NEW n, \A a \in V : n[a] = m[a], n[p].id = o,
         n[p].car = r.S, n[p].cdr = r.D,
         NEW q, q.topenv = r.topenv, q.S = NIL, q.D = p, q.v = r.v
  PROVE  Stacked(V \cup {p}, K, n, q, l \ {o})
<1> DEFINE k == l \ {o}
<1>1. /\ NIL \notin V /\ NIL \notin K /\ K \subseteq V /\ V \in SUBSET Cells /\ p # NIL
      /\ r.D \in V \cup {NIL} /\ r.S \in V \cup {NIL}
  BY OffTheStacks, CellsFinite DEF Off
<1>2. Stacked(V, K, n, r, k)
  BY StackedHere
<1>3. Lasting(V \cup {p}, n, q, k)
  BY <1>1, <1>2 DEF Stacked, Lasting, Roots
<1>4. Dump(V \cup {p}, n, q)
  BY <1>2 DEF Stacked, Dump
<1>5. Owners(V \cup {p}, K, n, k) = Owners(V, K, n, k) \cup {p} /\ Rest(n, p) = r.S
  BY DEF Owners, Rest
<1>6. Chain(V \cup {p}, K, n, q, k)
  <2>1. /\ K \subseteq V /\ \A a \in K : n[a].id \notin Conts
        /\ r.S \in K \cup {NIL}
        /\ \A a \in Owners(V, K, n, k) : Rest(n, a) \in K \cup {NIL} /\ (r.S # NIL => Rest(n, a) # r.S)
        /\ \A a, b \in Owners(V, K, n, k) : Rest(n, a) = Rest(n, b) => a = b \/ Rest(n, a) = NIL
    BY <1>2 DEF Stacked, Chain
  <2> HIDE DEF k
  <2>2. \A a \in Owners(V \cup {p}, K, n, k) : Rest(n, a) \in K \cup {NIL}
    BY <1>5, <2>1
  <2>3. \A a, b \in Owners(V \cup {p}, K, n, k) :
          Rest(n, a) = Rest(n, b) => a = b \/ Rest(n, a) = NIL
    BY <1>5, <2>1
  <2> QED
    BY <2>1, <2>2, <2>3 DEF Chain
<1>7. Apart(V \cup {p}, K, n, q)
  BY <1>2 DEF Stacked, Apart
<1> QED
  BY <1>3, <1>4, <1>6, <1>7 DEF Stacked

\* c_end(): the saved stack follows the top of the stack; it is the
\* continuation's no more.
LEMMA StackRestored ==
  ASSUME NEW V, NEW K, NEW m, NEW r, NEW l, l \subseteq Conts, Stacked(V, K, m, r, l),
         r.S # NIL, r.D # NIL, m[r.D].id \notin l,
         NEW n, \A a \in V : a # r.S => n[a] = m[a],
         n[r.S].id = m[r.S].id, n[r.S].car = m[r.S].car, n[r.S].cdr = m[r.D].car,
         NEW q, q.topenv = r.topenv, q.S = r.S, q.D = m[r.D].cdr, q.v = r.v
  PROVE  Stacked(V, K, n, q, l \cup {m[r.D].id})
<1> DEFINE k == l \cup {m[r.D].id}
<1>1. /\ NIL \notin V /\ NIL \notin K /\ K \subseteq V /\ V \in SUBSET Cells
      /\ r.D \in Off(V, K) /\ r.S \in K
      /\ \A a \in K : m[a].cdr \in K \cup {NIL} /\ m[a].id \notin Conts
  BY OffTheStacks
<1>2. r.D \in V /\ r.D \notin K /\ m[r.D].id \in Conts /\ m[r.D].cdr \in V \cup {NIL}
  BY <1>1 DEF Stacked, Dump, Lasting, Off
<1>3. r.D \in Owners(V, K, m, l) /\ Rest(m, r.D) = m[r.D].car
  BY <1>2 DEF Owners, Rest
<1>4. /\ \A a \in Owners(V, K, m, l) : Rest(m, a) \in K \cup {NIL} /\ Rest(m, a) # r.S
      /\ \A a, b \in Owners(V, K, m, l) : Rest(m, a) = Rest(m, b) => a = b \/ Rest(m, a) = NIL
  BY DEF Stacked, Chain
<1>5. \A a \in V : n[a].id = m[a].id /\ (n[a].id \in Conts => n[a] = m[a])
  BY <1>1
<1>6. Lasting(V, n, q, k)
  <2>1. Roots(q) \subseteq V
    BY <1>2 DEF Stacked, Lasting, Roots
  <2>2. m[r.D].car \in V \cup {NIL}
    BY <1>1, <1>3, <1>4
  <2> QED
    BY <2>1, <2>2 DEF Stacked, Lasting
<1>7. Dump(V, n, q)
  <2>1. m[r.D].cdr # NIL => m[m[r.D].cdr].id \in Conts
    BY <1>2 DEF Stacked, Dump
  <2> QED
    BY <1>2, <1>5, <2>1 DEF Stacked, Dump, Lasting
<1>8. Owners(V, K, n, k) \subseteq Owners(V, K, m, l) \ {r.D} /\ Owners(V, K, n, k) \subseteq V
  BY <1>1, <1>2, <1>5 DEF Owners
<1>9. \A a \in Owners(V, K, n, k) : Rest(n, a) = IF a = r.S THEN m[r.D].car ELSE Rest(m, a)
  BY <1>1, <1>5, <1>8 DEF Rest
<1>10. Chain(V, K, n, q, k)
  <2>1. \A a \in K : n[a].id \notin Conts
    BY <1>1, <1>5
  <2>2. \A a \in Owners(V, K, n, k) : Rest(n, a) \in K \cup {NIL} /\ Rest(n, a) # r.S
    BY <1>3, <1>4, <1>8, <1>9
  <2>3. \A a, b \in Owners(V, K, n, k) : Rest(n, a) = Rest(n, b) => a = b \/ Rest(n, a) = NIL
    BY <1>3, <1>4, <1>8, <1>9
  <2> QED
    BY <1>1, <2>1, <2>2, <2>3 DEF Chain
<1>11. Apart(V, K, n, q)
  BY <1>1, <1>5 DEF Stacked, Apart
<1> QED
  BY <1>6, <1>7, <1>10, <1>11 DEF Stacked

\* What is stacked of more cells is stacked of those that are reached.
LEMMA StillStacked ==
  ASSUME Types', pc' = "run", NEW V, NEW K, Stacked(V, K, mem', reg', left')
  PROVE  StackInv'
<1> DEFINE R == Closure(mem')[Roots(reg')]
<1>1. Reach' = R
  BY DEF Reach, ReachFrom, Closure, Roots
<1>2. Roots(reg') \subseteq R /\ Closed(R, mem')
  <2>1. Linked(mem') /\ Roots(reg') \in SUBSET Cells
    BY AllLinked DEF Types, IsReg, Roots
  <2> QED
    BY <2>1, Leads
<1> HIDE DEF R
<1>3. Stacked(V \cap R, K \cap R, mem', reg', left')
  BY <1>2, StackShrinks
<1>4. PICK W, L : W \subseteq R /\ Stacked(W, L, mem', reg', left')
  BY <1>3
<1> QED
  BY <1>1, <1>4 DEF StackInv

\* What an instruction works on is off the stacks.
LEMMA WorkingOff ==
  ASSUME NEW V, NEW K, left \subseteq Conts, Stacked(V, K, mem, reg, left)
  PROVE  /\ \A x \in Operands : x \in Off(V, K)
         /\ \A x \in Operands : \A y \in Parts(x) : y \in Off(V, K)
<1>1. /\ reg.topenv \in Off(V, K) /\ reg.v \in Off(V, K)
      /\ reg.S # NIL => mem[reg.S].car \in Off(V, K)
      /\ \A a \in V : mem[a].id \notin Conts =>
           mem[a].car \in Off(V, K) /\ (a \notin K => mem[a].cdr \in Off(V, K))
  BY OffTheStacks
<1>2. ASSUME NEW x \in Operands PROVE x \in Off(V, K)
  BY <1>1 DEF Operands, Off
<1>3. ASSUME NEW x \in Off(V, K), NEW y \in Parts(x) PROVE y \in Off(V, K)
  BY <1>1, <1>3 DEF Parts, IsCont, Off
<1> QED
  BY <1>2, <1>3

\* Instructions keep the stacks what they are.
LEMMA LoadStacks ==
  ASSUME Inv, Types', NEW V, NEW K, Stacked(V, K, mem, reg, left), NEW x \in Off(V, K),
         Load(x), UNCHANGED left
  PROVE  StackInv'
<1>1. pc' = "run" /\ mem' = mem /\ reg' = [reg EXCEPT !.v = x]
  BY DEF Load, heap
<1>2. reg'.topenv = reg.topenv /\ reg'.S = reg.S /\ reg'.D = reg.D /\ reg'.v = x
  BY <1>1 DEF Inv, Types, IsReg
<1>3. reg.D \in V \cup {NIL} /\ (reg.D # NIL => mem[reg.D].id \in Conts)
  BY DEF Stacked, Lasting, Roots, Dump
<1>4. Stacked(V, K, mem, reg', left)
  BY <1>2, <1>3, StackMoved
<1> QED
  BY <1>1, <1>4, StillStacked

LEMMA ContinueStacks ==
  ASSUME Inv, Types', NEW V, NEW K, Stacked(V, K, mem, reg, left), NEW x \in Off(V, K),
         Continue(x), UNCHANGED left, reg.v \in Off(V, K)
  PROVE  StackInv'
<1>1. /\ pc' = "run" /\ mem' = mem /\ reg' = [reg EXCEPT !.D = x]
      /\ x # NIL => mem[x].id \in Conts
  BY DEF Continue, heap, IsCont
<1>2. reg'.topenv = reg.topenv /\ reg'.S = reg.S /\ reg'.D = x /\ reg'.v = reg.v
  BY <1>1 DEF Inv, Types, IsReg
<1>3. x \in V \cup {NIL}
  BY DEF Off
<1>4. Stacked(V, K, mem, reg', left)
  BY <1>1, <1>2, <1>3, StackMoved
<1> QED
  BY <1>1, <1>4, StillStacked

LEMMA ErrorStacks ==
  ASSUME Inv, Types', NEW V, NEW K, Stacked(V, K, mem, reg, left), Error, UNCHANGED left,
         reg.v \in Off(V, K)
  PROVE  StackInv'
<1>1. /\ pc' = "run" /\ mem' = mem
      /\ \/ reg' = [reg EXCEPT !.S = NIL]
         \/ reg' = [reg EXCEPT !.S = NIL, !.D = NIL, !.v = NIL]
  BY DEF Error, heap
<1>2. /\ reg'.topenv = reg.topenv /\ reg'.S = NIL /\ reg'.D \in {reg.D, NIL}
      /\ reg'.v \in Off(V, K)
  BY <1>1 DEF Inv, Types, IsReg, Off
<1>3. reg'.D \in V \cup {NIL} /\ (reg'.D # NIL => mem[reg'.D].id \in Conts)
  BY <1>2 DEF Stacked, Lasting, Roots, Dump
<1>4. Stacked(V, K, mem, reg', left)
  BY <1>2, <1>3, StackMoved
<1> QED
  BY <1>1, <1>4, StillStacked

LEMMA PopStacks ==
  ASSUME Inv, Types', NEW V, NEW K, Stacked(V, K, mem, reg, left), Pop, UNCHANGED left, left \subseteq Conts
  PROVE  StackInv'
<1>1. /\ pc' = "run" /\ mem' = mem /\ reg.S # NIL
      /\ reg' = [reg EXCEPT !.v = mem[reg.S].car, !.S = mem[reg.S].cdr]
  BY DEF Pop, heap
<1>2. reg'.topenv = reg.topenv /\ reg'.S = mem[reg.S].cdr /\ reg'.v = mem[reg.S].car /\ reg'.D = reg.D
  BY <1>1 DEF Inv, Types, IsReg
<1>3. Stacked(V \ {reg.S}, K \ {reg.S}, mem, reg', left)
  BY <1>1, <1>2, StackPopped
<1> QED
  BY <1>1, <1>3, StillStacked

LEMMA SetTopStacks ==
  ASSUME Inv, Types', NEW V, NEW K, Stacked(V, K, mem, reg, left), SetTop, UNCHANGED left, left \subseteq Conts
  PROVE  StackInv'
<1>1. /\ pc' = "run" /\ reg' = reg /\ reg.S # NIL /\ mem' = [mem EXCEPT ![reg.S].car = reg.v]
  BY DEF SetTop
<1>2. reg.S \in K /\ K \subseteq V /\ V \in SUBSET Cells /\ mem[reg.S].id \notin Conts
      /\ reg.v \in Off(V, K)
  BY <1>1, OffTheStacks
<1>3. /\ \A a \in V : a # reg.S => mem'[a] = mem[a]
      /\ mem'[reg.S].car = reg.v /\ mem'[reg.S].cdr = mem[reg.S].cdr
      /\ mem'[reg.S].id = mem[reg.S].id
  BY <1>1, <1>2 DEF Inv, Types, Cell
<1>4. Stacked(V, K, mem', reg, left)
  BY <1>2, <1>3, StackWritten
<1> QED
  BY <1>1, <1>4, StillStacked

LEMMA AssignStacks ==
  ASSUME Inv, Types', NEW V, NEW K, Stacked(V, K, mem, reg, left), NEW c \in Off(V, K) \ {NIL},
         NEW f \in Fields, NEW x \in Off(V, K), Assign(c, f, x), UNCHANGED left, left \subseteq Conts
  PROVE  StackInv'
<1>1. pc' = "run" /\ reg' = reg /\ mem' = [mem EXCEPT ![c][f] = x] /\ mem[c].id \notin Conts
  BY DEF Assign, IsCont
<1>2. /\ c \in V /\ c \notin K /\ V \in SUBSET Cells
      /\ mem[c].car \in Off(V, K) /\ mem[c].cdr \in Off(V, K)
  BY <1>1, OffTheStacks DEF Off
<1>3. /\ \A a \in V : a # c => mem'[a] = mem[a]
      /\ mem'[c].id = mem[c].id
      /\ mem'[c].car \in {mem[c].car, x} /\ mem'[c].cdr \in {mem[c].cdr, x}
  <2>1. CASE f = "car"
    BY <1>1, <1>2, <2>1 DEF Inv, Types, Cell
  <2>2. CASE f = "cdr"
    BY <1>1, <1>2, <2>2 DEF Inv, Types, Cell
  <2> QED
    BY <2>1, <2>2 DEF Fields
<1>4. mem'[c].car \in Off(V, K) /\ mem'[c].cdr \in Off(V, K)
  BY <1>2, <1>3
<1>5. Stacked(V, K, mem', reg, left)
  BY <1>1, <1>2, <1>3, <1>4, StackWritten
<1> QED
  BY <1>1, <1>5, StillStacked

LEMMA BindStacks ==
  ASSUME Inv, Types', NEW V, NEW K, Stacked(V, K, mem, reg, left), NEW x \in Off(V, K), Bind(x),
         UNCHANGED left, left \subseteq Conts
  PROVE  StackInv'
<1>1. /\ pc' = "run" /\ reg.S # NIL
      /\ mem' = [mem EXCEPT ![reg.S] = [id |-> mem[reg.S].id, car |-> x, cdr |-> mem[reg.S].car]]
      /\ reg' = [reg EXCEPT !.v = reg.S, !.S = mem[reg.S].cdr]
  BY DEF Bind
<1>2. reg.S \in K /\ K \subseteq V /\ V \in SUBSET Cells
  BY <1>1, OffTheStacks
<1>3. /\ \A a \in V : a # reg.S => mem'[a] = mem[a]
      /\ mem'[reg.S].id = mem[reg.S].id /\ mem'[reg.S].car = x /\ mem'[reg.S].cdr = mem[reg.S].car
      /\ reg'.topenv = reg.topenv /\ reg'.D = reg.D /\ reg'.v = reg.S /\ reg'.S = mem[reg.S].cdr
  BY <1>1, <1>2 DEF Inv, Types, IsReg, Cell
<1>4. PICK n, q : n = mem' /\ q = reg'
  OBVIOUS
<1>5. /\ \A a \in V : a # reg.S => n[a] = mem[a]
      /\ n[reg.S].id = mem[reg.S].id /\ n[reg.S].car = x /\ n[reg.S].cdr = mem[reg.S].car
      /\ q.topenv = reg.topenv /\ q.D = reg.D /\ q.v = reg.S /\ q.S = mem[reg.S].cdr
  BY <1>3, <1>4
<1>6. Stacked(V, K \ {reg.S}, n, q, left)
  BY <1>1, <1>5, StackBound
<1> QED
  BY <1>1, <1>4, <1>6, StillStacked

LEMMA EndStacks ==
  ASSUME Inv, Types', NEW V, NEW K, Stacked(V, K, mem, reg, left), End, ~reused', left \subseteq Conts
  PROVE  StackInv'
<1>1. /\ pc' = "run" /\ reg.S # NIL /\ reg.D # NIL /\ mem[reg.D].id \notin left
      /\ mem' = [mem EXCEPT ![reg.S].cdr = mem[reg.D].car]
      /\ reg' = [reg EXCEPT !.D = mem[reg.D].cdr]
      /\ left' = left \cup {mem[reg.D].id}
  BY DEF End
<1>2. reg.S \in K /\ K \subseteq V /\ V \in SUBSET Cells
  BY <1>1, OffTheStacks
<1>3. /\ \A a \in V : a # reg.S => mem'[a] = mem[a]
      /\ mem'[reg.S].id = mem[reg.S].id /\ mem'[reg.S].car = mem[reg.S].car
      /\ mem'[reg.S].cdr = mem[reg.D].car
      /\ reg'.topenv = reg.topenv /\ reg'.D = mem[reg.D].cdr /\ reg'.v = reg.v /\ reg'.S = reg.S
  BY <1>1, <1>2 DEF Inv, Types, IsReg, Cell
<1>4. Stacked(V, K, mem', reg', left \cup {mem[reg.D].id})
  BY <1>1, <1>3, StackRestored
<1> QED
  BY <1>1, <1>4, StillStacked

\* Those that make a cell.
LEMMA MakingStacks ==
  ASSUME Inv, pc = "run", hp < heapbase + LIMIT, NEW V, V \subseteq Reach, NEW K,
         Stacked(V, K, mem, reg, left), NEW o, NEW x, NEW y, MkPair(o, x, y)
  PROVE  /\ pc' = "run" /\ hp \in Cells /\ hp \notin V /\ \A a \in V : mem'[a] = mem[a]
         /\ mem'[hp].id = o /\ mem'[hp].car = x /\ mem'[hp].cdr = y
<1>1. pc' = "run" /\ mem' = [mem EXCEPT ![hp] = [id |-> o, car |-> x, cdr |-> y]]
  BY DEF MkPair
<1>2. hp \in Cells /\ hp \notin V
  BY NextCell
<1>3. V \in SUBSET Cells /\ mem \in [Cells -> Cell]
  BY DEF Stacked, Lasting, Inv, Types
<1> QED
  BY <1>1, <1>2, <1>3

LEMMA ConsStacks ==
  ASSUME Inv, Types', pc = "run", hp < heapbase + LIMIT, NEW V, V \subseteq Reach, NEW K,
         Stacked(V, K, mem, reg, left), NEW o, o \notin Conts, NEW x \in Off(V, K), NEW y \in Off(V, K),
         Cons(o, x, y), UNCHANGED left, left \subseteq Conts
  PROVE  StackInv'
<1>1. MkPair(o, x, y) /\ reg' = [reg EXCEPT !.v = hp]
  BY DEF Cons
<1>2. reg'.topenv = reg.topenv /\ reg'.S = reg.S /\ reg'.D = reg.D /\ reg'.v = hp
  BY <1>1 DEF Inv, Types, IsReg
<1>3. /\ pc' = "run" /\ hp \in Cells /\ hp \notin V /\ \A a \in V : mem'[a] = mem[a]
      /\ mem'[hp].id = o /\ mem'[hp].car = x /\ mem'[hp].cdr = y
  BY <1>1, MakingStacks
<1>4. Stacked(V \cup {hp}, K, mem', reg', left)
  BY <1>2, <1>3, StackMade
<1> QED
  BY <1>3, <1>4, StillStacked

LEMMA PushStacks ==
  ASSUME Inv, Types', pc = "run", hp < heapbase + LIMIT, NEW V, V \subseteq Reach, NEW K,
         Stacked(V, K, mem, reg, left), NEW o, o \notin Conts,
         Push(o), UNCHANGED left, left \subseteq Conts
  PROVE  StackInv'
<1>1. MkPair(o, reg.v, reg.S) /\ reg' = [reg EXCEPT !.S = hp]
  BY DEF Push
<1>2. reg'.topenv = reg.topenv /\ reg'.S = hp /\ reg'.D = reg.D /\ reg'.v = reg.v
  BY <1>1 DEF Inv, Types, IsReg
<1>3. /\ pc' = "run" /\ hp \in Cells /\ hp \notin V /\ \A a \in V : mem'[a] = mem[a]
      /\ mem'[hp].id = o /\ mem'[hp].car = reg.v /\ mem'[hp].cdr = reg.S
  BY <1>1, MakingStacks
<1>4. Stacked(V \cup {hp}, K \cup {hp}, mem', reg', left)
  BY <1>2, <1>3, StackPushed
<1> QED
  BY <1>3, <1>4, StillStacked

LEMMA BindRestStacks ==
  ASSUME Inv, Types', pc = "run", hp < heapbase + LIMIT, NEW V, V \subseteq Reach, NEW K,
         Stacked(V, K, mem, reg, left), NEW o, o \notin Conts, NEW x \in Off(V, K),
         BindRest(o, x), UNCHANGED left, left \subseteq Conts
  PROVE  StackInv'
<1>1. MkPair(o, x, reg.S) /\ reg' = [reg EXCEPT !.v = hp, !.S = NIL]
  BY DEF BindRest
<1>2. reg'.topenv = reg.topenv /\ reg'.S = NIL /\ reg'.D = reg.D /\ reg'.v = hp
  BY <1>1 DEF Inv, Types, IsReg
<1>3. /\ pc' = "run" /\ hp \in Cells /\ hp \notin V /\ \A a \in V : mem'[a] = mem[a]
      /\ mem'[hp].id = o /\ mem'[hp].car = x /\ mem'[hp].cdr = reg.S
  BY <1>1, MakingStacks
<1>4. PICK q : q = [reg EXCEPT !.S = NIL]
  OBVIOUS
<1>5. q.topenv = reg.topenv /\ q.S = NIL /\ q.D = reg.D /\ q.v = reg.v
  BY <1>4 DEF Inv, Types, IsReg
<1>6. \E L : Stacked(V, L, mem, q, left) /\ L \subseteq K /\ reg.S \in Off(V, L)
  <2>1. CASE reg.S # NIL
    BY <1>5, <2>1, StackGiven
  <2>2. CASE reg.S = NIL
    <3>1. reg.v \in Off(V, K) /\ reg.D \in V \cup {NIL} /\ (reg.D # NIL => mem[reg.D].id \in Conts)
      BY OffTheStacks DEF Stacked, Dump, Off
    <3>2. Stacked(V, K, mem, q, left)
      BY <1>5, <3>1, StackMoved
    <3> QED
      BY <2>2, <3>2 DEF Off
  <2> QED
    BY <2>1, <2>2
<1>7. PICK L : Stacked(V, L, mem, q, left) /\ L \subseteq K /\ reg.S \in Off(V, L)
  BY <1>6
<1>8. x \in Off(V, L)
  BY <1>7 DEF Off
<1>9. Stacked(V \cup {hp}, L, mem', reg', left)
  BY <1>2, <1>3, <1>5, <1>7, <1>8, StackMade
<1> QED
  BY <1>3, <1>9, StillStacked

LEMMA EvalCStacks ==
  ASSUME Inv, Types', pc = "run", hp < heapbase + LIMIT, NEW V, V \subseteq Reach, NEW K,
         Stacked(V, K, mem, reg, left), NEW o \in Conts, IsNew(o), EvalC(o), left \subseteq Conts
  PROVE  StackInv'
<1>1. /\ MkPair(o, reg.S, reg.D) /\ reg' = [reg EXCEPT !.D = hp, !.S = NIL]
      /\ left' = left \ {o}
  BY DEF EvalC
<1>2. reg'.topenv = reg.topenv /\ reg'.S = NIL /\ reg'.D = hp /\ reg'.v = reg.v
  BY <1>1 DEF Inv, Types, IsReg
<1>3. /\ pc' = "run" /\ hp \in Cells /\ hp \notin V /\ \A a \in V : mem'[a] = mem[a]
      /\ mem'[hp].id = o /\ mem'[hp].car = reg.S /\ mem'[hp].cdr = reg.D
  BY <1>1, MakingStacks
<1>4. \A a \in V : mem[a].id # o
  BY DEF IsNew
<1>5. Stacked(V \cup {hp}, K, mem', reg', left \ {o})
  BY <1>2, <1>3, <1>4, StackSaved
<1> QED
  BY <1>1, <1>3, <1>5, StillStacked

LEMMA InstructionStacks ==
  ASSUME Inv, Types', StackInv, pc = "run", Instruction, UNCHANGED left, left \subseteq Conts
  PROVE  StackInv'
<1>1. PICK V, K : V \subseteq Reach /\ Stacked(V, K, mem, reg, left)
  BY DEF StackInv
<1>2. /\ \A x \in Operands : x \in Off(V, K)
      /\ \A x \in Operands : \A y \in Parts(x) : y \in Off(V, K)
      /\ reg.D \in Off(V, K) /\ reg.v \in Off(V, K)
  BY <1>1, WorkingOff, OffTheStacks
<1>F. \A o \in Fresh(Objects \ Conts) : o \notin Conts
  BY DEF Fresh
<1>3. CASE MakeCC
  BY <1>1, <1>2, <1>3, LoadStacks DEF MakeCC
<1>4. CASE hp < heapbase + LIMIT /\ \E o \in Fresh(Objects \ Conts) : Push(o)
  BY <1>1, <1>F, <1>4, PushStacks
<1>5. CASE hp < heapbase + LIMIT /\ \E o \in Fresh(Objects \ Conts) : \E x, y \in Operands : Cons(o, x, y)
  BY <1>1, <1>2, <1>F, <1>5, ConsStacks
<1>6. CASE hp < heapbase + LIMIT /\ \E o \in Fresh(Objects \ Conts) : \E x \in Operands : BindRest(o, x)
  BY <1>1, <1>2, <1>F, <1>6, BindRestStacks
<1>7. CASE Pop
  BY <1>1, <1>7, PopStacks
<1>8. CASE SetTop
  BY <1>1, <1>8, SetTopStacks
<1>9. CASE Error
  BY <1>1, <1>2, <1>9, ErrorStacks
<1>10. CASE \E x \in Operands : Bind(x)
  BY <1>1, <1>2, <1>10, BindStacks
<1>11. CASE \E x \in Operands : Continue(x)
  BY <1>1, <1>2, <1>11, ContinueStacks
<1>12. CASE \E x \in Operands \cup UNION {Parts(a) : a \in Operands} : Load(x)
  <2>1. PICK x \in Operands \cup UNION {Parts(a) : a \in Operands} : Load(x)
    BY <1>12
  <2>2. x \in Off(V, K)
    BY <1>2
  <2> QED
    BY <1>1, <2>1, <2>2, LoadStacks
<1>13. CASE \E a \in Operands \ {NIL}, f \in Fields, x \in Operands : Assign(a, f, x)
  <2>1. PICK a \in Operands \ {NIL}, f \in Fields, x \in Operands : Assign(a, f, x)
    BY <1>13
  <2>2. a \in Off(V, K) \ {NIL} /\ x \in Off(V, K)
    BY <1>2
  <2> QED
    BY <1>1, <2>1, <2>2, AssignStacks
<1> QED
  BY <1>3, <1>4, <1>5, <1>6, <1>7, <1>8, <1>9, <1>10, <1>11, <1>12, <1>13 DEF Instruction

LEMMA ProgramStacks ==
  ASSUME Inv, Types', StackInv, Program, left \subseteq Conts, ~reused'
  PROVE  StackInv'
<1>1. pc = "run"
  BY ProgramRuns
<1>2. PICK V, K : V \subseteq Reach /\ Stacked(V, K, mem, reg, left)
  BY <1>1 DEF StackInv
<1>3. CASE Instruction /\ UNCHANGED past
  BY <1>1, <1>3, InstructionStacks DEF past
<1>4. CASE hp < heapbase + LIMIT /\ \E o \in Fresh(Conts) : EvalC(o)
  <2>1. \A o \in Fresh(Conts) : o \in Conts /\ IsNew(o)
    BY <1>1, Working, CollectorAssumption DEF Inv
  <2> QED
    BY <1>1, <1>2, <1>4, <2>1, EvalCStacks
<1>5. CASE End
  BY <1>2, <1>5, EndStacks
<1> QED
  BY <1>3, <1>4, <1>5 DEF Program

\* A collection begins with the stacks as they are, and leaves them alone.
LEMMA CollectingStacks ==
  ASSUME Inv, StackInv, GCStep, UNCHANGED left
  PROVE  StackInv'
<1>1. pc' # "run"
  BY DEF GCStep
<1>2. CASE pc = "run"
  <2>1. PICK A, r : A = Reach /\ r = reg /\ mem' = mem /\ CollectingFrom(A, r)'
    BY <1>2 DEF GCStep, Begins
  <2>2. PICK V, K : V \subseteq A /\ Stacked(V, K, mem', r, left')
    BY <1>2, <2>1 DEF StackInv
  <2> QED
    BY <1>1, <2>1, <2>2 DEF StackInv
<1>3. CASE pc # "run"
  <2>1. PICK A, r, V, K : CollectingFrom(A, r) /\ V \subseteq A /\ Stacked(V, K, mem, r, left)
    BY <1>3 DEF StackInv
  <2>2. CollectingFrom(A, r)' /\ \A a \in V : mem'[a] = mem[a]
    BY <1>3, <2>1 DEF GCStep, Continues
  <2>3. Stacked(V, K, mem', r, left')
    BY <2>1, <2>2, StackedHere
  <2> QED
    BY <1>1, <2>1, <2>2, <2>3 DEF StackInv
<1> QED
  BY <1>2, <1>3

\* The images under c of the stacks' cells among T are the stacks.
LEMMA StackCopied ==
  ASSUME NEW V, NEW K, NEW m, NEW r, NEW l, l \subseteq Conts, Stacked(V, K, m, r, l),
         NEW T, NIL \notin T, NEW c, c[NIL] = NIL, \A x \in T : c[x] \in Cells,
         \A x, y \in T : c[x] = c[y] => x = y,
         NEW n, \A a \in T : /\ m[a].car \in T \cup {NIL} /\ m[a].cdr \in T \cup {NIL}
                             /\ n[c[a]].id = m[a].id
                             /\ n[c[a]].car = c[m[a].car] /\ n[c[a]].cdr = c[m[a].cdr],
         NEW q, Roots(r) \subseteq T,
         q.topenv = c[r.topenv], q.S = c[r.S], q.D = c[r.D], q.v = c[r.v]
  PROVE  Stacked({c[a] : a \in T \cap V}, {c[a] : a \in T \cap K}, n, q, l)
<1>1. PICK W, L : W = {c[a] : a \in T \cap V} /\ L = {c[a] : a \in T \cap K}
  OBVIOUS
<1>2. NIL \notin V /\ NIL \notin K /\ K \subseteq V /\ V \in SUBSET Cells
  BY OffTheStacks
<1>3. \A x, y \in T \cup {NIL} : c[x] = c[y] => x = y
  BY CellsFinite
<1>4. \A x \in T \cup {NIL} : /\ c[x] \in L <=> x \in K
                              /\ c[x] \in W <=> x \in V
                              /\ c[x] = NIL <=> x = NIL
  BY <1>1, <1>2, <1>3, CellsFinite
<1>5. \A t \in W : \E a \in T \cap V : t = c[a]
  BY <1>1
<1>6. L \subseteq W /\ W \in SUBSET Cells
  BY <1>1, <1>2
<1>7. \A x \in {r.topenv, r.S, r.D, r.v} : x \in T \cup {NIL}
  BY DEF Roots
<1>8. \A a \in T \cap V : /\ a \in T /\ c[a] \in Owners(W, L, n, l) <=> a \in Owners(V, K, m, l)
                          /\ Rest(n, c[a]) = c[Rest(m, a)]
                          /\ Rest(m, a) \in T \cup {NIL}
  <2>1. ASSUME NEW a \in T \cap V PROVE c[a] \in Owners(W, L, n, l) <=> a \in Owners(V, K, m, l)
    BY <1>4 DEF Owners
  <2>2. ASSUME NEW a \in T \cap V PROVE Rest(n, c[a]) = c[Rest(m, a)] /\ Rest(m, a) \in T \cup {NIL}
    BY DEF Rest
  <2> QED
    BY <2>1, <2>2
<1>9. Owners(W, L, n, l) \subseteq W
  BY <1>6 DEF Owners
<1>10. Lasting(W, n, q, l)
  <2>1. Roots(q) \subseteq W
    BY <1>4, <1>7 DEF Stacked, Lasting, Roots
  <2>2. ASSUME NEW t \in W
        PROVE  n[t].cdr \in W \cup {NIL} /\ (n[t].id \notin l => n[t].car \in W \cup {NIL})
    <3>1. PICK a \in T \cap V : t = c[a]
      BY <1>5
    <3>2. m[a].cdr \in V \cup {NIL} /\ (m[a].id \notin l => m[a].car \in V \cup {NIL})
      BY DEF Stacked, Lasting
    <3> QED
      BY <1>4, <3>1, <3>2
  <2> QED
    BY <1>6, <2>1, <2>2 DEF Lasting
<1>11. Dump(W, n, q)
  <2>1. q.D # NIL => n[q.D].id \in Conts
    BY <1>4, <1>7 DEF Stacked, Dump
  <2>2. ASSUME NEW t \in W, n[t].id \in Conts, n[t].cdr # NIL PROVE n[n[t].cdr].id \in Conts
    <3>1. PICK a \in T \cap V : t = c[a]
      BY <1>5
    <3>2. m[a].id \in Conts /\ m[a].cdr # NIL /\ m[a].cdr \in T
      BY <1>4, <2>2, <3>1
    <3>3. m[m[a].cdr].id \in Conts
      BY <3>2 DEF Stacked, Dump
    <3> QED
      BY <3>1, <3>2, <3>3
  <2> QED
    BY <2>1, <2>2 DEF Dump
<1>12. Chain(W, L, n, q, l)
  <2>1. /\ r.S \in K \cup {NIL} /\ \A a \in K : m[a].id \notin Conts
        /\ \A a \in Owners(V, K, m, l) : Rest(m, a) \in K \cup {NIL} /\ (r.S # NIL => Rest(m, a) # r.S)
        /\ \A a, b \in Owners(V, K, m, l) : Rest(m, a) = Rest(m, b) => a = b \/ Rest(m, a) = NIL
    BY DEF Stacked, Chain
  <2>2. q.S \in L \cup {NIL} /\ \A t \in L : n[t].id \notin Conts
    BY <1>1, <1>4, <1>7, <2>1
  <2>3. ASSUME NEW t \in Owners(W, L, n, l)
        PROVE  Rest(n, t) \in L \cup {NIL} /\ (q.S # NIL => Rest(n, t) # q.S)
    <3>1. PICK a \in T \cap V : t = c[a]
      BY <1>5, <1>9
    <3>2. /\ a \in Owners(V, K, m, l) /\ Rest(n, t) = c[Rest(m, a)]
          /\ Rest(m, a) \in T \cup {NIL}
      BY <1>8, <3>1
    <3> QED
      BY <1>3, <1>4, <1>7, <2>1, <3>2
  <2>4. ASSUME NEW t \in Owners(W, L, n, l), NEW u \in Owners(W, L, n, l), Rest(n, t) = Rest(n, u)
        PROVE  t = u \/ Rest(n, t) = NIL
    <3>1. PICK a \in T \cap V : t = c[a]
      BY <1>5, <1>9
    <3>2. PICK b \in T \cap V : u = c[b]
      BY <1>5, <1>9
    <3>3. /\ a \in Owners(V, K, m, l) /\ b \in Owners(V, K, m, l)
          /\ Rest(n, t) = c[Rest(m, a)] /\ Rest(n, u) = c[Rest(m, b)]
          /\ Rest(m, a) \in T \cup {NIL} /\ Rest(m, b) \in T \cup {NIL}
      BY <1>8, <3>1, <3>2
    <3>4. PICK x \in T \cup {NIL} : x = Rest(m, a)
      BY <3>3
    <3>5. PICK y \in T \cup {NIL} : y = Rest(m, b)
      BY <3>3
    <3>6. c[x] = c[y] /\ Rest(n, t) = c[x]
      BY <2>4, <3>3, <3>4, <3>5
    <3>7. x = y
      BY <1>3, <3>6
    <3>8. Rest(m, a) = Rest(m, b)
      BY <3>4, <3>5, <3>7
    <3>9. \A v, w \in Owners(V, K, m, l) : Rest(m, v) = Rest(m, w) => v = w \/ Rest(m, v) = NIL
      BY <2>1
    <3>10. a = b \/ Rest(m, a) = NIL
      BY <3>3, <3>8, <3>9, Zenon
    <3> QED
      BY <3>1, <3>2, <3>4, <3>6, <3>10
  <2> QED
    BY <1>6, <2>2, <2>3, <2>4 DEF Chain
<1>13. Apart(W, L, n, q)
  <2>1. q.topenv \notin L /\ q.v \notin L
    BY <1>4, <1>7 DEF Stacked, Apart
  <2>2. ASSUME NEW t \in W, n[t].id \notin Conts
        PROVE  n[t].car \notin L /\ (t \notin L => n[t].cdr \notin L)
    <3>1. PICK a \in T \cap V : t = c[a]
      BY <1>5
    <3>2. m[a].car \notin K /\ (a \notin K => m[a].cdr \notin K)
      BY <2>2, <3>1 DEF Stacked, Apart
    <3> QED
      BY <1>4, <3>1, <3>2
  <2> QED
    BY <2>1, <2>2 DEF Apart
<1>14. Stacked(W, L, n, q, l)
  BY <1>10, <1>11, <1>12, <1>13 DEF Stacked
<1> QED
  BY <1>1, <1>14

LEMMA EndGCStacks ==
  ASSUME Inv, Types', StackInv, EndGC, UNCHANGED left, left \subseteq Conts
  PROVE  StackInv'
<1>1. pc = "end" /\ pc' = "run"
  BY DEF EndGC
<1>2. PICK A, r, V, K : CollectingFrom(A, r) /\ V \subseteq A /\ Stacked(V, K, mem, r, left)
  BY <1>1 DEF StackInv
<1>3. PICK T : T = Taken(A)
  OBVIOUS
<1>4. PICK c : c = [x \in Cells \cup {NIL} |-> Copied(Now, x)]
  OBVIOUS
<1>5. /\ \A a \in T : a \in A /\ a # NIL /\ forward[a] # NIL
      /\ \A a, b \in T : forward[a] = forward[b] => a = b
      /\ \A a \in T : /\ mem'[forward[a]].id = mem[a].id
                      /\ mem'[forward[a]].car = Copied(Now, mem[a].car)
                      /\ mem'[forward[a]].cdr = Copied(Now, mem[a].cdr)
                      /\ mem[a].car \in T \cup {NIL}
                      /\ mem[a].cdr \in T \cup {NIL}
      /\ \A x \in {"topenv", "S", "D", "v"} : reg'[x] = Copied(Now, r[x]) /\ r[x] \in T \cup {NIL}
      /\ A \in SUBSET Cells
  BY <1>2, <1>3, TheImages DEF Sound
<1>6. T \in SUBSET Cells /\ NIL \notin T /\ forward \in [Cells -> Cells]
  BY <1>5, CellsFinite DEF Inv, Types
<1>7. c[NIL] = NIL /\ \A x \in T : c[x] = forward[x] /\ c[x] \in Cells
  BY <1>4, <1>6 DEF Copied, Now
<1>8. \A x \in T \cup {NIL} : Copied(Now, x) = c[x]
  BY <1>4, <1>6
<1>9. /\ \A x, y \in T : c[x] = c[y] => x = y
      /\ \A a \in T : /\ mem[a].car \in T \cup {NIL} /\ mem[a].cdr \in T \cup {NIL}
                      /\ mem'[c[a]].id = mem[a].id
                      /\ mem'[c[a]].car = c[mem[a].car] /\ mem'[c[a]].cdr = c[mem[a].cdr]
  BY <1>5, <1>7, <1>8
<1>10. /\ reg'.topenv = c[r.topenv] /\ reg'.S = c[r.S] /\ reg'.D = c[r.D] /\ reg'.v = c[r.v]
       /\ Roots(r) \subseteq T
  BY <1>5, <1>8 DEF Roots
<1>11. PICK n, q : n = mem' /\ q = reg'
  OBVIOUS
<1>12. /\ \A a \in T : /\ mem[a].car \in T \cup {NIL} /\ mem[a].cdr \in T \cup {NIL}
                      /\ n[c[a]].id = mem[a].id
                      /\ n[c[a]].car = c[mem[a].car] /\ n[c[a]].cdr = c[mem[a].cdr]
       /\ q.topenv = c[r.topenv] /\ q.S = c[r.S] /\ q.D = c[r.D] /\ q.v = c[r.v]
  BY <1>9, <1>10, <1>11
<1>13. NIL \notin T /\ c[NIL] = NIL /\ (\A x \in T : c[x] \in Cells)
  BY <1>6, <1>7
<1>14. (\A x, y \in T : c[x] = c[y] => x = y) /\ Roots(r) \subseteq T
  BY <1>9, <1>10
<1>15. PICK m : m = mem
  OBVIOUS
<1>16. Stacked({c[a] : a \in T \cap V}, {c[a] : a \in T \cap K}, n, q, left)
  BY <1>2, <1>12, <1>13, <1>14, <1>15, StackCopied
<1> QED
  BY <1>1, <1>11, <1>16, StillStacked

LEMMA StutterStacks ==
  ASSUME Inv, Types', StackInv, UNCHANGED vars
  PROVE  StackInv'
<1>1. UNCHANGED <<mem, reg, pc, left>>
  BY DEF vars, heap, past
<1>2. CASE pc = "run"
  <2>1. PICK V, K : Stacked(V, K, mem, reg, left)
    BY <1>2 DEF StackInv
  <2>2. Stacked(V, K, mem', reg', left')
    BY <1>1, <2>1
  <2> QED
    BY <1>1, <1>2, <2>2, StillStacked
<1>3. CASE pc # "run"
  <2>1. PICK A, r, V, K : CollectingFrom(A, r) /\ V \subseteq A /\ Stacked(V, K, mem, r, left)
    BY <1>3 DEF StackInv
  <2>2. CollectingFrom(A, r)'
    BY <2>1, StillCollecting
  <2>3. Stacked(V, K, mem', r, left')
    BY <1>1, <2>1
  <2> QED
    BY <1>1, <1>3, <2>1, <2>2, <2>3 DEF StackInv
<1> QED
  BY <1>2, <1>3

LEMMA InitStacks ==
  ASSUME Init
  PROVE  StackInv
<1>1. PICK o \in Objects \ Conts :
        /\ mem = [a \in Cells |-> IF a = 1 THEN [id |-> o, car |-> NIL, cdr |-> NIL] ELSE Free]
        /\ reg = [topenv |-> 1, S |-> NIL, D |-> NIL, v |-> NIL]
        /\ pc = "run" /\ left = {}
  BY DEF Init
<1>2. 1 \in Cells /\ NIL # 1
  BY CellsFinite DEF Cells, NIL
<1>3. mem[1] = [id |-> o, car |-> NIL, cdr |-> NIL]
  BY <1>1, <1>2
<1>4. Lasting({1}, mem, reg, left) /\ Dump({1}, mem, reg)
  BY <1>1, <1>2, <1>3 DEF Lasting, Dump, Roots
<1>5. Owners({1}, {}, mem, left) = {}
  BY <1>3 DEF Owners
<1>6. Chain({1}, {}, mem, reg, left) /\ Apart({1}, {}, mem, reg)
  BY <1>1, <1>5 DEF Chain, Apart
<1>7. 1 \in Reach
  <2>1. Linked(mem) /\ Roots(reg) = {1}
    BY <1>1, <1>2, InitInv, AllLinked DEF Inv, Types, Roots
  <2> QED
    BY <1>2, <2>1, ReachIsClosure, Leads
<1>8. Stacked({1}, {}, mem, reg, left)
  BY <1>4, <1>6 DEF Stacked
<1> QED
  BY <1>1, <1>7, <1>8 DEF StackInv

-----------------------------------------------------------------------------
(***************************************************************************)
(* All programs, for as long as they are tame: no continuation was         *)
(* returned through twice, none that was is kept in the top environment.   *)
(***************************************************************************)
Good == /\ KeepsLeft => stored
        /\ Tame => Inv /\ PastTypes /\ StackInv

LEMMA InitGood ==
  ASSUME Init
  PROVE  Good
<1>1. Inv /\ StackInv
  BY InitInv, InitStacks
<1>2. left = {} /\ PastTypes
  BY DEF Init, PastTypes
<1>3. ~KeepsLeft
  BY <1>2 DEF KeepsLeft
<1> QED
  BY <1>1, <1>2, <1>3 DEF Good

LEMMA GoodIsApart ==
  ASSUME Good, Tame
  PROVE  Inv /\ PastTypes /\ StackInv /\ TopApart
BY StackKeepsApart DEF Good, Tame, PastTypes

\* What has happened has happened.
LEMMA TameBefore ==
  ASSUME [Next]_vars, Tame'
  PROVE  Tame
<1>1. CASE Program /\ Remember
  <2>1. UNCHANGED reused \/ reused' = (reused \/ mem[reg.D].id \in left)
    BY <1>1 DEF Program, past, End
  <2>2. reused => reused'
    BY <2>1, Zenon
  <2>3. stored => stored'
    BY <1>1, Zenon DEF Remember
  <2> QED
    BY <2>2, <2>3, Zenon DEF Tame
<1>2. CASE Collect
  <2>1. UNCHANGED reused
    BY <1>2 DEF Collect, past
  <2>2. stored => stored'
    BY <1>2, Zenon DEF Collect, Remember
  <2> QED
    BY <2>1, <2>2, Zenon DEF Tame
<1>3. CASE UNCHANGED vars
  BY <1>3 DEF Tame, vars, past
<1> QED
  BY <1>1, <1>2, <1>3 DEF Next

LEMMA NextPastTypes ==
  ASSUME Inv, PastTypes, StackInv, [Next]_vars
  PROVE  PastTypes'
<1>1. CASE Program /\ Remember
  <2>1. stored' \in BOOLEAN
    BY <1>1 DEF Remember
  <2>2. left' \subseteq Conts /\ reused' \in BOOLEAN
    <3>1. CASE UNCHANGED past
      BY <3>1 DEF past, PastTypes
    <3>2. CASE UNCHANGED reused /\ \E o \in Conts : left' = left \ {o}
      BY <3>2 DEF PastTypes
    <3>3. CASE End
      <4>1. pc = "run" /\ reg.D # NIL
        BY <3>3 DEF End
      <4>2. PICK V, K : Stacked(V, K, mem, reg, left)
        BY <4>1 DEF StackInv
      <4>3. mem[reg.D].id \in Conts
        BY <4>1, <4>2 DEF Stacked, Dump
      <4> QED
        BY <3>3, <4>3 DEF End, PastTypes
    <3> QED
      BY <1>1, <3>1, <3>2, <3>3 DEF Program, EvalC, Fresh
  <2> QED
    BY <2>1, <2>2 DEF PastTypes
<1>2. CASE Collect
  BY <1>2 DEF Collect, Remember, past, PastTypes
<1>3. CASE UNCHANGED vars
  BY <1>3 DEF vars, past, PastTypes
<1> QED
  BY <1>1, <1>2, <1>3 DEF Next

LEMMA NextStacks ==
  ASSUME Inv, PastTypes, StackInv, Inv', [Next]_vars, ~reused'
  PROVE  StackInv'
<1>1. Types' /\ left \subseteq Conts
  BY DEF Inv, PastTypes
<1>2. CASE Program
  BY <1>1, <1>2, ProgramStacks
<1>3. CASE GC /\ UNCHANGED kind /\ UNCHANGED left
  BY <1>1, <1>3, CollectorStep, CollectingStacks, EndGCStacks
<1>4. CASE UNCHANGED vars
  BY <1>1, <1>4, StutterStacks
<1> QED
  BY <1>2, <1>3, <1>4 DEF Next, Collect, Remember, past

LEMMA NextRemembers ==
  ASSUME KeepsLeft => stored, [Next]_vars
  PROVE  KeepsLeft' => stored'
<1>1. CASE Remember
  BY <1>1, Zenon DEF Remember
<1>2. CASE UNCHANGED vars
  <2>1. UNCHANGED <<mem, reg, left, stored>>
    BY <1>2 DEF vars, heap, past
  <2>2. KeepsLeft <=> \E a \in Closure(mem)[{reg.topenv} \ {NIL}] : mem[a].id \in left
    BY DEF KeepsLeft, ReachFrom, Closure
  <2>3. KeepsLeft' <=> \E a \in Closure(mem')[{reg'.topenv} \ {NIL}] : mem'[a].id \in left'
    BY DEF KeepsLeft, ReachFrom, Closure
  <2>4. KeepsLeft' <=> KeepsLeft
    BY <2>1, <2>2, <2>3
  <2> QED
    BY <2>1, <2>4
<1> QED
  BY <1>1, <1>2 DEF Next, Collect

LEMMA NextGood ==
  ASSUME Good, [Next]_vars
  PROVE  Good'
<1>1. KeepsLeft' => stored'
  BY NextRemembers DEF Good
<1>2. ASSUME Tame' PROVE Inv' /\ PastTypes' /\ StackInv'
  <2>1. Tame
    BY <1>2, TameBefore
  <2>2. Inv /\ PastTypes /\ StackInv /\ TopApart
    BY <2>1, GoodIsApart
  <2>3. Inv'
    BY <2>2, NextInv
  <2>4. ~reused'
    BY <1>2 DEF Tame
  <2> QED
    BY <2>2, <2>3, <2>4, NextPastTypes, NextStacks
<1> QED
  BY <1>1, <1>2 DEF Good

LEMMA StaysGood == Spec => []Good
BY InitGood, NextGood, PTL DEF Spec

(***************************************************************************)
(* The cell on top of the stack, which TOP(S) = v, c_end() and the surgery *)
(* of c_apply() write to without TOPCHG, is never one that the top         *)
(* environment leads to.                                                   *)
(***************************************************************************)
THEOREM TopStaysApart == Spec => [](Tame => TopApart)
<1>1. Good => (Tame => TopApart)
  BY GoodIsApart
<1> QED
  BY <1>1, StaysGood, PTL

(***************************************************************************)
(* The types of the heap, in particular that hp never leaves its half.     *)
(***************************************************************************)
THEOREM TypeCorrect == Spec => [](Tame => TypeOK)
<1>1. Good => (Tame => TypeOK)
  BY GoodIsApart, InvTypeOK
<1> QED
  BY <1>1, StaysGood, PTL

(***************************************************************************)
(* The program never meets a cell that a collection has taken away: all it *)
(* reaches was given out in this half of the heap, or is in the corral.    *)
(***************************************************************************)
THEOREM NothingDangles == Spec => []NoDangling
<1>1. Good => NoDangling
  <2> SUFFICES ASSUME Good, Tame, pc = "run" PROVE \A a \in Reach : InTop(a) \/ (InHeap(a) /\ a < hp)
    BY DEF NoDangling
  <2>1. Running
    BY GoodIsApart DEF Inv
  <2> QED
    BY <2>1 DEF Running, LiveIn, Now
<1> QED
  BY <1>1, StaysGood, PTL

(***************************************************************************)
(* A corral that copytop() may leave alone refers to nothing outside.      *)
(***************************************************************************)
THEOREM CorralStaysClosed == Spec => []CorralClosed
<1>1. Good => CorralClosed
  BY GoodIsApart DEF Inv, Shut, CorralClosed
<1> QED
  BY <1>1, StaysGood, PTL

(***************************************************************************)
(* The program never meets two copies of one object; the copies that there *)
(* are during a collection agree with the originals.                       *)
(***************************************************************************)
THEOREM NoSecondCopy == Spec => []OneCopy
<1>1. Good => OneCopy
  <2>1. CASE Tame
    BY <2>1, GoodIsApart, InvOneCopy
  <2>2. CASE ~Tame
    BY <2>2 DEF OneCopy
  <2> QED
    BY <2>1, <2>2
<1> QED
  BY <1>1, StaysGood, PTL

(***************************************************************************)
(* The instructions that do not say TOPCHG, TOP(S) = v, the surgery of     *)
(* c_apply() and c_end()'s, never write to a corral that counts as         *)
(* unchanged: programs that assign and return through continuations        *)
(* included, as long as none that was returned through is kept in the top  *)
(* environment or returned through again.                                  *)
(***************************************************************************)
THEOREM EveryChangeIsMarked == Spec => ChangesMarked
<1>1. Good /\ [Next]_vars =>
        (Tame /\ pc = "run" /\ topend /\ ~topchg' => \A a \in 1 .. heapstart : mem'[a] = mem[a])
  BY GoodIsApart, StepIsMarked
<1> QED
  BY <1>1, StaysGood, PTL DEF Spec, ChangesMarked

(***************************************************************************)
(* No step of a collection shows: what the registers hold and what every   *)
(* object that is reached refers to stays the same, in terms of objects.   *)
(***************************************************************************)
THEOREM CollectionsAreInvisible == Spec => Invisible
<1>1. Inv => AsBegun
  BY InvAsBegun
<1>2. Good /\ Tame => Inv
  BY GoodIsApart
<1>3. Good /\ Tame /\ [Next]_vars => Inv'
  BY GoodIsApart, NextInv
<1>4. Good /\ Tame /\ AsBegun /\ AsBegun' /\ [Next]_vars
        => (pc # "run" \/ pc' # "run" => UNCHANGED <<SeenReg, Seen>>)
  BY GoodIsApart, StepShowsNothing
<1> QED
  BY <1>1, <1>2, <1>3, <1>4, StaysGood, PTL DEF Spec, Invisible

(***************************************************************************)
(* Programs run as they would without addresses and without a collector:   *)
(* every instruction does to the objects in use what it does in the store, *)
(* and no step of a collection changes them.                               *)
(***************************************************************************)
THEOREM CollectorImplementsStore == Spec => ImplementsStore
<1>1. Init => Promise!Init
  BY InitShows
<1>2. Inv => SeenAsBegun
  BY InvAsBegun, SeenTellsAll DEF SeenAsBegun
<1>3. Good /\ Tame => Inv
  BY GoodIsApart
<1>4. Good /\ Tame /\ [Next]_vars => Inv'
  BY GoodIsApart, NextInv
<1>5. Good /\ SeenAsBegun /\ SeenAsBegun' /\ [Next]_vars
        => [Tame => Promise!Next]_<<SeenReg, SeenObj>>
  <2>1. ASSUME Good, Tame, SeenAsBegun, SeenAsBegun', [Next]_vars
        PROVE  [Promise!Next]_<<SeenReg, SeenObj>>
    BY <2>1, GoodIsApart, StepOfStore
  <2> QED
    BY <2>1
<1>6. Good /\ ~Tame => [Tame => Promise!Next]_<<SeenReg, SeenObj>>
  OBVIOUS
<1> QED
  BY <1>1, <1>2, <1>3, <1>4, <1>5, <1>6, StaysGood, PTL DEF Spec, ImplementsStore

=============================================================================
