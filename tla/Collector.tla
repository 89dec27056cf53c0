----------------------------- MODULE Collector -----------------------------
(***************************************************************************)
(* MakerLisp's garbage collector against the program it collects for:      *)
(* cells that are copied to the other half of the heap, references that    *)
(* are forwarded on the way, and the corral, which a collection leaves     *)
(* alone as long as nothing in the top environment was assigned to.        *)
(*                                                                         *)
(* A cell is a pair; atoms are pairs that refer to nothing.  A continuation *)
(* and the pair of D that holds it are one cell too: its car is the stack  *)
(* that was saved, its cdr the rest of D.  The environment and the commands *)
(* that it saves as well are two more values, which a program of this      *)
(* module pushes first.  Every cell carries, as a ghost, the object it     *)
(* represents.  How much room there is and what happens when there is too  *)
(* little is the subject of SemiSpace.                                     *)
(***************************************************************************)
EXTENDS Naturals, FiniteSets

CONSTANTS
  Objects,    \* identities of Lisp objects (the ghost)
  Conts,      \* those of continuations
  LIMIT,      \* cells a program makes before it has to collect (bound)
  Kinds       \* of programs: what they use of "pairs", "stack", ... (bound)

NIL == 0
HALF == LIMIT + Cardinality(Objects)   \* room for a corral and a half's cells

ASSUME CollectorAssumption ==
  /\ IsFiniteSet(Objects) /\ Objects \subseteq Nat \ {NIL}
  /\ Conts \subseteq Objects /\ Objects \ Conts # {}
  /\ LIMIT \in Nat /\ LIMIT >= Cardinality(Objects)
  /\ Kinds \subseteq SUBSET {"pairs", "stack", "apply", "assign", "callcc"}

Cells  == 1 .. 2 * HALF                \* addresses: the low half, the high half
Fields == {"car", "cdr"}
Free   == [id |-> NIL, car |-> NIL, cdr |-> NIL]

VARIABLES
  mem,        \* the cells' contents
  forward,    \* header.forward of each cell
  hp,         \* the next cell to be made
  reg,        \* the registers: topenv, S, D, v (for E, C and locals)
  half,       \* the half in use
  heapstart,  \* the last cell of the corral, be it given up; 0: ~topbase
  topend,     \* the corral holds the top environment
  topchg,     \* and was assigned to
  sp,         \* the cell expheap() looks at next
  pc,         \* "run", or the part of gc() that comes next
  kind,       \* ghost: what this program uses
  left,       \* ghost: the continuations that were returned through,
  reused,     \* ghost: one of them twice
  stored      \* ghost: the top environment has led to one of them

heap  == <<mem, forward, hp>>
fence == <<half, heapstart, topend, topchg>>
past  == <<left, reused>>
vars  == <<heap, reg, fence, sp, pc, kind, past, stored>>

heapbase == IF half = "low" THEN heapstart + 1 ELSE HALF + 1

InTop(a)  == topend /\ a <= heapstart
InHeap(a) == a >= heapbase /\ (half = "low" => a <= HALF)

\* Every cell that those of R lead to, and the registers.
ReachFrom(R) ==
  LET closure[A \in SUBSET Cells] ==
        LET new == (UNION {{mem[a].car, mem[a].cdr} : a \in A}) \ (A \cup {NIL})
        IN  IF new = {} THEN A ELSE closure[A \cup new]
  IN  closure[R \ {NIL}]
Reach == ReachFrom({reg.topenv, reg.S, reg.D, reg.v})

\* The identity the next object gets.
Fresh(ids) == LET used == {mem[a].id : a \in Reach}
                IN  {o \in ids \ used : \A p \in ids \ used : o <= p}

-----------------------------------------------------------------------------
(***************************************************************************)
(* The program: the steps commands are made of.  A collection may come     *)
(* after each of them, in the code after those commands that call evalgc(). *)
(***************************************************************************)
\* What an instruction works on, and where that leads.
Operands == {reg.topenv, reg.v, NIL}
            \cup (IF reg.S = NIL THEN {} ELSE {mem[reg.S].car})
IsCont(a) == a # NIL /\ mem[a].id \in Conts
Parts(a) == IF a = NIL \/ IsCont(a) THEN {} ELSE {mem[a].car, mem[a].cdr}

\* mkpair(): the next cell of the half in use.
MkPair(o, x, y) ==
  /\ pc = "run"
  /\ mem' = [mem EXCEPT ![hp] = [id |-> o, car |-> x, cdr |-> y]]
  /\ forward' = [forward EXCEPT ![hp] = hp]
  /\ hp' = hp + 1
  /\ UNCHANGED <<fence, sp, pc>>

Cons(o, x, y) == "pairs" \in kind /\ MkPair(o, x, y) /\ reg' = [reg EXCEPT !.v = hp]

\* PUSH(S, v)
Push(o) ==
  /\ "stack" \in kind
  /\ MkPair(o, reg.v, reg.S)
  /\ reg' = [reg EXCEPT !.S = hp]

Load(x) ==
  /\ pc = "run"
  /\ reg' = [reg EXCEPT !.v = x]
  /\ UNCHANGED <<heap, fence, sp, pc>>

\* POP(S, v)
Pop ==
  /\ pc = "run" /\ reg.S # NIL
  /\ reg' = [reg EXCEPT !.v = mem[reg.S].car, !.S = mem[reg.S].cdr]
  /\ UNCHANGED <<heap, fence, sp, pc>>

\* TOP(S) = v, how c_add() and the other primitives leave their value: no
\* TOPCHG.
SetTop ==
  /\ pc = "run" /\ reg.S # NIL
  /\ mem' = [mem EXCEPT ![reg.S].car = reg.v]
  /\ UNCHANGED <<forward, hp, reg, fence, sp, pc>>

\* The surgery of c_apply(): a cell of the stack becomes an association pair
\* of the parameter x.
Bind(x) ==
  /\ pc = "run" /\ "apply" \in kind /\ reg.S # NIL
  /\ mem' = [mem EXCEPT ![reg.S] = [id |-> @.id, car |-> x, cdr |-> @.car]]
  /\ reg' = [reg EXCEPT !.v = reg.S, !.S = mem[reg.S].cdr]
  /\ UNCHANGED <<forward, hp, fence, sp, pc>>

\* Mutant: an assignment that does not say TOPCHG.
Assign_NoTopchg(a, f, x) ==
  /\ pc = "run" /\ "assign" \in kind /\ ~IsCont(a)
  /\ mem' = [mem EXCEPT ![a][f] = x]
  /\ UNCHANGED <<forward, hp, reg, fence, sp, pc>>

\* rplaca, rplacd, setq, define, forget, (vset ...): all say TOPCHG(a).
Assign(a, f, x) ==
  /\ pc = "run" /\ "assign" \in kind /\ ~IsCont(a)
  /\ mem' = [mem EXCEPT ![a][f] = x]
  /\ topchg' = (topchg \/ InTop(a))
  /\ UNCHANGED <<forward, hp, reg, half, heapstart, topend, sp, pc>>

\* c_apply(): what is left of the stack is the value of the rest parameter x.
BindRest(o, x) ==
  /\ "apply" \in kind
  /\ MkPair(o, x, reg.S)
  /\ reg' = [reg EXCEPT !.v = hp, !.S = NIL]

\* Mutant: S is not emptied.
EvalC_SharesStack(o) ==
  /\ "stack" \in kind
  /\ MkPair(o, reg.S, reg.D)
  /\ reg' = [reg EXCEPT !.D = hp]
  /\ left' = left \ {o}

\* c_evalc(): PUSH(D, mkcont(S, E, C)), EMPTY(S).
EvalC(o) ==
  /\ "stack" \in kind
  /\ MkPair(o, reg.S, reg.D)
  /\ reg' = [reg EXCEPT !.D = hp, !.S = NIL]
  /\ left' = left \ {o}

\* c_end(): the saved stack becomes the cdr of TOP(S), without TOPCHG.
End ==
  /\ pc = "run" /\ reg.D # NIL /\ reg.S # NIL
  /\ mem' = [mem EXCEPT ![reg.S].cdr = mem[reg.D].car]
  /\ reg' = [reg EXCEPT !.D = mem[reg.D].cdr]
  /\ left' = left \cup {mem[reg.D].id}
  /\ reused' = (reused \/ mem[reg.D].id \in left)
  /\ UNCHANGED <<forward, hp, fence, sp, pc>>

\* c_makecc(): D becomes a value.
MakeCC == "callcc" \in kind /\ Load(reg.D)

\* c_continue(): the value a becomes D, if there is one value to return.
Continue(a) ==
  /\ pc = "run" /\ "callcc" \in kind
  /\ a = NIL \/ IsCont(a)
  /\ reg.S # NIL /\ mem[reg.S].cdr = NIL
  /\ reg' = [reg EXCEPT !.D = a]
  /\ UNCHANGED <<heap, fence, sp, pc>>

\* eval() after an error, before it pushes the error's symbol: if there is a
\* handler S is emptied, else D, E and C too.
Error ==
  /\ pc = "run"
  /\ \/ reg' = [reg EXCEPT !.S = NIL]
     \/ reg' = [reg EXCEPT !.S = NIL, !.D = NIL, !.v = NIL]
  /\ UNCHANGED <<heap, fence, sp, pc>>

Instruction ==
  \/ /\ hp < heapbase + LIMIT
     /\ \E o \in Fresh(Objects \ Conts) :
          \/ Push(o)
          \/ \E x \in Operands : BindRest(o, x)
          \/ \E x, y \in Operands : Cons(o, x, y)
  \/ Pop \/ SetTop \/ MakeCC \/ Error
  \/ \E x \in Operands : Bind(x) \/ Continue(x)
  \/ \E x \in Operands \cup UNION {Parts(a) : a \in Operands} : Load(x)
  \/ \E a \in Operands \ {NIL}, f \in Fields, x \in Operands : Assign(a, f, x)

Program ==
  \/ Instruction /\ UNCHANGED past
  \/ /\ hp < heapbase + LIMIT
     /\ \E o \in Fresh(Conts) : EvalC(o) /\ UNCHANGED reused
  \/ End

-----------------------------------------------------------------------------
(***************************************************************************)
(* The collector.                                                          *)
(***************************************************************************)
Now == [mem |-> mem, forward |-> forward, hp |-> hp]

\* Mutant: a cell that was copied before is copied again, as one of the first.
CopyCell_Again(h, a) ==
  IF \/ a = NIL \/ InTop(h.forward[a]) \/ InHeap(a)
     \/ InHeap(h.forward[a]) /\ h.hp >= heapbase + 2
  THEN h
  ELSE [mem     |-> [h.mem EXCEPT ![h.hp] = h.mem[a]],
        forward |-> [h.forward EXCEPT ![h.hp] = h.hp, ![a] = h.hp],
        hp      |-> h.hp + 1]

\* copycell(a): the heap after it, with the cell's new address as forward[a].
CopyCell(h, a) ==
  IF a = NIL \/ InTop(h.forward[a]) \/ InHeap(h.forward[a]) THEN h
  ELSE [mem     |-> [h.mem EXCEPT ![h.hp] = h.mem[a]],
        forward |-> [h.forward EXCEPT ![h.hp] = h.hp, ![a] = h.hp],
        hp      |-> h.hp + 1]
Copied(h, a) == IF a = NIL THEN NIL ELSE h.forward[a]

\* newheap()
NewHeap ==
  /\ pc = "run"
  /\ half' = (IF half = "low" THEN "high" ELSE "low")
  /\ LET base == IF half = "high" THEN heapstart + 1 ELSE HALF + 1
     IN  hp' = base /\ sp' = base

\* Mutant: the corral is left alone for good.
KeepTop_Changed ==
  /\ topend /\ NewHeap
  /\ pc' = "S"
  /\ UNCHANGED <<mem, forward, reg, heapstart, topend, topchg>>

\* copytop(), when the top environment may be left alone.
KeepTop ==
  /\ topend /\ ~topchg /\ NewHeap
  /\ pc' = "S"
  /\ UNCHANGED <<mem, forward, reg, heapstart, topend, topchg>>

\* copytop(): the corral is given up, and its place when going high.
GiveUpTop ==
  /\ ~topend \/ topchg
  /\ NewHeap
  /\ topend' = FALSE
  /\ heapstart' = (IF topchg /\ half' = "high" THEN 0 ELSE heapstart)
  /\ pc' = "topenv"
  /\ UNCHANGED <<mem, forward, reg, topchg>>

\* Mutant: what copyroot() returns is not assigned to the root.
CopyRoot_Lost(r, next) ==
  LET h == CopyCell(Now, reg[r])
  IN  /\ pc = r /\ sp = hp
      /\ mem' = h.mem /\ forward' = h.forward /\ hp' = h.hp
      /\ pc' = next
      /\ UNCHANGED <<reg, fence, sp>>

\* copyroot(): copy what the root refers to; Expand does the rest.
CopyRoot(r, next) ==
  LET h == CopyCell(Now, reg[r])
  IN  /\ pc = r /\ sp = hp
      /\ mem' = h.mem /\ forward' = h.forward /\ hp' = h.hp
      /\ reg' = [reg EXCEPT ![r] = Copied(h, reg[r])]
      /\ pc' = next
      /\ UNCHANGED <<fence, sp>>

\* Mutant: the cdr of a cell is not expanded.
Expand_CarOnly ==
  LET car == mem[sp].car  h == CopyCell(Now, car)
  IN  /\ pc # "run" /\ sp < hp
      /\ mem' = [h.mem EXCEPT ![sp].car = Copied(h, car)]
      /\ forward' = h.forward /\ hp' = h.hp
      /\ sp' = sp + 1
      /\ UNCHANGED <<reg, fence, pc>>

\* Mutant: an atom is looked at, but not stepped over.
Expand_AtAtom ==
  LET car == mem[sp].car  cdr == mem[sp].cdr
      h == CopyCell(CopyCell(Now, car), cdr)
  IN  /\ pc # "run" /\ sp < hp
      /\ mem' = [h.mem EXCEPT ![sp].car = Copied(h, car), ![sp].cdr = Copied(h, cdr)]
      /\ forward' = h.forward /\ hp' = h.hp
      /\ sp' = (IF car = NIL /\ cdr = NIL THEN sp ELSE sp + 1)
      /\ UNCHANGED <<reg, fence, pc>>

\* One cell of expheap().
Expand ==
  LET car == mem[sp].car  cdr == mem[sp].cdr
      h == CopyCell(CopyCell(Now, car), cdr)
  IN  /\ pc # "run" /\ sp < hp
      /\ mem' = [h.mem EXCEPT ![sp].car = Copied(h, car), ![sp].cdr = Copied(h, cdr)]
      /\ forward' = h.forward /\ hp' = h.hp
      /\ sp' = sp + 1
      /\ UNCHANGED <<reg, fence, pc>>

\* copytop(), when the top environment was copied: corral it.
BuildCorral ==
  /\ pc = "corral" /\ sp = hp
  /\ IF half = "low" /\ heapstart = 0
     THEN heapstart' = hp - 1 /\ topend' = TRUE /\ topchg' = FALSE
     ELSE UNCHANGED <<heapstart, topend, topchg>>
  /\ pc' = "S"
  /\ UNCHANGED <<heap, reg, half, sp>>

\* The end of gc(): the other half, and a corral given up, are scratch.
EndGC ==
  LET kept == {a \in Cells : InTop(a) \/ (InHeap(a) /\ a < hp)}
  IN  /\ pc = "end" /\ sp = hp
      /\ mem' = [a \in Cells |-> IF a \in kept THEN mem[a] ELSE Free]
      /\ forward' = [a \in Cells |-> a]
      /\ sp' = 0 /\ pc' = "run"
      /\ UNCHANGED <<hp, reg, fence>>

GC ==
  \/ KeepTop \/ GiveUpTop \/ Expand \/ BuildCorral \/ EndGC
  \/ CopyRoot("topenv", "corral") \/ CopyRoot("S", "D")
  \/ CopyRoot("D", "v") \/ CopyRoot("v", "end")

Init ==
  \E o \in Objects \ Conts :
    /\ \A p \in Objects \ Conts : o <= p
    /\ mem = [a \in Cells |-> IF a = 1 THEN [id |-> o, car |-> NIL, cdr |-> NIL]
                              ELSE Free]
    /\ forward = [a \in Cells |-> a] /\ hp = 2
    /\ reg = [topenv |-> 1, S |-> NIL, D |-> NIL, v |-> NIL]
    /\ half = "low" /\ heapstart = 0 /\ topend = FALSE /\ topchg = FALSE
    /\ sp = 0 /\ pc = "run"
    /\ left = {} /\ reused = FALSE /\ kind \in Kinds /\ stored = FALSE

\* The top environment leads to a continuation that was returned through.
KeepsLeft == \E a \in ReachFrom({reg.topenv}) : mem[a].id \in left
Remember  == stored' = (stored \/ KeepsLeft') /\ UNCHANGED kind

Collect == GC /\ UNCHANGED past /\ Remember
Next == (Program /\ Remember) \/ Collect
Spec == Init /\ [][Next]_vars
\* gc() runs to its end once it has begun: breaks are deferred meanwhile.
FairSpec == Spec /\ WF_vars(Collect)

-----------------------------------------------------------------------------
\* What the properties are about.  Once a continuation was returned through,
\* the stack that it holds is S, which is changed without TOPCHG; the corral can
\* have a part in it if the continuation is kept where the top environment leads
\* to, and if it is returned through again.  Nothing is claimed from there on.
Tame == ~stored /\ ~reused

TypeOK ==
  /\ mem \in [Cells -> [id : Objects \cup {NIL}, car : Cells \cup {NIL},
                        cdr : Cells \cup {NIL}]]
  /\ forward \in [Cells -> Cells]
  /\ heapstart \in 0 .. HALF
  /\ hp \in heapbase .. heapbase + HALF
  /\ pc # "run" => sp \in heapbase .. hp
  /\ reg \in [{"topenv", "S", "D", "v"} -> Cells \cup {NIL}]
  /\ half \in {"low", "high"} /\ topend \in BOOLEAN /\ topchg \in BOOLEAN
  /\ pc \in {"run", "topenv", "corral", "S", "D", "v", "end"}
  /\ kind \in Kinds /\ left \subseteq Conts /\ reused \in BOOLEAN /\ stored \in BOOLEAN

\* Whatever is reached while the program runs is in use: in the part of the
\* half that was given out, or in the corral.
NoDangling == Tame /\ pc = "run" => \A a \in Reach : InTop(a) \/ (InHeap(a) /\ a < hp)

\* The premise under which copytop() leaves the corral alone: nothing in an
\* unchanged corral refers to a cell outside.
CorralClosed ==
  Tame /\ topend /\ ~topchg =>
    \A a \in 1 .. heapstart, f \in Fields : mem[a][f] <= heapstart

\* The program never meets two copies of one object, which eq would tell
\* apart; while the collector has made copies, they agree with the originals.
OneCopy ==
  LET reached == Reach
  IN  Tame => \A a, b \in reached : mem[a].id = mem[b].id =>
    IF pc = "run" THEN a = b
    ELSE \A f \in Fields : mem[a][f] # NIL =>
           mem[b][f] # NIL /\ mem[mem[a][f]].id = mem[mem[b][f]].id

\* TOPCHG: a corral that counts as unchanged did not change, be it by SetTop,
\* Bind, BindRest or End, which do not say TOPCHG.
ChangesMarked ==
  [][Tame /\ pc = "run" /\ topend /\ ~topchg' =>
       \A a \in 1 .. heapstart : mem'[a] = mem[a]]_vars

\* What the program sees of all this.
Id(a) == IF a = NIL THEN NIL ELSE mem[a].id
SeenReg == [r \in DOMAIN reg |-> Id(reg[r])]
SeenObj ==
  LET reached == Reach
      Of(o) == {a \in reached : mem[a].id = o}
  IN  [o \in Objects |->
         IF Of(o) = {} THEN [car |-> NIL, cdr |-> NIL]
         ELSE LET a == CHOOSE b \in Of(o) : TRUE
              IN  [car |-> Id(mem[a].car), cdr |-> Id(mem[a].cdr)]]

Promise == INSTANCE Store WITH reg <- SeenReg, obj <- SeenObj

\* Programs run as they would without addresses and without a collector.
ImplementsStore ==
  Promise!Init /\ [][Tame => Promise!Next]_<<SeenReg, SeenObj>>

\* No step of a collection shows.
Seen == {<<Id(a), Id(mem[a].car), Id(mem[a].cdr)>> : a \in Reach}
Invisible == [][Tame /\ (pc # "run" \/ pc' # "run") => UNCHANGED <<SeenReg, Seen>>]_vars

\* A collection comes to its end.
GCEnds == (pc # "run") ~> (pc = "run")
=============================================================================
