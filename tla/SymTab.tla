------------------------------- MODULE SymTab -------------------------------
(***************************************************************************)
(* MakerLisp's symbol table: the list T of every symbol, the quick map     *)
(* mapsym[] in front of it, and what mksymb(), the collector and           *)
(* init_data() do to the two.  A symbol is interned: two symbols of one    *)
(* name are one cell, so that eq may compare addresses.                    *)
(*                                                                         *)
(* A cell is its name and the part of the heap it lies in; nothing else of *)
(* an address is ever tested.  Sequence T has its newest symbol last.      *)
(***************************************************************************)
EXTENDS Integers, Sequences

CONSTANTS
  Names,    \* what symbols can be called
  Buckets,  \* the even hash values
  hash,     \* hashfun(): the bucket of each name
  TVAL      \* the name of the true value

ASSUME HashAssumption == hash \in [Names -> Buckets] /\ TVAL \in Names

Halves == {"low", "high"}
Cells  == [name : Names, at : Halves \cup {"corral", "stale"}]
NULL   == [name |-> TVAL, at |-> "nowhere"]     \* in mapsym[]: no symbol
Slots  == Buckets \X {0, 1}                     \* h and h + 1

VARIABLES
  T,        \* the symbol table
  mapsym,   \* the quick map
  top,      \* symbols in the top environment
  tval,     \* the true value
  held,     \* symbols that S, E, C, D and history lead to
  half,     \* the half in use
  topbase,  \* there is a corral, be it given up
  topend,   \* the corral holds the top environment
  topchg,   \* and was assigned to
  pc,       \* "run", or the part of gc() in progress: "tval", "top", "rest"
  oom       \* ghost: 1 after a collection ran out of memory, 2 in the next

table == <<T, mapsym>>
roots == <<top, tval, held>>
fence == <<half, topbase, topend, topchg>>
vars  == <<table, roots, fence, pc, oom>>

InTable == {T[i] : i \in 1 .. Len(T)}
Live    == top \cup held \cup {tval}

-----------------------------------------------------------------------------
\* What mksymb(n) finds: in slot h, in slot h + 1, or in T, which it searches
\* only when slot h is taken.  NULL: it has to make the symbol.
Named(c, n) == c # NULL /\ c.name = n
Found(n) ==
  LET first == mapsym[<<hash[n], 0>>]  second == mapsym[<<hash[n], 1>>]
      there == {c \in InTable : c.name = n}
  IN  IF Named(first, n) THEN first
      ELSE IF first # NULL /\ Named(second, n) THEN second
      ELSE IF first # NULL /\ there # {} THEN CHOOSE c \in there : TRUE
      ELSE NULL

\* The slot the symbol goes to, unless it is in one already.
SlotFor(n) == <<hash[n], IF mapsym[<<hash[n], 0>>] = NULL THEN 0 ELSE 1>>

\* mksymb() puts a new cell in the table, over what the map had there.
Push(c) ==
  /\ T' = Append(T, c)
  /\ mapsym' = [mapsym EXCEPT ![SlotFor(c.name)] = c]

\* Mutant: the map is not loaded from slot h + 1 on, and T not searched.
Intern_MapOnly(n) ==
  LET first == mapsym[<<hash[n], 0>>]  new == [name |-> n, at |-> half]
  IN  /\ pc = "run"
      /\ IF Named(first, n) THEN held' = held \cup {first} /\ UNCHANGED table
         ELSE held' = held \cup {new} /\ Push(new)
      /\ UNCHANGED <<top, tval, fence, pc, oom>>

\* mksymb(n) as the reader and the string functions call it.
Intern(n) ==
  LET found == Found(n)  new == [name |-> n, at |-> half]
  IN  /\ pc = "run"
      /\ IF found = NULL
         THEN Push(new) /\ held' = held \cup {new}
         ELSE /\ held' = held \cup {found}
              /\ mapsym' = IF found = mapsym[<<hash[n], 0>>] THEN mapsym
                           ELSE [mapsym EXCEPT ![<<hash[n], 1>>] = found]
              /\ T' = T
      /\ UNCHANGED <<top, tval, fence, pc, oom>>

(***************************************************************************)
(* The mutator: values move between the machine's registers and the top    *)
(* environment; an assignment in the corral sets topchg.                   *)
(***************************************************************************)
Load(c) ==
  /\ pc = "run" /\ c \in top \cup {tval}
  /\ held' = held \cup {c}
  /\ UNCHANGED <<table, top, tval, fence, pc, oom>>

Drop(c) ==
  /\ pc = "run" /\ c \in held
  /\ held' = held \ {c}
  /\ UNCHANGED <<table, top, tval, fence, pc, oom>>

SetTop(newtop) ==
  /\ pc = "run"
  /\ top' = newtop
  /\ topchg' = (topchg \/ topend)
  /\ UNCHANGED <<table, tval, held, half, topbase, topend, pc, oom>>

Define(c) == c \in held /\ SetTop(top \cup {c})
Forget(c) == c \in top /\ SetTop(top \ {c})

-----------------------------------------------------------------------------
InTop(c)  == topend /\ c.at = "corral"
InHeap(c) == c.at = half \/ (c.at = "stale" /\ half = "high")

\* copytop() finds the corral as it left it: it drops T's symbols down to the
\* corral's, and those of the map that are among them.
KeptLen == CHOOSE k \in 0 .. Len(T) : /\ k = 0 \/ InTop(T[k])
                                      /\ \A i \in k + 1 .. Len(T) : ~ InTop(T[i])
Kept    == SubSeq(T, 1, KeptLen)
Dropped == {T[i] : i \in KeptLen + 1 .. Len(T)}

KeepTop_FirstSlotOnly ==                 \* mutant: slot h + 1 is not cleared
  /\ topend /\ ~ topchg /\ T' = Kept
  /\ mapsym' = [s \in Slots |->
       IF s[2] = 0 /\ mapsym[s] \in Dropped THEN NULL ELSE mapsym[s]]
  /\ pc' = "rest"
  /\ UNCHANGED <<topbase, topend>>

KeepTop_AllSlots ==                      \* mutant: clears without comparing
  /\ topend /\ ~ topchg /\ T' = Kept
  /\ mapsym' = [s \in Slots |-> NULL]
  /\ pc' = "rest"
  /\ UNCHANGED <<topbase, topend>>

KeepTop_KeepTable ==                     \* mutant: T is left as it is
  /\ topend /\ ~ topchg /\ T' = T
  /\ mapsym' = [s \in Slots |-> IF mapsym[s] \in Dropped THEN NULL ELSE mapsym[s]]
  /\ pc' = "rest"
  /\ UNCHANGED <<topbase, topend>>

KeepTop ==
  /\ topend /\ ~ topchg
  /\ T' = Kept
  /\ mapsym' = [s \in Slots |-> IF mapsym[s] \in Dropped THEN NULL ELSE mapsym[s]]
  /\ pc' = "rest"
  /\ UNCHANGED <<topbase, topend>>

CopyTop_KeepTable ==                     \* mutant: no EMPTY(T)
  /\ ~ (topend /\ ~ topchg) /\ T' = T
  /\ mapsym' = [s \in Slots |-> NULL]
  /\ topend' = FALSE
  /\ topbase' = (topbase /\ ~ (topchg /\ half' = "high"))
  /\ pc' = "tval"

\* Or it starts again with an empty table.
CopyTop ==
  /\ ~ (topend /\ ~ topchg)
  /\ T' = << >>
  /\ mapsym' = [s \in Slots |-> NULL]
  /\ topend' = FALSE
  /\ topbase' = (topbase /\ ~ (topchg /\ half' = "high"))
  /\ pc' = "tval"

\* gc() up to its first copy.  What follows the collection after one that ran
\* out of memory is not modelled: it may read cells that were written over.
StartGC ==
  /\ pc = "run" /\ oom < 2
  /\ half' = IF half = "low" THEN "high" ELSE "low"
  /\ KeepTop \/ CopyTop
  /\ oom' = 2 * oom
  /\ UNCHANGED <<roots, topchg>>

\* copycell() of a symbol, and every pointer to it forwarded.
Copied(c) == [name |-> c.name, at |-> half]
Forwarded(S, c) == IF c \in S THEN (S \ {c}) \cup {Copied(c)} ELSE S
Copy(c) ==
  /\ ~ InTop(c) /\ ~ InHeap(c)
  /\ Push(Copied(c))
  /\ top' = Forwarded(top, c) /\ held' = Forwarded(held, c)
  /\ tval' = IF tval = c THEN Copied(c) ELSE tval
  /\ UNCHANGED <<fence, oom>>

AllCopied(S) == \A c \in S : InTop(c) \/ InHeap(c)

\* tval = copyroot(tval)
CopyTval ==
  /\ pc = "tval" /\ pc' = "top"
  /\ IF AllCopied({tval}) THEN UNCHANGED <<table, roots, fence, oom>> ELSE Copy(tval)

\* topenv = copyroot(topenv), and the roots after it, in the order the
\* symbols come up in.
CopySymbol(c) ==
  /\ \/ pc = "top" /\ c \in top
     \/ pc = "rest" /\ c \in held
  /\ Copy(c)
  /\ UNCHANGED pc

\* Everything in the low half so far becomes the corral.
Corral(c) == IF c.at = "low" THEN [c EXCEPT !.at = "corral"] ELSE c
BuildCorral ==
  /\ ~ topbase /\ half = "low"
  /\ topbase' = TRUE /\ topend' = TRUE /\ topchg' = FALSE
  /\ T' = [i \in 1 .. Len(T) |-> Corral(T[i])]
  /\ mapsym' = [s \in Slots |-> Corral(mapsym[s])]
  /\ tval' = Corral(tval)
  /\ top' = {Corral(c) : c \in top}
  /\ held' = {Corral(c) : c \in held}
  /\ UNCHANGED half

LeaveUncorralled ==
  /\ ~ (~ topbase /\ half = "low")
  /\ UNCHANGED <<table, roots, fence>>

TopCopied ==
  /\ pc = "top" /\ AllCopied(top)
  /\ BuildCorral \/ LeaveUncorralled
  /\ pc' = "rest"
  /\ UNCHANGED oom

FinishGC ==
  /\ pc = "rest" /\ AllCopied(held)
  /\ pc' = "run"
  /\ UNCHANGED <<table, roots, fence, oom>>

(***************************************************************************)
(* copycell() at the end of memory, on a copy into the high half that      *)
(* moves the environment as well: init_data() empties T and the roots, and *)
(* init_eval() makes the true value with mksymb().  The map is not         *)
(* cleared: its symbols lie in the high half, which is no longer in use.   *)
(***************************************************************************)
CopyGivesUp_NoEval ==                    \* mutant: init_data() alone
  /\ pc \in {"top", "rest"} /\ half = "high" /\ ~ topend /\ oom = 0
  /\ tval' = NULL /\ top' = {} /\ held' = {} /\ T' = << >> /\ mapsym' = mapsym
  /\ half' = "low" /\ topbase' = FALSE /\ topend' = FALSE /\ topchg' = FALSE
  /\ pc' = "run" /\ oom' = 1

Stale(c) == IF c = NULL THEN NULL ELSE [c EXCEPT !.at = "stale"]
CopyGivesUp ==
  LET map   == [s \in Slots |-> Stale(mapsym[s])]
      first == map[<<hash[TVAL], 0>>]  second == map[<<hash[TVAL], 1>>]
      found == IF Named(first, TVAL) THEN first
               ELSE IF first # NULL /\ Named(second, TVAL) THEN second ELSE NULL
      new   == [name |-> TVAL, at |-> "low"]
      slot  == <<hash[TVAL], IF first = NULL THEN 0 ELSE 1>>
  IN  /\ pc \in {"top", "rest"} /\ half = "high" /\ ~ topend /\ oom = 0
      /\ top' = {} /\ held' = {}
      /\ half' = "low" /\ topbase' = FALSE /\ topend' = FALSE /\ topchg' = FALSE
      /\ IF found # NULL
         THEN tval' = found /\ T' = << >> /\ mapsym' = map
         ELSE tval' = new /\ T' = <<new>> /\ mapsym' = [map EXCEPT ![slot] = new]
      /\ pc' = "run" /\ oom' = 1

-----------------------------------------------------------------------------
\* init_data() and init_eval(), the first time.
Init ==
  LET t == [name |-> TVAL, at |-> "low"]
  IN  /\ T = <<t>> /\ tval = t
      /\ mapsym = [s \in Slots |-> IF s = <<hash[TVAL], 0>> THEN t ELSE NULL]
      /\ top = {} /\ held = {}
      /\ half = "low" /\ topbase = FALSE /\ topend = FALSE /\ topchg = FALSE
      /\ pc = "run" /\ oom = 0

Next ==
  \/ \E n \in Names : Intern(n)
  \/ \E c \in Live : Load(c) \/ Drop(c) \/ Define(c) \/ Forget(c) \/ CopySymbol(c)
  \/ StartGC \/ CopyTval \/ TopCopied \/ FinishGC \/ CopyGivesUp

Spec == Init /\ [][Next]_vars

-----------------------------------------------------------------------------
TypeOK ==
  /\ T \in Seq(Cells)
  /\ mapsym \in [Slots -> Cells \cup {NULL}]
  /\ top \in SUBSET Cells /\ held \in SUBSET Cells /\ tval \in Cells
  /\ half \in Halves
  /\ topbase \in BOOLEAN /\ topend \in BOOLEAN /\ topchg \in BOOLEAN
  /\ pc \in {"run", "tval", "top", "rest"}
  /\ oom \in 0 .. 2

\* The table never holds two symbols of one name, although a symbol is made
\* without a search when its first slot is empty, and every collection makes
\* its symbols without one.
NoTwins ==
  oom = 0 => \A i, j \in 1 .. Len(T) : T[i].name = T[j].name => i = j

\* The quick map leads to symbols of the table, in the bucket of their name:
\* no slot outlives the cell it points to.
MapInTable ==
  oom = 0 => \A s \in Slots : mapsym[s] # NULL =>
    mapsym[s] \in InTable /\ hash[mapsym[s].name] = s[1]

\* What eq relies on: reading the name of a symbol that is in use gives that
\* very cell, never a second one and never one that was left behind.
ReadsBackAlways == pc = "run" => \A c \in Live : Found(c.name) = c
ReadsBack == oom = 0 => ReadsBackAlways

\* A collection leaves no symbol in the table that nothing leads to, the
\* corral's excepted.
NoLeak ==
  [][(pc = "rest" /\ pc' = "run" /\ oom' = 0)
       => InTable' \subseteq Live' \cup {c \in Cells : c.at = "corral"}]_vars

\* The loop in copytop() that drops T's symbols stops at the first one of
\* the corral: every older one has to be in the corral too.
CorralIsOldest ==
  oom = 0 => \A i, j \in 1 .. Len(T) : InTop(T[j]) /\ i < j => InTop(T[i])
=============================================================================
