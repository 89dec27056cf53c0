-------------------------- MODULE SemiSpace_proofs --------------------------
(***************************************************************************)
(* What SemiSpace promises, proved for heaps of any size.                  *)
(***************************************************************************)
EXTENDS SemiSpace, TLAPS

Low  == heapbase = heapstart
Copying == pc # "run"

-----------------------------------------------------------------------------
(***************************************************************************)
(* The inductive invariant.  The layout is in one of three modes:          *)
(*   Plain   no corral, the halves start at 0;                             *)
(*   Corral  the corral is in use, the halves start at its end;            *)
(*   Given   the corral has been given up by a collection going down, its  *)
(*           space comes back with the next collection.                    *)
(***************************************************************************)
Plain  == topbase = NULL /\ topend = NULL /\ heapstart = 0 /\ heapsize = HEAPHALF
Shrunk ==
  /\ topbase = 0 /\ heapstart > 0 /\ GUARDPAGE =< heapsize
  /\ 2 * heapsize + heapstart =< CopyLimit + 1
  /\ 2 * heapsize + heapstart > CopyLimit - 2 * HEAPBMOD
Corral ==
  Shrunk /\ topend = heapstart /\ toplive =< topend /\ topend < toplive + HEAPBMOD
Given  == Shrunk /\ topend = NULL /\ topchg /\ Low

Modes == Plain \/ Corral \/ Given

\* Where the half in use lies.
Placed ==
  /\ heaplim = heapend - GUARDPAGE
  /\ heapstart =< heapbase /\ heapbase + scratch =< hp
  /\ Low => heapend = heapstart + heapsize /\ other = heapend
  /\ ~ Low => /\ heapend =< CopyLimit + 1
              /\ other + GUARDPAGE =< heapbase
              /\ Copying => fromlo =< heapbase
  /\ ~ Low /\ Plain => heapbase > HEAPHALF - HEAPBMOD
  /\ ~ Low /\ Corral => /\ heapend = heapstart + 2 * heapsize
                        /\ other = heapstart
                        /\ heapstart + heapsize =< heapbase

\* How far hp can get.
Reached ==
  /\ pc = "run"  => hp =< CopyLimit + MaxCell + scratch
  /\ pc = "rest" => hp =< CopyLimit + MaxCell
  /\ pc = "top"  => /\ hp =< CopyLimit + MaxCell + MaxErr
                    /\ heapbase < hp => hp =< CopyLimit + MaxCell
  /\ Copying => scratch = 0 /\ avail >= 0
  /\ pc = "top" => ~ kept
  /\ Corral /\ Low => hp - scratch + avail =< CopyLimit + MaxCell - MaxErr
  /\ Plain /\ Low => /\ pc = "run" => ~ starved
                     /\ pc # "rest"
                     /\ pc = "top" =>
                          hp + avail =< HEAPHALF + MaxCell + MaxErr + HEAPBMOD
  /\ pc = "run" => avail = 0

\* The margin that is left when the last collection had room.
Roomy ==
  ~ starved =>
    /\ pc = "run" => hp - scratch < heapend - GUARDPAGE + MaxAlloc
    /\ pc = "rest" /\ kept => Corral /\ hp + avail =< heapend
    /\ Copying /\ Low /\ ~ Stale => hp + avail =< fromlo
    /\ pc = "top" /\ Low /\ ~ Stale => hp + avail + HEAPBMOD =< fromlo

\* A copy downwards has room below the cells it copies from, all but the
\* rounding of the corral it builds; a copy upwards leaves as much behind.
Tight ==
  /\ Plain /\ ~ Low => hp - scratch + avail =< 2 * heapbase
  /\ Corral /\ ~ Low => heapstart + hp - scratch + avail =< 2 * heapbase
  /\ Copying /\ Low /\ Plain => hp + avail =< fromlo
  /\ Copying /\ Low /\ Corral =>
       hp + avail =< fromlo + (IF kept THEN 0 ELSE topend - toplive)

IInv == TypeOK /\ Modes /\ Placed /\ Reached /\ Roomy /\ Tight

-----------------------------------------------------------------------------
\* A remainder is below its divisor.
LEMMA ModRange == \A a \in Int, b \in Nat \ {0} : a % b \in 0 .. (b - 1)
  OBVIOUS

\* Rounding an address up moves it by less than the alignment.
LEMMA AlignUpRange ==
  \A a \in Nat : /\ AlignUp(a) \in Nat
                 /\ a =< AlignUp(a) /\ AlignUp(a) < a + HEAPBMOD
  BY ModRange, SizesAssumption DEF AlignUp

\* Rounding a size down loses less than the alignment.
LEMMA AlignDownRange ==
  \A a \in Int : /\ AlignDown(a) \in Int
                 /\ a - HEAPBMOD < AlignDown(a) /\ AlignDown(a) =< a
  BY ModRange, SizesAssumption DEF AlignDown

\* Halving a size loses one byte at most.
LEMMA HalfRange ==
  \A a \in Nat : a \div 2 \in Nat /\ 2 * (a \div 2) \in {a, a - 1}
  OBVIOUS

-----------------------------------------------------------------------------
\* One lemma for each action: it preserves the inductive invariant.
USE SizesAssumption, MarginAssumption DEF HALLOCSZ, CopyLimit, NULL

\* evalgc() and memchk() leave the margin to what follows their check.
LEMMA AllocateStep ==
  ASSUME IInv, NEW n \in 1 .. MaxAlloc, Allocate(n)
  PROVE  IInv'
<1>1. TypeOK'
  BY DEF IInv, TypeOK, Modes, Placed, Reached, Allocate, Timegc, halves, corral, ghosts
<1>2. Modes'
  BY DEF IInv, TypeOK, Modes, Plain, Corral, Given, Shrunk, Low, Allocate, Timegc, halves, corral, ghosts
<1>3. Placed'
  BY DEF IInv, TypeOK, Modes, Placed, Plain, Corral, Given, Shrunk, Low, Copying, Allocate, Timegc, halves, corral, ghosts
<1>4. Reached'
  BY DEF IInv, TypeOK, Modes, Placed, Reached, Roomy, Plain, Corral, Given, Shrunk, Low, Copying, Allocate, Timegc, halves, corral, ghosts
<1>5. Roomy'
  BY DEF IInv, TypeOK, Modes, Placed, Reached, Roomy, Plain, Corral, Given, Shrunk, Low, Copying, Stale, Corralled, Allocate, Timegc, halves, corral, ghosts
<1>6. Tight'
  BY DEF IInv, TypeOK, Modes, Placed, Reached, Tight, Plain, Corral, Given, Shrunk, Low, Copying, Allocate, Timegc, halves, corral, ghosts
<1> QED
  BY <1>1, <1>2, <1>3, <1>4, <1>5, <1>6 DEF IInv

\* The margin also has room for the error that follows a failed check.
LEMMA ErrorPathStep ==
  ASSUME IInv, NEW n \in 1 .. MaxErr, ErrorPath(n)
  PROVE  IInv'
<1>1. TypeOK'
  BY DEF IInv, TypeOK, Modes, Placed, Reached, ErrorPath, Timegc, halves, corral, ghosts
<1>2. Modes'
  BY DEF IInv, TypeOK, Modes, Plain, Corral, Given, Shrunk, Low, ErrorPath, Timegc, halves, corral, ghosts
<1>3. Placed'
  BY DEF IInv, TypeOK, Modes, Placed, Plain, Corral, Given, Shrunk, Low, Copying, ErrorPath, Timegc, halves, corral, ghosts
<1>4. Reached'
  BY DEF IInv, TypeOK, Modes, Placed, Reached, Roomy, Plain, Corral, Given, Shrunk, Low, Copying, ErrorPath, Timegc, halves, corral, ghosts
<1>5. Roomy'
  BY DEF IInv, TypeOK, Modes, Placed, Reached, Roomy, Plain, Corral, Given, Shrunk, Low, Copying, Stale, Corralled, ErrorPath, Timegc, halves, corral, ghosts
<1>6. Tight'
  BY DEF IInv, TypeOK, Modes, Placed, Reached, Tight, Plain, Corral, Given, Shrunk, Low, Copying, ErrorPath, Timegc, halves, corral, ghosts
<1> QED
  BY <1>1, <1>2, <1>3, <1>4, <1>5, <1>6 DEF IInv

\* An assignment in the corral moves no address.
LEMMA ChangeTopStep ==
  ASSUME IInv, ChangeTop
  PROVE  IInv'
<1>1. TypeOK'
  BY DEF IInv, TypeOK, Modes, Placed, Reached, ChangeTop, Corralled, halves, corral, ghosts
<1>2. Modes'
  BY DEF IInv, TypeOK, Modes, Plain, Corral, Given, Shrunk, Low, ChangeTop, Corralled, halves, corral, ghosts
<1>3. Placed'
  BY DEF IInv, TypeOK, Modes, Placed, Plain, Corral, Given, Shrunk, Low, Copying, ChangeTop, Corralled, halves, corral, ghosts
<1>4. Reached'
  BY DEF IInv, TypeOK, Modes, Placed, Reached, Roomy, Plain, Corral, Given, Shrunk, Low, Copying, ChangeTop, Corralled, halves, corral, ghosts
<1>5. Roomy'
  BY DEF IInv, TypeOK, Modes, Placed, Reached, Roomy, Plain, Corral, Given, Shrunk, Low, Copying, Stale, Corralled, ChangeTop, Corralled, halves, corral, ghosts
<1>6. Tight'
  BY DEF IInv, TypeOK, Modes, Placed, Reached, Tight, Plain, Corral, Given, Shrunk, Low, Copying, ChangeTop, Corralled, halves, corral, ghosts
<1> QED
  BY <1>1, <1>2, <1>3, <1>4, <1>5, <1>6 DEF IInv

\* copycell() moves a cell only below CopyLimit, so hp stays in the array.
LEMMA CopyCellStep ==
  ASSUME IInv, NEW n \in 1 .. MaxCell, CopyCell(n)
  PROVE  IInv'
<1>1. TypeOK'
  BY DEF IInv, TypeOK, Modes, Placed, Reached, CopyCell, halves, corral, ghosts
<1>2. Modes'
  BY DEF IInv, TypeOK, Modes, Plain, Corral, Given, Shrunk, Low, CopyCell, halves, corral, ghosts
<1>3. Placed'
  BY DEF IInv, TypeOK, Modes, Placed, Plain, Corral, Given, Shrunk, Low, Copying, CopyCell, halves, corral, ghosts
<1>4. Reached'
  BY DEF IInv, TypeOK, Modes, Placed, Reached, Roomy, Plain, Corral, Given, Shrunk, Low, Copying, CopyCell, halves, corral, ghosts
<1>5. Roomy'
  BY DEF IInv, TypeOK, Modes, Placed, Reached, Roomy, Plain, Corral, Given, Shrunk, Low, Copying, Stale, Corralled, CopyCell, halves, corral, ghosts
<1>6. Tight'
  BY DEF IInv, TypeOK, Modes, Placed, Reached, Tight, Plain, Corral, Given, Shrunk, Low, Copying, CopyCell, halves, corral, ghosts
<1> QED
  BY <1>1, <1>2, <1>3, <1>4, <1>5, <1>6 DEF IInv

\* init_data() puts the heap back as the program started with it.
LEMMA CopyGivesUpStep ==
  ASSUME IInv, CopyGivesUp
  PROVE  IInv'
<1>1. TypeOK'
  <2>1. heapstart' \in Nat /\ heapsize' \in Nat /\ heapbase' \in Nat /\ heapend' \in Nat
    BY DEF CopyGivesUp
  <2>2. /\ heaplim' \in Int /\ other' \in Nat /\ hp' \in Nat
        /\ topbase' \in Nat \cup {NULL} /\ topend' \in Nat \cup {NULL}
    BY DEF CopyGivesUp
  <2>3. /\ topchg' \in BOOLEAN /\ pc' \in {"run", "top", "rest"}
        /\ kept' \in BOOLEAN /\ starved' \in BOOLEAN /\ clobbered' \in BOOLEAN
    BY DEF CopyGivesUp
  <2>4. scratch' \in 0 .. MaxErr /\ avail' \in Int /\ fromlo' \in Nat /\ toplive' \in Nat
    BY DEF CopyGivesUp
  <2> QED
    BY <2>1, <2>2, <2>3, <2>4 DEF TypeOK
<1>2. Modes'
  BY DEF IInv, TypeOK, Modes, Plain, Corral, Given, Shrunk, Low, CopyGivesUp, halves, corral, ghosts
<1>3. Placed'
  BY DEF IInv, TypeOK, Modes, Placed, Plain, Corral, Given, Shrunk, Low, Copying, CopyGivesUp, halves, corral, ghosts
<1>4. Reached'
  BY DEF IInv, TypeOK, Modes, Placed, Reached, Roomy, Plain, Corral, Given, Shrunk, Low, Copying, CopyGivesUp, halves, corral, ghosts
<1>5. Roomy'
  BY DEF IInv, TypeOK, Modes, Placed, Reached, Roomy, Plain, Corral, Given, Shrunk, Low, Copying, Stale, Corralled, CopyGivesUp, halves, corral, ghosts
<1>6. Tight'
  BY DEF IInv, TypeOK, Modes, Placed, Reached, Tight, Plain, Corral, Given, Shrunk, Low, Copying, CopyGivesUp, halves, corral, ghosts
<1> QED
  BY <1>1, <1>2, <1>3, <1>4, <1>5, <1>6 DEF IInv

\* Leaving gc() moves no address.
LEMMA FinishGCStep ==
  ASSUME IInv, FinishGC
  PROVE  IInv'
<1>1. TypeOK'
  BY DEF IInv, TypeOK, Modes, Placed, Reached, FinishGC, Timegc, halves, corral, ghosts
<1>2. Modes'
  BY DEF IInv, TypeOK, Modes, Plain, Corral, Given, Shrunk, Low, FinishGC, Timegc, halves, corral, ghosts
<1>3. Placed'
  BY DEF IInv, TypeOK, Modes, Placed, Plain, Corral, Given, Shrunk, Low, Copying, FinishGC, Timegc, halves, corral, ghosts
<1>4. Reached'
  BY DEF IInv, TypeOK, Modes, Placed, Reached, Roomy, Plain, Corral, Given, Shrunk, Low, Copying, FinishGC, Timegc, halves, corral, ghosts
<1>5. Roomy'
  <2>1. ~ starved' => hp < heaplim
    BY DEF FinishGC, Timegc
  <2> QED
    BY <2>1 DEF IInv, TypeOK, Placed, Reached, Roomy, Copying, FinishGC, halves, corral
<1>6. Tight'
  BY DEF IInv, TypeOK, Modes, Placed, Reached, Tight, Plain, Corral, Given, Shrunk, Low, Copying, FinishGC, halves, corral, ghosts
<1> QED
  BY <1>1, <1>2, <1>3, <1>4, <1>5, <1>6 DEF IInv

(***************************************************************************)
(* The start of a collection: one case for each half it can go to, and for *)
(* what becomes of the corral.                                             *)
(***************************************************************************)
LEMMA StartGCStep ==
  ASSUME IInv, StartGC
  PROVE  IInv'
<1> USE DEF Corralled, Used, Low, Copying, Stale, Plain, Corral, Given, Shrunk
<1>a. /\ TypeOK /\ Modes /\ Placed /\ Reached /\ Roomy /\ Tight /\ pc = "run"
      /\ heaplim' = heapend' - GUARDPAGE /\ fromlo' = heapbase /\ scratch' = 0
      /\ topchg' = topchg /\ toplive' = toplive /\ starved' = starved
      /\ clobbered' = clobbered
  BY DEF IInv, StartGC
<1>1. CASE NewHeapLow /\ KeepCorral
  <2>1. Corral /\ Corral' /\ ~ Low /\ Low' /\ pc' = "rest" /\ kept'
    BY <1>a, <1>1 DEF NewHeapLow, KeepCorral, TypeOK, Modes
  <2>2. /\ hp' = heapstart /\ heapend' = heapstart + heapsize /\ heapbase' = heapstart
        /\ avail' = hp - heapbase - scratch /\ heapstart' = heapstart
        /\ other' = heapend' /\ heapsize' = heapsize
    BY <1>1 DEF NewHeapLow, KeepCorral
  <2>3. TypeOK'
    BY <1>a, <1>1 DEF NewHeapLow, KeepCorral, TypeOK
  <2>4. Placed'
    BY <1>a, <2>1, <2>2 DEF TypeOK, Placed
  <2>5. Reached'
    BY <1>a, <2>1, <2>2 DEF TypeOK, Placed, Reached
  <2>6. Roomy'
    BY <1>a, <2>1, <2>2 DEF TypeOK, Placed, Reached, Roomy
  <2>7. Tight'
    BY <1>a, <2>1, <2>2 DEF TypeOK, Placed, Reached, Tight
  <2> QED
    BY <2>1, <2>3, <2>4, <2>5, <2>6, <2>7 DEF IInv, Modes
<1>2. CASE NewHeapHigh /\ KeepCorral
  <2>1. Corral /\ Corral' /\ Low /\ ~ Low' /\ pc' = "rest" /\ kept'
    BY <1>a, <1>2 DEF NewHeapHigh, KeepCorral, TypeOK, Modes
  <2>2. /\ hp' >= heapstart + heapsize /\ hp' >= hp /\ heapbase' = hp'
        /\ hp' = heapstart + heapsize \/ hp' = hp
        /\ heapend' = heapstart + 2 * heapsize
        /\ avail' = hp - heapbase - scratch /\ heapstart' = heapstart
        /\ other' = heapstart /\ heapsize' = heapsize
    BY <1>a, <1>2 DEF NewHeapHigh, KeepCorral, TypeOK
  <2>3. TypeOK'
    BY <1>a, <1>2 DEF NewHeapHigh, KeepCorral, TypeOK
  <2>4. Placed'
    BY <1>a, <2>1, <2>2 DEF TypeOK, Placed
  <2>5. Reached'
    BY <1>a, <2>1, <2>2 DEF TypeOK, Placed, Reached
  <2>6. Roomy'
    BY <1>a, <2>1, <2>2 DEF TypeOK, Placed, Reached, Roomy
  <2>7. Tight'
    BY <1>a, <2>1, <2>2 DEF TypeOK, Placed, Reached, Tight
  <2> QED
    BY <2>1, <2>3, <2>4, <2>5, <2>6, <2>7 DEF IInv, Modes
<1>3. CASE NewHeapLow /\ GiveUpCorral
  <2>1. /\ ~ Low /\ Low' /\ pc' = "top"
        /\ heapstart' = heapstart /\ heapsize' = heapsize /\ topbase' = topbase
    BY <1>a, <1>3 DEF NewHeapLow, GiveUpCorral
  <2>2. /\ hp' = heapstart /\ heapend' = heapstart + heapsize /\ heapbase' = heapstart
        /\ other' = heapend' /\ topend' = NULL /\ kept' = FALSE
        /\ avail' = (hp - heapbase - scratch) + (IF topend # NULL THEN toplive ELSE 0)
        /\ topend # NULL => topchg
    BY <1>a, <1>3 DEF NewHeapLow, GiveUpCorral, TypeOK
  <2>3. avail' >= 0 /\ avail' \in Int
    BY <1>a, <2>2 DEF TypeOK, Placed, Reached
  <2>4. TypeOK'
    <3>1. /\ heapstart' \in Nat /\ heapsize' \in Nat /\ heapbase' \in Nat
          /\ heapend' \in Nat /\ heaplim' \in Int /\ other' \in Nat /\ hp' \in Nat
          /\ topbase' \in Nat \cup {NULL} /\ topend' \in Nat \cup {NULL}
      BY <1>a, <2>1, <2>2 DEF TypeOK
    <3>2. /\ topchg' \in BOOLEAN /\ pc' \in {"run", "top", "rest"}
          /\ kept' \in BOOLEAN /\ starved' \in BOOLEAN /\ clobbered' \in BOOLEAN
      BY <1>a, <2>1, <2>2 DEF TypeOK
    <3>3. scratch' \in 0 .. MaxErr /\ fromlo' \in Nat /\ toplive' \in Nat
      BY <1>a DEF TypeOK
    <3> QED
      BY <3>1, <3>2, <3>3, <2>3 DEF TypeOK
  <2>5. (Plain /\ Plain') \/ (Corral /\ Given')
    BY <1>a, <2>1, <2>2 DEF TypeOK, Modes
  <2>6. Placed'
    BY <1>a, <2>1, <2>2, <2>5 DEF TypeOK, Placed
  <2>7. Reached'
    BY <1>a, <2>1, <2>2, <2>3, <2>5 DEF TypeOK, Placed, Reached
  <2>8. Roomy'
    BY <1>a, <2>1, <2>2, <2>5 DEF TypeOK, Placed, Reached, Roomy
  <2>9. Tight'
    BY <1>a, <2>1, <2>2, <2>5 DEF TypeOK, Placed, Reached, Tight
  <2> QED
    BY <2>4, <2>5, <2>6, <2>7, <2>8, <2>9 DEF IInv, Modes
<1>4. CASE NewHeapHigh /\ GiveUpCorral
  <2> DEFINE base == IF hp < heapstart + heapsize THEN heapstart + heapsize ELSE hp
             todo == (hp - heapbase - scratch) + (IF topend # NULL THEN toplive ELSE 0)
  <2>1. /\ base >= heapstart + heapsize /\ base >= hp /\ base \in Nat
        /\ base = heapstart + heapsize \/ base = hp
        /\ todo >= 0 /\ todo \in Int
    BY <1>a DEF TypeOK, Placed
  <2>2. /\ hp' = base /\ heapbase' = base /\ avail' = todo
        /\ heapend' = heapstart + 2 * heapsize /\ other' = heapstart
        /\ topend' = NULL /\ kept' = FALSE /\ pc' = "top"
    BY <1>a, <1>4 DEF NewHeapHigh, GiveUpCorral
  <2> HIDE DEF base, todo
  <2>4. Low /\ GUARDPAGE =< heapsize /\ heapstart + heapsize > HEAPHALF - HEAPBMOD
    BY <1>a, <1>4 DEF NewHeapHigh, TypeOK, Modes
  <2>5. Plain'
    <3>1. CASE Plain
      BY <3>1, <2>2, <1>4 DEF GiveUpCorral
    <3>2. CASE Corral \/ Given
      <4>1. topbase # NULL /\ topchg /\ heapbase' # heapstart
        BY <3>2, <2>1, <2>2, <2>4, <1>4, <1>a DEF GiveUpCorral, TypeOK
      <4> QED
        BY <4>1, <2>2, <1>4 DEF GiveUpCorral
    <3> QED
      BY <3>1, <3>2, <1>a DEF Modes
  <2>6. ~ Low' /\ ~ Corral'
    BY <2>1, <2>2, <2>4, <2>5, <1>a DEF TypeOK
  <2>7. TypeOK'
    <3>1. /\ heapstart' \in Nat /\ heapsize' \in Nat /\ heapbase' \in Nat
          /\ heapend' \in Nat /\ heaplim' \in Int /\ other' \in Nat /\ hp' \in Nat
          /\ topbase' \in Nat \cup {NULL} /\ topend' \in Nat \cup {NULL}
      BY <1>a, <2>1, <2>2, <2>5 DEF TypeOK
    <3>2. /\ topchg' \in BOOLEAN /\ pc' \in {"run", "top", "rest"}
          /\ kept' \in BOOLEAN /\ starved' \in BOOLEAN /\ clobbered' \in BOOLEAN
      BY <1>a, <2>2 DEF TypeOK
    <3>3. scratch' \in 0 .. MaxErr /\ fromlo' \in Nat /\ toplive' \in Nat /\ avail' \in Int
      BY <1>a, <2>1, <2>2 DEF TypeOK
    <3> QED
      BY <3>1, <3>2, <3>3 DEF TypeOK
  <2>8. /\ heapend' =< CopyLimit + 1 /\ other' + GUARDPAGE =< heapbase'
        /\ fromlo' =< heapbase' /\ heapbase' > HEAPHALF - HEAPBMOD
        /\ heapstart' =< heapbase' /\ heapbase' + scratch' =< hp'
    BY <1>a, <2>1, <2>2, <2>4, <2>5 DEF TypeOK, Modes, Placed
  <2>9. Placed'
    BY <1>a, <2>6, <2>8 DEF Placed
  <2>10. Reached'
    <3>1. hp =< CopyLimit + MaxCell + MaxErr /\ heapstart + heapsize =< CopyLimit + MaxCell
      BY <1>a, <2>4 DEF TypeOK, Modes, Reached
    <3>2. hp' =< CopyLimit + MaxCell + MaxErr /\ ~ (heapbase' < hp') /\ avail' >= 0
      BY <1>a, <2>1, <2>2, <3>1 DEF TypeOK
    <3> QED
      BY <1>a, <2>2, <2>6, <3>2 DEF Reached
  <2>11. Roomy'
    BY <1>a, <2>2, <2>6 DEF Roomy
  <2>12. todo =< base
    BY <1>a, <2>1, <2>4 DEF TypeOK, Modes, Placed, todo
  <2>13. Tight'
    BY <1>a, <2>1, <2>2, <2>6, <2>12 DEF Tight
  <2> QED
    BY <2>5, <2>7, <2>9, <2>10, <2>11, <2>13 DEF IInv, Modes
<1> QED
  BY <1>1, <1>2, <1>3, <1>4 DEF StartGC

(***************************************************************************)
(* The end of copytop().  When the corral is built, the environment and    *)
(* what is still to be copied fit below the cells they come from, because  *)
(* the rounding of the corral's end is covered by the margin.              *)
(***************************************************************************)
LEMMA TopCopiedStep ==
  ASSUME IInv, TopCopied
  PROVE  IInv'
<1> USE DEF Corralled, Low, Copying, Stale, Plain, Corral, Given, Shrunk
<1>a. /\ TypeOK /\ Modes /\ Placed /\ Reached /\ Roomy /\ Tight /\ pc = "top"
      /\ heapbase < hp /\ pc' = "rest" /\ scratch' = scratch /\ avail' = avail
      /\ fromlo' = fromlo /\ kept' = kept /\ starved' = starved
      /\ clobbered' = clobbered
  BY DEF IInv, TopCopied
<1>1. CASE LeaveUncorralled
  <2>1. UNCHANGED <<heapstart, heapsize, heapbase, heapend, heaplim, other, hp,
                    topbase, topend, topchg, toplive>>
    BY <1>1 DEF LeaveUncorralled, halves, corral
  <2>2. TypeOK'
    BY <1>a, <2>1 DEF TypeOK
  <2>3. Modes'
    BY <1>a, <2>1 DEF Modes
  <2>4. Placed'
    BY <1>a, <2>1 DEF Placed
  <2>5. Reached'
    BY <1>a, <1>1, <2>1 DEF Reached, LeaveUncorralled, TypeOK, Modes
  <2>6. Roomy'
    BY <1>a, <1>1, <2>1 DEF Roomy, LeaveUncorralled, TypeOK, Modes, Placed, Reached
  <2>7. Tight'
    BY <1>a, <2>1 DEF Tight
  <2> QED
    BY <2>2, <2>3, <2>4, <2>5, <2>6, <2>7 DEF IInv
<1>2. CASE BuildCorral
  <2> DEFINE end   == AlignUp(hp)
             third == (end - heapbase) \div 2
             half  == AlignDown(heapsize - third)
  <2>1. /\ heapbase = 0 /\ heapstart = 0 /\ heapsize = HEAPHALF
        /\ topbase = NULL /\ Plain /\ Low
    BY <1>a, <1>2 DEF BuildCorral, TypeOK, Modes
  <2>2. end \in Nat /\ hp =< end /\ end < hp + HEAPBMOD
    BY <1>a, AlignUpRange DEF TypeOK
  <2>3. third \in Nat /\ 2 * third =< end /\ 2 * third >= end - 1
    BY <2>1, <2>2, HalfRange
  <2>4. half \in Int /\ heapsize - third - HEAPBMOD < half /\ half =< heapsize - third
    BY <2>1, <2>3, AlignDownRange
  <2>5. /\ topbase' = heapbase /\ topend' = end /\ topchg' = FALSE
        /\ heapstart' = end /\ heapbase' = end /\ hp' = end
        /\ heapsize' = half /\ heapend' = end + half /\ other' = end + half
        /\ heaplim' = end + half - GUARDPAGE /\ toplive' = hp - heapbase
    BY <1>2 DEF BuildCorral
  <2> HIDE DEF end, third, half
  <2>6. hp + avail =< HEAPHALF + MaxCell + MaxErr + HEAPBMOD /\ avail >= 0 /\ hp > 0
    BY <1>a, <2>1 DEF Reached, TypeOK
  <2>7. half \in Nat /\ GUARDPAGE =< half
    BY <2>1, <2>2, <2>3, <2>4, <2>6, <1>a DEF TypeOK
  <2>8. Corral'
    <3>1. topbase' = 0 /\ heapstart' > 0 /\ GUARDPAGE =< heapsize'
      BY <2>1, <2>2, <2>5, <2>6, <2>7, <1>a DEF TypeOK
    <3>2. 2 * heapsize' + heapstart' =< CopyLimit + 1
      BY <2>1, <2>2, <2>3, <2>4, <2>5
    <3>3. 2 * heapsize' + heapstart' > CopyLimit - 2 * HEAPBMOD
      BY <2>1, <2>2, <2>3, <2>4, <2>5
    <3>4. topend' = heapstart' /\ toplive' =< topend' /\ topend' < toplive' + HEAPBMOD
      BY <2>1, <2>2, <2>5, <1>a DEF TypeOK
    <3> QED
      BY <3>1, <3>2, <3>3, <3>4
  <2>9. TypeOK'
    <3>1. /\ heapstart' \in Nat /\ heapsize' \in Nat /\ heapbase' \in Nat
          /\ heapend' \in Nat /\ heaplim' \in Int /\ other' \in Nat /\ hp' \in Nat
          /\ topbase' \in Nat \cup {NULL} /\ topend' \in Nat \cup {NULL}
      BY <2>1, <2>2, <2>5, <2>7
    <3>2. /\ topchg' \in BOOLEAN /\ pc' \in {"run", "top", "rest"}
          /\ kept' \in BOOLEAN /\ starved' \in BOOLEAN /\ clobbered' \in BOOLEAN
      BY <1>a, <2>5 DEF TypeOK
    <3>3. /\ scratch' \in 0 .. MaxErr /\ fromlo' \in Nat /\ toplive' \in Nat
          /\ avail' \in Int
      BY <1>a, <2>1, <2>5 DEF TypeOK
    <3> QED
      BY <3>1, <3>2, <3>3 DEF TypeOK
  <2>10. Low' /\ ~ Plain'
    BY <2>1, <2>5
  <2>11. scratch = 0
    BY <1>a DEF Reached
  <2>12. Placed'
    BY <1>a, <2>2, <2>5, <2>7, <2>10, <2>11 DEF Placed
  <2>13. hp' =< CopyLimit + MaxCell
    BY <1>a, <2>1, <2>2, <2>5, <2>6 DEF TypeOK
  <2>14. hp' - scratch' + avail' =< CopyLimit + MaxCell - MaxErr
    BY <1>a, <2>1, <2>2, <2>5, <2>6, <2>11 DEF TypeOK
  <2>15. Reached'
    BY <1>a, <2>6, <2>10, <2>11, <2>13, <2>14 DEF Reached
  <2>16. ~ kept
    BY <1>a DEF Reached
  <2>17. ~ starved' => hp' + avail' =< fromlo'
    BY <1>a, <2>1, <2>2, <2>5 DEF Roomy, TypeOK
  <2>18. Roomy'
    BY <1>a, <2>16, <2>17 DEF Roomy
  <2>19. hp' + avail' =< fromlo' + (topend' - toplive')
    BY <1>a, <2>1, <2>2, <2>5 DEF Tight, TypeOK
  <2>20. Tight'
    BY <1>a, <2>5, <2>10, <2>16, <2>19 DEF Tight
  <2> QED
    BY <2>8, <2>9, <2>12, <2>15, <2>18, <2>20 DEF IInv, Modes
<1> QED
  BY <1>1, <1>2 DEF TopCopied

-----------------------------------------------------------------------------
\* The heap as init_data() lays it out satisfies the invariant.
LEMMA InitIInv == Init => IInv
<1> SUFFICES ASSUME Init PROVE IInv
  OBVIOUS
<1>1. TypeOK
  <2>1. /\ heapstart \in Nat /\ heapsize \in Nat /\ heapbase \in Nat /\ heapend \in Nat
        /\ heaplim \in Int /\ other \in Nat /\ hp \in Nat
        /\ topbase \in Nat \cup {NULL} /\ topend \in Nat \cup {NULL}
    BY DEF Init
  <2>2. topchg \in BOOLEAN /\ kept \in BOOLEAN /\ starved \in BOOLEAN /\ clobbered \in BOOLEAN
    BY DEF Init
  <2>3. /\ pc \in {"run", "top", "rest"} /\ scratch \in 0 .. MaxErr
        /\ avail \in Int /\ fromlo \in Nat /\ toplive \in Nat
    BY DEF Init
  <2> QED
    BY <2>1, <2>2, <2>3 DEF TypeOK
<1>2. Modes /\ Placed
  BY DEF Init, Modes, Placed, Plain, Corral, Shrunk, Low, Copying
<1>3. Reached /\ Roomy /\ Tight
  BY DEF Init, Reached, Roomy, Tight, Plain, Corral, Shrunk, Low, Copying, Stale
<1> QED
  BY <1>1, <1>2, <1>3 DEF IInv

\* Every step preserves the invariant: one lemma above per action.
LEMMA NextIInv == IInv /\ [Next]_vars => IInv'
<1> SUFFICES ASSUME IInv, [Next]_vars PROVE IInv'
  OBVIOUS
<1>1. CASE UNCHANGED vars
  BY <1>1 DEF IInv, TypeOK, Modes, Placed, Reached, Roomy, Tight, Plain, Corral, Given,
              Shrunk, Low, Copying, Stale, Corralled, vars, halves, corral, ghosts
<1>2. CASE Next
  BY <1>2, AllocateStep, ErrorPathStep, ChangeTopStep, StartGCStep, CopyCellStep,
     CopyGivesUpStep, TopCopiedStep, FinishGCStep DEF Next
<1> QED
  BY <1>1, <1>2

\* The layout invariant holds in every reachable state.
THEOREM InductiveInvariant == Spec => []IInv
  BY InitIInv, NextIInv, PTL DEF Spec

-----------------------------------------------------------------------------
\* hp never leaves the array: an allocation starts below heaplim, a copy below
\* CopyLimit, and the margin covers both.
THEOREM InBoundsHolds == Spec => []InBounds
<1>1. IInv => InBounds
  BY DEF IInv, TypeOK, Reached, InBounds
<1> QED
  BY <1>1, InductiveInvariant, PTL

\* The two halves and the corral fill the heap through any number of
\* collections, for any alignment and any size of the top environment.
THEOREM HalvesFillHeapHolds == Spec => []HalvesFillHeap
<1>1. IInv => HalvesFillHeap
  BY DEF IInv, TypeOK, Modes, Plain, Corral, Given, Shrunk, HalvesFillHeap
<1> QED
  BY <1>1, InductiveInvariant, PTL

\* No collection of an unchanged environment can reach the corral.
THEOREM CorralIsApartHolds == Spec => []CorralIsApart
<1>1. IInv => CorralIsApart
  BY DEF IInv, TypeOK, Modes, Placed, Plain, Corral, Given, Shrunk, Low,
         Corralled, CorralIsApart
<1> QED
  BY <1>1, InductiveInvariant, PTL

\* A collection that keeps the corral has room for everything it may copy.
THEOREM KeptCopyFitsHolds == Spec => []KeptCopyFits
<1>1. IInv => KeptCopyFits
  BY DEF IInv, Roomy, KeptCopyFits
<1> QED
  BY <1>1, InductiveInvariant, PTL

\* The string buffers are in the idle half.
THEOREM TempBuffersIdleHolds == Spec => []TempBuffersIdle
<1>1. IInv => TempBuffersIdle
  <2> SUFFICES ASSUME IInv, pc = "run", ~ starved PROVE IdleFrom(TBUFS)
    BY DEF TempBuffersIdle
  <2> USE DEF IInv, TypeOK, Low
  <2>1. CASE Low
    <3>1. hp =< other /\ heapbase =< other
      BY <2>1 DEF Placed, Roomy
    <3>2. other + TBUFS =< HALLOCSZ
      BY <2>1 DEF Placed, Modes, Plain, Corral, Given, Shrunk
    <3>3. heapbase < other
      BY <2>1 DEF Placed, Modes, Plain, Corral, Given, Shrunk
    <3> QED
      BY <3>1, <3>2, <3>3 DEF IdleFrom
  <2>2. CASE ~ Low
    BY <2>2 DEF Placed, IdleFrom
  <2> QED
    BY <2>1, <2>2
<1> QED
  BY <1>1, InductiveInvariant, PTL

\* A copy is written over cells still to be copied by two kinds of collections
\* only: one that gives the corral up on its way down, and one that rounds up
\* the end of the corral it builds after a collection that ended above heaplim.
THEOREM ClobberHasCauseHolds == Spec => ClobberHasCause
<1>1. IInv /\ [Next]_vars => [clobbered' /\ ~ clobbered => Stale \/ Padded]_vars
  <2> SUFFICES ASSUME IInv, Next, clobbered', ~ clobbered, ~ Stale
               PROVE  Padded
    OBVIOUS
  <2>1. PICK n \in 1 .. MaxCell : CopyCell(n)
    BY DEF Next, Allocate, ErrorPath, ChangeTop, StartGC, CopyGivesUp, TopCopied,
           FinishGC, ghosts
  <2>2. heapbase < fromlo /\ hp + n > fromlo /\ n =< avail /\ pc # "run"
    BY <2>1 DEF CopyCell
  <2>3. Low
    BY <2>2 DEF IInv, TypeOK, Placed, Copying
  <2>4. hp + avail > fromlo
    BY <2>2 DEF IInv, TypeOK
  <2>5. starved
    BY <2>2, <2>3, <2>4 DEF IInv, TypeOK, Roomy, Copying
  <2>6. Corral
    BY <2>2, <2>3, <2>4 DEF IInv, TypeOK, Modes, Given, Shrunk, Plain, Low, Tight, Copying,
                            Stale, Corralled
  <2>7. ~ kept /\ toplive < topend
    BY <2>2, <2>3, <2>4, <2>6 DEF IInv, TypeOK, Tight, Copying, Corral
  <2> QED
    BY <2>5, <2>6, <2>7 DEF IInv, TypeOK, Corral, Shrunk, Padded, Corralled
<1> QED
  BY <1>1, InductiveInvariant, PTL DEF Spec, ClobberHasCause

\* On the eZ80, where nothing is rounded, a copy is written over cells still to
\* be copied only by a collection that gives the corral up on its way down.
THEOREM ClobberOnlyWhenStaleHolds ==
  ASSUME HEAPBMOD = 1
  PROVE  Spec => ClobberOnlyWhenStale
<1>1. IInv => ~ Padded
  BY DEF IInv, TypeOK, Modes, Plain, Corral, Given, Padded, Corralled
<1>2. ~ Padded /\ [clobbered' /\ ~ clobbered => Stale \/ Padded]_vars
      => [clobbered' /\ ~ clobbered => Stale]_vars
  OBVIOUS
<1> QED
  BY <1>1, <1>2, InductiveInvariant, ClobberHasCauseHolds, PTL
     DEF ClobberHasCause, ClobberOnlyWhenStale
=============================================================================
