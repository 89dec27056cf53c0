----------------------------- MODULE SemiSpace -----------------------------
(***************************************************************************)
(* The address layout of MakerLisp's copying heap: the two halves, the     *)
(* corral that keeps the collected top environment at the bottom, and the  *)
(* pointers newheap(), copytop(), gc(), copycell() and init_data() move.   *)
(* Cells are reduced to their sizes: what the module decides is where the  *)
(* collector may write, never what it writes.  Addresses count from the    *)
(* start of the array heap[HALLOCSZ].                                      *)
(***************************************************************************)
EXTENDS Integers

CONSTANTS
  HEAPHALF,   \* size of half of the heap
  GUARDPAGE,  \* margin below heapend that triggers a collection
  HEAPBMOD,   \* alignment of the heap's start after the corral is built
  MaxAlloc,   \* most that is allocated between two checks of timegc()
  MaxErr,     \* most that an out of memory error allocates on its way out
  MaxCell,    \* largest cell: a vector of MAXVECLEN elements
  TBUFS       \* extent of TBUF1, TBUF2 and TBUF3 together

ASSUME SizesAssumption ==
  /\ HEAPHALF \in Nat \ {0} /\ GUARDPAGE \in Nat \ {0}
  /\ HEAPBMOD \in Nat \ {0}
  /\ MaxAlloc \in Nat \ {0} /\ MaxErr \in Nat \ {0} /\ MaxCell \in Nat \ {0}
  /\ TBUFS \in Nat

(***************************************************************************)
(* What the 1280 cells of GUARDPAGE are for: the allocation that follows a *)
(* check, the error that follows a failed one, the rounding of the corral. *)
(* A vector has at most MAXVECLEN = 1024 cells, and MAXINLINE = 20.        *)
(***************************************************************************)
ASSUME MarginAssumption ==
  /\ MaxAlloc + MaxErr + 3 * HEAPBMOD =< GUARDPAGE
  /\ MaxCell + MaxErr =< GUARDPAGE
  /\ TBUFS =< GUARDPAGE
  /\ 5 * GUARDPAGE =< HEAPHALF

HALLOCSZ == 2 * HEAPHALF + GUARDPAGE
CopyLimit == HALLOCSZ - GUARDPAGE     \* copycell() gives up at this address
NULL == -1                            \* no address

VARIABLES
  heapstart,  \* bottom of the two halves: 0, or the end of the corral
  heapsize,   \* size of a half
  heapbase,   \* start of the half in use
  heapend,    \* its end
  heaplim,    \* where timegc() says it is time to collect
  other,      \* start of the idle half: line and string buffers live there
  hp,         \* next free address
  topbase,    \* start of the corral, or NULL
  topend,     \* its end, NULL while the corral does not hold the environment
  topchg,     \* the corralled environment was assigned to
  pc,         \* "run", or the part of gc() in progress: "top", "rest"
  scratch,    \* ghost: bytes an error path has allocated, dead at once
  avail,      \* ghost: bytes the collection in progress may still copy
  fromlo,     \* ghost: where the cells it copies begin
  kept,       \* ghost: it left the corral alone
  toplive,    \* ghost: bytes of cells in the corral, its padding left out
  starved,    \* ghost: the last collection finished with timegc() still true
  clobbered   \* ghost: a copy has been written over cells still to be copied

halves == <<heapstart, heapsize, heapbase, heapend, heaplim, other>>
corral == <<topbase, topend, topchg>>
ghosts == <<scratch, avail, fromlo, kept, toplive, starved, clobbered>>
vars == <<halves, hp, corral, pc, ghosts>>

-----------------------------------------------------------------------------
AlignUp(a)   == IF a % HEAPBMOD # 0 THEN a + (HEAPBMOD - (a % HEAPBMOD)) ELSE a
AlignDown(a) == a - (a % HEAPBMOD)

Timegc_NoMargin == ~ (hp < heapend)             \* mutant: collects too late
Timegc == ~ (hp < heaplim)
Corralled == topend # NULL
Used == hp - heapbase

(***************************************************************************)
(* init_data(): the heap as the program starts with it, and as an          *)
(* exhausted collection leaves it.                                         *)
(***************************************************************************)
Init ==
  /\ heapstart = 0 /\ heapsize = HEAPHALF
  /\ heapbase = 0 /\ heapend = HEAPHALF /\ heaplim = HEAPHALF - GUARDPAGE
  /\ other = HEAPHALF
  /\ hp = 1                                      \* NIL is the first cell
  /\ topbase = NULL /\ topend = NULL /\ topchg = FALSE
  /\ pc = "run"
  /\ scratch = 0 /\ avail = 0 /\ fromlo = 0
  /\ kept = FALSE /\ toplive = 0
  /\ starved = FALSE /\ clobbered = FALSE

(***************************************************************************)
(* The mutator.  Every command that allocates without a bound of its own   *)
(* runs evalgc() or memchk(), so at most MaxAlloc follows a check.         *)
(***************************************************************************)
Allocate(n) ==
  /\ pc = "run" /\ ~ Timegc
  /\ hp' = hp + n
  /\ UNCHANGED <<halves, corral, pc, ghosts>>

(***************************************************************************)
(* evalerr() or readerr() once there is no room: the message becomes a     *)
(* symbol on the emptied stack.  It replaces what the error drops, so it   *)
(* does not count as live when the next collection starts.                 *)
(***************************************************************************)
ErrorPath(n) ==
  /\ pc = "run" /\ Timegc /\ scratch = 0
  /\ hp' = hp + n
  /\ scratch' = n
  /\ UNCHANGED <<halves, corral, pc, avail, fromlo, kept, toplive, starved, clobbered>>

\* TOPCHG(a) with a in the corral.
ChangeTop ==
  /\ pc = "run" /\ Corralled
  /\ topchg' = TRUE
  /\ UNCHANGED <<halves, hp, topbase, topend, pc, ghosts>>

-----------------------------------------------------------------------------
(***************************************************************************)
(* newheap(): the next half, and where copying into it starts.             *)
(***************************************************************************)
NewHeapLow ==
  /\ heapbase # heapstart
  /\ heapbase' = heapstart
  /\ heapend' = heapstart + heapsize
  /\ other' = heapstart + heapsize
  /\ hp' = heapstart

\* Mutants: the idle half is taken to start at heap[0], or is left as it was.
NewHeapHigh_IdleAtZero ==
  /\ heapbase = heapstart /\ heapend' = heapstart + 2 * heapsize /\ other' = 0
  /\ hp' = IF hp < heapstart + heapsize THEN heapstart + heapsize ELSE hp
  /\ heapbase' = hp'

NewHeapHigh_IdleUnchanged ==
  /\ heapbase = heapstart /\ heapend' = heapstart + 2 * heapsize /\ other' = other
  /\ hp' = IF hp < heapstart + heapsize THEN heapstart + heapsize ELSE hp
  /\ heapbase' = hp'

NewHeapHigh ==
  /\ heapbase = heapstart
  /\ heapend' = heapstart + 2 * heapsize
  /\ other' = heapstart
  /\ hp' = IF hp < heapstart + heapsize THEN heapstart + heapsize ELSE hp
  /\ heapbase' = hp'

(***************************************************************************)
(* gc() up to the first copy: newheap(), then the head of copytop(), which *)
(* either leaves the corral alone or gives it up.  A collection into the   *)
(* high half of a changed environment also gives the corral's space back.  *)
(***************************************************************************)
KeepCorral ==
  /\ Corralled /\ ~ topchg
  /\ pc' = "rest" /\ kept' = TRUE
  /\ avail' = Used - scratch
  /\ UNCHANGED <<heapstart, heapsize, topbase, topend>>

\* Mutant: the corral's space is not given back to the halves.
GiveUpCorral_SameSize ==
  /\ ~ (Corralled /\ ~ topchg)
  /\ pc' = "top" /\ kept' = FALSE /\ topend' = NULL
  /\ avail' = (Used - scratch) + (IF Corralled THEN toplive ELSE 0)
  /\ IF topbase # NULL /\ topchg /\ heapbase' # heapstart
     THEN heapstart' = 0 /\ heapsize' = heapsize /\ topbase' = NULL
     ELSE UNCHANGED <<heapstart, heapsize, topbase>>

\* Mutant: the reset does not wait for a collection going up.
GiveUpCorral_ResetLow ==
  /\ ~ (Corralled /\ ~ topchg)
  /\ pc' = "top" /\ kept' = FALSE /\ topend' = NULL
  /\ avail' = (Used - scratch) + (IF Corralled THEN toplive ELSE 0)
  /\ IF topbase # NULL /\ topchg
     THEN heapstart' = 0 /\ heapsize' = HEAPHALF /\ topbase' = NULL
     ELSE UNCHANGED <<heapstart, heapsize, topbase>>

GiveUpCorral ==
  /\ ~ (Corralled /\ ~ topchg)
  /\ pc' = "top" /\ kept' = FALSE
  /\ avail' = (Used - scratch) + (IF Corralled THEN toplive ELSE 0)
  /\ topend' = NULL
  /\ IF topbase # NULL /\ topchg /\ heapbase' # heapstart
     THEN heapstart' = 0 /\ heapsize' = HEAPHALF /\ topbase' = NULL
     ELSE UNCHANGED <<heapstart, heapsize, topbase>>

StartGC ==
  /\ pc = "run"
  /\ NewHeapLow \/ NewHeapHigh
  /\ heaplim' = heapend' - GUARDPAGE
  /\ KeepCorral \/ GiveUpCorral
  /\ fromlo' = heapbase
  /\ scratch' = 0
  /\ UNCHANGED <<topchg, toplive, starved, clobbered>>

\* Mutant: no check of hp against the margin.
CopyCell_Unchecked(n) ==
  /\ pc \in {"top", "rest"} /\ n =< avail
  /\ hp' = hp + n /\ avail' = avail - n
  /\ clobbered' = (clobbered \/ (heapbase < fromlo /\ hp' > fromlo))
  /\ UNCHANGED <<halves, corral, pc, scratch, fromlo, kept, toplive, starved>>

(***************************************************************************)
(* copycell() moves one cell of n bytes, unless hp is already in the       *)
(* margin past both halves.                                                *)
(***************************************************************************)
CopyCell(n) ==
  /\ pc \in {"top", "rest"} /\ n =< avail
  /\ hp < CopyLimit
  /\ hp' = hp + n
  /\ avail' = avail - n
  /\ clobbered' = (clobbered \/ (heapbase < fromlo /\ hp' > fromlo))
  /\ UNCHANGED <<halves, corral, pc, scratch, fromlo, kept, toplive, starved>>

\* In the margin: init_data(), init_eval(), and back to the top of the REPL.
CopyGivesUp ==
  /\ pc \in {"top", "rest"} /\ avail > 0
  /\ ~ (hp < CopyLimit)
  /\ heapstart' = 0 /\ heapsize' = HEAPHALF
  /\ heapbase' = 0 /\ heapend' = HEAPHALF /\ heaplim' = HEAPHALF - GUARDPAGE
  /\ other' = HEAPHALF /\ hp' = 1
  /\ topbase' = NULL /\ topend' = NULL /\ topchg' = FALSE
  /\ pc' = "run"
  /\ scratch' = 0 /\ avail' = 0 /\ fromlo' = 0
  /\ kept' = FALSE /\ toplive' = 0
  /\ starved' = FALSE /\ clobbered' = FALSE

\* Mutant: topchg is not cleared.
BuildCorral_StillChanged ==
  LET end  == AlignUp(hp)
      half == AlignDown(heapsize - (end - heapbase) \div 2)
  IN  /\ topbase = NULL /\ heapbase = heapstart
      /\ topbase' = heapbase /\ topend' = end /\ topchg' = topchg
      /\ heapstart' = end /\ heapbase' = end /\ hp' = end /\ heapsize' = half
      /\ heapend' = end + half /\ other' = end + half
      /\ heaplim' = end + half - GUARDPAGE
      /\ toplive' = hp - heapbase

(***************************************************************************)
(* The tail of copytop(): a copy into the low half with no corral yet      *)
(* becomes the corral, and two smaller halves start after it.              *)
(***************************************************************************)
BuildCorral ==
  LET end  == AlignUp(hp)
      half == AlignDown(heapsize - (end - heapbase) \div 2)
  IN  /\ topbase = NULL /\ heapbase = heapstart
      /\ topbase' = heapbase /\ topend' = end /\ topchg' = FALSE
      /\ heapstart' = end /\ heapbase' = end /\ hp' = end
      /\ heapsize' = half
      /\ heapend' = end + half /\ other' = end + half
      /\ heaplim' = end + half - GUARDPAGE
      /\ toplive' = hp - heapbase

LeaveUncorralled ==
  /\ ~ (topbase = NULL /\ heapbase = heapstart)
  /\ UNCHANGED <<halves, hp, corral, toplive>>

TopCopied ==
  /\ pc = "top" /\ heapbase < hp
  /\ BuildCorral \/ LeaveUncorralled
  /\ pc' = "rest"
  /\ UNCHANGED <<scratch, avail, fromlo, kept, starved, clobbered>>

FinishGC ==
  /\ pc = "rest"
  /\ pc' = "run"
  /\ avail' = 0
  /\ starved' = Timegc
  /\ UNCHANGED <<halves, hp, corral, scratch, fromlo, kept, toplive, clobbered>>

Next ==
  \/ \E n \in 1 .. MaxAlloc : Allocate(n)
  \/ \E n \in 1 .. MaxErr : ErrorPath(n)
  \/ ChangeTop
  \/ StartGC
  \/ \E n \in 1 .. MaxCell : CopyCell(n)
  \/ CopyGivesUp
  \/ TopCopied
  \/ FinishGC

Spec == Init /\ [][Next]_vars

\* An interpreter that keeps evaluating keeps collecting (the reader does so
\* before every expression, and every command allocates), and a collection
\* that has started runs to its end: breaks are deferred while it does.
GCStep ==
  (\E n \in 1 .. MaxCell : CopyCell(n)) \/ CopyGivesUp \/ TopCopied \/ FinishGC
FairSpec == Spec /\ WF_vars(StartGC) /\ WF_vars(GCStep)

-----------------------------------------------------------------------------
TypeOK ==
  /\ heapstart \in Nat /\ heapsize \in Nat /\ heapbase \in Nat /\ heapend \in Nat
  /\ heaplim \in Int /\ other \in Nat /\ hp \in Nat
  /\ topbase \in Nat \cup {NULL} /\ topend \in Nat \cup {NULL}
  /\ topchg \in BOOLEAN
  /\ pc \in {"run", "top", "rest"}
  /\ scratch \in 0 .. MaxErr /\ avail \in Int /\ fromlo \in Nat /\ toplive \in Nat
  /\ kept \in BOOLEAN /\ starved \in BOOLEAN /\ clobbered \in BOOLEAN

\* The next free address is inside the array heap[HALLOCSZ], whatever the
\* order of allocations, errors, assignments to the corral and collections,
\* exhausted collections included.
InBounds == hp =< HALLOCSZ

\* However often copytop() gives up its corral and builds another, the two
\* halves with the corral below them fill the heap: rounding loses less than
\* twice the alignment, and gains one byte at most (a corral of odd size).
HalvesFillHeap ==
  /\ CopyLimit - 2 * HEAPBMOD < heapstart + 2 * heapsize
  /\ heapstart + 2 * heapsize =< CopyLimit + 1

\* While the top environment is corralled, neither half reaches into it:
\* newheap() may choose either one and copycell() may write to all of it.
CorralIsApart ==
  Corralled => /\ topbase = 0 /\ toplive =< topend
               /\ topend =< heapstart /\ topend =< heapbase /\ topend =< other

\* A collection that leaves the corral alone has room in the half it copies
\* to for all it may still copy, so it never runs out of memory half way,
\* provided the collection before it ended below heaplim.
KeptCopyFits ==
  (pc = "rest" /\ kept /\ ~ starved) => hp + avail =< heapend

\* Copying downwards stays below the cells it copies from, but for two kinds of
\* collections.  One gives the corral up on its way down: it copies the
\* environment too, into a half sized without it (Stale).  The other follows a
\* collection that ended above heaplim, and rounds up the end of the corral it
\* builds when there is no room left for that (Padded).
Stale == topbase # NULL /\ ~ Corralled /\ heapbase = heapstart
Padded == starved /\ Corralled /\ ~ kept /\ toplive < topend
ClobberHasCause == [][clobbered' /\ ~ clobbered => Stale \/ Padded]_vars

\* Where HEAPBMOD is 1, as on the eZ80, there is one kind only.
ClobberOnlyWhenStale == [][clobbered' /\ ~ clobbered => Stale]_vars

\* TBUF1, TBUF2 and TBUF3 lie in the idle half: a name or message assembled
\* there by the reader touches no live cell, provided the last collection ended
\* below heaplim.
IdleFrom(n) == IF heapbase < other THEN hp =< other /\ other + n =< HALLOCSZ
                                   ELSE other + n =< heapbase
TempBuffersIdle == (pc = "run" /\ ~ starved) => IdleFrom(TBUFS)

\* A changed environment is corralled again after finitely many collections.
Recorralled == topchg ~> ~ topchg

\* What "? Out of memory during GC" stands for: a copy that does not fit is
\* noticed before it writes over cells that are still to be copied.
NeverClobbered == ~ clobbered
=============================================================================
