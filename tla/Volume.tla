------------------------------- MODULE Volume -------------------------------
(***************************************************************************)
(* Files on an SD card: FatFs as stdio.c uses it, fopen() to write, fputc(),*)
(* fclose() and remove(), one byte at a time, on a card that can be pulled *)
(* out or lose power between any two sectors, and whose transfers can fail.*)
(*                                                                         *)
(* FatFs holds one sector in memory (FF_FS_TINY), its window.  What a      *)
(* sector says is what the window says where the window holds it, and what *)
(* the card says elsewhere; moving the window writes it back first.  A call*)
(* is a sequence of instructions on sectors (todo), each with one movement *)
(* of the window at most, so that the card has every state that a crash    *)
(* can leave behind.                                                       *)
(*                                                                         *)
(* Not here: directories within directories, long names, the second FAT,   *)
(* FAT12, reading, and a file that is open twice or removed while it is    *)
(* open, which this configuration does not prevent (FF_FS_LOCK is 0).      *)
(***************************************************************************)
EXTENDS Integers, Sequences, FiniteSets

CONSTANTS Names,    \* of files; their entries share a sector
          NFATENT,  \* n_fatent: clusters are 2 to NFATENT - 1
          FATENTS,  \* entries of the FAT in a sector
          BPC,      \* bytes in a cluster, which is one sector
          MAXGEN, MAXSIZE, MAXFAIL, MAXCRASH  \* bounds: files made, their
                    \* size in bytes, transfers that fail, crashes

ASSUME VolumeAssumption ==
  /\ NFATENT \in Nat /\ NFATENT > 2
  /\ FATENTS \in Nat \ {0} /\ BPC \in Nat \ {0}
  /\ MAXGEN \in Nat /\ MAXSIZE \in Nat /\ MAXFAIL \in Nat /\ MAXCRASH \in Nat

VARIABLES fat, dir, data,    \* what the sectors say, the window included
          cfat, cdir, cdata, \* what the card says
          win, dirty,        \* winsect, wflag
          info, fsi,         \* FSInfo on the card; whether it has to be written
          free, last,        \* free_clst, last_clst
          file,              \* the open file of each name
          todo,              \* what is left of the call
          gens, fails, crashes,
          stale,             \* FSInfo counted too few free clusters at a mount
          safe               \* what fclose() has said is on the card

live == <<fat, dir, data>>
card == <<cfat, cdir, cdata>>
wind == <<win, dirty>>
book == <<info, fsi, free, last>>
bounds == <<gens, fails, crashes>>
vars == <<live, card, wind, book, file, todo, bounds, stale, safe>>

Clusters == 2..(NFATENT - 1)
EOC      == NFATENT
Free     == 0
NoEntry  == [clust |-> 0, size |-> 0, gen |-> 0]
NoPromise == [size |-> 0, gen |-> 0]
Blank    == [gen |-> 0, n |-> 0]     \* a cluster: whose bytes, and how many
Closed   == [open |-> FALSE, sclust |-> 0, size |-> 0, fptr |-> 0, clust |-> 0,
             mod |-> FALSE, err |-> FALSE, gen |-> 0]

FatSect(c)  == <<"fat", c \div FATENTS>>
DirSect     == <<"dir", 0>>
DataSect(c) == <<"data", c>>
InfoSect    == <<"info", 0>>
NoSect      == <<"none", 0>>

-----------------------------------------------------------------------------
(* sync_window() and move_window(). *)

\* The window's sector is written back if it was changed.
SyncWindow ==
  /\ cfat'  = [c \in Clusters |-> IF dirty /\ win = FatSect(c) THEN fat[c] ELSE cfat[c]]
  /\ cdir'  = [n \in Names |-> IF dirty /\ win = DirSect THEN dir[n] ELSE cdir[n]]
  /\ cdata' = [c \in Clusters |-> IF dirty /\ win = DataSect(c) THEN data[c] ELSE cdata[c]]

MoveWindow_Drop(s) ==         \* mutant: a changed window is not written back
  win' = s /\ UNCHANGED card
MoveWindow(s) ==
  /\ win' = s
  /\ IF s = win THEN UNCHANGED card ELSE SyncWindow

\* Look at a sector, or change it.
Look(s) == /\ MoveWindow(s)
           /\ dirty' = (s = win /\ dirty)
           /\ UNCHANGED live
Change(s) == MoveWindow(s) /\ dirty' = TRUE

-----------------------------------------------------------------------------
(***************************************************************************)
(* The instructions: look, put and free (an entry of the FAT), alloc (a    *)
(* cluster is the file's), entry (of the directory), byte, sync, info, and *)
(* the results of a call.                                                  *)
(***************************************************************************)
GrowingEdge(f) == f.fptr % BPC = 0 /\ f.fptr >= f.size

I(op, x, v) == [op |-> op, x |-> x, v |-> v]

NeedsSector(i) ==
  CASE i.op = "look"            -> i.x
    [] i.op \in {"put", "free"} -> FatSect(i.x)
    [] i.op = "entry"           -> DirSect
    [] i.op = "byte"            -> DataSect(file[i.x].clust)
    [] OTHER                    -> win

Instr == Head(todo)
Doing(op) == todo # <<>> /\ Instr.op = op
Did == /\ todo' = Tail(todo)
       /\ UNCHANGED <<bounds, stale>>

LookAt == /\ Doing("look") /\ Did
          /\ Look(Instr.x)
          /\ UNCHANGED <<book, file, safe>>

\* put_fat()
PutFat == /\ Doing("put") /\ Did
          /\ Change(FatSect(Instr.x))
          /\ fat' = [fat EXCEPT ![Instr.x] = Instr.v]
          /\ UNCHANGED <<dir, data, book, file, safe>>

\* remove_chain(), one cluster
FreeFat_NoLimit ==             \* mutant: counts without a limit
  /\ Doing("free") /\ Did
  /\ Change(FatSect(Instr.x))
  /\ fat' = [fat EXCEPT ![Instr.x] = Free]
  /\ free' = free + 1 /\ fsi' = TRUE
  /\ UNCHANGED <<dir, data, info, last, file, safe>>
FreeFat_NoCount ==             \* mutant: the free cluster is not counted
  /\ Doing("free") /\ Did
  /\ Change(FatSect(Instr.x))
  /\ fat' = [fat EXCEPT ![Instr.x] = Free]
  /\ UNCHANGED <<dir, data, book, file, safe>>
FreeFat == /\ Doing("free") /\ Did
           /\ Change(FatSect(Instr.x))
           /\ fat' = [fat EXCEPT ![Instr.x] = Free]
           /\ IF free < NFATENT - 2 /\ fat[Instr.x] # Free THEN free' = free + 1 /\ fsi' = TRUE
              ELSE UNCHANGED <<free, fsi>>
           /\ UNCHANGED <<dir, data, info, last, file, safe>>

\* The end of create_chain(), and what f_write() makes of it.
Alloc == /\ Doing("alloc") /\ Did
         /\ last' = Instr.v
         /\ free' = free - 1
         /\ fsi' = TRUE
         /\ file' = [file EXCEPT ![Instr.x].clust = Instr.v,
                                 ![Instr.x].sclust = IF @ = 0 THEN Instr.v ELSE @]
         /\ UNCHANGED <<live, card, wind, info, safe>>

\* The entry of a file is written, or given up.
PutEntry == /\ Doing("entry") /\ Did
            /\ Change(DirSect)
            /\ dir' = [dir EXCEPT ![Instr.x] = Instr.v]
            /\ UNCHANGED <<fat, data, book, file, safe>>

\* The byte goes into the window.  At the growing edge the window is written
\* back, but the sector is not read.
PutByte ==
  /\ Doing("byte") /\ Did
  /\ LET n == Instr.x
         f == file[n]
         o == f.fptr % BPC
         d == data[f.clust]
     IN
     /\ IF GrowingEdge(f) THEN SyncWindow /\ win' = DataSect(f.clust)
        ELSE MoveWindow(DataSect(f.clust))
     /\ dirty' = TRUE
     /\ data' = [data EXCEPT ![f.clust] =
                   IF GrowingEdge(f) THEN [gen |-> f.gen, n |-> 1]
                   ELSE IF d.gen = f.gen /\ d.n <= o THEN [gen |-> f.gen, n |-> o + 1]
                   ELSE d]
     /\ file' = [file EXCEPT ![n].fptr = f.fptr + 1,
                             ![n].size = IF f.fptr + 1 > f.size THEN f.fptr + 1 ELSE f.size,
                             ![n].mod = TRUE]
  /\ UNCHANGED <<fat, dir, book, safe>>

\* f_write() finds the card full: nothing is written, but the file counts as
\* modified.
Full == /\ Doing("full") /\ Did
        /\ file' = [file EXCEPT ![Instr.x].mod = TRUE]
        /\ UNCHANGED <<live, card, wind, book, safe>>

\* sync_fs()
Sync == /\ Doing("sync") /\ Did
        /\ SyncWindow
        /\ dirty' = FALSE
        /\ UNCHANGED <<live, win, book, file, safe>>
Info == /\ Doing("info") /\ Did
        /\ IF fsi THEN info' = [free |-> free, last |-> last] /\ fsi' = FALSE /\ win' = InfoSect
           ELSE UNCHANGED <<info, fsi, win>>
        /\ UNCHANGED <<live, card, dirty, free, last, file, safe>>

\* The end of f_open(): the cluster hole of an old chain is used again.
Opened == /\ Doing("opened") /\ Did
          /\ file' = [file EXCEPT ![Instr.x] = Instr.v.file]
          /\ last' = IF Instr.v.hole = 0 THEN last ELSE Instr.v.hole - 1
          /\ UNCHANGED <<live, card, wind, info, fsi, free, safe>>

\* fclose() returns 0 for a file that was written to.
Ended == /\ Doing("closed") /\ Did
         /\ safe' = IF file[Instr.x].mod
                    THEN [safe EXCEPT ![Instr.x] = [size |-> file[Instr.x].size,
                                                    gen |-> file[Instr.x].gen]]
                    ELSE safe
         /\ file' = [file EXCEPT ![Instr.x] = Closed]
         /\ UNCHANGED <<live, card, wind, book>>

-----------------------------------------------------------------------------
(***************************************************************************)
(* Transfers that fail, and crashes.                                       *)
(***************************************************************************)

\* How the call would have ended tells which it is.  f_write() remembers the
\* error in the file (ABORT); fclose() frees the file whatever f_close() says;
\* fopen() has not opened it.
AbortCall ==
  /\ todo' = <<>>
  /\ LET end == todo[Len(todo)] IN
     file' = CASE end.op \in {"byte", "full"}     -> [file EXCEPT ![end.x].err = TRUE]
               [] end.op \in {"opened", "closed"} -> [file EXCEPT ![end.x] = Closed]
               [] OTHER                           -> file
  /\ fails' = fails + 1
  /\ UNCHANGED <<live, book, gens, crashes, stale, safe>>

\* The window cannot be written back: it stays as it is.
WriteFails ==
  /\ todo # <<>> /\ fails < MAXFAIL /\ dirty
  /\ \/ NeedsSector(Instr) # win \/ Instr.op = "sync"
     \/ Instr.op = "byte" /\ GrowingEdge(file[Instr.x])
  /\ AbortCall
  /\ UNCHANGED <<card, wind>>

\* The new sector cannot be read, the old one was written back.
ReadFails ==
  /\ todo # <<>> /\ fails < MAXFAIL /\ NeedsSector(Instr) # win
  /\ ~(Instr.op = "byte" /\ GrowingEdge(file[Instr.x]))
  /\ AbortCall
  /\ SyncWindow
  /\ win' = NoSect /\ dirty' = FALSE

\* FSInfo cannot be written: nobody asks.
InfoFails ==
  /\ Doing("info") /\ fsi /\ fails < MAXFAIL
  /\ todo' = Tail(todo)
  /\ fails' = fails + 1
  /\ fsi' = FALSE /\ win' = InfoSect
  /\ UNCHANGED <<live, card, dirty, info, free, last, file, gens, crashes, stale, safe>>

\* The card is pulled out, or the power fails: memory is lost, the next call
\* mounts the volume as the card has it (find_volume).
Crash ==
  /\ crashes < MAXCRASH
  /\ crashes' = crashes + 1
  /\ fat' = cfat /\ dir' = cdir /\ data' = cdata
  /\ win' = NoSect /\ dirty' = FALSE
  /\ file' = [n \in Names |-> Closed]
  /\ todo' = <<>>
  /\ free' = info.free /\ last' = info.last /\ fsi' = FALSE
  /\ stale' = (info.free < Cardinality({c \in Clusters : cfat[c] = Free}))
  /\ UNCHANGED <<card, info, gens, fails, safe>>

-----------------------------------------------------------------------------
(***************************************************************************)
(* Chains of clusters.                                                     *)
(***************************************************************************)

\* The k-th cluster of a chain, or the value that ends it.
Nth(f, c, k) ==
  LET at[i \in 0..NFATENT] ==
        IF i = 0 THEN c
        ELSE LET p == at[i - 1] IN IF p \in Clusters THEN f[p] ELSE p
  IN  at[k]

Chain(f, c) == {Nth(f, c, k) : k \in 0..NFATENT} \cap Clusters
Length(f, c) == Cardinality(Chain(f, c))
ChainSeq(f, c) == [k \in 1..Length(f, c) |-> Nth(f, c, k - 1)]

\* create_chain(): the order of the search for a free cluster.
After(c) == IF c + 1 < NFATENT THEN c + 1 ELSE 2
From(scl) == [k \in 1..(NFATENT - 2) |-> IF scl + k < NFATENT THEN scl + k ELSE scl + k - NFATENT + 2]
SearchOrder(clst) ==
  IF clst = 0 THEN From(IF last \in 1..(NFATENT - 1) THEN last ELSE 1)
  ELSE IF fat[After(clst)] = Free THEN <<After(clst)>>
  ELSE <<After(clst)>> \o From(IF last \in Clusters THEN last ELSE clst)

\* The search, up to the first free cluster, whose entry is then put.
FirstFree(s) == CHOOSE k \in 1..Len(s) : fat[s[k]] = Free /\ \A j \in 1..(k - 1) : fat[s[j]] # Free
Found(s) == \E k \in 1..Len(s) : fat[s[k]] = Free
Looks(s) == [k \in 1..Len(s) |-> I("look", FatSect(s[k]), 0)]

NewCluster_LinkFirst(n, clst) ==     \* mutant: linked before it is an end
  LET s   == SearchOrder(clst)
      ncl == s[FirstFree(s)]
  IN  IF free = 0 \/ ~Found(s) THEN Looks(s) \o <<I("full", n, 0)>>
      ELSE Looks(SubSeq(s, 1, FirstFree(s) - 1))
           \o (IF clst = 0 THEN <<>> ELSE <<I("put", clst, ncl)>>)
           \o <<I("put", ncl, EOC), I("alloc", n, ncl), I("byte", n, 0)>>
NewCluster(n, clst) ==
  LET s   == SearchOrder(clst)
      ncl == s[FirstFree(s)]
  IN  (IF clst = 0 THEN <<>> ELSE <<I("look", FatSect(clst), 0)>>) \o
      (IF free = 0 THEN <<I("full", n, 0)>>
       ELSE IF ~Found(s) THEN Looks(s) \o <<I("full", n, 0)>>
       ELSE Looks(SubSeq(s, 1, FirstFree(s) - 1))
            \o <<I("put", ncl, EOC)>>
            \o (IF clst = 0 THEN <<>> ELSE <<I("put", clst, ncl)>>)
            \o <<I("alloc", n, ncl), I("byte", n, 0)>>)

\* remove_chain()
RemoveChain(c) == [k \in 1..Length(fat, c) |-> I("free", ChainSeq(fat, c)[k], 0)]

-----------------------------------------------------------------------------
(***************************************************************************)
(* The calls.                                                              *)
(***************************************************************************)
Call(is) ==
  /\ todo' = is
  /\ UNCHANGED <<live, card, wind, book, fails, crashes, stale>>

Exists(n) == dir[n] # NoEntry
Opening(n, e, fptr, clust, mod, hole) ==
  I("opened", n,
    [file |-> [open |-> TRUE, sclust |-> e.clust, size |-> e.size, fptr |-> fptr,
               clust |-> clust, mod |-> mod, err |-> FALSE, gen |-> e.gen],
     hole |-> hole])

\* fopen(n, "w"): an entry without clusters, and the old chain is removed.
OpenNew(n) ==
  /\ todo = <<>> /\ ~file[n].open /\ gens < MAXGEN
  /\ LET e   == [clust |-> 0, size |-> 0, gen |-> gens + 1]
         old == dir[n].clust
     IN
     Call(<<I("entry", n, e)>>
          \o (IF old = 0 THEN <<>> ELSE RemoveChain(old) \o <<I("look", DirSect, 0)>>)
          \o <<Opening(n, e, 0, 0, TRUE, old)>>)
  /\ gens' = gens + 1
  /\ safe' = [safe EXCEPT ![n] = NoPromise]
  /\ UNCHANGED file

\* fopen(n, "r+") and fopen(n, "a"), of a file that exists; the latter looks
\* for the last cluster that has bytes.
OpenOld(n, append) ==
  /\ todo = <<>> /\ ~file[n].open /\ Exists(n)
  /\ LET e == dir[n]
         k == IF e.size = 0 THEN 0 ELSE (e.size - 1) \div BPC
     IN
     Call(<<I("look", DirSect, 0)>>
          \o (IF append
              THEN [j \in 1..k |-> I("look", FatSect(Nth(fat, e.clust, j - 1)), 0)]
                   \o <<Opening(n, e, e.size, Nth(fat, e.clust, k), FALSE, 0)>>
              ELSE <<Opening(n, e, 0, 0, FALSE, 0)>>))
  /\ UNCHANGED <<file, gens, safe>>

\* fputc(): a byte at the file's place, on a cluster of its own if need be.
Fputc(n) ==
  /\ todo = <<>> /\ file[n].open /\ ~file[n].err /\ file[n].fptr < MAXSIZE
  /\ LET f    == file[n]
         edge == f.fptr % BPC = 0
         prev == IF f.fptr = 0 THEN 0 ELSE f.clust
         next == IF f.fptr = 0 THEN f.sclust ELSE fat[f.clust]
     IN
     IF ~edge
     THEN Call(<<I("byte", n, 0)>>) /\ UNCHANGED file
     ELSE IF prev # 0 /\ next = Free             \* a test for insanity
     THEN Call(<<>>) /\ file' = [file EXCEPT ![n].err = TRUE]
     ELSE IF next \in Clusters
     THEN /\ Call((IF prev = 0 THEN <<>> ELSE <<I("look", FatSect(prev), 0)>>)
                  \o <<I("byte", n, 0)>>)
          /\ file' = [file EXCEPT ![n].clust = next]
     ELSE Call(NewCluster(n, prev)) /\ UNCHANGED file
  /\ UNCHANGED <<gens, safe>>

\* fclose(): f_sync() and f_close().
Fclose_NoSync(n) ==                \* mutant: the entry stays in the window
  /\ todo = <<>> /\ file[n].open
  /\ LET f == file[n] IN
     Call((IF f.mod THEN <<I("entry", n, [clust |-> f.sclust, size |-> f.size, gen |-> f.gen])>>
           ELSE <<>>) \o <<I("closed", n, 0)>>)
  /\ UNCHANGED <<file, gens, safe>>
Fclose(n) ==
  /\ todo = <<>> /\ file[n].open
  /\ LET f == file[n] IN
     Call((IF f.mod THEN <<I("entry", n, [clust |-> f.sclust, size |-> f.size, gen |-> f.gen]),
                           I("sync", 0, 0), I("info", 0, 0)>>
           ELSE <<>>) \o <<I("closed", n, 0)>>)
  /\ UNCHANGED <<file, gens, safe>>

\* remove(): f_unlink(), the entry first.
Remove_ChainFirst(n) ==            \* mutant: the chain first
  /\ todo = <<>> /\ ~file[n].open /\ Exists(n)
  /\ Call((IF dir[n].clust = 0 THEN <<>> ELSE RemoveChain(dir[n].clust))
          \o <<I("entry", n, NoEntry), I("sync", 0, 0), I("info", 0, 0)>>)
  /\ safe' = [safe EXCEPT ![n] = NoPromise]
  /\ UNCHANGED <<file, gens>>
Remove(n) ==
  /\ todo = <<>> /\ ~file[n].open /\ Exists(n)
  /\ Call(<<I("entry", n, NoEntry)>>
          \o (IF dir[n].clust = 0 THEN <<>> ELSE RemoveChain(dir[n].clust))
          \o <<I("sync", 0, 0), I("info", 0, 0)>>)
  /\ safe' = [safe EXCEPT ![n] = NoPromise]
  /\ UNCHANGED <<file, gens>>

Init ==
  /\ fat = [c \in Clusters |-> Free] /\ cfat = fat
  /\ dir = [n \in Names |-> NoEntry] /\ cdir = dir
  /\ data = [c \in Clusters |-> Blank] /\ cdata = data
  /\ win = NoSect /\ dirty = FALSE
  /\ free = NFATENT - 2 /\ last = 1 /\ fsi = FALSE
  /\ info = [free |-> NFATENT - 2, last |-> 1]
  /\ file = [n \in Names |-> Closed]
  /\ todo = <<>>
  /\ gens = 0 /\ fails = 0 /\ crashes = 0
  /\ stale = FALSE /\ safe = [n \in Names |-> NoPromise]

Instruction == \/ LookAt \/ PutFat \/ FreeFat \/ Alloc \/ PutEntry \/ PutByte \/ Full
               \/ Sync \/ Info \/ Opened \/ Ended

Next ==
  \/ Instruction \/ WriteFails \/ ReadFails \/ InfoFails \/ Crash
  \/ \E n \in Names : OpenNew(n) \/ Fputc(n) \/ Fclose(n) \/ Remove(n)
                      \/ \E append \in BOOLEAN : OpenOld(n, append)

Spec == Init /\ [][Next]_vars

-----------------------------------------------------------------------------

\* The state of the volume object (FATFS), of the files (FIL) and of the card
\* has its type: free_clst stays within 0 and the number of clusters, although
\* FSInfo may have counted too many of them at the mount.
TypeOK ==
  /\ fat \in [Clusters -> 0..NFATENT] /\ cfat \in [Clusters -> 0..NFATENT]
  /\ \A e \in {dir[n] : n \in Names} \cup {cdir[n] : n \in Names} :
       e \in [clust : {0} \cup Clusters, size : 0..MAXSIZE, gen : 0..MAXGEN]
  /\ \A d \in {data[c] : c \in Clusters} \cup {cdata[c] : c \in Clusters} :
       d \in [gen : 0..MAXGEN, n : 0..BPC]
  /\ win \in {NoSect, DirSect, InfoSect} \cup {FatSect(c) : c \in Clusters}
             \cup {DataSect(c) : c \in Clusters}
  /\ dirty \in BOOLEAN /\ fsi \in BOOLEAN /\ stale \in BOOLEAN
  /\ free \in 0..(NFATENT - 2) /\ last \in 1..(NFATENT - 1)
  /\ info \in [free : 0..(NFATENT - 2), last : 1..(NFATENT - 1)]
  /\ \A n \in Names : file[n] \in
       [open : BOOLEAN, sclust : {0} \cup Clusters, size : 0..MAXSIZE, fptr : 0..MAXSIZE,
        clust : {0} \cup Clusters, mod : BOOLEAN, err : BOOLEAN, gen : 0..MAXGEN]

\* Memory and card say the same but for the sector in the window, and then
\* wflag is set: what a crash can lose is one sector (move_window()).
WindowOnly ==
  /\ \A c \in Clusters : fat[c] # cfat[c] => dirty /\ win = FatSect(c)
  /\ \A n \in Names : dir[n] # cdir[n] => dirty /\ win = DirSect
  /\ \A c \in Clusters : data[c] # cdata[c] => dirty /\ win = DataSect(c)

CardChain(n) == Chain(cfat, cdir[n].clust)

\* Whatever moment the card is pulled out at: every chain that an entry on it
\* starts ends, not in a cluster that is free, and no cluster is in the chains
\* of two files (the order of put_fat() in create_chain(), of the entry and
\* the chain in f_open() and f_unlink()).
ChainsSound ==
  /\ \A n \in Names : cdir[n].clust # 0 => Nth(cfat, cdir[n].clust, NFATENT) = EOC
  /\ \A a, b \in Names : a # b => CardChain(a) \cap CardChain(b) = {}

\* Whatever moment the card is pulled out at: the bytes an entry on it counts
\* were written to that file, never the leftovers of another (f_sync() writes
\* the entry after the data).
OwnData ==
  \A n \in Names : \A k \in 1..cdir[n].size :
    LET c == Nth(cfat, cdir[n].clust, (k - 1) \div BPC) IN
    c \in Clusters /\ cdata[c].gen = cdir[n].gen /\ (k - 1) % BPC < cdata[c].n

\* What had been written to a file when fclose() returned 0 is on the card, and
\* no crash or failed transfer takes it away until the file is removed or
\* written anew.
Durable ==
  \A n \in Names : safe[n] # NoPromise =>
    cdir[n].gen = safe[n].gen /\ cdir[n].size >= safe[n].size

\* fputc() does not report a full card while there are free clusters
\* (free_clst = 0 in create_chain()), unless FSInfo, which is written last, was
\* out of date when the card was mounted.
NotFullEarly ==
  (~stale /\ todo = <<>>) => free >= Cardinality({c \in Clusters : fat[c] = Free})

=============================================================================
