--------------------------- MODULE Volume_proofs ----------------------------
(***************************************************************************)
(* The volume, proved for volumes of any size, any number of files, and    *)
(* any number of failures and crashes: window and card; what fclose()      *)
(* promises; and the chains, which end whatever moment the card is pulled  *)
(* out at, share no cluster, and hold the file's own bytes.                *)
(***************************************************************************)
EXTENDS Volume, SequenceTheorems, FiniteSetTheorems, WellFoundedInduction, TLAPS

\* A record of the fields of FIL; which clusters it names does not matter here.
IsFile(f) ==
  /\ f = [open |-> f.open, sclust |-> f.sclust, size |-> f.size, fptr |-> f.fptr,
          clust |-> f.clust, mod |-> f.mod, err |-> f.err, gen |-> f.gen]
  /\ f.size \in Int /\ f.fptr \in Int

IsFcn(f, S) == f = [x \in S |-> f[x]]

\* Sectors, files and promises.
Shape ==
  /\ IsFcn(fat, Clusters) /\ IsFcn(data, Clusters) /\ IsFcn(dir, Names)
  /\ IsFcn(cfat, Clusters) /\ IsFcn(cdata, Clusters) /\ IsFcn(cdir, Names)
  /\ IsFcn(file, Names) /\ IsFcn(safe, Names)
  /\ \A n \in Names : IsFile(file[n])
  /\ \A n \in Names : dir[n].size \in Int /\ cdir[n].size \in Int /\ safe[n].size \in Int

\* An entry, or a file, is no less than was promised.
Prom(sf, n, e) == sf[n] # NoPromise => e.gen = sf[n].gen /\ e.size >= sf[n].size

Kept ==
  /\ \A n \in Names : Prom(safe, n, dir[n])
  /\ \A n \in Names : Prom(safe, n, cdir[n])
  /\ \A n \in Names : file[n].open => Prom(safe, n, file[n])

(***************************************************************************)
(* What a call has left to do: fclose() has its own order; the others keep *)
(* the promises of other calls, and FSInfo follows sync_window().          *)
(***************************************************************************)
Match(d, f) == d.gen = f.gen /\ d.size = f.size
EntryOf(f)  == [clust |-> f.sclust, size |-> f.size, gen |-> f.gen]
Closing(n) ==
  /\ file[n].open
  /\ \/ todo = <<I("entry", n, EntryOf(file[n])), I("sync", 0, 0), I("info", 0, 0),
                 I("closed", n, 0)>>
     \/ /\ todo = <<I("sync", 0, 0), I("info", 0, 0), I("closed", n, 0)>>
        /\ Match(dir[n], file[n])
     \/ /\ todo = <<I("info", 0, 0), I("closed", n, 0)>>
        /\ ~dirty /\ Match(dir[n], file[n]) /\ Match(cdir[n], file[n])
     \/ /\ todo = <<I("closed", n, 0)>>
        /\ file[n].mod => Match(dir[n], file[n]) /\ Match(cdir[n], file[n])

Harmless(sf, i) ==
  /\ i.op # "closed"
  /\ i.op = "entry" => i.x \in Names /\ i.v.size \in Int /\ Prom(sf, i.x, i.v)
  /\ i.op = "opened" => i.x \in Names /\ IsFile(i.v.file) /\ Prom(sf, i.x, i.v.file)

IsSeq(s) == \E S : s \in Seq(S)
Plain(sf, d, s) ==
  /\ IsSeq(s)
  /\ \A k \in 1..Len(s) : Harmless(sf, s[k])
  /\ \A k \in 1..Len(s) : s[k].op = "info" => IF k = 1 THEN ~d ELSE s[k - 1].op = "sync"

TodoOK == Plain(safe, dirty, todo) \/ \E n \in Names : Closing(n)

IInv == Shape /\ WindowOnly /\ Kept /\ TodoOK

USE DEF live, card, wind, book, bounds

-----------------------------------------------------------------------------
(* The window. *)

\* When the window has been written back, card and memory are the same.
LEMMA Synced ==
  ASSUME Shape, WindowOnly, SyncWindow
  PROVE  cfat' = fat /\ cdir' = dir /\ cdata' = data
<1>1. cfat' = fat
  <2>1. \A c \in Clusters : (IF dirty /\ win = FatSect(c) THEN fat[c] ELSE cfat[c]) = fat[c]
      BY DEF WindowOnly
  <2> QED
      BY <2>1 DEF SyncWindow, Shape, IsFcn
<1>2. cdir' = dir
  <2>1. \A n \in Names : (IF dirty /\ win = DirSect THEN dir[n] ELSE cdir[n]) = dir[n]
      BY DEF WindowOnly
  <2> QED
      BY <2>1 DEF SyncWindow, Shape, IsFcn
<1>3. cdata' = data
  <2>1. \A c \in Clusters : (IF dirty /\ win = DataSect(c) THEN data[c] ELSE cdata[c]) = data[c]
      BY DEF WindowOnly
  <2> QED
      BY <2>1 DEF SyncWindow, Shape, IsFcn
<1> QED
    BY <1>1, <1>2, <1>3

\* The window stays, or everything is written.
LEMMA Moved ==
  ASSUME Shape, WindowOnly, NEW s, MoveWindow(s)
  PROVE  /\ win' = s
         /\ \/ s = win /\ UNCHANGED card
            \/ s # win /\ cfat' = fat /\ cdir' = dir /\ cdata' = data
    BY Synced DEF MoveWindow

\* After a look at a sector.
LEMMA Looked ==
  ASSUME Shape, WindowOnly, NEW s, Look(s)
  PROVE  WindowOnly'
    BY Moved DEF Look, WindowOnly

-----------------------------------------------------------------------------
(* Sequences of instructions. *)

\* Instructions before sync_fs(), if it is called at all.
Before(sf, s) == /\ IsSeq(s)
                 /\ \A k \in 1..Len(s) : Harmless(sf, s[k]) /\ s[k].op # "info"

\* One instruction.
LEMMA BeforeOne ==
  ASSUME NEW sf, NEW i, Harmless(sf, i), i.op # "info"
  PROVE  Before(sf, <<i>>)
<1>1. <<i>> \in Seq({i}) /\ Len(<<i>>) = 1 /\ <<i>>[1] = i
    OBVIOUS
<1>2. \A k \in 1..Len(<<i>>) : <<i>>[k] = i
    BY <1>1
<1> QED
    BY <1>1, <1>2 DEF Before, IsSeq

\* No instruction.
LEMMA BeforeNone ==
  ASSUME NEW sf
  PROVE  Before(sf, <<>>)
    BY EmptySeq DEF Before, IsSeq

\* Some of a kind, as a function.
LEMMA BeforeFcn ==
  ASSUME NEW sf, NEW n \in Nat, NEW f, IsFcn(f, 1..n),
         \A k \in 1..n : Harmless(sf, f[k]) /\ f[k].op # "info"
  PROVE  Before(sf, f)
<1> DEFINE S == {f[k] : k \in 1..n}
<1>1. f \in [1..n -> S]
    BY DEF IsFcn
<1>2. f \in Seq(S)
    BY <1>1, SeqDef
<1>3. Len(f) = n
    BY <1>1, <1>2, LenProperties
<1> QED
    BY <1>2, <1>3 DEF Before, IsSeq

\* Some after others.
LEMMA BeforeConcat ==
  ASSUME NEW sf, NEW a, NEW b, Before(sf, a), Before(sf, b)
  PROVE  Before(sf, a \o b)
<1>1. PICK A : a \in Seq(A)
    BY DEF Before, IsSeq
<1>2. PICK B : b \in Seq(B)
    BY DEF Before, IsSeq
<1>3. a \in Seq(A \cup B) /\ b \in Seq(A \cup B)
    BY <1>1, <1>2, SeqMonotonic
<1> DEFINE t == a \o b
<1>4. /\ t \in Seq(A \cup B)
      /\ Len(t) = Len(a) + Len(b) /\ Len(a) \in Nat /\ Len(b) \in Nat
      /\ \A k \in 1..Len(t) : t[k] = IF k <= Len(a) THEN a[k] ELSE b[k - Len(a)]
    BY <1>3, ConcatProperties
<1> SUFFICES Before(sf, t)
    OBVIOUS
<1> HIDE DEF t
<1>5. ASSUME NEW k \in 1..Len(t) PROVE Harmless(sf, t[k]) /\ t[k].op # "info"
  <2>1. CASE k <= Len(a)
    <3>1. k \in 1..Len(a) /\ t[k] = a[k]
        BY <1>4, <2>1
    <3> QED
        BY <3>1 DEF Before
  <2>2. CASE k > Len(a)
    <3>1. k - Len(a) \in 1..Len(b) /\ t[k] = b[k - Len(a)]
        BY <1>4, <2>2
    <3> QED
        BY <3>1 DEF Before
  <2> QED
      BY <1>4, <2>1, <2>2
<1> QED
    BY <1>4, <1>5 DEF Before, IsSeq

\* A call that does not end in sync_fs().
LEMMA BeforePlain ==
  ASSUME NEW sf, NEW d, NEW s, Before(sf, s)
  PROVE  Plain(sf, d, s)
    BY DEF Before, Plain

\* One that does.
LEMMA BeforeSync ==
  ASSUME NEW sf, NEW d, NEW a, Before(sf, a)
  PROVE  Plain(sf, d, a \o <<I("sync", 0, 0), I("info", 0, 0)>>)
<1> DEFINE b == <<I("sync", 0, 0), I("info", 0, 0)>>
           t == a \o b
<1>1. PICK A : a \in Seq(A)
    BY DEF Before, IsSeq
<1>2. /\ b \in Seq({I("sync", 0, 0), I("info", 0, 0)}) /\ Len(b) = 2
      /\ b[1] = I("sync", 0, 0) /\ b[2] = I("info", 0, 0)
    OBVIOUS
<1> DEFINE S == A \cup {I("sync", 0, 0), I("info", 0, 0)}
<1> HIDE DEF b
<1>3. a \in Seq(S) /\ b \in Seq(S)
    BY <1>1, <1>2, SeqMonotonic
<1> HIDE DEF S
<1>4. /\ t \in Seq(S)
      /\ Len(t) = Len(a) + 2 /\ Len(a) \in Nat
      /\ \A k \in 1..Len(t) : t[k] = IF k <= Len(a) THEN a[k] ELSE b[k - Len(a)]
  <2>1. Len(b) = 2
      BY <1>2
  <2>2. /\ t \in Seq(S)
        /\ Len(t) = Len(a) + Len(b) /\ Len(a) \in Nat /\ Len(b) \in Nat
        /\ \A k \in 1..Len(a) + Len(b) : t[k] = IF k <= Len(a) THEN a[k] ELSE b[k - Len(a)]
      BY <1>3, ConcatProperties
  <2> QED
      BY <2>1, <2>2
<1> SUFFICES Plain(sf, d, t)
    BY DEF b
<1> HIDE DEF t
<1>5. /\ I("sync", 0, 0).op = "sync" /\ I("info", 0, 0).op = "info"
      /\ Harmless(sf, I("sync", 0, 0)) /\ Harmless(sf, I("info", 0, 0))
    BY DEF I, Harmless
<1>6. /\ t[Len(a) + 1] = I("sync", 0, 0)
      /\ t[Len(a) + 2] = I("info", 0, 0)
      /\ \A k \in 1..Len(t) : k <= Len(a) \/ k = Len(a) + 1 \/ k = Len(a) + 2
    BY <1>2, <1>4
<1>7. ASSUME NEW k \in 1..Len(t)
      PROVE  /\ Harmless(sf, t[k])
             /\ t[k].op = "info" => IF k = 1 THEN ~d ELSE t[k - 1].op = "sync"
  <2>1. CASE k <= Len(a)
    <3>1. k \in 1..Len(a) /\ t[k] = a[k]
        BY <1>4, <2>1
    <3> QED
        BY <3>1 DEF Before
  <2>2. CASE k = Len(a) + 1
      BY <1>5, <1>6, <2>2
  <2>3. CASE k = Len(a) + 2
    <3>1. k # 1 /\ k - 1 = Len(a) + 1
        BY <1>4, <2>3
    <3> QED
        BY <1>5, <1>6, <2>3, <3>1
  <2> QED
      BY <1>6, <2>1, <2>2, <2>3
<1> QED
    BY <1>4, <1>7 DEF Plain, IsSeq

\* What is left after an instruction.
LEMMA PlainTail ==
  ASSUME NEW sf, NEW d, NEW e, NEW s, Plain(sf, d, s), s # <<>>, Head(s).op = "sync" => ~e
  PROVE  Plain(sf, e, Tail(s)) /\ Harmless(sf, Head(s)) /\ (Head(s).op = "info" => ~d)
<1> DEFINE t == Tail(s)
<1>1. PICK S : s \in Seq(S)
    BY DEF Plain, IsSeq
<1>2. /\ t \in Seq(S) /\ Len(t) = Len(s) - 1 /\ Len(s) \in Nat \ {0} /\ Head(s) = s[1]
      /\ \A k \in 1..Len(t) : t[k] = s[k + 1]
    BY <1>1, HeadTailProperties, EmptySeq
<1>3. Harmless(sf, Head(s)) /\ (Head(s).op = "info" => ~d)
    BY <1>2 DEF Plain
<1> SUFFICES Plain(sf, e, t)
    BY <1>3
<1> HIDE DEF t
<1>4. ASSUME NEW k \in 1..Len(t)
      PROVE  /\ Harmless(sf, t[k])
             /\ t[k].op = "info" => IF k = 1 THEN ~e ELSE t[k - 1].op = "sync"
  <2>1. (k + 1) \in 1..Len(s) /\ t[k] = s[k + 1] /\ k + 1 # 1 /\ (k + 1) - 1 = k
      BY <1>2
  <2>2. t[k].op = "info" => s[k].op = "sync"
      BY <2>1 DEF Plain
  <2>3. CASE k = 1
      BY <1>2, <2>1, <2>2, <2>3 DEF Plain
  <2>4. CASE k # 1
    <3>1. (k - 1) \in 1..Len(t) /\ t[k - 1] = s[k]
        BY <1>2, <2>4
    <3> QED
        BY <2>1, <2>2, <2>4, <3>1 DEF Plain
  <2> QED
      BY <2>3, <2>4
<1> QED
    BY <1>2, <1>4 DEF Plain, IsSeq

-----------------------------------------------------------------------------
(* Files. *)

\* A file may get another cluster and stays one.
LEMMA FileCluster ==
  ASSUME NEW f, IsFile(f), NEW v, NEW g, g = [f EXCEPT !.clust = v]
  PROVE  IsFile(g) /\ g.open = f.open /\ g.gen = f.gen /\ g.size = f.size
    BY DEF IsFile

\* Another first cluster.
LEMMA FileStart ==
  ASSUME NEW f, IsFile(f), NEW v, NEW g, g = [f EXCEPT !.sclust = v]
  PROVE  IsFile(g) /\ g.open = f.open /\ g.gen = f.gen /\ g.size = f.size
    BY DEF IsFile

\* Another place.
LEMMA FilePlace ==
  ASSUME NEW f, IsFile(f), NEW v \in Int, NEW g, g = [f EXCEPT !.fptr = v]
  PROVE  IsFile(g) /\ g.open = f.open /\ g.gen = f.gen /\ g.size = f.size
    BY DEF IsFile

\* Another size.
LEMMA FileSize ==
  ASSUME NEW f, IsFile(f), NEW v \in Int, NEW g, g = [f EXCEPT !.size = v]
  PROVE  IsFile(g) /\ g.open = f.open /\ g.gen = f.gen /\ g.size = v
    BY DEF IsFile

\* It is modified.
LEMMA FileMod ==
  ASSUME NEW f, IsFile(f), NEW v, NEW g, g = [f EXCEPT !.mod = v]
  PROVE  IsFile(g) /\ g.open = f.open /\ g.gen = f.gen /\ g.size = f.size
    BY DEF IsFile

\* It has an error.
LEMMA FileErr ==
  ASSUME NEW f, IsFile(f), NEW v, NEW g, g = [f EXCEPT !.err = v]
  PROVE  IsFile(g) /\ g.open = f.open /\ g.gen = f.gen /\ g.size = f.size
    BY DEF IsFile

\* A closed file.
LEMMA FileClosed == IsFile(Closed) /\ ~Closed.open
    BY DEF IsFile, Closed

\* g is f some steps later, or closed.
Later(f, g) ==
  IsFile(g) /\ (g.open => f.open /\ g.gen = f.gen /\ g.size >= f.size)
FilesLater == IsFcn(file', Names) /\ \A n \in Names : Later(file[n], file'[n])

\* The file as it is, with another cluster or flag, is a later one.
LEMMA SameLater ==
  ASSUME NEW f, NEW g, IsFile(f), IsFile(g), g.open = f.open, g.gen = f.gen, g.size = f.size
  PROVE  Later(f, g)
<1>1. f.size \in Int
    BY DEF IsFile
<1> QED
    BY <1>1 DEF Later

\* A file stays as it is.
LEMMA NoneLater ==
  ASSUME Shape, file' = file
  PROVE  FilesLater
    BY SameLater DEF Shape, FilesLater

\* One file may change, if it becomes a later one.
LEMMA OneLater ==
  ASSUME Shape, NEW n, NEW g, file' = [file EXCEPT ![n] = g],
         n \in Names => Later(file[n], g)
  PROVE  FilesLater
<1>1. IsFcn(file', Names)
    BY DEF Shape, IsFcn
<1>2. \A m \in Names : file'[m] = IF m = n THEN g ELSE file[m]
    BY DEF Shape, IsFcn
<1>3. \A m \in Names : Later(file[m], file[m])
    BY DEF Shape, Later, IsFile
<1> QED
    BY <1>1, <1>2, <1>3 DEF FilesLater

\* A file's cluster changes.
LEMMA ClusterLater ==
  ASSUME Shape, NEW n, NEW v, file' = [file EXCEPT ![n].clust = v]
  PROVE  FilesLater
<1> DEFINE g == [file[n] EXCEPT !.clust = v]
<1>1. file' = [file EXCEPT ![n] = g]
    OBVIOUS
<1>2. g = [file[n] EXCEPT !.clust = v]
    OBVIOUS
<1> HIDE DEF g
<1>3. ASSUME n \in Names PROVE Later(file[n], g)
  <2>1. IsFile(file[n])
      BY <1>3 DEF Shape
  <2> QED
      BY <1>2, <2>1, FileCluster, SameLater
<1> QED
    BY <1>1, <1>3, OneLater

\* An error in a file.
LEMMA ErrLater ==
  ASSUME Shape, NEW n, file' = [file EXCEPT ![n].err = TRUE]
  PROVE  FilesLater
<1> DEFINE g == [file[n] EXCEPT !.err = TRUE]
<1>1. file' = [file EXCEPT ![n] = g]
    OBVIOUS
<1>2. g = [file[n] EXCEPT !.err = TRUE]
    OBVIOUS
<1> HIDE DEF g
<1>3. ASSUME n \in Names PROVE Later(file[n], g)
  <2>1. IsFile(file[n])
      BY <1>3 DEF Shape
  <2> QED
      BY <1>2, <2>1, FileErr, SameLater
<1> QED
    BY <1>1, <1>3, OneLater

\* A file counts as modified.
LEMMA ModLater ==
  ASSUME Shape, NEW n, file' = [file EXCEPT ![n].mod = TRUE]
  PROVE  FilesLater
<1> DEFINE g == [file[n] EXCEPT !.mod = TRUE]
<1>1. file' = [file EXCEPT ![n] = g]
    OBVIOUS
<1>2. g = [file[n] EXCEPT !.mod = TRUE]
    OBVIOUS
<1> HIDE DEF g
<1>3. ASSUME n \in Names PROVE Later(file[n], g)
  <2>1. IsFile(file[n])
      BY <1>3 DEF Shape
  <2> QED
      BY <1>2, <2>1, FileMod, SameLater
<1> QED
    BY <1>1, <1>3, OneLater

\* A file is closed.
LEMMA ClosedLater ==
  ASSUME Shape, NEW n, file' = [file EXCEPT ![n] = Closed]
  PROVE  FilesLater
    BY FileClosed, OneLater DEF Later

\* The new cluster of a file (Alloc).
LEMMA AllocLater ==
  ASSUME Shape, NEW n, NEW v,
         file' = [file EXCEPT ![n].clust = v, ![n].sclust = IF @ = 0 THEN v ELSE @]
  PROVE  FilesLater
<1> DEFINE f == file[n]
           g == [f EXCEPT !.clust = v]
           w == IF f.sclust = 0 THEN v ELSE f.sclust
           h == [g EXCEPT !.sclust = w]
<1>1. CASE n \in Names
  <2>1. IsFile(f)
      BY <1>1 DEF Shape
  <2>2. file' = [file EXCEPT ![n] = [f EXCEPT !.clust = v, !.sclust = IF @ = 0 THEN v ELSE @]]
      OBVIOUS
  <2>3. g = [f EXCEPT !.clust = v]
      OBVIOUS
  <2>A. h = [g EXCEPT !.sclust = w]
      OBVIOUS
  <2>4. [f EXCEPT !.clust = v, !.sclust = IF @ = 0 THEN v ELSE @] = h
      BY <2>1 DEF IsFile
  <2>5. file' = [file EXCEPT ![n] = h]
      BY <2>2, <2>4
  <2> HIDE DEF f, g, h, w
  <2>6. IsFile(g) /\ g.open = f.open /\ g.gen = f.gen /\ g.size = f.size
      BY <2>1, <2>3, FileCluster
  <2>7. IsFile(h) /\ h.open = f.open /\ h.gen = f.gen /\ h.size = f.size
    <3>1. IsFile(g)
        BY <2>6
    <3>2. IsFile(h) /\ h.open = g.open /\ h.gen = g.gen /\ h.size = g.size
        BY <3>1, <2>A, FileStart
    <3> QED
        BY <2>6, <3>2
  <2>8. Later(f, h)
      BY <2>1, <2>7, SameLater
  <2> QED
      BY <2>5, <2>8, OneLater DEF f
<1>2. CASE n \notin Names
  <2>1. file' = file
      BY <1>2 DEF Shape, IsFcn
  <2> QED
      BY <2>1, NoneLater
<1> QED
    BY <1>1, <1>2

\* A byte (PutByte).
LEMMA ByteLater ==
  ASSUME Shape, NEW n, NEW p \in Int, NEW z \in Int,
         n \in Names => z >= file[n].size,
         file' = [file EXCEPT ![n].fptr = p, ![n].size = z, ![n].mod = TRUE]
  PROVE  FilesLater
<1> DEFINE f == file[n]
           g == [f EXCEPT !.fptr = p]
           h == [g EXCEPT !.size = z]
           k == [h EXCEPT !.mod = TRUE]
<1>1. CASE n \in Names
  <2>1. IsFile(f) /\ z >= f.size
      BY <1>1 DEF Shape
  <2>2. file' = [file EXCEPT ![n] = [f EXCEPT !.fptr = p, !.size = z, !.mod = TRUE]]
      OBVIOUS
  <2>3. g = [f EXCEPT !.fptr = p]
      OBVIOUS
  <2>A. h = [g EXCEPT !.size = z]
      OBVIOUS
  <2>B. k = [h EXCEPT !.mod = TRUE]
      OBVIOUS
  <2>4. [f EXCEPT !.fptr = p, !.size = z, !.mod = TRUE] = k
      OBVIOUS
  <2>5. file' = [file EXCEPT ![n] = k]
      BY <2>2, <2>4
  <2> HIDE DEF f, g, h, k
  <2>6. IsFile(g) /\ g.open = f.open /\ g.gen = f.gen /\ g.size = f.size
      BY <2>1, <2>3, FilePlace
  <2>7. IsFile(h) /\ h.open = f.open /\ h.gen = f.gen /\ h.size = z
    <3>1. IsFile(g)
        BY <2>6
    <3>2. IsFile(h) /\ h.open = g.open /\ h.gen = g.gen /\ h.size = z
        BY <3>1, <2>A, FileSize
    <3> QED
        BY <2>6, <3>2
  <2>8. IsFile(k) /\ k.open = f.open /\ k.gen = f.gen /\ k.size = z
    <3>1. IsFile(h)
        BY <2>7
    <3>2. IsFile(k) /\ k.open = h.open /\ k.gen = h.gen /\ k.size = h.size
        BY <3>1, <2>B, FileMod
    <3> QED
        BY <2>7, <3>2
  <2>9. Later(f, k)
      BY <2>1, <2>8 DEF Later
  <2> QED
      BY <2>5, <2>9, OneLater DEF f
<1>2. CASE n \notin Names
  <2>1. file' = file
      BY <1>2 DEF Shape, IsFcn
  <2> QED
      BY <2>1, NoneLater
<1> QED
    BY <1>1, <1>2

-----------------------------------------------------------------------------
(* The instructions that the calls are made of. *)

\* These say nothing about an entry or a file that is opened.
LEMMA Harmless1 ==
  ASSUME NEW sf, NEW op, NEW x, NEW v, op \notin {"closed", "entry", "opened", "info"}
  PROVE  Harmless(sf, I(op, x, v)) /\ I(op, x, v).op # "info"
    BY DEF Harmless, I

\* One such instruction, as a sequence.
LEMMA BeforeI ==
  ASSUME NEW sf, NEW op, NEW x, NEW v, op \notin {"closed", "entry", "opened", "info"}
  PROVE  Before(sf, <<I(op, x, v)>>)
<1> DEFINE i == I(op, x, v)
<1>1. Harmless(sf, i) /\ i.op # "info"
    BY Harmless1
<1> SUFFICES Before(sf, <<i>>)
    OBVIOUS
<1> HIDE DEF i
<1> QED
    BY <1>1, BeforeOne

\* A sequence has a length.
LEMMA SeqLen ==
  ASSUME NEW s, IsSeq(s)
  PROVE  Len(s) \in Nat
<1>1. PICK S : s \in Seq(S)
    BY DEF IsSeq
<1> QED
    BY <1>1, LenProperties

\* Looks at the sectors of a list of clusters (NewCluster).
LEMMA BeforeLooks ==
  ASSUME NEW sf, NEW s, Len(s) \in Nat
  PROVE  Before(sf, Looks(s))
<1> DEFINE f == Looks(s)
           n == Len(s)
<1>1. IsFcn(f, 1..n)
    BY DEF Looks, IsFcn
<1>2. ASSUME NEW k \in 1..n PROVE Harmless(sf, f[k]) /\ f[k].op # "info"
  <2>1. f[k] = I("look", FatSect(s[k]), 0)
      BY DEF Looks
  <2> QED
      BY <2>1, Harmless1
<1>3. n \in Nat
    OBVIOUS
<1> SUFFICES Before(sf, f)
    OBVIOUS
<1> HIDE DEF f, n
<1> QED
    BY <1>1, <1>2, <1>3, BeforeFcn

\* A chain has so many clusters (remove_chain()).
LEMMA LengthNat ==
  ASSUME NEW f, NEW c
  PROVE  Length(f, c) \in Nat
<1>1. IsFiniteSet(Clusters)
    BY VolumeAssumption, FS_Interval DEF Clusters
<1>2. Chain(f, c) \subseteq Clusters
    BY DEF Chain
<1> QED
    BY <1>1, <1>2, FS_Subset, FS_CardinalityType DEF Length

\* Its clusters are freed.
LEMMA BeforeChain ==
  ASSUME NEW sf, NEW c
  PROVE  Before(sf, RemoveChain(c))
<1> DEFINE f == RemoveChain(c)
           n == Length(fat, c)
<1>1. IsFcn(f, 1..n)
    BY DEF RemoveChain, IsFcn
<1>2. ASSUME NEW k \in 1..n PROVE Harmless(sf, f[k]) /\ f[k].op # "info"
  <2>1. f[k] = I("free", ChainSeq(fat, c)[k], 0)
      BY DEF RemoveChain
  <2> QED
      BY <2>1, Harmless1
<1>3. n \in Nat
    BY LengthNat
<1> SUFFICES Before(sf, f)
    OBVIOUS
<1> HIDE DEF f, n
<1> QED
    BY <1>1, <1>2, <1>3, BeforeFcn

\* The order in which clusters are tried.
LEMMA FromSeq ==
  ASSUME NEW scl
  PROVE  IsSeq(From(scl))
<1> DEFINE n == NFATENT - 2
           f == From(scl)
           S == {f[k] : k \in 1..n}
<1>1. n \in Nat
    BY VolumeAssumption
<1>2. f \in [1..n -> S]
    BY DEF From
<1> SUFFICES IsSeq(f)
    OBVIOUS
<1> HIDE DEF f, n, S
<1> QED
    BY <1>1, <1>2, SeqDef DEF IsSeq

\* Two sequences in a row.
LEMMA ConcatSeq ==
  ASSUME NEW a, NEW b, IsSeq(a), IsSeq(b)
  PROVE  IsSeq(a \o b)
<1>1. PICK A : a \in Seq(A)
    BY DEF IsSeq
<1>2. PICK B : b \in Seq(B)
    BY DEF IsSeq
<1>3. a \in Seq(A \cup B) /\ b \in Seq(A \cup B)
    BY <1>1, <1>2, SeqMonotonic
<1>4. a \o b \in Seq(A \cup B)
    BY <1>3, ConcatProperties
<1> QED
    BY <1>4 DEF IsSeq

\* The search of create_chain() tries a sequence of clusters.
LEMMA SearchSeq ==
  ASSUME NEW clst
  PROVE  IsSeq(SearchOrder(clst))
<1>1. <<After(clst)>> \in Seq({After(clst)})
    OBVIOUS
<1>2. IsSeq(<<After(clst)>>)
    BY <1>1 DEF IsSeq
<1>3. \A scl : IsSeq(<<After(clst)>> \o From(scl))
    BY <1>2, FromSeq, ConcatSeq
<1>4. \A scl : IsSeq(From(scl))
    BY FromSeq
<1> QED
    BY <1>2, <1>3, <1>4 DEF SearchOrder

\* If it finds one it stops at the first.
LEMMA FirstNat ==
  ASSUME NEW s, IsSeq(s), Found(s)
  PROVE  FirstFree(s) \in 1..Len(s) /\ fat[s[FirstFree(s)]] = Free
<1> DEFINE T == {k \in 1..Len(s) : fat[s[k]] = Free}
<1>1. T \subseteq Nat /\ T # {}
    BY SeqLen DEF Found
<1> DEFINE R == {ss \in Nat \X Nat : ss[1] < ss[2]}
<1>2. IsWellFoundedOn(R, Nat)
    BY NatLessThanWellFounded, Zenon DEF OpToRel
<1>A. PICK k \in T : \A j \in T : ~(<<j, k>> \in R)
  <2> HIDE DEF T, R
  <2> QED
      BY <1>1, <1>2, WFMin
<1>3. ASSUME NEW j \in T PROVE j >= k
  <2>1. j \in Nat /\ k \in Nat
      BY <1>1, <1>A
  <2>2. <<j, k>> \notin R
      BY <1>A
  <2> HIDE DEF T
  <2> QED
      BY <2>1, <2>2
<1>4. \A j \in 1..(k - 1) : fat[s[j]] # Free
    BY <1>1, <1>A, <1>3, SeqLen
<1> QED
    BY <1>A, <1>4 DEF FirstFree

\* The clusters before it.
LEMMA SubSeqLen ==
  ASSUME NEW s, IsSeq(s), NEW k \in 1..Len(s)
  PROVE  Len(SubSeq(s, 1, k - 1)) \in Nat
<1>1. PICK S : s \in Seq(S)
    BY DEF IsSeq
<1> QED
    BY <1>1, SubSeqProperties, LenProperties

\* Two instructions (the end of NewCluster).
LEMMA BeforeTwo ==
  ASSUME NEW sf, NEW i, NEW j, Before(sf, <<i>>), Before(sf, <<j>>)
  PROVE  Before(sf, <<i, j>>)
<1>1. \A h : Before(sf, <<h>>) => Harmless(sf, h) /\ h.op # "info"
  <2> TAKE h
  <2>1. Len(<<h>>) = 1 /\ <<h>>[1] = h
      OBVIOUS
  <2> QED
      BY <2>1 DEF Before
<1>2. <<i, j>> \in Seq({i, j}) /\ Len(<<i, j>>) = 2 /\ <<i, j>>[1] = i /\ <<i, j>>[2] = j
    OBVIOUS
<1> DEFINE s == <<i, j>>
<1>3. \A k \in 1..Len(s) : s[k] = i \/ s[k] = j
    BY <1>2
<1> SUFFICES Before(sf, s)
    OBVIOUS
<1> HIDE DEF s
<1> QED
    BY <1>1, <1>2, <1>3 DEF Before, IsSeq, s

\* A new cluster for a file (NewCluster).
LEMMA BeforeNew ==
  ASSUME NEW sf, NEW n, NEW clst
  PROVE  Before(sf, NewCluster(n, clst))
<1> DEFINE s    == SearchOrder(clst)
           ncl  == s[FirstFree(s)]
           a    == IF clst = 0 THEN <<>> ELSE <<I("look", FatSect(clst), 0)>>
           full == <<I("full", n, 0)>>
           all  == Looks(s)
           some == Looks(SubSeq(s, 1, FirstFree(s) - 1))
           p1   == <<I("put", ncl, EOC)>>
           p2   == IF clst = 0 THEN <<>> ELSE <<I("put", clst, ncl)>>
           e    == <<I("alloc", n, ncl), I("byte", n, 0)>>
<1>1. IsSeq(s)
    BY SearchSeq
<1>2. Before(sf, a) /\ Before(sf, full) /\ Before(sf, p1) /\ Before(sf, p2)
    BY BeforeI, BeforeNone
<1>3. Before(sf, e)
    BY BeforeI, BeforeTwo
<1>4. Before(sf, all)
    BY <1>1, SeqLen, BeforeLooks
<1>5. ASSUME Found(s) PROVE Before(sf, some)
    BY <1>1, <1>5, FirstNat, SubSeqLen, BeforeLooks
<1>6. NewCluster(n, clst) =
        a \o (IF free = 0 THEN full ELSE IF ~Found(s) THEN all \o full
              ELSE some \o p1 \o p2 \o e)
    BY DEF NewCluster
<1> HIDE DEF a, full, all, some, p1, p2, e, s, ncl
<1>7. Before(sf, all \o full)
    BY <1>2, <1>4, BeforeConcat
<1>8. ASSUME Found(s) PROVE Before(sf, some \o p1 \o p2 \o e)
  <2>1. Before(sf, some \o p1)
      BY <1>2, <1>5, <1>8, BeforeConcat
  <2>2. Before(sf, some \o p1 \o p2)
      BY <1>2, <2>1, BeforeConcat
  <2> QED
      BY <1>3, <2>2, BeforeConcat
<1> DEFINE b == IF free = 0 THEN full ELSE IF ~Found(s) THEN all \o full
                ELSE some \o p1 \o p2 \o e
<1>9. Before(sf, b)
    BY <1>2, <1>7, <1>8
<1> HIDE DEF b
<1>10. Before(sf, a \o b)
    BY <1>2, <1>9, BeforeConcat
<1> QED
    BY <1>6, <1>10 DEF b

\* An entry is written, no less than was promised.
LEMMA BeforeEntry ==
  ASSUME NEW sf, NEW n \in Names, NEW e, e.size \in Int, Prom(sf, n, e)
  PROVE  Before(sf, <<I("entry", n, e)>>)
<1> DEFINE i == I("entry", n, e)
<1>1. Harmless(sf, i) /\ i.op # "info"
    BY DEF Harmless, I
<1> SUFFICES Before(sf, <<i>>)
    OBVIOUS
<1> HIDE DEF i
<1> QED
    BY <1>1, BeforeOne

\* A file is opened, of an entry that is no less than was promised.
LEMMA BeforeOpening ==
  ASSUME NEW sf, NEW n \in Names, NEW e, e.size \in Int, Prom(sf, n, e),
         NEW fptr \in Int, NEW clust, NEW mod, NEW hole
  PROVE  Before(sf, <<Opening(n, e, fptr, clust, mod, hole)>>)
<1> DEFINE i == Opening(n, e, fptr, clust, mod, hole)
<1>1. /\ i.op = "opened" /\ i.x = n
      /\ i.v.file.size = e.size /\ i.v.file.gen = e.gen
      /\ IsFile(i.v.file)
    BY DEF Opening, I, IsFile
<1> SUFFICES Before(sf, <<i>>)
    OBVIOUS
<1> HIDE DEF i
<1>2. Harmless(sf, i) /\ i.op # "info"
    BY <1>1 DEF Harmless, Prom
<1> QED
    BY <1>2, BeforeOne

-----------------------------------------------------------------------------
(* What the calls leave to do. *)

\* fopen(n, "w").
LEMMA NewTodo ==
  ASSUME Shape, Kept, NEW n \in Names, OpenNew(n)
  PROVE  TodoOK'
<1> DEFINE e   == [clust |-> 0, size |-> 0, gen |-> gens + 1]
           old == dir[n].clust
           a   == <<I("entry", n, e)>>
           b   == IF old = 0 THEN <<>> ELSE RemoveChain(old) \o <<I("look", DirSect, 0)>>
           c   == <<Opening(n, e, 0, 0, TRUE, old)>>
<1>1. e.size \in Int /\ Prom(safe', n, e)
    BY DEF OpenNew, Prom, Shape, IsFcn
<1>2. Before(safe', a) /\ Before(safe', c)
    BY <1>1, BeforeEntry, BeforeOpening
<1>3. Before(safe', b)
  <2>1. Before(safe', RemoveChain(old) \o <<I("look", DirSect, 0)>>)
      BY BeforeChain, BeforeI, BeforeConcat
  <2> QED
      BY <2>1, BeforeNone
<1>4. todo' = a \o b \o c
    BY DEF OpenNew, Call
<1> HIDE DEF a, b, c
<1>5. Before(safe', a \o b \o c)
    BY <1>2, <1>3, BeforeConcat
<1> QED
    BY <1>4, <1>5, BeforePlain DEF TodoOK

\* fopen(n, "r+") and fopen(n, "a").
LEMMA OldTodo ==
  ASSUME Shape, Kept, NEW n \in Names, NEW append, OpenOld(n, append)
  PROVE  TodoOK'
<1> DEFINE e == dir[n]
           k == IF e.size = 0 THEN 0 ELSE (e.size - 1) \div BPC
           m == IF k >= 0 THEN k ELSE 0
           a == <<I("look", DirSect, 0)>>
           b == [j \in 1..k |-> I("look", FatSect(Nth(fat, e.clust, j - 1)), 0)]
           c == <<Opening(n, e, e.size, Nth(fat, e.clust, k), FALSE, 0)>>
           d == <<Opening(n, e, 0, 0, FALSE, 0)>>
<1>1. e.size \in Int /\ Prom(safe', n, e)
    BY DEF OpenOld, Kept, Shape
<1>2. Before(safe', a) /\ Before(safe', c) /\ Before(safe', d)
  <2>1. Before(safe', a)
      BY BeforeI
  <2> HIDE DEF e, k
  <2>2. Before(safe', c)
      BY <1>1, BeforeOpening
  <2>3. Before(safe', d)
      BY <1>1, BeforeOpening, 0 \in Int, Zenon
  <2> QED
      BY <2>1, <2>2, <2>3
<1>3. Before(safe', b)
  <2>1. k \in Int
      BY <1>1, VolumeAssumption
  <2>2. m \in Nat /\ 1..k = 1..m
      BY <2>1
  <2>3. IsFcn(b, 1..m)
      BY <2>2 DEF IsFcn
  <2>4. ASSUME NEW j \in 1..m PROVE Harmless(safe', b[j]) /\ b[j].op # "info"
    <3>1. b[j] = I("look", FatSect(Nth(fat, e.clust, j - 1)), 0)
        BY <2>2
    <3> QED
        BY <3>1, Harmless1
  <2> HIDE DEF b, m
  <2> QED
      BY <2>2, <2>3, <2>4, BeforeFcn
<1>4. todo' = a \o (IF append THEN b \o c ELSE d)
    BY DEF OpenOld, Call
<1> HIDE DEF a, b, c, d
<1>5. Before(safe', b \o c)
    BY <1>2, <1>3, BeforeConcat
<1> DEFINE t == IF append THEN b \o c ELSE d
<1>6. Before(safe', t)
    BY <1>2, <1>5
<1> HIDE DEF t
<1>7. Before(safe', a \o t)
    BY <1>2, <1>6, BeforeConcat
<1> QED
    BY <1>4, <1>7, BeforePlain DEF TodoOK, t

\* fputc().
LEMMA FputcTodo ==
  ASSUME NEW n \in Names, Fputc(n)
  PROVE  TodoOK'
<1> DEFINE f    == file[n]
           edge == f.fptr % BPC = 0
           prev == IF f.fptr = 0 THEN 0 ELSE f.clust
           next == IF f.fptr = 0 THEN f.sclust ELSE fat[f.clust]
           a    == IF prev = 0 THEN <<>> ELSE <<I("look", FatSect(prev), 0)>>
           b    == <<I("byte", n, 0)>>
<1>1. Before(safe', a) /\ Before(safe', b) /\ Before(safe', <<>>)
    BY BeforeI, BeforeNone
<1>2. todo' = b \/ todo' = <<>> \/ todo' = a \o b \/ todo' = NewCluster(n, prev)
    BY DEF Fputc, Call
<1>3. Before(safe', NewCluster(n, prev))
    BY BeforeNew
<1> HIDE DEF a, b, prev
<1>4. Before(safe', a \o b)
    BY <1>1, BeforeConcat
<1>5. Before(safe', todo')
    BY <1>1, <1>2, <1>3, <1>4
<1> QED
    BY <1>5, BeforePlain DEF TodoOK

\* remove().
LEMMA RemoveTodo ==
  ASSUME Shape, NEW n \in Names, Remove(n)
  PROVE  TodoOK'
<1> DEFINE a == <<I("entry", n, NoEntry)>>
           b == IF dir[n].clust = 0 THEN <<>> ELSE RemoveChain(dir[n].clust)
           c == <<I("sync", 0, 0), I("info", 0, 0)>>
<1>1. NoEntry.size \in Int /\ Prom(safe', n, NoEntry)
    BY DEF Remove, Prom, Shape, IsFcn, NoEntry
<1>2. Before(safe', a) /\ Before(safe', b)
    BY <1>1, BeforeEntry, BeforeChain, BeforeNone
<1>3. todo' = a \o b \o c
    BY DEF Remove, Call
<1> HIDE DEF a, b
<1>4. Before(safe', a \o b)
    BY <1>2, BeforeConcat
<1>5. Plain(safe', dirty', (a \o b) \o c)
    BY <1>4, BeforeSync
<1> QED
    BY <1>3, <1>5 DEF TodoOK

\* Three instructions and a fourth.
LEMMA ThreeAndOne ==
  ASSUME NEW p, NEW q, NEW r, NEW u
  PROVE  <<p, q, r>> \o <<u>> = <<p, q, r, u>>
<1> DEFINE S == {p, q, r, u}
           a == <<p, q, r>>
           b == <<u>>
           t == <<p, q, r, u>>
<1>1. a \in Seq(S) /\ b \in Seq(S) /\ t \in Seq(S)
    OBVIOUS
<1>2. /\ Len(a) = 3 /\ Len(b) = 1 /\ Len(t) = 4
      /\ a[1] = p /\ a[2] = q /\ a[3] = r /\ b[1] = u
      /\ t[1] = p /\ t[2] = q /\ t[3] = r /\ t[4] = u
    OBVIOUS
<1> SUFFICES a \o b = t
    OBVIOUS
<1> HIDE DEF S, a, b, t
<1>3. /\ a \o b \in Seq(S) /\ Len(a \o b) = 4
      /\ \A i \in 1..4 : (a \o b)[i] = IF i <= 3 THEN a[i] ELSE b[i - 3]
  <2>1. /\ a \o b \in Seq(S) /\ Len(a \o b) = Len(a) + Len(b)
        /\ \A i \in 1..Len(a) + Len(b) : (a \o b)[i] = IF i <= Len(a) THEN a[i] ELSE b[i - Len(a)]
      BY <1>1, ConcatProperties
  <2> QED
      BY <1>2, <2>1
<1>4. \A i \in 1..4 : (a \o b)[i] = t[i]
  <2>1. 1..4 = {1, 2, 3, 4}
      OBVIOUS
  <2> QED
      BY <1>2, <1>3, <2>1
<1> QED
    BY <1>1, <1>2, <1>3, <1>4, SeqEqual

\* fclose() begins.
LEMMA FcloseTodo ==
  ASSUME NEW n \in Names, Fclose(n)
  PROVE  TodoOK'
<1> DEFINE f == file[n]
           a == <<I("entry", n, EntryOf(f)), I("sync", 0, 0), I("info", 0, 0)>>
           c == <<I("closed", n, 0)>>
<1>1. file' = file /\ f.open
    BY DEF Fclose
<1>2. todo' = (IF f.mod THEN a ELSE <<>>) \o c
    BY DEF Fclose, Call, EntryOf
<1>3. CASE f.mod
  <2>1. todo' = <<I("entry", n, EntryOf(f)), I("sync", 0, 0), I("info", 0, 0), I("closed", n, 0)>>
      BY <1>2, <1>3, ThreeAndOne
  <2> QED
      BY <1>1, <2>1 DEF TodoOK, Closing
<1>4. CASE ~f.mod
  <2>1. todo' = <<I("closed", n, 0)>>
      BY <1>2, <1>4
  <2> QED
      BY <1>1, <1>4, <2>1 DEF TodoOK, Closing
<1> QED
    BY <1>3, <1>4

-----------------------------------------------------------------------------
(* What an instruction leaves to do. *)

\* fclose(), step by step.
LEMMA ClosingSteps ==
  ASSUME NEW n \in Names, Closing(n)
  PROVE  \/ /\ Instr = I("entry", n, EntryOf(file[n]))
            /\ Tail(todo) = <<I("sync", 0, 0), I("info", 0, 0), I("closed", n, 0)>>
         \/ /\ Instr = I("sync", 0, 0)
            /\ Tail(todo) = <<I("info", 0, 0), I("closed", n, 0)>>
            /\ Match(dir[n], file[n])
         \/ /\ Instr = I("info", 0, 0)
            /\ Tail(todo) = <<I("closed", n, 0)>>
            /\ ~dirty /\ Match(dir[n], file[n]) /\ Match(cdir[n], file[n])
         \/ /\ Instr = I("closed", n, 0)
            /\ Tail(todo) = <<>>
            /\ file[n].mod => Match(dir[n], file[n]) /\ Match(cdir[n], file[n])
<1>1. ASSUME NEW a, NEW b, NEW c, NEW d
      PROVE  /\ Head(<<a>>) = a /\ Head(<<a, b>>) = a /\ Head(<<a, b, c>>) = a
             /\ Head(<<a, b, c, d>>) = a
             /\ Tail(<<a>>) = <<>> /\ Tail(<<a, b>>) = <<b>> /\ Tail(<<a, b, c>>) = <<b, c>>
             /\ Tail(<<a, b, c, d>>) = <<b, c, d>>
    OBVIOUS
<1> DEFINE p == I("entry", n, EntryOf(file[n]))
           q == I("sync", 0, 0)
           r == I("info", 0, 0)
           u == I("closed", n, 0)
<1>2. \/ todo = <<p, q, r, u>>
      \/ todo = <<q, r, u>> /\ Match(dir[n], file[n])
      \/ todo = <<r, u>> /\ ~dirty /\ Match(dir[n], file[n]) /\ Match(cdir[n], file[n])
      \/ /\ todo = <<u>>
         /\ file[n].mod => Match(dir[n], file[n]) /\ Match(cdir[n], file[n])
    BY DEF Closing
<1> SUFFICES
      \/ Instr = p /\ Tail(todo) = <<q, r, u>>
      \/ Instr = q /\ Tail(todo) = <<r, u>> /\ Match(dir[n], file[n])
      \/ /\ Instr = r /\ Tail(todo) = <<u>>
         /\ ~dirty /\ Match(dir[n], file[n]) /\ Match(cdir[n], file[n])
      \/ /\ Instr = u /\ Tail(todo) = <<>>
         /\ file[n].mod => Match(dir[n], file[n]) /\ Match(cdir[n], file[n])
    OBVIOUS
<1> HIDE DEF p, q, r, u
<1>3. CASE todo = <<p, q, r, u>>
    BY <1>1, <1>3 DEF Instr
<1>4. CASE todo = <<q, r, u>> /\ Match(dir[n], file[n])
    BY <1>1, <1>4 DEF Instr
<1>5. CASE todo = <<r, u>> /\ ~dirty /\ Match(dir[n], file[n]) /\ Match(cdir[n], file[n])
    BY <1>1, <1>5 DEF Instr
<1>6. CASE todo = <<u>> /\ (file[n].mod => Match(dir[n], file[n]) /\ Match(cdir[n], file[n]))
    BY <1>1, <1>6 DEF Instr
<1> QED
    BY <1>2, <1>3, <1>4, <1>5, <1>6

\* What the instruction at hand may be.
LEMMA Heads ==
  ASSUME Shape, Kept, TodoOK, todo # <<>>
  PROVE  /\ Instr.op = "info" => ~dirty
         /\ Instr.op = "entry" => /\ Instr.x \in Names /\ Instr.v.size \in Int
                                  /\ Prom(safe, Instr.x, Instr.v)
         /\ Instr.op = "opened" => /\ Instr.x \in Names /\ IsFile(Instr.v.file)
                                   /\ Prom(safe, Instr.x, Instr.v.file)
         /\ Instr.op = "closed" =>
              /\ Instr.x \in Names /\ file[Instr.x].open /\ Tail(todo) = <<>>
              /\ file[Instr.x].mod =>
                   Match(dir[Instr.x], file[Instr.x]) /\ Match(cdir[Instr.x], file[Instr.x])
<1>1. CASE Plain(safe, dirty, todo)
  <2>1. Harmless(safe, Instr) /\ (Instr.op = "info" => ~dirty)
    <3>1. Head(todo).op = "sync" => ~FALSE
        OBVIOUS
    <3> QED
        BY <1>1, <3>1, PlainTail DEF Instr
  <2> QED
      BY <2>1 DEF Harmless
<1>2. CASE \E n \in Names : Closing(n)
  <2>1. PICK n \in Names : Closing(n)
      BY <1>2
  <2>2. file[n].open /\ file[n].size \in Int /\ Prom(safe, n, file[n])
      BY <2>1 DEF Closing, Kept, Shape, IsFile
  <2>3. CASE Instr = I("entry", n, EntryOf(file[n]))
    <3>1. Instr.op = "entry" /\ Instr.x = n /\ Instr.v.size = file[n].size
          /\ Instr.v.gen = file[n].gen
        BY <2>3 DEF I, EntryOf
    <3> QED
        BY <2>2, <3>1 DEF Prom
  <2>4. CASE Instr = I("sync", 0, 0)
      BY <2>4 DEF I
  <2>5. CASE Instr = I("info", 0, 0) /\ ~dirty
      BY <2>5 DEF I
  <2>6. CASE /\ Instr = I("closed", n, 0) /\ Tail(todo) = <<>>
             /\ file[n].mod => Match(dir[n], file[n]) /\ Match(cdir[n], file[n])
    <3>1. Instr.op = "closed" /\ Instr.x = n
        BY <2>6 DEF I
    <3> QED
        BY <2>2, <2>6, <3>1
  <2> QED
      BY <2>1, <2>3, <2>4, <2>5, <2>6, ClosingSteps
<1> QED
    BY <1>1, <1>2 DEF TodoOK

\* A call that is not fclose().
LEMMA PlainLeft ==
  ASSUME Plain(safe, dirty, todo), todo # <<>>, todo' = Tail(todo), safe' = safe,
         Instr.op = "sync" => ~dirty'
  PROVE  TodoOK'
<1>1. Plain(safe', dirty', todo')
    BY PlainTail DEF Instr
<1> QED
    BY <1>1 DEF TodoOK

\* These instructions are not of fclose().
LEMMA OtherLeft ==
  ASSUME TodoOK, todo # <<>>, todo' = Tail(todo), safe' = safe,
         Instr.op \notin {"entry", "sync", "info", "closed"}
  PROVE  TodoOK'
<1>1. \A n \in Names : ~Closing(n)
  <2> SUFFICES ASSUME NEW n \in Names, Closing(n) PROVE FALSE
      OBVIOUS
  <2>1. Instr.op \in {"entry", "sync", "info", "closed"}
      BY ClosingSteps DEF I
  <2> QED
      BY <2>1
<1> QED
    BY <1>1, PlainLeft DEF TodoOK

\* Nothing is left.
LEMMA NothingLeft ==
  ASSUME todo' = <<>>
  PROVE  TodoOK'
    BY BeforeNone, BeforePlain DEF TodoOK

\* An instruction that leaves the calls' order as it is.
LEMMA PlainSteps ==
  ASSUME TodoOK, LookAt \/ PutFat \/ FreeFat \/ Alloc \/ PutByte \/ Full \/ Opened
  PROVE  TodoOK'
<1>1. /\ todo # <<>> /\ todo' = Tail(todo) /\ safe' = safe
      /\ Instr.op \in {"look", "put", "free", "alloc", "byte", "full", "opened"}
    BY DEF LookAt, PutFat, FreeFat, Alloc, PutByte, Full, Opened, Doing, Did
<1> QED
    BY <1>1, OtherLeft

\* The entry of a file is written (f_sync()).
LEMMA EntryStep ==
  ASSUME Shape, TodoOK, PutEntry
  PROVE  TodoOK'
<1>1. todo # <<>> /\ Instr.op = "entry" /\ todo' = Tail(todo) /\ safe' = safe /\ file' = file
      /\ dir' = [dir EXCEPT ![Instr.x] = Instr.v]
    BY DEF PutEntry, Doing, Did
<1>2. CASE Plain(safe, dirty, todo)
    BY <1>1, <1>2, PlainLeft
<1>3. ASSUME NEW n \in Names, Closing(n) PROVE TodoOK'
  <2>1. /\ Instr = I("entry", n, EntryOf(file[n]))
        /\ todo' = <<I("sync", 0, 0), I("info", 0, 0), I("closed", n, 0)>>
      BY <1>1, <1>3, ClosingSteps DEF I
  <2>2. Instr.x = n /\ Instr.v.gen = file[n].gen /\ Instr.v.size = file[n].size
      BY <2>1 DEF I, EntryOf
  <2>3. dir'[n] = Instr.v
      BY <1>1, <2>2 DEF Shape, IsFcn
  <2>4. file'[n].open /\ Match(dir'[n], file'[n])
      BY <1>1, <1>3, <2>2, <2>3 DEF Match, Closing
  <2> QED
      BY <2>1, <2>4 DEF Closing, TodoOK
<1> QED
    BY <1>2, <1>3 DEF TodoOK

\* The window is written back (sync_fs()).
LEMMA SyncStep ==
  ASSUME Shape, WindowOnly, TodoOK, Sync
  PROVE  TodoOK'
<1>1. /\ todo # <<>> /\ Instr.op = "sync" /\ todo' = Tail(todo) /\ safe' = safe /\ file' = file
      /\ dir' = dir /\ ~dirty' /\ cdir' = dir
    BY Synced DEF Sync, Doing, Did
<1>2. CASE Plain(safe, dirty, todo)
    BY <1>1, <1>2, PlainLeft
<1>3. ASSUME NEW n \in Names, Closing(n) PROVE TodoOK'
  <2>1. Match(dir[n], file[n]) /\ todo' = <<I("info", 0, 0), I("closed", n, 0)>>
      BY <1>1, <1>3, ClosingSteps DEF I
  <2>2. file'[n].open /\ Match(dir'[n], file'[n]) /\ Match(cdir'[n], file'[n])
      BY <1>1, <1>3, <2>1 DEF Closing
  <2> QED
      BY <1>1, <2>1, <2>2 DEF Closing, TodoOK
<1> QED
    BY <1>2, <1>3 DEF TodoOK

\* FSInfo is written, or not.
LEMMA InfoStep ==
  ASSUME Shape, TodoOK, Info \/ InfoFails
  PROVE  TodoOK'
<1>1. /\ todo # <<>> /\ Instr.op = "info" /\ todo' = Tail(todo) /\ safe' = safe /\ file' = file
      /\ dir' = dir /\ cdir' = cdir
    BY DEF Info, InfoFails, Doing, Did
<1>2. CASE Plain(safe, dirty, todo)
    BY <1>1, <1>2, PlainLeft
<1>3. ASSUME NEW n \in Names, Closing(n) PROVE TodoOK'
  <2>1. /\ Match(dir[n], file[n]) /\ Match(cdir[n], file[n])
        /\ todo' = <<I("closed", n, 0)>>
      BY <1>1, <1>3, ClosingSteps DEF I
  <2>2. file'[n].open /\ Match(dir'[n], file'[n]) /\ Match(cdir'[n], file'[n])
      BY <1>1, <1>3, <2>1 DEF Closing
  <2> QED
      BY <2>1, <2>2 DEF Closing, TodoOK
<1> QED
    BY <1>2, <1>3 DEF TodoOK

\* Whatever the step, what is left to do is as above.
LEMMA TodoNext ==
  ASSUME IInv, Next
  PROVE  TodoOK'
<1> USE DEF IInv
<1>1. CASE LookAt \/ PutFat \/ FreeFat \/ Alloc \/ PutByte \/ Full \/ Opened
    BY <1>1, PlainSteps
<1>2. CASE PutEntry
    BY <1>2, EntryStep
<1>3. CASE Sync
    BY <1>3, SyncStep
<1>4. CASE Info \/ InfoFails
    BY <1>4, InfoStep
<1>5. CASE Ended
  <2>1. todo # <<>> /\ Instr.op = "closed" /\ todo' = Tail(todo)
      BY <1>5 DEF Ended, Doing, Did
  <2>2. Tail(todo) = <<>>
      BY <2>1, Heads
  <2> QED
      BY <2>1, <2>2, NothingLeft
<1>6. CASE WriteFails \/ ReadFails \/ Crash
    BY <1>6, NothingLeft DEF WriteFails, ReadFails, Crash, AbortCall
<1>7. CASE \E n \in Names : OpenNew(n) \/ Fputc(n) \/ Fclose(n) \/ Remove(n)
                            \/ \E append \in BOOLEAN : OpenOld(n, append)
    BY <1>7, NewTodo, FputcTodo, FcloseTodo, RemoveTodo, OldTodo
<1> QED
    BY <1>1, <1>2, <1>3, <1>4, <1>5, <1>6, <1>7 DEF Next, Instruction

-----------------------------------------------------------------------------
(* Memory and card. *)

\* The sector that is changed is in the window (Change).
LEMMA Changed ==
  ASSUME Shape, WindowOnly, NEW s, Change(s), NEW x,
         \/ fat' = [fat EXCEPT ![x] = fat'[x]] /\ s = FatSect(x) /\ UNCHANGED <<dir, data>>
         \/ dir' = [dir EXCEPT ![x] = dir'[x]] /\ s = DirSect /\ UNCHANGED <<fat, data>>
  PROVE  WindowOnly'
<1>1. /\ win' = s /\ dirty'
      /\ \/ s = win /\ UNCHANGED card
         \/ cfat' = fat /\ cdir' = dir /\ cdata' = data
    BY Moved DEF Change
<1>2. ASSUME NEW c \in Clusters, fat'[c] # cfat'[c] PROVE win' = FatSect(c)
  <2>1. (c = x /\ s = FatSect(x)) \/ fat'[c] = fat[c]
      BY DEF Shape, IsFcn
  <2> QED
      BY <1>1, <1>2, <2>1 DEF WindowOnly
<1>3. ASSUME NEW n \in Names, dir'[n] # cdir'[n] PROVE win' = DirSect
  <2>1. s = DirSect \/ dir'[n] = dir[n]
      OBVIOUS
  <2> QED
      BY <1>1, <1>3, <2>1 DEF WindowOnly
<1>4. ASSUME NEW c \in Clusters, data'[c] # cdata'[c] PROVE win' = DataSect(c)
    BY <1>1, <1>4 DEF WindowOnly
<1> QED
    BY <1>1, <1>2, <1>3, <1>4 DEF WindowOnly

\* The byte goes into the window.
LEMMA ByteWindow ==
  ASSUME Shape, WindowOnly, PutByte
  PROVE  WindowOnly' /\ (cdir' = cdir \/ cdir' = dir)
<1> DEFINE x == file[Instr.x].clust
<1>1. /\ win' = DataSect(x) /\ dirty' /\ UNCHANGED <<fat, dir>>
      /\ \/ DataSect(x) = win /\ UNCHANGED card
         \/ cfat' = fat /\ cdir' = dir /\ cdata' = data
  <2>1. /\ dirty' /\ UNCHANGED <<fat, dir>>
        /\ \/ SyncWindow /\ win' = DataSect(x)
           \/ MoveWindow(DataSect(x))
      BY DEF PutByte
  <2>2. CASE SyncWindow /\ win' = DataSect(x)
      BY <2>1, <2>2, Synced
  <2>3. CASE MoveWindow(DataSect(x))
    <3> DEFINE s == DataSect(x)
    <3>1. MoveWindow(s)
        BY <2>3
    <3> SUFFICES /\ win' = s
                 /\ \/ s = win /\ UNCHANGED card
                    \/ cfat' = fat /\ cdir' = dir /\ cdata' = data
        BY <2>1
    <3> HIDE DEF s
    <3> QED
        BY <3>1, Moved
  <2> QED
      BY <2>1, <2>2, <2>3
<1>2. \A c \in Clusters : c # x => data'[c] = data[c]
    BY DEF PutByte, Shape, IsFcn
<1> HIDE DEF x
<1>3. ASSUME NEW c \in Clusters, fat'[c] # cfat'[c] PROVE win' = FatSect(c)
    BY <1>1, <1>3 DEF WindowOnly
<1>4. ASSUME NEW n \in Names, dir'[n] # cdir'[n] PROVE win' = DirSect
    BY <1>1, <1>4 DEF WindowOnly
<1>5. ASSUME NEW c \in Clusters, data'[c] # cdata'[c] PROVE win' = DataSect(c)
    BY <1>1, <1>2, <1>5 DEF WindowOnly
<1> QED
    BY <1>1, <1>3, <1>4, <1>5 DEF WindowOnly

\* Whatever the step, only the window's sector may differ, and an entry on the
\* card is what it was or what memory said it was.
LEMMA WindowNext ==
  ASSUME IInv, Next
  PROVE  WindowOnly' /\ (cdir' = cdir \/ cdir' = dir)
<1> USE DEF IInv
<1>1. CASE LookAt
  <2> DEFINE s == Instr.x
  <2>1. Look(s)
      BY <1>1 DEF LookAt
  <2> HIDE DEF s
  <2> QED
      BY <2>1, Looked, Moved DEF Look
<1>2. CASE PutFat \/ FreeFat
  <2> DEFINE x == Instr.x
             s == FatSect(x)
  <2>1. Change(s) /\ UNCHANGED <<dir, data>>
      BY <1>2 DEF PutFat, FreeFat
  <2>2. fat' = [fat EXCEPT ![x] = fat'[x]]
    <3>1. PICK v : fat' = [fat EXCEPT ![x] = v]
        BY <1>2 DEF PutFat, FreeFat
    <3> HIDE DEF x
    <3> QED
        BY <3>1 DEF Shape, IsFcn
  <2>3. s = FatSect(x)
      OBVIOUS
  <2> HIDE DEF x, s
  <2>4. WindowOnly'
      BY <2>1, <2>2, <2>3, Changed
  <2>5. MoveWindow(s)
      BY <2>1 DEF Change
  <2> QED
      BY <2>4, <2>5, Moved
<1>3. CASE PutEntry
  <2> DEFINE x == Instr.x
             s == DirSect
  <2>1. Change(s) /\ UNCHANGED <<fat, data>>
      BY <1>3 DEF PutEntry
  <2>2. dir' = [dir EXCEPT ![x] = dir'[x]]
    <3>1. PICK v : dir' = [dir EXCEPT ![x] = v]
        BY <1>3 DEF PutEntry
    <3> HIDE DEF x
    <3> QED
        BY <3>1 DEF Shape, IsFcn
  <2>3. s = DirSect
      OBVIOUS
  <2> HIDE DEF x, s
  <2>4. WindowOnly'
      BY <2>1, <2>2, <2>3, Changed
  <2>5. MoveWindow(s)
      BY <2>1 DEF Change
  <2> QED
      BY <2>4, <2>5, Moved
<1>4. CASE PutByte
    BY <1>4, ByteWindow
<1>5. CASE Alloc \/ Full \/ Opened \/ Ended \/ WriteFails
  <2>1. UNCHANGED <<live, card, wind>>
      BY <1>5 DEF Alloc, Full, Opened, Ended, WriteFails, AbortCall
  <2> QED
      BY <2>1 DEF WindowOnly
<1>6. CASE Sync
  <2>1. SyncWindow /\ UNCHANGED live
      BY <1>6 DEF Sync
  <2>2. cfat' = fat' /\ cdir' = dir' /\ cdata' = data' /\ dir' = dir
      BY <2>1, Synced
  <2> QED
      BY <2>2 DEF WindowOnly
<1>7. CASE Info \/ InfoFails
  <2>1. UNCHANGED <<live, card>> /\ todo # <<>> /\ Instr.op = "info"
      BY <1>7 DEF Info, InfoFails, Doing
  <2>2. ~dirty
      BY <2>1, Heads
  <2> QED
      BY <2>1, <2>2 DEF WindowOnly
<1>8. CASE ReadFails
  <2>1. SyncWindow /\ UNCHANGED live
      BY <1>8 DEF ReadFails, AbortCall
  <2>2. cfat' = fat' /\ cdir' = dir' /\ cdata' = data' /\ dir' = dir
      BY <2>1, Synced
  <2> QED
      BY <2>2 DEF WindowOnly
<1>9. CASE Crash
    BY <1>9 DEF Crash, WindowOnly
<1>10. CASE \E n \in Names : OpenNew(n) \/ Fputc(n) \/ Fclose(n) \/ Remove(n)
                             \/ \E append \in BOOLEAN : OpenOld(n, append)
  <2>1. UNCHANGED <<live, card, wind>>
      BY ZenonT(60), <1>10 DEF OpenNew, Fputc, Fclose, Remove, OpenOld, Call
  <2> QED
      BY <2>1 DEF WindowOnly
<1> QED
    BY <1>1, <1>2, <1>3, <1>4, <1>5, <1>6, <1>7, <1>8, <1>9, <1>10 DEF Next, Instruction

-----------------------------------------------------------------------------
(* Sectors, files and promises. *)

\* What a step may make of the FAT and the data.
LEMMA SectorsNext ==
  ASSUME IInv, Next
  PROVE  /\ IsFcn(fat', Clusters) /\ IsFcn(data', Clusters) /\ IsFcn(dir', Names)
         /\ IsFcn(cfat', Clusters) /\ IsFcn(cdata', Clusters) /\ IsFcn(cdir', Names)
<1> USE DEF IInv
<1>1. UNCHANGED card \/ SyncWindow
    BY ZenonT(60) DEF Next, Instruction, LookAt, PutFat, FreeFat, Alloc, PutEntry, PutByte, Full, Sync, Info,
           Opened, Ended, WriteFails, ReadFails, InfoFails, Crash, OpenNew, Fputc, Fclose, Remove,
           OpenOld, Call, Look, Change, MoveWindow
<1>2. fat' = fat \/ fat' = cfat \/ \E x, v : fat' = [fat EXCEPT ![x] = v]
    BY ZenonT(60) DEF Next, Instruction, LookAt, PutFat, FreeFat, Alloc, PutEntry, PutByte, Full, Sync, Info,
           Opened, Ended, WriteFails, ReadFails, InfoFails, Crash, OpenNew, Fputc, Fclose, Remove,
           OpenOld, Call, Look, AbortCall
<1>3. data' = data \/ data' = cdata \/ \E x, v : data' = [data EXCEPT ![x] = v]
    BY ZenonT(60) DEF Next, Instruction, LookAt, PutFat, FreeFat, Alloc, PutEntry, PutByte, Full, Sync, Info,
           Opened, Ended, WriteFails, ReadFails, InfoFails, Crash, OpenNew, Fputc, Fclose, Remove,
           OpenOld, Call, Look, AbortCall
<1>4. dir' = dir \/ dir' = cdir \/ PutEntry
    BY DEF Next, Instruction, LookAt, PutFat, FreeFat, Alloc, PutByte, Full, Sync, Info,
           Opened, Ended, WriteFails, ReadFails, InfoFails, Crash, OpenNew, Fputc, Fclose, Remove,
           OpenOld, Call, Look, AbortCall
<1>5. IsFcn(cfat', Clusters) /\ IsFcn(cdata', Clusters) /\ IsFcn(cdir', Names)
    BY <1>1 DEF SyncWindow, Shape, IsFcn
<1>6. IsFcn(fat', Clusters)
    BY <1>2 DEF Shape, IsFcn
<1>7. IsFcn(data', Clusters)
    BY <1>3 DEF Shape, IsFcn
<1>8. IsFcn(dir', Names)
    BY <1>4 DEF Shape, IsFcn, PutEntry
<1> QED
    BY <1>5, <1>6, <1>7, <1>8

\* An entry that is written is no less than was promised.
LEMMA DirNext ==
  ASSUME IInv, Next, NEW n \in Names
  PROVE  /\ Prom(safe, n, dir'[n]) /\ dir'[n].size \in Int
         /\ Prom(safe, n, cdir'[n]) /\ cdir'[n].size \in Int
<1> USE DEF IInv
<1>1. dir' = dir \/ dir' = cdir \/ PutEntry
    BY ZenonT(60) DEF Next, Instruction, LookAt, PutFat, FreeFat, Alloc, PutByte, Full, Sync, Info,
           Opened, Ended, WriteFails, ReadFails, InfoFails, Crash, OpenNew, Fputc, Fclose, Remove,
           OpenOld, Call, Look, AbortCall
<1>2. /\ Prom(safe, n, dir[n]) /\ dir[n].size \in Int
      /\ Prom(safe, n, cdir[n]) /\ cdir[n].size \in Int
    BY DEF Kept, Shape
<1>3. CASE PutEntry
  <2>1. Instr.v.size \in Int /\ Prom(safe, Instr.x, Instr.v)
      BY <1>3, Heads DEF PutEntry, Doing
  <2>2. dir'[n] = IF n = Instr.x THEN Instr.v ELSE dir[n]
      BY <1>3 DEF PutEntry, Shape, IsFcn
  <2> QED
      BY <1>2, <2>1, <2>2, WindowNext
<1> QED
    BY <1>1, <1>2, <1>3, WindowNext

\* The files that a call in progress changes (PutByte).
LEMMA ByteFiles ==
  ASSUME Shape, PutByte
  PROVE  FilesLater
<1> DEFINE n == Instr.x
           f == file[n]
           p == f.fptr + 1
           z == IF f.fptr + 1 > f.size THEN f.fptr + 1 ELSE f.size
<1>1. file' = [file EXCEPT ![n].fptr = p, ![n].size = z, ![n].mod = TRUE]
    BY DEF PutByte
<1>2. CASE n \in Names
  <2>1. f.size \in Int /\ f.fptr \in Int
      BY <1>2 DEF Shape, IsFile
  <2>2. p \in Int /\ z \in Int /\ z >= file[n].size
      BY <2>1
  <2> HIDE DEF n, p, z
  <2> QED
      BY <1>1, <2>2, ByteLater
<1>3. CASE n \notin Names
  <2>1. file' = file
      BY <1>1, <1>3 DEF Shape, IsFcn
  <2> QED
      BY <2>1, NoneLater
<1> QED
    BY <1>2, <1>3

\* A call that fails (AbortCall).
LEMMA AbortFiles ==
  ASSUME Shape, AbortCall
  PROVE  FilesLater
<1> DEFINE x == todo[Len(todo)].x
<1>1. \/ file' = [file EXCEPT ![x].err = TRUE]
      \/ file' = [file EXCEPT ![x] = Closed]
      \/ file' = file
    BY DEF AbortCall
<1> HIDE DEF x
<1> QED
    BY <1>1, ErrLater, ClosedLater, NoneLater

\* fputc() moves a file on, or finds it broken.
LEMMA FputcFiles ==
  ASSUME Shape, NEW n \in Names, Fputc(n)
  PROVE  FilesLater
<1>1. \/ file' = file
      \/ file' = [file EXCEPT ![n].err = TRUE]
      \/ \E v : file' = [file EXCEPT ![n].clust = v]
    BY DEF Fputc
<1> QED
    BY <1>1, NoneLater, ErrLater, ClusterLater

\* All files are closed.
LEMMA CrashFiles ==
  ASSUME Shape, Crash
  PROVE  FilesLater
<1>1. file' = [n \in Names |-> Closed]
    BY DEF Crash
<1> QED
    BY <1>1, FileClosed DEF FilesLater, IsFcn, Later

\* Whatever the step, an open file has no less than was promised.
LEMMA FileNext ==
  ASSUME IInv, Next
  PROVE  /\ IsFcn(file', Names)
         /\ \A n \in Names : IsFile(file'[n]) /\ (file'[n].open => Prom(safe, n, file'[n]))
<1> USE DEF IInv
<1>1. CASE FilesLater
  <2>1. ASSUME NEW n \in Names, file'[n].open PROVE Prom(safe, n, file'[n])
    <3>1. /\ file[n].open /\ file'[n].gen = file[n].gen /\ file'[n].size >= file[n].size
          /\ file'[n].size \in Int
        BY <1>1, <2>1 DEF FilesLater, Later, IsFile
    <3>2. Prom(safe, n, file[n]) /\ file[n].size \in Int /\ safe[n].size \in Int
        BY <3>1 DEF Kept, Shape, IsFile
    <3> QED
        BY <3>1, <3>2 DEF Prom
  <2> QED
      BY <1>1, <2>1 DEF FilesLater, Later
<1>2. CASE Opened
  <2>1. /\ file' = [file EXCEPT ![Instr.x] = Instr.v.file]
        /\ IsFile(Instr.v.file) /\ Prom(safe, Instr.x, Instr.v.file)
      BY <1>2, Heads DEF Opened, Doing
  <2>2. IsFcn(file', Names)
      BY <2>1 DEF Shape, IsFcn
  <2>3. \A n \in Names : file'[n] = IF n = Instr.x THEN Instr.v.file ELSE file[n]
      BY <2>1 DEF Shape, IsFcn
  <2> QED
      BY <2>1, <2>2, <2>3 DEF Shape, Kept
<1>3. CASE Alloc
  <2> DEFINE n == Instr.x
             v == Instr.v
  <2>1. file' = [file EXCEPT ![n].clust = v, ![n].sclust = IF @ = 0 THEN v ELSE @]
      BY <1>3 DEF Alloc
  <2> HIDE DEF n, v
  <2> QED
      BY <1>1, <2>1, AllocLater
<1>4. CASE Full
    BY <1>1, <1>4, ModLater DEF Full
<1>5. CASE Ended
    BY <1>1, <1>5, ClosedLater DEF Ended
<1>6. CASE PutByte
    BY <1>1, <1>6, ByteFiles
<1>7. CASE WriteFails \/ ReadFails
    BY <1>1, <1>7, AbortFiles DEF WriteFails, ReadFails
<1>8. CASE Crash
    BY <1>1, <1>8, CrashFiles
<1>9. CASE \E n \in Names : Fputc(n)
    BY <1>1, <1>9, FputcFiles
<1>10. CASE LookAt \/ PutFat \/ FreeFat \/ PutEntry \/ Sync \/ Info \/ InfoFails
    BY <1>1, <1>10, NoneLater DEF LookAt, PutFat, FreeFat, PutEntry, Sync, Info, InfoFails
<1>11. CASE \E n \in Names : OpenNew(n) \/ Fclose(n) \/ Remove(n)
                             \/ \E append \in BOOLEAN : OpenOld(n, append)
    BY <1>1, <1>11, NoneLater DEF OpenNew, Fclose, Remove, OpenOld
<1> QED
    BY <1>2, <1>3, <1>4, <1>5, <1>6, <1>7, <1>8, <1>9, <1>10, <1>11 DEF Next, Instruction

\* What is promised after a step: what was, nothing, or what fclose() has just
\* put on the card.
LEMMA SafeNext ==
  ASSUME IInv, Next
  PROVE  /\ IsFcn(safe', Names)
         /\ \A n \in Names :
              \/ safe'[n] = safe[n] \/ safe'[n] = NoPromise
              \/ /\ safe'[n] = [size |-> file[n].size, gen |-> file[n].gen]
                 /\ Match(dir'[n], file[n]) /\ Match(cdir'[n], file[n]) /\ ~file'[n].open
<1> USE DEF IInv
<1>1. CASE safe' = safe
    BY <1>1 DEF Shape
<1>2. CASE \E n \in Names : safe' = [safe EXCEPT ![n] = NoPromise]
    BY <1>2 DEF Shape, IsFcn
<1>3. CASE Ended
  <2> DEFINE x == Instr.x
             v == [size |-> file[x].size, gen |-> file[x].gen]
  <2>1. /\ x \in Names
        /\ file[x].mod => Match(dir[x], file[x]) /\ Match(cdir[x], file[x])
      BY <1>3, Heads DEF Ended, Doing
  <2>2. /\ safe' = IF file[x].mod THEN [safe EXCEPT ![x] = v] ELSE safe
        /\ file' = [file EXCEPT ![x] = Closed] /\ dir' = dir /\ cdir' = cdir
      BY <1>3 DEF Ended
  <2>3. v = [size |-> file[x].size, gen |-> file[x].gen]
      OBVIOUS
  <2> HIDE DEF x, v
  <2>4. IsFcn(safe', Names) /\ \A n \in Names : safe'[n] = safe[n] \/ (n = x /\ file[x].mod /\ safe'[n] = v)
      BY <2>1, <2>2 DEF Shape, IsFcn
  <2>5. ~file'[x].open
      BY <2>1, <2>2, FileClosed DEF Shape, IsFcn
  <2> QED
      BY <2>1, <2>2, <2>3, <2>4, <2>5
<1> QED
    BY <1>1, <1>2, <1>3
       DEF Next, Instruction, LookAt, PutFat, FreeFat, Alloc, PutEntry, PutByte, Full, Sync, Info,
           Opened, WriteFails, ReadFails, InfoFails, Crash, OpenNew, Fputc, Fclose, Remove,
           OpenOld, AbortCall

\* The promises are kept by every step.
LEMMA KeptNext ==
  ASSUME IInv, Next
  PROVE  Shape' /\ Kept'
<1>1. ASSUME NEW n \in Names
      PROVE  /\ safe'[n].size \in Int
             /\ Prom(safe', n, dir'[n]) /\ Prom(safe', n, cdir'[n])
             /\ file'[n].open => Prom(safe', n, file'[n])
  <2>1. CASE safe'[n] = safe[n]
      BY <2>1, DirNext, FileNext DEF Prom, IInv, Shape
  <2>2. CASE safe'[n] = NoPromise
      BY <2>2 DEF Prom, NoPromise
  <2>3. CASE /\ safe'[n] = [size |-> file[n].size, gen |-> file[n].gen]
             /\ Match(dir'[n], file[n]) /\ Match(cdir'[n], file[n]) /\ ~file'[n].open
    <3>1. file[n].size \in Int
        BY DEF IInv, Shape, IsFile
    <3>2. safe'[n].size = file[n].size /\ safe'[n].gen = file[n].gen
        BY <2>3
    <3> QED
        BY <2>3, <3>1, <3>2 DEF Prom, Match
  <2> QED
      BY <2>1, <2>2, <2>3, SafeNext
<1>2. Shape'
    BY <1>1, SectorsNext, DirNext, FileNext, SafeNext DEF Shape
<1>3. Kept'
    BY <1>1 DEF Kept
<1> QED
    BY <1>2, <1>3

-----------------------------------------------------------------------------
(* The theorems. *)

\* An empty volume.
LEMMA InitIInv ==
  ASSUME Init
  PROVE  IInv
<1>1. Shape
  <2>1. \A n \in Names : IsFile(file[n])
      BY FileClosed DEF Init
  <2> QED
      BY <2>1 DEF Init, Shape, IsFcn, NoEntry, NoPromise
<1>2. WindowOnly
    BY DEF Init, WindowOnly
<1>3. Kept
    BY DEF Init, Kept, Prom, Closed
<1>4. TodoOK
    BY BeforeNone, BeforePlain DEF Init, TodoOK
<1> QED
    BY <1>1, <1>2, <1>3, <1>4 DEF IInv

\* Nothing happens.
LEMMA StutterIInv ==
  ASSUME IInv, UNCHANGED vars
  PROVE  IInv'
<1>1. Shape' /\ WindowOnly' /\ Kept'
    BY DEF IInv, vars, Shape, WindowOnly, Kept
<1>2. TodoOK'
    BY DEF IInv, vars, TodoOK, Closing, Plain
<1> QED
    BY <1>1, <1>2 DEF IInv

\* The invariant of the volume: sectors and promises, and what a call in
\* progress has left to do (its order is what the others rest on).
THEOREM InductiveInvariant == Spec => []IInv
<1>1. Init => IInv
    BY InitIInv
<1>2. IInv /\ [Next]_vars => IInv'
  <2> SUFFICES ASSUME IInv, [Next]_vars PROVE IInv'
      OBVIOUS
  <2>1. CASE Next
      BY <2>1, TodoNext, WindowNext, KeptNext DEF IInv
  <2>2. CASE UNCHANGED vars
      BY <2>2, StutterIInv
  <2> QED
      BY <2>1, <2>2
<1> QED
    BY <1>1, <1>2, PTL DEF Spec

\* A crash loses one sector at most (move_window(), sync_window()).
THEOREM WindowOnlyHolds == Spec => []WindowOnly
<1>1. IInv => WindowOnly
    BY DEF IInv
<1> QED
    BY <1>1, InductiveInvariant, PTL

\* What fclose() has reported written stays on the card, whatever fails or
\* crashes later (f_sync(), f_close()).
THEOREM DurableHolds == Spec => []Durable
<1>1. IInv => Durable
    BY DEF IInv, Kept, Prom, Durable
<1> QED
    BY <1>1, InductiveInvariant, PTL

-----------------------------------------------------------------------------
(***************************************************************************)
(* The chains.  The FAT is a linked list in an array, so that the          *)
(* invariant names what the lists are: a sequence of clusters for each     *)
(* file (Good).  What a crash may leave behind depends on what a call has  *)
(* left to do (Plan).                                                      *)
(***************************************************************************)

(* Bytes and clusters. *)

\* Quotient and remainder.
LEMMA DivFacts ==
  ASSUME NEW b \in Nat \ {0}, NEW k \in Nat
  PROVE  /\ k \div b \in Nat /\ k % b \in 0..(b - 1)
         /\ k = b * (k \div b) + (k % b)
    OBVIOUS

\* Fewer bytes, fewer clusters.
LEMMA DivLess ==
  ASSUME NEW b \in Nat \ {0}, NEW k \in Nat, NEW m \in Nat, k < m * b
  PROVE  k \div b < m
    OBVIOUS

\* Within a cluster.
LEMMA DivSame ==
  ASSUME NEW b \in Nat \ {0}, NEW k \in Nat, k % b # 0
  PROVE  (k - 1) \div b = k \div b
    OBVIOUS

\* At the edge of a cluster.
LEMMA DivEdge ==
  ASSUME NEW b \in Nat \ {0}, NEW k \in Nat \ {0}, k % b = 0
  PROVE  (k - 1) \div b = (k \div b) - 1
    OBVIOUS

\* Whole clusters.
LEMMA DivTimes ==
  ASSUME NEW b \in Nat \ {0}, NEW q \in Nat
  PROVE  (q * b) \div b = q /\ (q * b) % b = 0
    OBVIOUS

-----------------------------------------------------------------------------
(* Chains. *)

\* In a FAT, a chain goes through the first m clusters of s and ends there.
Follows(f, s, m) == /\ \A i \in 1..(m - 1) : f[s[i]] = s[i + 1]
                    /\ m > 0 => f[s[m]] = EOC

\* Nth() by an explicit function.
LEMMA NthIs ==
  ASSUME NEW f, NEW c, NEW g, IsFcn(g, 0..NFATENT),
         g[0] = c,
         \A i \in 1..NFATENT : g[i] = IF g[i - 1] \in Clusters THEN f[g[i - 1]] ELSE g[i - 1],
         NEW k \in 0..NFATENT
  PROVE  Nth(f, c, k) = g[k]
<1> DEFINE Eq(h) == h = [i \in 0..NFATENT |->
                          IF i = 0 THEN c
                          ELSE IF h[i - 1] \in Clusters THEN f[h[i - 1]] ELSE h[i - 1]]
           at == CHOOSE h : Eq(h)
<1>1. Nth(f, c, k) = at[k]
    BY DEF Nth
<1>2. Eq(g)
  <2>1. \A i \in 0..NFATENT :
          g[i] = IF i = 0 THEN c
                 ELSE IF g[i - 1] \in Clusters THEN f[g[i - 1]] ELSE g[i - 1]
    <3> TAKE i \in 0..NFATENT
    <3>1. i = 0 \/ i \in 1..NFATENT
        BY VolumeAssumption
    <3> QED
        BY <3>1
  <2> QED
      BY <2>1 DEF IsFcn
<1>3. Eq(at)
  <2> HIDE DEF Eq
  <2> QED
      BY <1>2, Zenon
<1>4. /\ at[0] = c
      /\ \A i \in 1..NFATENT : at[i] = IF at[i - 1] \in Clusters THEN f[at[i - 1]] ELSE at[i - 1]
  <2> HIDE DEF at
  <2>1. 0 \in 0..NFATENT /\ \A i \in 1..NFATENT : i \in 0..NFATENT /\ i # 0
      BY VolumeAssumption
  <2> QED
      BY <1>3, <2>1
<1> HIDE DEF at, Eq
<1> DEFINE Bad == {i \in 0..NFATENT : at[i] # g[i]}
           R   == {ss \in Nat \X Nat : ss[1] < ss[2]}
<1>5. SUFFICES ASSUME Bad # {} PROVE FALSE
    BY <1>1
<1>6. PICK i \in Bad : \A j \in Bad : ~(<<j, i>> \in R)
  <2>1. IsWellFoundedOn(R, Nat)
      BY NatLessThanWellFounded, Zenon DEF OpToRel
  <2>2. Bad \subseteq Nat
      BY VolumeAssumption
  <2> HIDE DEF Bad, R
  <2> QED
      BY <1>5, <2>1, <2>2, WFMin
<1>7. i # 0 /\ i \in 1..NFATENT /\ i - 1 \in 0..NFATENT
    BY <1>4, VolumeAssumption
<1>8. i - 1 \notin Bad
  <2>1. <<i - 1, i>> \in R
      BY <1>7, VolumeAssumption
  <2> HIDE DEF Bad, R
  <2> QED
      BY <1>6, <2>1
<1>9. at[i - 1] = g[i - 1]
    BY <1>7, <1>8
<1> QED
    BY <1>4, <1>7, <1>9

\* A chain that follows s, cluster by cluster.
LEMMA NthFollows ==
  ASSUME NEW f, NEW s \in Seq(Clusters), Len(s) < NFATENT, NEW m \in 1..Len(s), Follows(f, s, m)
  PROVE  \A k \in 0..NFATENT : Nth(f, s[1], k) = IF k < m THEN s[k + 1] ELSE EOC
<1> DEFINE g == [k \in 0..NFATENT |-> IF k < m THEN s[k + 1] ELSE EOC]
<1>1. Len(s) \in Nat /\ \A i \in 1..Len(s) : s[i] \in Clusters
    BY LenProperties, ElementOfSeq
<1>2. EOC \notin Clusters
    BY VolumeAssumption DEF EOC, Clusters
<1>3. g[0] = s[1]
    BY VolumeAssumption
<1>4. \A i \in 1..NFATENT : g[i] = IF g[i - 1] \in Clusters THEN f[g[i - 1]] ELSE g[i - 1]
  <2> TAKE i \in 1..NFATENT
  <2>1. i \in 0..NFATENT /\ i - 1 \in 0..NFATENT
      BY VolumeAssumption
  <2>2. CASE i < m
    <3>1. g[i - 1] = s[i] /\ g[i] = s[i + 1] /\ i \in 1..(m - 1) /\ i \in 1..Len(s)
        BY <1>1, <2>1, <2>2
    <3> QED
        BY <1>1, <3>1 DEF Follows
  <2>3. CASE i = m
    <3>1. g[i - 1] = s[m] /\ g[i] = EOC
        BY <1>1, <2>1, <2>3
    <3> QED
        BY <1>1, <2>3, <3>1 DEF Follows
  <2>4. CASE i > m
    <3>1. g[i - 1] = EOC /\ g[i] = EOC
        BY <1>1, <2>1, <2>4
    <3> QED
        BY <1>2, <3>1
  <2> QED
      BY <1>1, <2>2, <2>3, <2>4
<1>5. IsFcn(g, 0..NFATENT)
    BY DEF IsFcn
<1>6. \A k \in 0..NFATENT : g[k] = IF k < m THEN s[k + 1] ELSE EOC
    OBVIOUS
<1> HIDE DEF g
<1>7. ASSUME NEW k \in 0..NFATENT PROVE Nth(f, s[1], k) = g[k]
    BY <1>3, <1>4, <1>5, NthIs
<1> QED
    BY <1>6, <1>7

\* No chain.
LEMMA NthNone ==
  ASSUME NEW f, NEW c, c \notin Clusters
  PROVE  \A k \in 0..NFATENT : Nth(f, c, k) = c
<1> DEFINE g == [k \in 0..NFATENT |-> c]
<1>1. IsFcn(g, 0..NFATENT) /\ g[0] = c
    BY VolumeAssumption DEF IsFcn
<1>2. \A i \in 1..NFATENT : g[i] = IF g[i - 1] \in Clusters THEN f[g[i - 1]] ELSE g[i - 1]
    BY VolumeAssumption
<1>3. \A k \in 0..NFATENT : g[k] = c
    OBVIOUS
<1> HIDE DEF g
<1>4. ASSUME NEW k \in 0..NFATENT PROVE Nth(f, c, k) = g[k]
    BY <1>1, <1>2, NthIs
<1> QED
    BY <1>3, <1>4

(***************************************************************************)
(* The chains of the files, as sequences ch[n] of clusters.                *)
(***************************************************************************)
Entry    == [clust : {0} \cup Clusters, size : 0..MAXSIZE, gen : 0..MAXGEN]
Content  == [gen : 0..MAXGEN, n : 0..BPC]
FileType == [open : BOOLEAN, sclust : {0} \cup Clusters, size : 0..MAXSIZE, fptr : 0..MAXSIZE,
             clust : {0} \cup Clusters, mod : BOOLEAN, err : BOOLEAN, gen : 0..MAXGEN]
Sects    == {DirSect} \cup {FatSect(c) : c \in Clusters}

Rng(s) == {s[i] : i \in 1..Len(s)}
Apart(ch) == \A a, b \in Names : \A i \in 1..Len(ch[a]), j \in 1..Len(ch[b]) :
               ch[a][i] = ch[b][j] => a = b /\ i = j
Unused(ch) == {c \in Clusters : \A n \in Names : c \notin Rng(ch[n])}

\* The bytes that an entry counts are the file's own.
Filled(d, e, s) == \A k \in 0..(e.size - 1) :
                     /\ d[s[(k \div BPC) + 1]].gen = e.gen
                     /\ k % BPC < d[s[(k \div BPC) + 1]].n

\* An entry, with the first m clusters of s as its chain.
Image(f, d, e, s, m) ==
  IF e.clust = 0 THEN e.size = 0
  ELSE /\ m > 0 /\ e.clust = s[1] /\ e.size <= m * BPC
       /\ Follows(f, s, m) /\ Filled(d, e, s)

\* A byte is in one of the clusters.
LEMMA ByteIn ==
  ASSUME NEW z \in Nat, NEW m \in Nat, z <= m * BPC, NEW k \in 0..(z - 1)
  PROVE  (k \div BPC) + 1 \in 1..m
<1>1. BPC \in Nat \ {0} /\ k \in Nat
    BY VolumeAssumption
<1>2. m * BPC \in Int
    BY <1>1
<1>3. k < m * BPC
    BY <1>1, <1>2
<1>4. k \div BPC < m /\ k \div BPC \in Nat
    BY <1>1, <1>3, DivLess, DivFacts
<1> QED
    BY <1>4

\* A chain may grow behind what the entry knows of it, and clusters that are not in it may change.
LEMMA ImageKept ==
  ASSUME NEW s \in Seq(Clusters), NEW t \in Seq(Clusters), NEW m \in 0..Len(s),
         \A i \in 1..m : t[i] = s[i],
         NEW f, NEW g, \A i \in 1..m : g[s[i]] = f[s[i]],
         NEW d, NEW h, \A i \in 1..m : h[s[i]] = d[s[i]],
         NEW e \in Entry, Image(f, d, e, s, m)
  PROVE  Image(g, h, e, t, m)
<1>1. e.size \in Nat /\ Len(s) \in Nat /\ m \in Nat
    BY LenProperties, VolumeAssumption DEF Entry
<1>2. CASE e.clust = 0
    BY <1>2 DEF Image
<1>3. CASE e.clust # 0
  <2>1. m > 0 /\ e.clust = s[1] /\ e.size <= m * BPC /\ Follows(f, s, m) /\ Filled(d, e, s)
      BY <1>3 DEF Image
  <2>2. e.clust = t[1]
      BY <1>1, <2>1
  <2>3. Follows(g, t, m)
    <3>1. \A i \in 1..(m - 1) : i \in 1..m /\ i + 1 \in 1..m
        BY <1>1
    <3>2. m \in 1..m
        BY <1>1, <2>1
    <3> QED
        BY <2>1, <3>1, <3>2 DEF Follows
  <2>4. Filled(h, e, t)
    <3>1. \A k \in 0..(e.size - 1) : (k \div BPC) + 1 \in 1..m
        BY <1>1, <2>1, ByteIn
    <3> QED
        BY <2>1, <3>1 DEF Filled
  <2> QED
      BY <1>3, <2>1, <2>2, <2>3, <2>4 DEF Image
<1> QED
    BY <1>2, <1>3

\* There are no more clusters in a chain than there are.
LEMMA ChainShort ==
  ASSUME NEW s \in Seq(Clusters), \A i, j \in 1..Len(s) : s[i] = s[j] => i = j
  PROVE  Len(s) \in Nat /\ Len(s) < NFATENT
<1>1. Len(s) \in Nat /\ s \in [1..Len(s) -> Clusters]
    BY LenProperties
<1>2. IsFiniteSet(Clusters) /\ Cardinality(Clusters) = NFATENT - 2
    BY VolumeAssumption, FS_Interval DEF Clusters
<1>3. IsFiniteSet(1..Len(s)) /\ Cardinality(1..Len(s)) = Len(s)
  <2>1. /\ IsFiniteSet(1..Len(s))
        /\ Cardinality(1..Len(s)) = IF 1 > Len(s) THEN 0 ELSE Len(s) - 1 + 1
      BY <1>1, FS_Interval
  <2> QED
      BY <1>1, <2>1
<1>4. s \in Injection(1..Len(s), Clusters)
    BY <1>1 DEF Injection, IsInjective
<1>5. Cardinality(1..Len(s)) <= Cardinality(Clusters)
    BY <1>2, <1>4, FS_Injection
<1> QED
    BY <1>1, <1>2, <1>3, <1>5, VolumeAssumption

-----------------------------------------------------------------------------
(* Sequences of instructions. *)

\* What comes first of two sequences.
LEMMA FirstOf ==
  ASSUME NEW r, NEW t, IsSeq(r), IsSeq(t)
  PROVE  /\ r = <<>> => r \o t = t
         /\ r # <<>> => /\ r \o t # <<>> /\ Head(r \o t) = r[1] /\ 1 \in 1..Len(r)
                        /\ Tail(r \o t) = Tail(r) \o t
                        /\ IsSeq(Tail(r)) /\ Len(Tail(r)) = Len(r) - 1
                        /\ \A k \in 1..Len(Tail(r)) : k + 1 \in 1..Len(r) /\ Tail(r)[k] = r[k + 1]
<1>1. PICK A : r \in Seq(A)
    BY DEF IsSeq
<1>2. PICK B : t \in Seq(B)
    BY DEF IsSeq
<1> DEFINE S == A \cup B
<1>3. r \in Seq(S) /\ t \in Seq(S)
    BY <1>1, <1>2, SeqMonotonic
<1> HIDE DEF S
<1>4. CASE r = <<>>
    BY <1>3, <1>4, ConcatEmptySeq
<1>5. CASE r # <<>>
  <2>1. /\ Len(r) \in Nat /\ Len(r) # 0 /\ Len(t) \in Nat
      BY <1>3, <1>5, LenProperties, EmptySeq
  <2> DEFINE u == Tail(r)
             v == Tail(r) \o t
             w == r \o t
  <2>2. u \in Seq(S) /\ Len(u) = Len(r) - 1 /\ \A k \in 1..Len(u) : u[k] = r[k + 1]
      BY <1>3, <1>5, HeadTailProperties
  <2>3. /\ w \in Seq(S) /\ Len(w) = Len(r) + Len(t)
        /\ \A i \in 1..Len(r) + Len(t) : w[i] = IF i <= Len(r) THEN r[i] ELSE t[i - Len(r)]
      BY <1>3, ConcatProperties
  <2>4. w # <<>> /\ Head(w) = w[1]
      BY <2>1, <2>3, EmptySeq, HeadTailProperties
  <2>5. /\ Tail(w) \in Seq(S) /\ Len(Tail(w)) = Len(r) + Len(t) - 1
        /\ \A i \in 1..Len(Tail(w)) : Tail(w)[i] = w[i + 1]
      BY <2>1, <2>3, <2>4, HeadTailProperties
  <2> HIDE DEF u
  <2>6. /\ u \o t \in Seq(S) /\ Len(u \o t) = Len(u) + Len(t)
        /\ \A i \in 1..Len(u) + Len(t) : (u \o t)[i] = IF i <= Len(u) THEN u[i] ELSE t[i - Len(u)]
      BY <1>3, <2>2, ConcatProperties
  <2> DEFINE p == Tail(w)
             q == u \o t
  <2>7. p = q
    <3>1. p \in Seq(S) /\ q \in Seq(S) /\ Len(p) = Len(q) /\ Len(p) = Len(r) + Len(t) - 1
        BY <2>1, <2>2, <2>5, <2>6
    <3>2. ASSUME NEW i \in 1..Len(p) PROVE p[i] = q[i]
      <4>1. i \in 1..Len(Tail(w)) /\ i \in 1..Len(u) + Len(t) /\ i + 1 \in 1..Len(r) + Len(t)
          BY <2>1, <2>2, <3>1, <3>2, <2>5
      <4>2. p[i] = w[i + 1]
          BY <2>5, <4>1
      <4>3. CASE i <= Len(u)
          BY <2>1, <2>2, <2>3, <2>6, <4>1, <4>2, <4>3
      <4>4. CASE i > Len(u)
          BY <2>1, <2>2, <2>3, <2>6, <4>1, <4>2, <4>4
      <4> QED
          BY <2>1, <2>2, <4>1, <4>3, <4>4
    <3> HIDE DEF p, q
    <3> QED
        BY <3>1, <3>2, SeqEqual
  <2>8. w[1] = r[1]
      BY <2>1, <2>3
  <2> QED
      BY <1>5, <2>1, <2>2, <2>4, <2>7, <2>8 DEF IsSeq, u
<1> QED
    BY <1>4, <1>5

\* And what comes last.
LEMMA LastOf ==
  ASSUME NEW r, NEW t, IsSeq(r), IsSeq(t), t # <<>>
  PROVE  r \o t # <<>> /\ (r \o t)[Len(r \o t)] = t[Len(t)] /\ IsSeq(r \o t)
<1>1. PICK A : r \in Seq(A)
    BY DEF IsSeq
<1>2. PICK B : t \in Seq(B)
    BY DEF IsSeq
<1> DEFINE S == A \cup B
<1>3. r \in Seq(S) /\ t \in Seq(S)
    BY <1>1, <1>2, SeqMonotonic
<1> HIDE DEF S
<1> DEFINE w == r \o t
<1>4. /\ w \in Seq(S) /\ Len(w) = Len(r) + Len(t)
      /\ \A i \in 1..Len(r) + Len(t) : w[i] = IF i <= Len(r) THEN r[i] ELSE t[i - Len(r)]
    BY <1>3, ConcatProperties
<1>5. Len(r) \in Nat /\ Len(t) \in Nat /\ Len(t) # 0
    BY <1>3, LenProperties, EmptySeq
<1> HIDE DEF w
<1>6. w # <<>> /\ w[Len(w)] = t[Len(t)]
    BY <1>4, <1>5, EmptySeq
<1> QED
    BY <1>4, <1>6 DEF w, IsSeq

-----------------------------------------------------------------------------
(***************************************************************************)
(* What a call has left to do, and what it rests on.                       *)
(***************************************************************************)
AllLooks(r) == IsSeq(r) /\ \A k \in 1..Len(r) : r[k].op = "look" /\ r[k].x \in Sects
Ending(q)   == IsSeq(q) /\ \A k \in 1..Len(q) : q[k].op \in {"sync", "info", "full", "closed"}
Frees(r, S) == IsSeq(r) /\ \A k \in 1..Len(r) : r[k].op = "free" /\ r[k].x \in S

\* An open file is in the cluster of the byte before its place.
PosOK(f, s) ==
  f.open /\ ~f.err /\ f.fptr > 0 => f.clust = s[((f.fptr - 1) \div BPC) + 1]
Positions(fl, ch, X) == \A m \in Names \ X : PosOK(fl[m], ch[m])

\* A file that is opened, of an entry.
Agrees(f, e) ==
  /\ f.open /\ f.sclust = e.clust /\ f.size = e.size /\ f.fptr <= f.size
  /\ e.clust # 0 => f.gen = e.gen
OpenI(n, f, h) == I("opened", n, [file |-> f, hole |-> h])
Opens(n, e, s, q) ==
  \E f \in FileType, h \in {0} \cup Clusters :
    q = <<OpenI(n, f, h)>> /\ Agrees(f, e) /\ PosOK(f, s)

\* A chain in S is freed, and the call ends, or a file without clusters is opened.
Rest(n, q) ==
  \/ Ending(q)
  \/ Opens(n, NoEntry, <<>>, q)
  \/ \E p : q = <<I("look", DirSect, 0)>> \o p /\ Opens(n, NoEntry, <<>>, p)
Freeing(n, u, S) == \E r, q : u = r \o q /\ Frees(r, S) /\ Rest(n, q)

\* fputc() before its last instructions: the byte; the cluster c is the file's;
\* c is linked to the last one; it is the end of the chain, the first or the next.
Writing(f)   == f.open /\ ~f.err /\ f.fptr < MAXSIZE
Placed(f, s) == /\ f.sclust # 0 /\ f.fptr \div BPC < Len(s)
                /\ f.clust = s[(f.fptr \div BPC) + 1]
Last(s)      == s[Len(s)]
Grown(f, s, c) == /\ Len(s) > 0 /\ c = Last(s) /\ f.fptr = (Len(s) - 1) * BPC
                  /\ f.sclust = 0 => Len(s) = 1
Growing(f, s)  == Len(s) > 0 /\ f.fptr = Len(s) * BPC /\ f.sclust # 0
First(f)       == f.fptr = 0 /\ f.sclust = 0

ByteI(n)     == I("byte", n, 0)
ToAlloc(n, c)   == <<I("alloc", n, c), ByteI(n)>>
ToLink(n, p, c) == <<I("put", p, c), I("alloc", n, c), ByteI(n)>>
ToFirst(n, c)   == <<I("put", c, EOC), I("alloc", n, c), ByteI(n)>>
ToNext(n, p, c) == <<I("put", c, EOC), I("put", p, c), I("alloc", n, c), ByteI(n)>>

\* free_clst counts the free clusters, and k more.
FreeSet(f) == {c \in Clusters : f[c] = Free}
Counted(f, fr, st, k) == ~st => fr >= Cardinality(FreeSet(f)) + k

Left(ch, t) ==
  \/ Positions(file, ch, {}) /\ Ending(t)
  \/ \E n \in Names :
       /\ Positions(file, ch, {})
       /\ \/ /\ file[n].open
             /\ \E q : t = <<I("entry", n, EntryOf(file[n]))>> \o q /\ Ending(q)
          \/ /\ ~file[n].open
             /\ \E e \in Entry : \E u : /\ t = <<I("entry", n, e)>> \o u
                                      /\ e.clust = 0 /\ e.size = 0
                                      /\ Freeing(n, u, Rng(ch[n]))
          \/ /\ ~file[n].open /\ dir[n].clust = 0 /\ dir[n].size = 0
             /\ \E S \in {Rng(ch[n]), Unused(ch)} : Freeing(n, t, S)
          \/ ~file[n].open /\ Opens(n, dir[n], ch[n], t)
  \/ \E n \in Names :
       /\ Positions(file, ch, {n}) /\ Writing(file[n])
       /\ \/ t = <<ByteI(n)>> /\ Placed(file[n], ch[n])
          \/ /\ free > 0
             /\ \E c \in Clusters :
                  \/ /\ t = ToAlloc(n, c) /\ Grown(file[n], ch[n], c)
                     /\ Counted(fat, free, stale, 1)
                  \/ /\ t = ToLink(n, Last(ch[n]), c) /\ Growing(file[n], ch[n])
                     /\ fat[c] = EOC /\ c \in Unused(ch) /\ Counted(fat, free, stale, 1)
                  \/ t = ToFirst(n, c) /\ First(file[n]) /\ fat[c] = Free
                  \/ /\ t = ToNext(n, Last(ch[n]), c) /\ Growing(file[n], ch[n])
                     /\ fat[c] = Free

Plan(ch, s) == \E r, t : s = r \o t /\ AllLooks(r) /\ IsSeq(t) /\ Left(ch, t)

\* The instructions that an entry is written with, a chain freed, a file opened.
Removing(ch, n, i, s) ==
  \/ file[n].open /\ i = I("entry", n, EntryOf(file[n])) /\ Ending(s)
  \/ /\ ~file[n].open
     /\ \E e \in Entry : /\ i = I("entry", n, e) /\ e.clust = 0 /\ e.size = 0
                         /\ Freeing(n, s, Rng(ch[n]))
  \/ /\ ~file[n].open /\ dir[n].clust = 0 /\ dir[n].size = 0 /\ i.op = "free"
     /\ \E S \in {Rng(ch[n]), Unused(ch)} : i.x \in S /\ Freeing(n, s, S)
  \/ /\ ~file[n].open /\ s = <<>>
     /\ \E f \in FileType, h \in {0} \cup Clusters :
          i = OpenI(n, f, h) /\ Agrees(f, dir[n]) /\ PosOK(f, ch[n])

\* The instructions of fputc().
Putting(ch, n, i, s) ==
  \/ i = ByteI(n) /\ s = <<>> /\ Placed(file[n], ch[n])
  \/ /\ free > 0
     /\ \E c \in Clusters :
          \/ /\ i = I("alloc", n, c) /\ s = <<ByteI(n)>>
             /\ Grown(file[n], ch[n], c) /\ Counted(fat, free, stale, 1)
          \/ /\ i = I("put", Last(ch[n]), c) /\ s = ToAlloc(n, c)
             /\ Growing(file[n], ch[n])
             /\ fat[c] = EOC /\ c \in Unused(ch) /\ Counted(fat, free, stale, 1)
          \/ /\ i = I("put", c, EOC) /\ s = ToAlloc(n, c)
             /\ First(file[n]) /\ fat[c] = Free
          \/ /\ i = I("put", c, EOC) /\ s = ToLink(n, Last(ch[n]), c)
             /\ Growing(file[n], ch[n]) /\ fat[c] = Free

\* The instruction at hand, and what is left after it.
Now(ch, i, s) ==
  \/ i.op = "look" /\ i.x \in Sects /\ Plan(ch, s)
  \/ /\ i.op \in {"sync", "info", "full", "closed"} /\ Ending(s)
     /\ Positions(file, ch, {})
  \/ \E n \in Names : Positions(file, ch, {}) /\ Removing(ch, n, i, s)
  \/ \E n \in Names : /\ Positions(file, ch, {n}) /\ Writing(file[n])
                      /\ Putting(ch, n, i, s)

\* One instruction before others.
LEMMA ConsOf ==
  ASSUME NEW i, NEW q, IsSeq(q)
  PROVE  /\ IsSeq(<<i>> \o q) /\ <<i>> \o q # <<>>
         /\ Head(<<i>> \o q) = i /\ Tail(<<i>> \o q) = q
<1> DEFINE r == <<i>>
<1>0. r \in Seq({i}) /\ r # <<>> /\ r[1] = i /\ Tail(r) = <<>>
    OBVIOUS
<1>1. IsSeq(r)
    BY <1>0 DEF IsSeq
<1>2. IsSeq(<<>>)
    BY EmptySeq DEF IsSeq
<1> SUFFICES /\ IsSeq(r \o q) /\ r \o q # <<>>
             /\ Head(r \o q) = i /\ Tail(r \o q) = q
    OBVIOUS
<1> HIDE DEF r
<1>3. r \o q # <<>> /\ Head(r \o q) = i /\ Tail(r \o q) = <<>> \o q
    BY <1>0, <1>1, FirstOf
<1>4. <<>> \o q = q
    BY <1>2, FirstOf
<1>5. IsSeq(r \o q)
    BY <1>1, ConcatSeq
<1> QED
    BY <1>3, <1>4, <1>5

\* The first of some instructions of a kind, and the others.
LEMMA FirstSeq ==
  ASSUME NEW q, IsSeq(q), q # <<>>
  PROVE  /\ 1 \in 1..Len(q) /\ Head(q) = q[1] /\ IsSeq(Tail(q))
         /\ \A k \in 1..Len(Tail(q)) : k + 1 \in 1..Len(q) /\ Tail(q)[k] = q[k + 1]
<1>1. PICK S : q \in Seq(S)
    BY DEF IsSeq
<1>2. Len(q) \in Nat /\ Len(q) # 0
    BY <1>1, LenProperties, EmptySeq
<1>3. /\ Tail(q) \in Seq(S) /\ Len(Tail(q)) = Len(q) - 1 /\ Head(q) = q[1]
      /\ \A k \in 1..Len(Tail(q)) : Tail(q)[k] = q[k + 1]
    BY <1>1, HeadTailProperties
<1> QED
    BY <1>2, <1>3 DEF IsSeq

\* The first instruction of an end.
LEMMA EndingFirst ==
  ASSUME NEW q, Ending(q), q # <<>>
  PROVE  Head(q).op \in {"sync", "info", "full", "closed"} /\ Ending(Tail(q))
    BY FirstSeq DEF Ending

\* The explicit ends of fputc().
LEMMA TailsOf ==
  ASSUME NEW a, NEW b, NEW c, NEW d
  PROVE  /\ Head(<<a>>) = a /\ Tail(<<a>>) = <<>> /\ IsSeq(<<a>>) /\ <<a>> # <<>>
         /\ Head(<<a, b>>) = a /\ Tail(<<a, b>>) = <<b>> /\ IsSeq(<<a, b>>)
         /\ Head(<<a, b, c>>) = a /\ Tail(<<a, b, c>>) = <<b, c>> /\ IsSeq(<<a, b, c>>)
         /\ Head(<<a, b, c, d>>) = a /\ Tail(<<a, b, c, d>>) = <<b, c, d>>
         /\ IsSeq(<<a, b, c, d>>) /\ IsSeq(<<>>)
<1>1. <<a>> \in Seq({a, b, c, d}) /\ <<a, b>> \in Seq({a, b, c, d})
    OBVIOUS
<1>2. <<a, b, c>> \in Seq({a, b, c, d}) /\ <<a, b, c, d>> \in Seq({a, b, c, d})
    OBVIOUS
<1>3. <<>> \in Seq({a, b, c, d})
    OBVIOUS
<1>4. /\ IsSeq(<<a>>) /\ IsSeq(<<a, b>>) /\ IsSeq(<<a, b, c>>) /\ IsSeq(<<a, b, c, d>>)
      /\ IsSeq(<<>>)
    BY <1>1, <1>2, <1>3, Zenon DEF IsSeq
<1>5. /\ Head(<<a>>) = a /\ Tail(<<a>>) = <<>> /\ <<a>> # <<>>
      /\ Head(<<a, b>>) = a /\ Tail(<<a, b>>) = <<b>>
      /\ Head(<<a, b, c>>) = a /\ Tail(<<a, b, c>>) = <<b, c>>
      /\ Head(<<a, b, c, d>>) = a /\ Tail(<<a, b, c, d>>) = <<b, c, d>>
    OBVIOUS
<1> QED
    BY <1>4, <1>5

\* What is left while a chain is freed: one cluster more, or what comes then.
LEMMA FreeingFirst ==
  ASSUME NEW n, NEW u, NEW S, Freeing(n, u, S), u # <<>>
  PROVE  \/ Head(u).op = "free" /\ Head(u).x \in S /\ Freeing(n, Tail(u), S)
         \/ Ending(u)
         \/ Opens(n, NoEntry, <<>>, u)
         \/ /\ Head(u) = I("look", DirSect, 0)
            /\ Opens(n, NoEntry, <<>>, Tail(u))
<1>1. PICK r, q : u = r \o q /\ Frees(r, S) /\ Rest(n, q)
    BY DEF Freeing
<1>2. IsSeq(r) /\ IsSeq(q)
  <2>1. \A p : Opens(n, NoEntry, <<>>, p) => IsSeq(p)
      BY TailsOf DEF Opens
  <2>2. \A i, p : IsSeq(p) => IsSeq(<<i>> \o p)
      BY ConsOf
  <2> QED
      BY <1>1, <2>1, <2>2 DEF Frees, Rest, Ending
<1>3. CASE r # <<>>
  <2>1. /\ Head(u) = r[1] /\ 1 \in 1..Len(r) /\ Tail(u) = Tail(r) \o q
        /\ IsSeq(Tail(r))
        /\ \A k \in 1..Len(Tail(r)) : k + 1 \in 1..Len(r) /\ Tail(r)[k] = r[k + 1]
      BY <1>1, <1>2, <1>3, FirstOf
  <2>2. Frees(Tail(r), S)
      BY <1>1, <2>1 DEF Frees
  <2>3. Head(u).op = "free" /\ Head(u).x \in S
      BY <1>1, <2>1 DEF Frees
  <2>4. Freeing(n, Tail(u), S)
      BY <1>1, <2>1, <2>2 DEF Freeing
  <2> QED
      BY <2>3, <2>4
<1>4. CASE r = <<>>
  <2>1. u = q
      BY <1>1, <1>2, <1>4, FirstOf
  <2>2. ASSUME NEW p, q = <<I("look", DirSect, 0)>> \o p, Opens(n, NoEntry, <<>>, p)
        PROVE  Head(u) = I("look", DirSect, 0) /\ Tail(u) = p
    <3>1. IsSeq(p)
        BY <2>2, TailsOf DEF Opens
    <3> QED
        BY <2>1, <2>2, <3>1, ConsOf
  <2> QED
      BY <1>1, <2>1, <2>2 DEF Rest
<1> QED
    BY <1>3, <1>4

\* A file without clusters agrees with an entry without clusters.
LEMMA OpensNone ==
  ASSUME NEW n, NEW e, NEW s, NEW q, e.clust = 0, e.size = 0, Opens(n, NoEntry, <<>>, q)
  PROVE  Opens(n, e, s, q)
<1>1. PICK f \in FileType, h \in {0} \cup Clusters :
        q = <<OpenI(n, f, h)>> /\ Agrees(f, NoEntry)
    BY DEF Opens
<1>2. f.fptr \in Nat /\ f.size = 0 /\ f.fptr <= 0 /\ f.sclust = 0 /\ f.open
    BY <1>1, VolumeAssumption DEF Agrees, NoEntry, FileType
<1>3. Agrees(f, e) /\ PosOK(f, s)
    BY <1>2 DEF Agrees, PosOK
<1> QED
    BY <1>1, <1>3 DEF Opens

\* The instruction at hand, from the plan of the call.
LEMMA PlanFirst ==
  ASSUME NEW ch, Plan(ch, todo), todo # <<>>
  PROVE  Now(ch, Instr, Tail(todo))
<1>1. PICK r, t : todo = r \o t /\ AllLooks(r) /\ IsSeq(t) /\ Left(ch, t)
    BY DEF Plan
<1>2. IsSeq(r) /\ IsSeq(t)
    BY <1>1 DEF AllLooks
<1> DEFINE i == Instr
           s == Tail(todo)
<1>3. i = Head(todo)
    BY DEF Instr
<1> SUFFICES Now(ch, i, s)
    OBVIOUS
<1>4. CASE r # <<>>
  <2>1. /\ i = r[1] /\ 1 \in 1..Len(r) /\ s = Tail(r) \o t
        /\ IsSeq(Tail(r))
        /\ \A k \in 1..Len(Tail(r)) : k + 1 \in 1..Len(r) /\ Tail(r)[k] = r[k + 1]
      BY <1>1, <1>2, <1>3, <1>4, FirstOf
  <2>2. AllLooks(Tail(r)) /\ i.op = "look" /\ i.x \in Sects
      BY <1>1, <2>1 DEF AllLooks
  <2>3. Plan(ch, s)
      BY <1>1, <2>1, <2>2 DEF Plan
  <2> HIDE DEF i, s
  <2> QED
      BY <2>2, <2>3 DEF Now
<1>5. CASE r = <<>>
  <2>1. todo = t
      BY <1>1, <1>2, <1>5, FirstOf
  <2>2. i = Head(t) /\ s = Tail(t) /\ t # <<>>
      BY <1>3, <2>1
  <2> HIDE DEF i, s
  <2>3. CASE Positions(file, ch, {}) /\ Ending(t)
      BY <2>2, <2>3, EndingFirst DEF Now
  <2>4. ASSUME NEW n \in Names, file[n].open, Positions(file, ch, {}),
               NEW q, t = <<I("entry", n, EntryOf(file[n]))>> \o q, Ending(q)
        PROVE  Now(ch, i, s)
    <3>1. IsSeq(q)
        BY <2>4 DEF Ending
    <3>2. i = I("entry", n, EntryOf(file[n])) /\ s = q
        BY <2>2, <2>4, <3>1, ConsOf
    <3> QED
        BY <2>4, <3>2 DEF Now, Removing
  <2>5. ASSUME NEW n \in Names, ~file[n].open, Positions(file, ch, {}),
               NEW e \in Entry, NEW u, t = <<I("entry", n, e)>> \o u, e.clust = 0, e.size = 0,
               Freeing(n, u, Rng(ch[n]))
        PROVE  Now(ch, i, s)
    <3>1. IsSeq(u)
      <4>1. PICK v, q : u = v \o q /\ Frees(v, Rng(ch[n])) /\ Rest(n, q)
          BY <2>5 DEF Freeing
      <4>2. \A p : Opens(n, NoEntry, <<>>, p) => IsSeq(p)
          BY TailsOf DEF Opens
      <4>3. \A j, p : IsSeq(p) => IsSeq(<<j>> \o p)
          BY ConsOf
      <4>4. IsSeq(v) /\ IsSeq(q)
          BY <4>1, <4>2, <4>3 DEF Frees, Rest, Ending
      <4> QED
          BY <4>1, <4>4, ConcatSeq
    <3>2. i = I("entry", n, e) /\ s = u
        BY <2>2, <2>5, <3>1, ConsOf
    <3> QED
        BY <2>5, <3>2 DEF Now, Removing
  <2>6. ASSUME NEW n \in Names, ~file[n].open, Positions(file, ch, {}),
               Opens(n, dir[n], ch[n], t)
        PROVE  Now(ch, i, s)
    <3>1. PICK f \in FileType, h \in {0} \cup Clusters :
            t = <<OpenI(n, f, h)>> /\ Agrees(f, dir[n]) /\ PosOK(f, ch[n])
        BY <2>6 DEF Opens
    <3>2. i = OpenI(n, f, h) /\ s = <<>>
        BY <2>2, <3>1, TailsOf
    <3> QED
        BY <2>6, <3>1, <3>2 DEF Now, Removing
  <2>7. ASSUME NEW n \in Names, ~file[n].open, Positions(file, ch, {}),
               dir[n].clust = 0, dir[n].size = 0,
               NEW S \in {Rng(ch[n]), Unused(ch)}, Freeing(n, t, S)
        PROVE  Now(ch, i, s)
    <3>1. CASE i.op = "free" /\ i.x \in S /\ Freeing(n, s, S)
        BY <2>7, <3>1 DEF Now, Removing
    <3>2. CASE Ending(t)
        BY <2>3, <2>7, <3>2
    <3>3. CASE Opens(n, NoEntry, <<>>, t)
        BY <2>6, <2>7, <3>3, OpensNone
    <3>4. CASE i = I("look", DirSect, 0) /\ Opens(n, NoEntry, <<>>, s)
      <4>1. Opens(n, dir[n], ch[n], s)
          BY <2>7, <3>4, OpensNone
      <4>2. Left(ch, s)
          BY <2>7, <4>1 DEF Left
      <4>3. AllLooks(<<>>) /\ IsSeq(<<>>) /\ IsSeq(s)
        <5>1. IsSeq(<<>>) /\ Len(<<>>) = 0
            BY TailsOf, EmptySeq
        <5>2. IsSeq(s)
            BY <4>1, TailsOf DEF Opens
        <5> QED
            BY <5>1, <5>2 DEF AllLooks
      <4>4. s = <<>> \o s
          BY <4>3, FirstOf
      <4>5. Plan(ch, s)
          BY <4>2, <4>3, <4>4 DEF Plan
      <4>6. i.op = "look" /\ i.x \in Sects
          BY <3>4 DEF I, Sects
      <4> QED
          BY <4>5, <4>6 DEF Now
    <3> QED
        BY <2>2, <2>7, <3>1, <3>2, <3>3, <3>4, FreeingFirst
  <2>8. ASSUME NEW n \in Names, Positions(file, ch, {n}), Writing(file[n]),
               t = <<ByteI(n)>>, Placed(file[n], ch[n])
        PROVE  Now(ch, i, s)
    <3>1. i = ByteI(n) /\ s = <<>>
        BY <2>2, <2>8, TailsOf
    <3> QED
        BY <2>8, <3>1 DEF Now, Putting
  <2>9. ASSUME NEW n \in Names, Positions(file, ch, {n}), Writing(file[n]), free > 0,
               NEW c \in Clusters, t = ToAlloc(n, c), Grown(file[n], ch[n], c),
               Counted(fat, free, stale, 1)
        PROVE  Now(ch, i, s)
    <3>1. i = I("alloc", n, c) /\ s = <<ByteI(n)>>
        BY <2>2, <2>9, TailsOf DEF ToAlloc
    <3> QED
        BY <2>9, <3>1 DEF Now, Putting
  <2>10. ASSUME NEW n \in Names, Positions(file, ch, {n}), Writing(file[n]), free > 0,
                NEW c \in Clusters, t = ToLink(n, Last(ch[n]), c), Growing(file[n], ch[n]),
                fat[c] = EOC, c \in Unused(ch), Counted(fat, free, stale, 1)
         PROVE  Now(ch, i, s)
    <3>1. i = I("put", Last(ch[n]), c) /\ s = ToAlloc(n, c)
        BY <2>2, <2>10, TailsOf DEF ToLink, ToAlloc
    <3> QED
        BY <2>10, <3>1 DEF Now, Putting
  <2>11. ASSUME NEW n \in Names, Positions(file, ch, {n}), Writing(file[n]), free > 0,
                NEW c \in Clusters, t = ToFirst(n, c), First(file[n]), fat[c] = Free
         PROVE  Now(ch, i, s)
    <3>1. i = I("put", c, EOC) /\ s = ToAlloc(n, c)
        BY <2>2, <2>11, TailsOf DEF ToFirst, ToAlloc
    <3> QED
        BY <2>11, <3>1 DEF Now, Putting
  <2>12. ASSUME NEW n \in Names, Positions(file, ch, {n}), Writing(file[n]), free > 0,
                NEW c \in Clusters, t = ToNext(n, Last(ch[n]), c), Growing(file[n], ch[n]),
                fat[c] = Free
         PROVE  Now(ch, i, s)
    <3>1. i = I("put", c, EOC) /\ s = ToLink(n, Last(ch[n]), c)
        BY <2>2, <2>12, TailsOf DEF ToNext, ToLink
    <3> QED
        BY <2>12, <3>1 DEF Now, Putting
  <2>13. Left(ch, t)
      BY <1>1
  <2> QED
      BY <2>3, <2>4, <2>5, <2>6, <2>7, <2>8, <2>9, <2>10, <2>11, <2>12, <2>13, Zenon DEF Left
<1> QED
    BY <1>4, <1>5

\* How a call that fails would have ended: only fputc() moves its file before the byte is written.
LEMMA PlanLast ==
  ASSUME NEW ch, Plan(ch, todo), todo # <<>>
  PROVE  \E X : /\ Positions(file, ch, X)
                /\ X = {} \/ \E n \in Names : X = {n} /\ todo[Len(todo)] = ByteI(n)
<1>1. PICK r, t : todo = r \o t /\ AllLooks(r) /\ IsSeq(t) /\ Left(ch, t)
    BY DEF Plan
<1>2. CASE Positions(file, ch, {})
    BY <1>2
<1>3. ASSUME NEW n \in Names, Positions(file, ch, {n}), t # <<>>, t[Len(t)] = ByteI(n)
      PROVE  \E X : /\ Positions(file, ch, X)
                    /\ X = {} \/ \E m \in Names : X = {m} /\ todo[Len(todo)] = ByteI(m)
  <2>1. todo[Len(todo)] = t[Len(t)]
      BY <1>1, <1>3, LastOf DEF AllLooks
  <2> QED
      BY <1>3, <2>1
<1>4. ASSUME NEW a, NEW b, NEW c, NEW d
      PROVE  /\ <<a>>[Len(<<a>>)] = a /\ <<a, b>>[Len(<<a, b>>)] = b
             /\ <<a, b, c>>[Len(<<a, b, c>>)] = c
             /\ <<a, b, c, d>>[Len(<<a, b, c, d>>)] = d
             /\ <<a>> # <<>> /\ <<a, b>> # <<>> /\ <<a, b, c>> # <<>> /\ <<a, b, c, d>> # <<>>
    OBVIOUS
<1>5. ASSUME NEW n \in Names, Positions(file, ch, {n}),
             \/ t = <<ByteI(n)>>
             \/ \E c \in Clusters : \/ t = ToAlloc(n, c) \/ t = ToLink(n, Last(ch[n]), c)
                                    \/ t = ToFirst(n, c) \/ t = ToNext(n, Last(ch[n]), c)
      PROVE  t # <<>> /\ t[Len(t)] = ByteI(n)
  <2>1. CASE t = <<ByteI(n)>>
      BY <1>4, <2>1
  <2>2. CASE \E c \in Clusters : \/ t = ToAlloc(n, c) \/ t = ToLink(n, Last(ch[n]), c)
                                 \/ t = ToFirst(n, c) \/ t = ToNext(n, Last(ch[n]), c)
    <3> PICK c \in Clusters : \/ t = ToAlloc(n, c) \/ t = ToLink(n, Last(ch[n]), c)
                              \/ t = ToFirst(n, c) \/ t = ToNext(n, Last(ch[n]), c)
        BY <2>2
    <3>1. CASE t = ToAlloc(n, c)
        BY <1>4, <3>1 DEF ToAlloc
    <3>2. CASE t = ToLink(n, Last(ch[n]), c)
        BY <1>4, <3>2 DEF ToLink
    <3>3. CASE t = ToFirst(n, c)
        BY <1>4, <3>3 DEF ToFirst
    <3>4. CASE t = ToNext(n, Last(ch[n]), c)
        BY <1>4, <3>4 DEF ToNext
    <3> QED
        BY <3>1, <3>2, <3>3, <3>4
  <2> QED
      BY <1>5, <2>1, <2>2
<1> QED
    BY <1>1, <1>2, <1>3, <1>5 DEF Left

-----------------------------------------------------------------------------
(***************************************************************************)
(* The invariant: there are chains ch, of different clusters, that the FAT *)
(* in memory follows to their ends, and the card's FAT at least as far as  *)
(* the entries on the card count bytes.                                    *)
(***************************************************************************)
SectsTyped ==
  /\ fat \in [Clusters -> 0..NFATENT] /\ dir \in [Names -> Entry] /\ data \in [Clusters -> Content]
CardTyped ==
  /\ cfat \in [Clusters -> 0..NFATENT] /\ cdir \in [Names -> Entry]
  /\ cdata \in [Clusters -> Content]
WindowTyped ==
  /\ win \in {NoSect, InfoSect} \cup Sects \cup {DataSect(c) : c \in Clusters}
  /\ dirty \in BOOLEAN
BookTyped ==
  /\ fsi \in BOOLEAN /\ stale \in BOOLEAN
  /\ free \in 0..(NFATENT - 2) /\ last \in 1..(NFATENT - 1)
  /\ info \in [free : 0..(NFATENT - 2), last : 1..(NFATENT - 1)]
FileTyped == file \in [Names -> FileType] /\ gens \in 0..MAXGEN
Typed == SectsTyped /\ CardTyped /\ WindowTyped /\ BookTyped /\ FileTyped

Chained(ch) == ch \in [Names -> Seq(Clusters)] /\ Apart(ch)

InMemory(ch) == \A n \in Names : /\ Follows(fat, ch[n], Len(ch[n]))
                                 /\ Image(fat, data, dir[n], ch[n], Len(ch[n]))
OnCard(ch) == \A n \in Names : \E m \in 0..Len(ch[n]) : Image(cfat, cdata, cdir[n], ch[n], m)

FileOK(ft, d, e, f, s) == /\ Image(ft, d, EntryOf(f), s, Len(s)) /\ f.fptr <= f.size
                          /\ e.clust \in {0, f.sclust} /\ e.size <= f.size
InFiles(ch) == \A n \in Names : file[n].open => FileOK(fat, data, dir[n], file[n], ch[n])

Good(ch) == Chained(ch) /\ InMemory(ch) /\ OnCard(ch) /\ InFiles(ch) /\ Plan(ch, todo)
Chains == Typed /\ Counted(fat, free, stale, 0) /\ \E ch : Good(ch)
CInv == IInv /\ Chains

\* A chain has a length, and clusters.
LEMMA ChainSeqs ==
  ASSUME NEW ch, Chained(ch), NEW n \in Names
  PROVE  /\ ch[n] \in Seq(Clusters) /\ Len(ch[n]) \in Nat /\ Len(ch[n]) < NFATENT
         /\ \A i \in 1..Len(ch[n]) : ch[n][i] \in Clusters
<1>1. ch[n] \in Seq(Clusters)
    BY DEF Chained
<1>2. \A i, j \in 1..Len(ch[n]) : ch[n][i] = ch[n][j] => i = j
    BY DEF Chained, Apart
<1>3. \A i \in 1..Len(ch[n]) : ch[n][i] \in Clusters
    BY <1>1, ElementOfSeq
<1> QED
    BY <1>1, <1>2, <1>3, ChainShort

\* What the card says after a step it said before, or memory did.
LEMMA CardNext ==
  ASSUME IInv, Next
  PROVE  \/ cfat' = cfat /\ cdir' = cdir /\ cdata' = cdata
         \/ cfat' = fat /\ cdir' = dir /\ cdata' = data
<1>1. UNCHANGED card \/ SyncWindow
    BY ZenonT(60) DEF Next, Instruction, LookAt, PutFat, FreeFat, Alloc, PutEntry, PutByte, Full, Sync, Info,
           Opened, Ended, WriteFails, ReadFails, InfoFails, Crash, OpenNew, Fputc, Fclose, Remove,
           OpenOld, Call, Look, Change, MoveWindow
<1> QED
    BY <1>1, Synced DEF IInv

\* The card after a step, for the chains before it.
LEMMA OnCardNext ==
  ASSUME IInv, Typed, Next, NEW ch, Good(ch)
  PROVE  /\ OnCard(ch)'
         /\ CardTyped'
<1>1. CASE cfat' = cfat /\ cdir' = cdir /\ cdata' = cdata
    BY <1>1 DEF Good, OnCard, Typed, CardTyped
<1>2. CASE cfat' = fat /\ cdir' = dir /\ cdata' = data
  <2>1. ASSUME NEW n \in Names PROVE \E m \in 0..Len(ch[n]) : Image(cfat', cdata', cdir'[n], ch[n], m)
    <3>1. Len(ch[n]) \in 0..Len(ch[n])
        BY ChainSeqs DEF Good
    <3>2. Image(fat, data, dir[n], ch[n], Len(ch[n]))
        BY DEF Good, InMemory
    <3> QED
        BY <1>2, <3>1, <3>2
  <2> QED
      BY <1>2, <2>1 DEF OnCard, Typed, SectsTyped, CardTyped
<1> QED
    BY <1>1, <1>2, CardNext

\* The plan depends on memory.
LEMMA PlanSame ==
  ASSUME NEW ch, NEW s, Plan(ch, s), UNCHANGED <<file, dir, fat, free, stale>>
  PROVE  Plan(ch, s)'
<1>1. PICK r, t : s = r \o t /\ AllLooks(r) /\ IsSeq(t) /\ Left(ch, t)
    BY DEF Plan
<1>2. Left(ch, t)'
    BY <1>1 DEF Left
<1> QED
    BY <1>1, <1>2 DEF Plan

\* A plan without looks.
LEMMA PlanNow ==
  ASSUME NEW ch, NEW t, IsSeq(t), Left(ch, t)'
  PROVE  Plan(ch, t)'
<1>1. IsSeq(<<>>) /\ Len(<<>>) = 0
    BY TailsOf, EmptySeq
<1>2. AllLooks(<<>>) /\ t = <<>> \o t
    BY <1>1, FirstOf DEF AllLooks
<1> QED
    BY <1>2 DEF Plan

\* Looks before the rest of a call.
LEMMA PlanLooks ==
  ASSUME NEW ch, NEW r, AllLooks(r), NEW t, IsSeq(t), Left(ch, t)'
  PROVE  Plan(ch, r \o t)'
    BY DEF Plan

\* A byte, after looks or at once.
LEMMA ByteLeft ==
  ASSUME NEW ch, NEW n \in Names, Positions(file', ch, {n}), Writing(file'[n]), Placed(file'[n], ch[n])
  PROVE  /\ Plan(ch, <<ByteI(n)>>)'
         /\ \A r : AllLooks(r) => Plan(ch, r \o <<ByteI(n)>>)'
<1> DEFINE t == <<ByteI(n)>>
<1>1. IsSeq(t)
    BY TailsOf
<1>2. Left(ch, t)'
    BY DEF Left
<1> HIDE DEF t
<1>3. Plan(ch, t)'
    BY <1>1, <1>2, PlanNow
<1>4. ASSUME NEW r, AllLooks(r) PROVE Plan(ch, r \o t)'
    BY <1>1, <1>2, <1>4, PlanLooks
<1> QED
    BY <1>3, <1>4 DEF t

\* Nothing left to do, or nothing that matters for chains.
LEMMA PlanEnding ==
  ASSUME NEW ch, NEW s, Ending(s), Positions(file', ch, {})
  PROVE  Plan(ch, s)'
<1>1. IsSeq(s)
    BY DEF Ending
<1>2. Left(ch, s)'
    BY DEF Left
<1> QED
    BY <1>1, <1>2, PlanNow

\* Nothing is an end.
LEMMA EndingNone == Ending(<<>>)
<1>1. IsSeq(<<>>) /\ Len(<<>>) = 0
    BY TailsOf, EmptySeq
<1> QED
    BY <1>1 DEF Ending

-----------------------------------------------------------------------------
(* Steps that leave the sectors in memory as they are. *)

\* A step for whose chains everything has been shown.
LEMMA Stepped ==
  ASSUME CInv, Next, NEW ch, NEW c2, Good(ch),
         SectsTyped', WindowTyped', BookTyped', FileTyped', Counted(fat, free, stale, 0)',
         Chained(c2), InMemory(c2)', OnCard(c2)', InFiles(c2)', Plan(c2, todo)'
  PROVE  Chains'
<1>1. CardTyped'
    BY OnCardNext DEF CInv, Chains
<1>2. Good(c2)'
    BY DEF Good, Chained, Apart
<1> QED
    BY <1>1, <1>2 DEF Chains, Typed

\* The chains stay as they are.
LEMMA Stayed ==
  ASSUME CInv, Next, NEW ch, Good(ch), UNCHANGED live,
         WindowTyped', BookTyped', FileTyped', Counted(fat, free, stale, 0)',
         InFiles(ch)', Plan(ch, todo)'
  PROVE  Chains'
<1>1. OnCard(ch)'
    BY OnCardNext DEF CInv, Chains
<1>2. InMemory(ch)'
    BY DEF Good, InMemory
<1>3. SectsTyped'
    BY DEF CInv, Chains, Typed, SectsTyped
<1>4. Chained(ch)
    BY DEF Good
<1> QED
    BY <1>1, <1>2, <1>3, <1>4, Stepped

\* A file is closed, or it is what it was for the chains.
Like(f, g) ==
  g.open => /\ f.open /\ g.sclust = f.sclust /\ g.size = f.size /\ g.fptr = f.fptr
            /\ g.gen = f.gen /\ g.clust = f.clust /\ (f.err => g.err)
AllLike == \A m \in Names : Like(file[m], file'[m])

\* Such files are in their chains, and at their places.
LEMMA LikeFiles ==
  ASSUME NEW ch, InFiles(ch), UNCHANGED live, AllLike
  PROVE  InFiles(ch)' /\ \A X : Positions(file, ch, X) => Positions(file', ch, X)
<1>1. ASSUME NEW m \in Names, file'[m].open PROVE FileOK(fat', data', dir'[m], file'[m], ch[m])
  <2>1. FileOK(fat, data, dir[m], file[m], ch[m])
      BY <1>1 DEF InFiles, AllLike, Like
  <2>2. EntryOf(file'[m]) = EntryOf(file[m])
      BY <1>1 DEF AllLike, Like, EntryOf
  <2> QED
      BY <1>1, <2>1, <2>2 DEF FileOK, AllLike, Like
<1>2. ASSUME NEW X, Positions(file, ch, X) PROVE Positions(file', ch, X)
  <2>1. ASSUME NEW m \in Names \ X PROVE PosOK(file'[m], ch[m])
    <3>1. PosOK(file[m], ch[m])
        BY <1>2 DEF Positions
    <3> QED
        BY <3>1 DEF PosOK, AllLike, Like
  <2> QED
      BY <2>1 DEF Positions
<1> QED
    BY <1>1, <1>2 DEF InFiles

\* Nothing changes.
LEMMA SameLike ==
  ASSUME file' = file
  PROVE  AllLike
    BY DEF AllLike, Like

\* One file changes.
LEMMA OneLike ==
  ASSUME FileTyped, NEW n, NEW g, file' = [file EXCEPT ![n] = g], g \in FileType,
         n \in Names => Like(file[n], g)
  PROVE  AllLike /\ file' \in [Names -> FileType]
<1>1. \A m \in Names : file'[m] = IF m = n THEN g ELSE file[m]
    BY DEF FileTyped
<1>2. AllLike
    BY <1>1 DEF AllLike, Like
<1>3. file' \in [Names -> FileType]
    BY <1>1 DEF FileTyped
<1> QED
    BY <1>2, <1>3

\* A closed file.
LEMMA ClosedType == Closed \in FileType /\ ~Closed.open
    BY VolumeAssumption DEF Closed, FileType

\* A file that is closed, has an error or counts as modified.
LEMMA FlagLike ==
  ASSUME FileTyped, NEW n,
         \/ file' = [file EXCEPT ![n] = Closed]
         \/ file' = [file EXCEPT ![n].err = TRUE]
         \/ file' = [file EXCEPT ![n].mod = TRUE]
         \/ file' = file
  PROVE  AllLike /\ file' \in [Names -> FileType]
<1>1. CASE n \notin Names \/ file' = file
  <2>1. file' = file
      BY <1>1 DEF FileTyped
  <2> QED
      BY <2>1, SameLike DEF FileTyped
<1>2. CASE n \in Names /\ file' = [file EXCEPT ![n] = Closed]
    BY <1>2, OneLike, ClosedType DEF Like
<1>3. CASE n \in Names /\ file' = [file EXCEPT ![n].err = TRUE]
  <2> DEFINE g == [file[n] EXCEPT !.err = TRUE]
  <2>1. file' = [file EXCEPT ![n] = g]
      BY <1>3
  <2>2. g \in FileType /\ Like(file[n], g)
    <3>1. file[n] \in FileType
        BY <1>3 DEF FileTyped
    <3> QED
        BY <3>1 DEF FileType, Like
  <2> HIDE DEF g
  <2> QED
      BY <2>1, <2>2, OneLike
<1>4. CASE n \in Names /\ file' = [file EXCEPT ![n].mod = TRUE]
  <2> DEFINE g == [file[n] EXCEPT !.mod = TRUE]
  <2>1. file' = [file EXCEPT ![n] = g]
      BY <1>4
  <2>2. g \in FileType /\ Like(file[n], g)
    <3>1. file[n] \in FileType
        BY <1>4 DEF FileTyped
    <3> QED
        BY <3>1 DEF FileType, Like
  <2> HIDE DEF g
  <2> QED
      BY <2>1, <2>2, OneLike
<1> QED
    BY <1>1, <1>2, <1>3, <1>4

\* What is left to do, and the instruction at hand.
LEMMA AtHand ==
  ASSUME CInv, NEW ch, Good(ch), todo # <<>>
  PROVE  Now(ch, Instr, Tail(todo))
    BY PlanFirst DEF Good

\* The kinds of instructions.
LEMMA Kinds ==
  ASSUME NEW op, NEW x, NEW v
  PROVE  I(op, x, v).op = op /\ I(op, x, v).x = x /\ I(op, x, v).v = v
    BY DEF I

\* What writes an entry, frees a chain or opens a file.
LEMMA RemovingKinds ==
  ASSUME NEW ch, NEW n, NEW i, NEW s, Removing(ch, n, i, s)
  PROVE  i.op \in {"entry", "free", "opened"}
<1>1. ASSUME NEW e, i = I("entry", n, e) PROVE i.op = "entry"
    BY <1>1, Kinds
<1>2. ASSUME NEW f, NEW h, i = OpenI(n, f, h) PROVE i.op = "opened"
    BY <1>2, Kinds DEF OpenI
<1>3. (\E e : i = I("entry", n, e)) \/ i.op = "free" \/ \E f, h : i = OpenI(n, f, h)
    BY Zenon DEF Removing
<1> QED
    BY <1>1, <1>2, <1>3

\* What fputc() does.
LEMMA PuttingKinds ==
  ASSUME NEW ch, NEW n, NEW i, NEW s, Putting(ch, n, i, s)
  PROVE  i.op \in {"byte", "alloc", "put"}
    BY Kinds DEF Putting, ByteI

\* What is known of the instruction at hand, by its kind.
LEMMA NowKinds ==
  ASSUME NEW ch, NEW i, NEW s, Now(ch, i, s)
  PROVE  /\ i.op = "look" => i.x \in Sects /\ Plan(ch, s)
         /\ i.op \in {"sync", "info", "full", "closed"} => Ending(s) /\ Positions(file, ch, {})
         /\ i.op \in {"entry", "free", "opened"} =>
              \E n \in Names : Positions(file, ch, {}) /\ Removing(ch, n, i, s)
         /\ i.op \in {"byte", "alloc", "put"} =>
              \E n \in Names : /\ Positions(file, ch, {n}) /\ Writing(file[n])
                               /\ Putting(ch, n, i, s)
<1>1. CASE i.op = "look" /\ i.x \in Sects /\ Plan(ch, s)
    BY <1>1
<1>2. CASE i.op \in {"sync", "info", "full", "closed"} /\ Ending(s) /\ Positions(file, ch, {})
    BY <1>2
<1>3. CASE \E n \in Names : Positions(file, ch, {}) /\ Removing(ch, n, i, s)
    BY <1>3, RemovingKinds
<1>4. CASE \E n \in Names : /\ Positions(file, ch, {n}) /\ Writing(file[n])
                            /\ Putting(ch, n, i, s)
    BY <1>4, PuttingKinds
<1> QED
    BY <1>1, <1>2, <1>3, <1>4 DEF Now

\* After it, whatever becomes of the files.
LEMMA PlanQuiet ==
  ASSUME CInv, NEW ch, Good(ch), todo # <<>>,
         Instr.op \in {"sync", "info", "full", "closed"},
         UNCHANGED live, AllLike, todo' = Tail(todo)
  PROVE  InFiles(ch)' /\ Plan(ch, todo)'
<1>1. PICK s : s = Tail(todo)
    OBVIOUS
<1>2. Now(ch, Instr, s)
    BY <1>1, AtHand
<1>3. Ending(s) /\ Positions(file, ch, {})
    BY <1>2, NowKinds
<1>4. InFiles(ch)' /\ Positions(file', ch, {})
    BY <1>3, LikeFiles DEF Good
<1>5. Plan(ch, s)'
    BY <1>3, <1>4, PlanEnding
<1> QED
    BY <1>1, <1>4, <1>5

\* Sync, Info, InfoFails, Full and Ended.
LEMMA QuietStep ==
  ASSUME CInv, Next, Sync \/ Info \/ InfoFails \/ Full \/ Ended
  PROVE  Chains'
<1>1. PICK ch : Good(ch)
    BY DEF CInv, Chains
<1>2. /\ todo # <<>> /\ Instr.op \in {"sync", "info", "full", "closed"}
      /\ todo' = Tail(todo) /\ UNCHANGED <<live, free, last, stale, gens>>
    BY DEF Sync, Info, InfoFails, Full, Ended, Doing, Did
<1>3. Typed
    BY DEF CInv, Chains
<1>4. AllLike /\ FileTyped'
  <2>1. \E n : \/ file' = [file EXCEPT ![n] = Closed]
               \/ file' = [file EXCEPT ![n].mod = TRUE]
               \/ file' = file
      BY DEF Sync, Info, InfoFails, Full, Ended
  <2>2. AllLike /\ file' \in [Names -> FileType]
      BY <1>3, <2>1, FlagLike DEF Typed
  <2> QED
      BY <1>2, <1>3, <2>2 DEF Typed, FileTyped
<1>5. WindowTyped' /\ BookTyped'
  <2>1. WindowTyped'
    <3>1. win' \in {win, InfoSect} /\ dirty' \in {dirty, FALSE}
        BY DEF Sync, Info, InfoFails, Full, Ended
    <3> QED
        BY <1>3, <3>1 DEF Typed, WindowTyped
  <2>2. BookTyped'
    <3>1. fsi' \in {fsi, FALSE} /\ (info' = info \/ info' = [free |-> free, last |-> last])
        BY DEF Sync, Info, InfoFails, Full, Ended
    <3>2. /\ info \in [free : 0..(NFATENT - 2), last : 1..(NFATENT - 1)]
          /\ [free |-> free, last |-> last] \in [free : 0..(NFATENT - 2), last : 1..(NFATENT - 1)]
        BY <1>3 DEF Typed, BookTyped
    <3>3. fsi' \in BOOLEAN /\ stale' \in BOOLEAN
        BY <1>2, <1>3, <3>1, Zenon DEF Typed, BookTyped
    <3>4. free' \in 0..(NFATENT - 2) /\ last' \in 1..(NFATENT - 1)
        BY <1>2, <1>3 DEF Typed, BookTyped
    <3> QED
        BY <3>1, <3>2, <3>3, <3>4, Zenon DEF BookTyped
  <2> QED
      BY <2>1, <2>2
<1>6. Counted(fat, free, stale, 0)'
    BY <1>2 DEF CInv, Chains, Counted, FreeSet
<1>7. InFiles(ch)' /\ Plan(ch, todo)'
    BY <1>1, <1>2, <1>4, PlanQuiet
<1> QED
    BY <1>1, <1>2, <1>4, <1>5, <1>6, <1>7, Stayed

\* A look at a sector.
LEMMA LookStep ==
  ASSUME CInv, Next, LookAt
  PROVE  Chains'
<1>1. PICK ch : Good(ch)
    BY DEF CInv, Chains
<1>2. /\ todo # <<>> /\ Instr.op = "look" /\ todo' = Tail(todo)
      /\ UNCHANGED <<live, book, file, stale, gens>>
      /\ win' = Instr.x /\ dirty' = (Instr.x = win /\ dirty)
    BY DEF LookAt, Doing, Did, Look, MoveWindow
<1>3. Typed
    BY DEF CInv, Chains
<1>4. PICK s : s = Tail(todo)
    OBVIOUS
<1>5. Instr.x \in Sects /\ Plan(ch, s)
  <2>1. Now(ch, Instr, s)
      BY <1>1, <1>2, <1>4, AtHand
  <2> QED
      BY <1>2, <2>1, NowKinds
<1>6. Plan(ch, todo)'
  <2>1. Plan(ch, s)'
      BY <1>2, <1>5, PlanSame
  <2> QED
      BY <1>2, <1>4, <2>1
<1>7. InFiles(ch)'
    BY <1>1, <1>2, SameLike, LikeFiles DEF Good
<1>8. WindowTyped' /\ BookTyped' /\ FileTyped'
  <2>1. WindowTyped'
      BY <1>2, <1>3, <1>5 DEF Typed, WindowTyped
  <2> QED
      BY <1>2, <1>3, <2>1 DEF Typed, BookTyped, FileTyped
<1>9. Counted(fat, free, stale, 0)'
    BY <1>2 DEF CInv, Chains, Counted, FreeSet
<1> QED
    BY <1>1, <1>2, <1>6, <1>7, <1>8, <1>9, Stayed

\* A call that fails.
LEMMA FailStep ==
  ASSUME CInv, Next, WriteFails \/ ReadFails
  PROVE  Chains'
<1>1. PICK ch : Good(ch)
    BY DEF CInv, Chains
<1>2. /\ todo # <<>> /\ todo' = <<>> /\ AbortCall
      /\ UNCHANGED <<live, book, stale, gens>>
      /\ win' \in {win, NoSect} /\ dirty' \in {dirty, FALSE}
    BY DEF WriteFails, ReadFails, AbortCall
<1>3. Typed
    BY DEF CInv, Chains
<1> DEFINE end == todo[Len(todo)]
<1>4. /\ \E n : \/ file' = [file EXCEPT ![n] = Closed]
                \/ file' = [file EXCEPT ![n].err = TRUE]
                \/ file' = file
      /\ end.op = "byte" => file' = [file EXCEPT ![end.x].err = TRUE]
    BY <1>2 DEF AbortCall
<1>5. AllLike /\ file' \in [Names -> FileType]
  <2> HIDE DEF end
  <2> QED
      BY <1>3, <1>4, FlagLike DEF Typed
<1>6. InFiles(ch)' /\ \A X : Positions(file, ch, X) => Positions(file', ch, X)
    BY <1>1, <1>2, <1>5, LikeFiles DEF Good
<1>7. Positions(file', ch, {})
  <2>1. PICK X : /\ Positions(file, ch, X)
                 /\ X = {} \/ \E n \in Names : X = {n} /\ end = ByteI(n)
      BY <1>1, <1>2, PlanLast DEF Good
  <2>2. Positions(file', ch, X)
      BY <1>6, <2>1
  <2>3. CASE X = {}
      BY <2>2, <2>3
  <2>4. ASSUME NEW n \in Names, X = {n}, end = ByteI(n) PROVE Positions(file', ch, {})
    <3>1. end.op = "byte" /\ end.x = n
        BY <2>4, Kinds DEF ByteI
    <3>2. file' = [file EXCEPT ![n].err = TRUE]
        BY <1>4, <3>1
    <3>3. file'[n].err
        BY <1>3, <3>2 DEF Typed, FileTyped, FileType
    <3>4. PosOK(file'[n], ch[n])
        BY <3>3 DEF PosOK
    <3> QED
        BY <2>2, <2>4, <3>4 DEF Positions
  <2> QED
      BY <2>1, <2>3, <2>4
<1>8. Plan(ch, todo)'
  <2>1. PICK s : s = <<>>
      OBVIOUS
  <2>2. Plan(ch, s)'
      BY <1>7, <2>1, EndingNone, PlanEnding
  <2> QED
      BY <1>2, <2>1, <2>2
<1>9. WindowTyped' /\ BookTyped' /\ FileTyped'
  <2>1. WindowTyped'
      BY <1>2, <1>3 DEF Typed, WindowTyped
  <2>2. BookTyped' /\ FileTyped'
      BY <1>2, <1>3, <1>5 DEF Typed, BookTyped, FileTyped
  <2> QED
      BY <2>1, <2>2
<1>10. Counted(fat, free, stale, 0)'
    BY <1>2 DEF CInv, Chains, Counted, FreeSet
<1> QED
    BY <1>1, <1>2, <1>6, <1>8, <1>9, <1>10, Stayed

\* One file is another, and the chains are the same.
LEMMA OneFile ==
  ASSUME Typed, NEW ch, InFiles(ch), NEW n \in Names, Positions(file, ch, {n}), UNCHANGED live,
         NEW g, file' = [file EXCEPT ![n] = g],
         g.open => FileOK(fat, data, dir[n], g, ch[n])
  PROVE  InFiles(ch)' /\ Positions(file', ch, {n}) /\ (PosOK(g, ch[n]) => Positions(file', ch, {}))
<1>1. \A m \in Names : file'[m] = IF m = n THEN g ELSE file[m]
    BY DEF Typed, FileTyped
<1>2. InFiles(ch)'
    BY <1>1 DEF InFiles
<1>3. Positions(file', ch, {n})
    BY <1>1 DEF Positions
<1>4. ASSUME PosOK(g, ch[n]) PROVE Positions(file', ch, {})
    BY <1>1, <1>4 DEF Positions
<1> QED
    BY <1>2, <1>3, <1>4

\* A file is opened.
LEMMA OpenedStep ==
  ASSUME CInv, Next, Opened
  PROVE  Chains'
<1>1. PICK ch : Good(ch)
    BY DEF CInv, Chains
<1>2. /\ todo # <<>> /\ Instr.op = "opened" /\ todo' = Tail(todo)
      /\ file' = [file EXCEPT ![Instr.x] = Instr.v.file]
      /\ last' = IF Instr.v.hole = 0 THEN last ELSE Instr.v.hole - 1
      /\ UNCHANGED <<live, wind, info, fsi, free, stale, gens>>
    BY DEF Opened, Doing, Did
<1>3. Typed
    BY DEF CInv, Chains
<1>4. PICK s : s = Tail(todo)
    OBVIOUS
<1>5. PICK n \in Names : Positions(file, ch, {}) /\ Removing(ch, n, Instr, s)
    BY <1>1, <1>2, <1>4, AtHand, NowKinds
<1>6. PICK f \in FileType, h \in {0} \cup Clusters :
        /\ Instr = OpenI(n, f, h) /\ Agrees(f, dir[n]) /\ PosOK(f, ch[n]) /\ s = <<>>
  <2>1. \A e : I("entry", n, e).op = "entry"
      BY Kinds
  <2> QED
      BY <1>2, <1>5, <2>1 DEF Removing
<1>7. Instr.x = n /\ Instr.v.file = f /\ Instr.v.hole = h
    BY <1>6, Kinds DEF OpenI
<1>8. FileOK(fat, data, dir[n], f, ch[n])
  <2>1. Image(fat, data, dir[n], ch[n], Len(ch[n])) /\ dir[n] \in Entry
      BY <1>1, <1>3 DEF Good, InMemory, Typed, SectsTyped
  <2>2. /\ f.sclust = dir[n].clust /\ f.size = dir[n].size /\ f.fptr <= f.size
        /\ dir[n].clust # 0 => f.gen = dir[n].gen
      BY <1>6 DEF Agrees
  <2>3. /\ EntryOf(f).clust = dir[n].clust /\ EntryOf(f).size = dir[n].size
        /\ dir[n].clust # 0 => EntryOf(f).gen = dir[n].gen
      BY <2>2 DEF EntryOf
  <2>4. Image(fat, data, EntryOf(f), ch[n], Len(ch[n]))
      BY <2>1, <2>3 DEF Image, Filled
  <2>5. dir[n].size \in Nat
      BY <2>1, VolumeAssumption DEF Entry
  <2> QED
      BY <2>2, <2>4, <2>5 DEF FileOK
<1>9. InFiles(ch)' /\ Positions(file', ch, {})
  <2>1. file' = [file EXCEPT ![n] = f]
      BY <1>2, <1>7
  <2>2. Positions(file, ch, {n})
      BY <1>5 DEF Positions
  <2> QED
      BY <1>1, <1>2, <1>3, <1>6, <1>8, <2>1, <2>2, OneFile DEF Good
<1>10. Plan(ch, todo)'
  <2>1. Plan(ch, s)'
      BY <1>6, <1>9, EndingNone, PlanEnding
  <2> QED
      BY <1>2, <1>4, <2>1
<1>11. WindowTyped' /\ BookTyped' /\ FileTyped'
  <2>1. last' \in 1..(NFATENT - 1)
      BY <1>2, <1>3, <1>6, <1>7, VolumeAssumption DEF Typed, BookTyped, Clusters
  <2>2. file' \in [Names -> FileType]
      BY <1>2, <1>3, <1>6, <1>7 DEF Typed, FileTyped
  <2> QED
      BY <1>2, <1>3, <2>1, <2>2 DEF Typed, WindowTyped, BookTyped, FileTyped
<1>12. Counted(fat, free, stale, 0)'
    BY <1>2 DEF CInv, Chains, Counted, FreeSet
<1> QED
    BY <1>1, <1>2, <1>9, <1>10, <1>11, <1>12, Stayed

\* The free clusters are counted.
LEMMA FreeSetNat ==
  ASSUME NEW f
  PROVE  IsFiniteSet(FreeSet(f)) /\ Cardinality(FreeSet(f)) \in Nat
<1>1. IsFiniteSet(Clusters)
    BY VolumeAssumption, FS_Interval DEF Clusters
<1>2. FreeSet(f) \subseteq Clusters
    BY DEF FreeSet
<1> QED
    BY <1>1, <1>2, FS_Subset, FS_CardinalityType

\* No chain at all.
LEMMA NoChain ==
  ASSUME NEW f
  PROVE  <<>> \in Seq(Clusters) /\ Len(<<>>) = 0 /\ Follows(f, <<>>, Len(<<>>))
<1>1. <<>> \in Seq(Clusters) /\ Len(<<>>) = 0
    BY EmptySeq
<1> QED
    BY <1>1 DEF Follows

\* The first clusters of a chain.
LEMMA FirstClusters ==
  ASSUME NEW s \in Seq(Clusters), NEW m \in 0..Len(s)
  PROVE  /\ SubSeq(s, 1, m) \in Seq(Clusters) /\ Len(SubSeq(s, 1, m)) = m
         /\ \A i \in 1..m : SubSeq(s, 1, m)[i] = s[i] /\ i \in 1..Len(s)
<1>1. Len(s) \in Nat
    BY LenProperties
<1>2. \A i \in 1..m : i \in 1..Len(s) /\ s[i] \in Clusters
    BY <1>1, ElementOfSeq
<1>3. /\ Len(SubSeq(s, 1, m)) = IF 1 <= m THEN m - 1 + 1 ELSE 0
      /\ \A i \in 1..(m - 1 + 1) : SubSeq(s, 1, m)[i] = s[1 + i - 1]
      /\ SubSeq(s, 1, m) \in Seq(Clusters)
    BY <1>1, <1>2, SubSeqProperties
<1> QED
    BY <1>1, <1>2, <1>3

\* The card is pulled out.
LEMMA CrashStep ==
  ASSUME CInv, Next, Crash
  PROVE  Chains'
<1>1. PICK ch : Good(ch)
    BY DEF CInv, Chains
<1>2. /\ fat' = cfat /\ dir' = cdir /\ data' = cdata /\ UNCHANGED card
      /\ win' = NoSect /\ dirty' = FALSE
      /\ file' = [n \in Names |-> Closed] /\ todo' = <<>>
      /\ free' = info.free /\ last' = info.last /\ fsi' = FALSE /\ info' = info
      /\ stale' = (info.free < Cardinality(FreeSet(cfat))) /\ gens' = gens
    BY DEF Crash, FreeSet
<1>3. Typed
    BY DEF CInv, Chains
<1> DEFINE At(n, m) == Image(cfat, cdata, cdir[n], ch[n], m)
           len == [n \in Names |-> CHOOSE m \in 0..Len(ch[n]) : At(n, m)]
<1>4. ASSUME NEW n \in Names PROVE len[n] \in 0..Len(ch[n]) /\ At(n, len[n])
  <2>1. \E m \in 0..Len(ch[n]) : At(n, m)
      BY <1>1 DEF Good, OnCard
  <2>2. len[n] = CHOOSE m \in 0..Len(ch[n]) : At(n, m)
      OBVIOUS
  <2> HIDE DEF At, len
  <2> QED
      BY <2>1, <2>2
<1> PICK c2 : c2 = [n \in Names |-> IF cdir[n].clust = 0 THEN <<>>
                                        ELSE SubSeq(ch[n], 1, len[n])]
    OBVIOUS
<1>5. \A n \in Names : c2[n] = IF cdir[n].clust = 0 THEN <<>> ELSE SubSeq(ch[n], 1, len[n])
    OBVIOUS
<1>6. c2 = [n \in Names |-> c2[n]]
    OBVIOUS
<1> HIDE DEF len
<1>7. ASSUME NEW n \in Names
      PROVE  /\ c2[n] \in Seq(Clusters) /\ Len(c2[n]) \in 0..Len(ch[n])
             /\ \A i \in 1..Len(c2[n]) : c2[n][i] = ch[n][i] /\ i \in 1..Len(ch[n])
             /\ Follows(cfat, c2[n], Len(c2[n]))
             /\ Image(cfat, cdata, cdir[n], c2[n], Len(c2[n]))
  <2>1. ch[n] \in Seq(Clusters) /\ Len(ch[n]) \in Nat
      BY <1>1, ChainSeqs DEF Good
  <2>2. cdir[n] \in Entry
      BY <1>3 DEF Typed, CardTyped
  <2>3. CASE cdir[n].clust = 0
    <3>1. c2[n] = <<>> /\ cdir[n].size = 0
        BY <1>4, <1>5, <2>3 DEF Image
    <3> QED
        BY <2>1, <2>3, <3>1, NoChain DEF Image
  <2>4. CASE cdir[n].clust # 0
    <3>1. c2[n] = SubSeq(ch[n], 1, len[n]) /\ len[n] \in 0..Len(ch[n]) /\ At(n, len[n])
        BY <1>4, <1>5, <2>4
    <3>2. /\ c2[n] \in Seq(Clusters) /\ Len(c2[n]) = len[n]
          /\ \A i \in 1..len[n] : c2[n][i] = ch[n][i] /\ i \in 1..Len(ch[n])
        BY <2>1, <3>1, FirstClusters
    <3>3. Image(cfat, cdata, cdir[n], c2[n], len[n])
        BY <2>1, <2>2, <3>1, <3>2, ImageKept
    <3>4. Follows(cfat, c2[n], len[n])
        BY <2>4, <3>3 DEF Image
    <3> QED
        BY <2>1, <3>1, <3>2, <3>3, <3>4
  <2> QED
      BY <2>3, <2>4
<1>8. Chained(c2)
  <2>1. c2 \in [Names -> Seq(Clusters)]
      BY <1>6, <1>7
  <2>2. Apart(c2)
      BY <1>1, <1>7 DEF Good, Chained, Apart
  <2> QED
      BY <2>1, <2>2 DEF Chained
<1>9. InMemory(c2)'
    BY <1>2, <1>7 DEF InMemory
<1>10. OnCard(c2)'
  <2>1. \A n \in Names : Len(c2[n]) \in 0..Len(c2[n])
      BY <1>7, LenProperties
  <2> QED
      BY <1>2, <1>7, <2>1 DEF OnCard
<1>11. InFiles(c2)' /\ Positions(file', c2, {})
  <2>1. \A n \in Names : ~file'[n].open
      BY <1>2, ClosedType
  <2> QED
      BY <2>1 DEF InFiles, Positions, PosOK
<1>12. Plan(c2, todo)'
  <2>1. PICK s : s = <<>>
      OBVIOUS
  <2>2. Plan(c2, s)'
      BY <1>11, <2>1, EndingNone, PlanEnding
  <2> QED
      BY <1>2, <2>1, <2>2
<1>13. SectsTyped' /\ WindowTyped' /\ BookTyped' /\ FileTyped'
  <2>1. SectsTyped' /\ WindowTyped'
      BY <1>2, <1>3 DEF Typed, CardTyped, SectsTyped, WindowTyped
  <2>2. FileTyped'
      BY <1>2, <1>3, ClosedType DEF Typed, FileTyped
  <2>3. BookTyped'
    <3>1. info.free \in 0..(NFATENT - 2) /\ info.last \in 1..(NFATENT - 1)
        BY <1>3 DEF Typed, BookTyped
    <3>2. stale' \in BOOLEAN
      <4>1. ASSUME NEW x, NEW y PROVE (x < y) \in BOOLEAN
          OBVIOUS
      <4> QED
          BY <1>2, <4>1, Zenon
    <3> QED
        BY <1>2, <1>3, <3>1, <3>2 DEF Typed, BookTyped
  <2> QED
      BY <2>1, <2>2, <2>3
<1>14. Counted(fat, free, stale, 0)'
  <2>1. info.free \in Nat
      BY <1>3, VolumeAssumption DEF Typed, BookTyped
  <2> DEFINE k == Cardinality(FreeSet(cfat))
  <2>2. k \in Nat
      BY FreeSetNat
  <2>3. stale' = (info.free < k) /\ free' = info.free
      BY <1>2
  <2>4. Cardinality(FreeSet(fat')) = k
      BY <1>2
  <2>5. ASSUME ~stale' PROVE ~(info.free < k)
      BY <2>3, <2>5, Zenon
  <2> HIDE DEF k
  <2>6. ~stale' => free' >= k + 0
      BY <2>1, <2>2, <2>3, <2>5
  <2> QED
      BY <2>4, <2>6 DEF Counted
<1> QED
    BY <1>1, <1>8, <1>9, <1>10, <1>11, <1>12, <1>13, <1>14, Stepped

-----------------------------------------------------------------------------
(* A byte is written. *)

\* The instructions of fputc(), by their kind.
LEMMA AllocAtHand ==
  ASSUME CInv, NEW ch, Good(ch), todo # <<>>, NEW s, s = Tail(todo), Instr.op = "alloc"
  PROVE  \E n \in Names : \E c \in Clusters :
           /\ Positions(file, ch, {n}) /\ Writing(file[n]) /\ free > 0
           /\ Instr.x = n /\ Instr.v = c /\ s = <<ByteI(n)>>
           /\ Grown(file[n], ch[n], c) /\ Counted(fat, free, stale, 1)
<1>1. PICK n \in Names : /\ Positions(file, ch, {n}) /\ Writing(file[n])
                         /\ Putting(ch, n, Instr, s)
    BY AtHand, NowKinds
<1>2. \A x, v : I("put", x, v).op = "put" /\ I("byte", x, v).op = "byte"
    BY Kinds
<1>3. PICK c \in Clusters : /\ Instr = I("alloc", n, c) /\ s = <<ByteI(n)>> /\ free > 0
                            /\ Grown(file[n], ch[n], c) /\ Counted(fat, free, stale, 1)
    BY <1>1, <1>2 DEF Putting, ByteI
<1>4. Instr.x = n /\ Instr.v = c
    BY <1>3, Kinds
<1> QED
    BY <1>1, <1>3, <1>4

\* A byte is to be written.
LEMMA ByteAtHand ==
  ASSUME CInv, NEW ch, Good(ch), todo # <<>>, NEW s, s = Tail(todo), Instr.op = "byte"
  PROVE  /\ s = <<>>
         /\ \E n \in Names : /\ Positions(file, ch, {n}) /\ Writing(file[n])
                             /\ Instr.x = n /\ Placed(file[n], ch[n])
<1>1. PICK n \in Names : /\ Positions(file, ch, {n}) /\ Writing(file[n])
                         /\ Putting(ch, n, Instr, s)
    BY AtHand, NowKinds
<1>2. \A x, v : I("put", x, v).op = "put" /\ I("alloc", x, v).op = "alloc"
    BY Kinds
<1>3. Instr = ByteI(n) /\ s = <<>> /\ Placed(file[n], ch[n])
    BY <1>1, <1>2 DEF Putting
<1>4. Instr.x = n
    BY <1>3, Kinds DEF ByteI
<1> QED
    BY <1>1, <1>3, <1>4

\* An entry of the FAT is to be put.
LEMMA PutAtHand ==
  ASSUME CInv, NEW ch, Good(ch), todo # <<>>, NEW s, s = Tail(todo), Instr.op = "put"
  PROVE  \E n \in Names : \E c \in Clusters :
           /\ Positions(file, ch, {n}) /\ Writing(file[n]) /\ free > 0
           /\ \/ /\ Instr.x = Last(ch[n]) /\ Instr.v = c /\ s = ToAlloc(n, c)
                 /\ Growing(file[n], ch[n])
                 /\ fat[c] = EOC /\ c \in Unused(ch) /\ Counted(fat, free, stale, 1)
              \/ /\ Instr.x = c /\ Instr.v = EOC /\ s = ToAlloc(n, c)
                 /\ First(file[n]) /\ fat[c] = Free
              \/ /\ Instr.x = c /\ Instr.v = EOC /\ s = ToLink(n, Last(ch[n]), c)
                 /\ Growing(file[n], ch[n]) /\ fat[c] = Free
<1>1. PICK n \in Names : /\ Positions(file, ch, {n}) /\ Writing(file[n])
                         /\ Putting(ch, n, Instr, s)
    BY AtHand, NowKinds
<1>2. \A x, v : I("alloc", x, v).op = "alloc" /\ I("byte", x, v).op = "byte"
    BY Kinds
<1>3. free > 0
    BY <1>1, <1>2 DEF Putting, ByteI
<1>4. PICK c \in Clusters :
          \/ /\ Instr = I("put", Last(ch[n]), c) /\ s = ToAlloc(n, c)
             /\ Growing(file[n], ch[n])
             /\ fat[c] = EOC /\ c \in Unused(ch) /\ Counted(fat, free, stale, 1)
          \/ /\ Instr = I("put", c, EOC) /\ s = ToAlloc(n, c)
             /\ First(file[n]) /\ fat[c] = Free
          \/ /\ Instr = I("put", c, EOC) /\ s = ToLink(n, Last(ch[n]), c)
             /\ Growing(file[n], ch[n]) /\ fat[c] = Free
    BY <1>1, <1>2 DEF Putting, ByteI
<1>5. \A x, v : Instr = I("put", x, v) => Instr.x = x /\ Instr.v = v
    BY Kinds
<1>6. CASE Instr = I("put", Last(ch[n]), c)
  <2>1. Instr.x = Last(ch[n]) /\ Instr.v = c
      BY <1>5, <1>6
  <2> QED
      BY <1>1, <1>3, <1>4, <1>5, <2>1
<1>7. CASE Instr = I("put", c, EOC)
  <2>1. Instr.x = c /\ Instr.v = EOC
      BY <1>5, <1>7
  <2> QED
      BY <1>1, <1>3, <1>4, <1>5, <2>1
<1> QED
    BY <1>4, <1>6, <1>7

\* The cluster that was found is the file's.
LEMMA AllocStep ==
  ASSUME CInv, Next, Alloc
  PROVE  Chains'
<1>1. PICK ch : Good(ch)
    BY DEF CInv, Chains
<1>2. /\ todo # <<>> /\ Instr.op = "alloc" /\ todo' = Tail(todo)
      /\ last' = Instr.v /\ free' = free - 1 /\ fsi' = TRUE
      /\ file' = [file EXCEPT ![Instr.x].clust = Instr.v,
                              ![Instr.x].sclust = IF @ = 0 THEN Instr.v ELSE @]
      /\ UNCHANGED <<live, wind, info, stale, gens>>
    BY DEF Alloc, Doing, Did
<1>3. Typed
    BY DEF CInv, Chains
<1>4. PICK s : s = Tail(todo)
    OBVIOUS
<1>5. PICK n \in Names, c \in Clusters :
        /\ Positions(file, ch, {n}) /\ Writing(file[n]) /\ free > 0
        /\ Instr.x = n /\ Instr.v = c /\ s = <<ByteI(n)>>
        /\ Grown(file[n], ch[n], c) /\ Counted(fat, free, stale, 1)
    BY <1>1, <1>2, <1>4, AllocAtHand
<1>6. PICK g \in FileType :
        /\ file' = [file EXCEPT ![n] = g]
        /\ g.open = file[n].open /\ g.size = file[n].size /\ g.fptr = file[n].fptr
        /\ g.err = file[n].err /\ g.gen = file[n].gen /\ g.clust = c
        /\ g.sclust = IF file[n].sclust = 0 THEN c ELSE file[n].sclust
  <2> DEFINE h == [file[n] EXCEPT !.clust = c, !.sclust = IF @ = 0 THEN c ELSE @]
  <2>1. file' = [file EXCEPT ![n] = h]
      BY <1>2, <1>5
  <2>2. file[n] \in FileType
      BY <1>3 DEF Typed, FileTyped
  <2>3. h \in FileType
      BY <2>2 DEF FileType
  <2>4. /\ h.open = file[n].open /\ h.size = file[n].size /\ h.fptr = file[n].fptr
        /\ h.err = file[n].err /\ h.gen = file[n].gen /\ h.clust = c
        /\ h.sclust = IF file[n].sclust = 0 THEN c ELSE file[n].sclust
      BY <2>2 DEF FileType
  <2> HIDE DEF h
  <2> QED
      BY <2>1, <2>3, <2>4
<1>7. /\ ch[n] \in Seq(Clusters) /\ Len(ch[n]) \in Nat
      /\ file[n] \in FileType /\ file[n].fptr \in Nat /\ file[n].open
      /\ BPC \in Nat \ {0}
    BY <1>1, <1>3, <1>5, ChainSeqs, VolumeAssumption
       DEF Good, Typed, FileTyped, FileType, Writing
<1>8. FileOK(fat, data, dir[n], g, ch[n])
  <2>1. FileOK(fat, data, dir[n], file[n], ch[n])
      BY <1>1, <1>7 DEF Good, InFiles
  <2>2. CASE file[n].sclust # 0
    <3>1. EntryOf(g) = EntryOf(file[n])
        BY <1>6, <2>2 DEF EntryOf
    <3> QED
        BY <1>6, <2>1, <2>2, <3>1 DEF FileOK
  <2>3. CASE file[n].sclust = 0
    <3>1. file[n].size = 0 /\ dir[n].clust = 0 /\ dir[n].size <= file[n].size
        BY <2>1, <2>3 DEF FileOK, Image, EntryOf
    <3>2. Len(ch[n]) = 1 /\ c = ch[n][1] /\ c # 0
        BY <1>5, <2>3 DEF Grown, Last, Clusters
    <3>3. Follows(fat, ch[n], Len(ch[n]))
        BY <1>1 DEF Good, InMemory
    <3>4. EntryOf(g).clust = c /\ EntryOf(g).size = 0
        BY <1>6, <2>3, <3>1 DEF EntryOf
    <3>5. Image(fat, data, EntryOf(g), ch[n], 1)
        BY <1>7, <3>2, <3>3, <3>4 DEF Image, Filled
    <3> QED
        BY <1>6, <2>1, <3>1, <3>2, <3>5 DEF FileOK
  <2> QED
      BY <2>2, <2>3
<1>9. InFiles(ch)' /\ Positions(file', ch, {n})
    BY <1>1, <1>2, <1>3, <1>5, <1>6, <1>8, OneFile DEF Good
<1>10. Placed(file'[n], ch[n]) /\ Writing(file'[n])
  <2>1. file'[n] = g
      BY <1>3, <1>6 DEF Typed, FileTyped
  <2>2. /\ Len(ch[n]) > 0 /\ c = ch[n][Len(ch[n])] /\ file[n].fptr = (Len(ch[n]) - 1) * BPC
      BY <1>5 DEF Grown, Last
  <2> DEFINE q == Len(ch[n]) - 1
  <2>3. q \in Nat /\ q + 1 = Len(ch[n])
      BY <1>7, <2>2
  <2>4. g.fptr = q * BPC
      BY <1>6, <2>2
  <2> HIDE DEF q
  <2>5. g.fptr \div BPC = q
      BY <1>7, <2>3, <2>4, DivTimes
  <2>6. c # 0
      BY DEF Clusters
  <2>7. g.sclust # 0 /\ g.clust = c
      BY <1>6, <2>6
  <2>8. Placed(g, ch[n])
      BY <1>7, <2>2, <2>3, <2>5, <2>7 DEF Placed
  <2> QED
      BY <1>5, <1>6, <2>1, <2>8 DEF Writing
<1>11. Plan(ch, todo)'
  <2>1. s = <<ByteI(n)>>
      BY <1>5
  <2>2. Plan(ch, <<ByteI(n)>>)'
      BY <1>9, <1>10, ByteLeft, Zenon
  <2>3. Plan(ch, s)'
      BY <2>1, <2>2
  <2> QED
      BY <1>2, <1>4, <2>3
<1>12. WindowTyped' /\ BookTyped' /\ FileTyped'
  <2>1. last' \in 1..(NFATENT - 1) /\ free' \in 0..(NFATENT - 2)
    <3>1. last' = c /\ free' = free - 1 /\ free > 0 /\ free \in 0..(NFATENT - 2)
        BY <1>2, <1>3, <1>5 DEF Typed, BookTyped
    <3> QED
        BY <3>1, VolumeAssumption DEF Clusters
  <2>2. file' \in [Names -> FileType]
      BY <1>3, <1>6 DEF Typed, FileTyped
  <2> QED
      BY <1>2, <1>3, <2>1, <2>2 DEF Typed, WindowTyped, BookTyped, FileTyped
<1>13. Counted(fat, free, stale, 0)'
  <2> DEFINE k == Cardinality(FreeSet(fat))
  <2>1. k \in Nat /\ free \in Nat
      BY <1>3, FreeSetNat, VolumeAssumption DEF Typed, BookTyped
  <2>2. ~stale => free >= k + 1
      BY <1>5 DEF Counted
  <2>3. Cardinality(FreeSet(fat')) = k
      BY <1>2
  <2> HIDE DEF k
  <2>4. ~stale' => free' >= k + 0
      BY <1>2, <2>1, <2>2
  <2> QED
      BY <2>3, <2>4 DEF Counted
<1> QED
    BY <1>1, <1>2, <1>9, <1>11, <1>12, <1>13, Stayed

\* Clusters before the m-th are whole.
LEMMA DivBelow ==
  ASSUME NEW b \in Nat \ {0}, NEW k \in Nat, NEW m \in Nat, k \div b < m
  PROVE  k + 1 <= m * b
<1> DEFINE q == k \div b
           r == k % b
<1>1. q \in Nat /\ r \in 0..(b - 1) /\ k = (b * q) + r
    BY DivFacts
<1>2. q + 1 <= m
    BY <1>1
<1> HIDE DEF q, r
<1>3. b * (q + 1) <= b * m
    BY <1>1, <1>2
<1>4. b * (q + 1) = (b * q) + b
    BY <1>1
<1>5. b * m = m * b /\ b * q \in Nat /\ b * m \in Nat
    BY <1>1
<1> QED
    BY <1>1, <1>3, <1>4, <1>5

\* What PutByte makes of the cluster.
Byted(f, d) ==
  IF GrowingEdge(f) THEN [gen |-> f.gen, n |-> 1]
  ELSE IF d.gen = f.gen /\ d.n <= f.fptr % BPC THEN [gen |-> f.gen, n |-> (f.fptr % BPC) + 1]
  ELSE d

\* The bytes of a file after one more: those that it had, and the one at its place.
LEMMA ByteFilled ==
  ASSUME NEW s \in Seq(Clusters), NEW f \in FileType, Filled(data, EntryOf(f), s),
         \A i, j \in 1..Len(s) : s[i] = s[j] => i = j,
         f.size <= Len(s) * BPC, f.fptr <= f.size, f.fptr \div BPC < Len(s),
         NEW c, c = s[(f.fptr \div BPC) + 1], NEW h,
         \A x \in Clusters \ {c} : h[x] = data[x],
         h[c] = Byted(f, data[c]),
         NEW k \in Nat, k < f.size \/ k = f.fptr
  PROVE  /\ h[s[(k \div BPC) + 1]].gen = f.gen
         /\ k < f.size => (data[s[(k \div BPC) + 1]].n \in Int => k % BPC < h[s[(k \div BPC) + 1]].n)
         /\ k = f.fptr => (data[c].n \in Int => k % BPC < h[c].n)
<1> DEFINE q == f.fptr \div BPC
           o == f.fptr % BPC
           i == k \div BPC
           r == k % BPC
<1>0. BPC \in Nat \ {0} /\ f.fptr \in Nat /\ f.size \in Nat /\ Len(s) \in Nat
    BY VolumeAssumption, LenProperties DEF FileType
<1>1. q \in Nat /\ o \in 0..(BPC - 1) /\ f.fptr = (BPC * q) + o
    BY <1>0, DivFacts
<1>2. i \in Nat /\ r \in 0..(BPC - 1) /\ k = (BPC * i) + r
    BY <1>0, DivFacts
<1>3. k < f.size => i + 1 \in 1..Len(s)
  <2> SUFFICES ASSUME k < f.size PROVE i + 1 \in 1..Len(s)
      OBVIOUS
  <2>1. k \in 0..(f.size - 1)
      BY <1>0
  <2> QED
      BY <1>0, <2>1, ByteIn
<1>4. q < Len(s) /\ c = s[q + 1]
    OBVIOUS
<1>5. \A j \in 0..(f.size - 1) : /\ data[s[(j \div BPC) + 1]].gen = f.gen
                                /\ j % BPC < data[s[(j \div BPC) + 1]].n
    BY DEF Filled, EntryOf
<1>6. k < f.size => data[s[i + 1]].gen = f.gen /\ r < data[s[i + 1]].n
  <2> SUFFICES ASSUME k < f.size PROVE data[s[i + 1]].gen = f.gen /\ r < data[s[i + 1]].n
      OBVIOUS
  <2>1. k \in 0..(f.size - 1)
      BY <1>0
  <2> QED
      BY <1>5, <2>1
<1>7. GrowingEdge(f) <=> o = 0 /\ f.fptr >= f.size
    BY DEF GrowingEdge
<1>8. h[c] = IF GrowingEdge(f) THEN [gen |-> f.gen, n |-> 1]
             ELSE IF data[c].gen = f.gen /\ data[c].n <= o THEN [gen |-> f.gen, n |-> o + 1]
             ELSE data[c]
    BY DEF Byted
<1>9. k = f.fptr => i = q /\ r = o
    OBVIOUS
<1>10. \A j \in 1..Len(s) : s[j] \in Clusters
    BY ElementOfSeq
<1>12. o # 0 => (f.fptr - 1) \div BPC = q
    BY <1>0, DivSame
<1>13. ASSUME o # 0, k = f.fptr, k = f.size PROVE data[c].gen = f.gen
  <2>1. f.fptr # 0
    <3>1. 0 % BPC = 0
        BY <1>0
    <3> QED
        BY <1>13, <3>1
  <2>2. f.fptr - 1 \in 0..(f.size - 1)
      BY <1>0, <1>13, <2>1
  <2>3. data[s[((f.fptr - 1) \div BPC) + 1]].gen = f.gen
      BY <1>5, <2>2
  <2> QED
      BY <1>4, <1>12, <1>13, <2>3
<1> SUFFICES /\ h[s[i + 1]].gen = f.gen
             /\ k < f.size => (data[s[i + 1]].n \in Int => r < h[s[i + 1]].n)
             /\ k = f.fptr => (data[c].n \in Int => r < h[c].n)
    OBVIOUS
<1> HIDE DEF q, o, i, r
<1>11. q + 1 \in 1..Len(s)
    BY <1>0, <1>1, <1>4
<1>14. CASE k < f.size /\ s[i + 1] # c
  <2>1. h[s[i + 1]] = data[s[i + 1]]
      BY <1>3, <1>10, <1>14
  <2>2. k # f.fptr
      BY <1>4, <1>9, <1>14
  <2> QED
      BY <1>6, <1>14, <2>1, <2>2
<1>15. CASE k < f.size /\ s[i + 1] = c
  <2>1. i = q
    <3>1. i + 1 = q + 1
        BY <1>3, <1>4, <1>11, <1>15
    <3> QED
        BY <1>1, <1>2, <3>1
  <2>2. ~GrowingEdge(f)
    <3> SUFFICES ASSUME o = 0, f.fptr >= f.size PROVE FALSE
        BY <1>7
    <3>1. f.fptr = BPC * q /\ k = (BPC * q) + r /\ BPC * q \in Int
        BY <1>0, <1>1, <1>2, <2>1
    <3> QED
        BY <1>0, <1>2, <1>15, <3>1
  <2>3. data[c].gen = f.gen /\ r < data[c].n
      BY <1>6, <1>15
  <2>4. CASE h[c] = data[c]
      BY <1>15, <2>3, <2>4
  <2>5. CASE data[c].n <= o /\ h[c] = [gen |-> f.gen, n |-> o + 1]
    <3>1. h[c].n = o + 1 /\ h[c].gen = f.gen
        BY <2>5
    <3>2. ASSUME data[c].n \in Int PROVE r < h[c].n
        BY <1>0, <1>1, <1>2, <2>3, <2>5, <3>1, <3>2
    <3> QED
        BY <1>15, <3>1, <3>2
  <2> QED
      BY <1>8, <2>2, <2>4, <2>5
<1>16. CASE ~(k < f.size)
  <2>1. k = f.fptr /\ k = f.size /\ i = q /\ r = o
      BY <1>0, <1>9, <1>16
  <2>2. CASE o = 0
    <3>1. h[c] = [gen |-> f.gen, n |-> 1]
        BY <1>0, <1>7, <1>8, <2>1, <2>2
    <3> QED
        BY <1>4, <1>16, <2>1, <2>2, <3>1
  <2>3. CASE o # 0
    <3>1. h[c] = IF data[c].n <= o THEN [gen |-> f.gen, n |-> o + 1] ELSE data[c]
        BY <1>7, <1>8, <1>13, <2>1, <2>3
    <3>2. h[c].gen = f.gen
        BY <1>13, <2>1, <2>3, <3>1
    <3>3. ASSUME data[c].n \in Int PROVE o < h[c].n
        BY <1>0, <1>1, <3>1, <3>3
    <3> QED
        BY <1>4, <1>16, <2>1, <3>2, <3>3
  <2> QED
      BY <2>2, <2>3
<1> QED
    BY <1>14, <1>15, <1>16

\* What a cluster holds after a byte.
LEMMA BytedType ==
  ASSUME NEW f \in FileType, NEW d \in Content
  PROVE  Byted(f, d) \in Content
<1> DEFINE o == f.fptr % BPC
<1>1. BPC \in Nat \ {0} /\ f.fptr \in Nat /\ f.gen \in 0..MAXGEN
    BY VolumeAssumption DEF FileType
<1>2. o \in 0..(BPC - 1)
    BY <1>1, DivFacts
<1> HIDE DEF o
<1>3. [gen |-> f.gen, n |-> 1] \in Content /\ [gen |-> f.gen, n |-> o + 1] \in Content
    BY <1>1, <1>2 DEF Content
<1> QED
    BY <1>3 DEF Byted, o

\* The other files do not see it.
LEMMA OtherImages ==
  ASSUME NEW ch, Chained(ch), NEW n \in Names, NEW c, c \in Rng(ch[n]),
         NEW h, \A x \in Clusters \ {c} : h[x] = data[x],
         NEW m \in Names, m # n, NEW e \in Entry, Image(fat, data, e, ch[m], Len(ch[m]))
  PROVE  Image(fat, h, e, ch[m], Len(ch[m]))
<1>1. ch[m] \in Seq(Clusters) /\ Len(ch[m]) \in Nat /\ \A i \in 1..Len(ch[m]) : ch[m][i] \in Clusters
    BY ChainSeqs
<1>2. \A i \in 1..Len(ch[m]) : ch[m][i] # c
    BY DEF Chained, Apart, Rng
<1> DEFINE s == ch[m]
           L == Len(ch[m])
<1>3. s \in Seq(Clusters) /\ L \in 0..Len(s) /\ Image(fat, data, e, s, L)
    BY <1>1
<1>4. \A i \in 1..L : s[i] = s[i] /\ fat[s[i]] = fat[s[i]] /\ h[s[i]] = data[s[i]]
    BY <1>1, <1>2
<1> HIDE DEF s, L
<1>5. Image(fat, h, e, s, L)
    BY <1>3, <1>4, ImageKept
<1> QED
    BY <1>5 DEF s, L

\* The entry that a file would get.
LEMMA EntryOfType ==
  ASSUME NEW f \in FileType
  PROVE  EntryOf(f) \in Entry
    BY DEF FileType, EntryOf, Entry

\* The file and its entry after the byte.
LEMMA ByteImages ==
  ASSUME NEW s \in Seq(Clusters), \A i, j \in 1..Len(s) : s[i] = s[j] => i = j,
         NEW f \in FileType, NEW e \in Entry, Image(fat, data, e, s, Len(s)),
         FileOK(fat, data, e, f, s), f.fptr < MAXSIZE, Placed(f, s),
         \A x \in Clusters : data[x].n \in Int,
         NEW h, \A x \in Clusters \ {f.clust} : h[x] = data[x],
         h[f.clust] = Byted(f, data[f.clust]),
         NEW g, g = [f EXCEPT !.fptr = f.fptr + 1,
                              !.size = IF f.fptr + 1 > f.size THEN f.fptr + 1 ELSE f.size,
                              !.mod = TRUE]
  PROVE  /\ Image(fat, h, e, s, Len(s)) /\ FileOK(fat, h, e, g, s) /\ PosOK(g, s)
         /\ g \in FileType
<1> DEFINE q == f.fptr \div BPC
           c == s[q + 1]
           L == Len(s)
<1>1. /\ BPC \in Nat \ {0} /\ MAXSIZE \in Nat /\ L \in Nat
      /\ f.fptr \in Nat /\ f.size \in Nat /\ f.size <= MAXSIZE
      /\ e.size \in Nat /\ f.clust = c /\ q < L /\ f.sclust # 0
    BY VolumeAssumption, LenProperties DEF FileType, Entry, Placed
<1>2. q \in Nat
    BY <1>1, DivFacts
<1>3. c \in Clusters /\ q + 1 \in 1..L
  <2>1. \A i \in 1..Len(s) : s[i] \in Clusters
      BY ElementOfSeq
  <2> HIDE DEF q
  <2>2. q + 1 \in 1..L
      BY <1>1, <1>2
  <2> QED
      BY <2>1, <2>2
<1>4. /\ \A x \in Clusters \ {c} : h[x] = data[x]
      /\ h[c] = Byted(f, data[c])
    BY <1>1
<1>5. Image(fat, data, EntryOf(f), s, L) /\ f.fptr <= f.size /\ e.clust \in {0, f.sclust}
      /\ e.size <= f.size
    BY DEF FileOK
<1>6. f.size <= L * BPC /\ Follows(fat, s, L) /\ Filled(data, EntryOf(f), s) /\ f.sclust = s[1]
  <2>1. EntryOf(f).clust = f.sclust /\ EntryOf(f).size = f.size
      BY DEF EntryOf
  <2> QED
      BY <1>1, <1>5, <2>1 DEF Image
<1>7. \A k \in Nat : k < f.size => (k \div BPC) + 1 \in 1..L
  <2> TAKE k \in Nat
  <2>1. k < f.size => k \in 0..(f.size - 1)
      BY <1>1
  <2> QED
      BY <1>1, <1>6, <2>1, ByteIn
<1>9. \A i \in 1..L : s[i] \in Clusters
    BY ElementOfSeq
<1>10. ASSUME NEW k \in Nat, k < f.size \/ k = f.fptr
       PROVE  h[s[(k \div BPC) + 1]].gen = f.gen /\ k % BPC < h[s[(k \div BPC) + 1]].n
  <2>1. /\ h[s[(k \div BPC) + 1]].gen = f.gen
        /\ k < f.size => (data[s[(k \div BPC) + 1]].n \in Int => k % BPC < h[s[(k \div BPC) + 1]].n)
        /\ k = f.fptr => (data[c].n \in Int => k % BPC < h[c].n)
    <3>1. h[c] = Byted(f, data[c])
        BY <1>4
    <3>2. f.fptr \div BPC < Len(s) /\ c = s[(f.fptr \div BPC) + 1]
        BY <1>1
    <3>3. f.size <= Len(s) * BPC /\ f.fptr <= f.size /\ Filled(data, EntryOf(f), s)
        BY <1>5, <1>6
    <3>4. \A x \in Clusters \ {c} : h[x] = data[x]
        BY <1>4
    <3> HIDE DEF c
    <3> QED
        BY <1>10, <3>1, <3>2, <3>3, <3>4, ByteFilled, SMTT(30)
  <2>2. CASE k < f.size
    <3>1. data[s[(k \div BPC) + 1]].n \in Int
        BY <1>7, <1>9, <2>2
    <3> QED
        BY <2>1, <2>2, <3>1
  <2>3. CASE k = f.fptr
    <3>1. data[c].n \in Int
        BY <1>3
    <3> QED
        BY <2>1, <2>3, <3>1
  <2> QED
      BY <1>10, <2>2, <2>3
<1>11. Image(fat, h, e, s, L)
  <2>1. CASE e.clust = 0
      BY <2>1 DEF Image
  <2>2. CASE e.clust # 0
    <3>1. /\ L > 0 /\ e.clust = s[1] /\ e.size <= L * BPC
          /\ Follows(fat, s, L) /\ Filled(data, e, s)
        BY <2>2 DEF Image
    <3>2. ASSUME NEW k \in 0..(e.size - 1)
          PROVE  /\ h[s[(k \div BPC) + 1]].gen = e.gen
                 /\ k % BPC < h[s[(k \div BPC) + 1]].n
      <4>1. k \in Nat /\ k < f.size /\ k \in 0..(f.size - 1)
          BY <1>1, <1>5
      <4>2. data[s[(k \div BPC) + 1]].gen = e.gen
          BY <3>1 DEF Filled
      <4>3. data[s[(k \div BPC) + 1]].gen = f.gen
          BY <1>6, <4>1 DEF Filled, EntryOf
      <4> QED
          BY <1>10, <4>1, <4>2, <4>3
    <3>3. Filled(h, e, s)
        BY <3>2 DEF Filled
    <3> QED
        BY <2>2, <3>1, <3>3 DEF Image
  <2> QED
      BY <2>1, <2>2
<1>12. /\ g.fptr = f.fptr + 1 /\ g.size = IF f.fptr + 1 > f.size THEN f.fptr + 1 ELSE f.size
       /\ g.sclust = f.sclust /\ g.gen = f.gen /\ g.clust = f.clust /\ g \in FileType
  <2>1. f.fptr + 1 \in 0..MAXSIZE
      BY <1>1
  <2> QED
      BY <1>1, <2>1 DEF FileType
<1>13. Image(fat, h, EntryOf(g), s, L)
  <2>1. /\ EntryOf(g).clust = f.sclust /\ EntryOf(g).gen = f.gen
        /\ EntryOf(g).size = g.size
      BY <1>12 DEF EntryOf
  <2>2. f.fptr + 1 <= L * BPC
    <3> HIDE DEF L
    <3> QED
        BY <1>1, DivBelow
  <2>3. g.size <= L * BPC
      BY <1>6, <1>12, <2>2
  <2>4. ASSUME NEW k \in 0..(g.size - 1)
        PROVE  /\ h[s[(k \div BPC) + 1]].gen = f.gen
               /\ k % BPC < h[s[(k \div BPC) + 1]].n
    <3>1. k \in Nat /\ (k < f.size \/ k = f.fptr)
        BY <1>1, <1>5, <1>12
    <3> QED
        BY <1>10, <3>1
  <2>5. Filled(h, EntryOf(g), s)
      BY <2>1, <2>4 DEF Filled
  <2>6. L > 0
    <3> HIDE DEF q, L
    <3> QED
        BY <1>1, <1>2
  <2> QED
      BY <1>1, <1>6, <2>1, <2>3, <2>5, <2>6 DEF Image
<1>14. FileOK(fat, h, e, g, s)
  <2>1. g.fptr <= g.size /\ f.size <= g.size
      BY <1>1, <1>5, <1>12
  <2>2. e.size <= g.size /\ g.size \in Nat
      BY <1>1, <1>5, <1>12, <2>1
  <2> QED
      BY <1>5, <1>12, <1>13, <2>1, <2>2 DEF FileOK
<1>15. PosOK(g, s)
  <2>1. g.fptr - 1 = f.fptr /\ g.clust = c
      BY <1>1, <1>12
  <2> QED
      BY <2>1 DEF PosOK
<1> QED
    BY <1>11, <1>12, <1>14, <1>15

\* The byte is written.
LEMMA ByteStep ==
  ASSUME CInv, Next, PutByte
  PROVE  Chains'
<1>1. PICK ch : Good(ch)
    BY DEF CInv, Chains
<1>0. todo # <<>> /\ Instr.op = "byte"
    BY DEF PutByte, Doing
<1>4. PICK s : s = Tail(todo)
    OBVIOUS
<1>5. PICK n \in Names :
        /\ Positions(file, ch, {n}) /\ Writing(file[n])
        /\ Instr.x = n /\ Placed(file[n], ch[n])
    BY <1>0, <1>1, <1>4, ByteAtHand
<1> DEFINE n0 == Instr.x
           f0 == file[n0]
<1>2. /\ todo # <<>> /\ Instr.op = "byte" /\ todo' = Tail(todo)
      /\ win' = DataSect(f0.clust) /\ dirty' = TRUE
      /\ data' = [data EXCEPT ![f0.clust] = Byted(f0, data[f0.clust])]
      /\ file' = [file EXCEPT ![n0].fptr = f0.fptr + 1,
                              ![n0].size = IF f0.fptr + 1 > f0.size THEN f0.fptr + 1 ELSE f0.size,
                              ![n0].mod = TRUE]
      /\ UNCHANGED <<fat, dir, book, stale, gens>>
    BY DEF PutByte, Doing, Did, Byted, MoveWindow
<1>3. Typed
    BY DEF CInv, Chains
<1>61. PICK f \in FileType : f = file[n]
    BY <1>3 DEF Typed, FileTyped
<1>62. PICK c : c = f.clust
    OBVIOUS
<1>6. f = file[n] /\ c = f.clust
    BY <1>61, <1>62
<1>7. PICK g : g = [f EXCEPT !.fptr = f.fptr + 1,
                             !.size = IF f.fptr + 1 > f.size THEN f.fptr + 1 ELSE f.size,
                             !.mod = TRUE]
    OBVIOUS
<1>8. file' = [file EXCEPT ![n] = g]
    BY <1>2, <1>5, <1>6, <1>7
<1>9. PICK h : h = [data EXCEPT ![c] = Byted(f, data[c])]
    OBVIOUS
<1>10. data' = h /\ win' = DataSect(c)
    BY <1>2, <1>5, <1>6, <1>9
<1> HIDE DEF n0, f0
<1>11. /\ Chained(ch) /\ InMemory(ch) /\ InFiles(ch)
       /\ f.open /\ f.fptr < MAXSIZE /\ Placed(f, ch[n])
    BY <1>1, <1>5, <1>6 DEF Good, Writing
<1>12. /\ ch[n] \in Seq(Clusters) /\ Len(ch[n]) \in Nat
       /\ \A i, j \in 1..Len(ch[n]) : ch[n][i] = ch[n][j] => i = j
       /\ \A i \in 1..Len(ch[n]) : ch[n][i] \in Clusters
    BY <1>11, ChainSeqs DEF Chained, Apart
<1>13. c \in Rng(ch[n]) /\ c \in Clusters
  <2> DEFINE q == f.fptr \div BPC
  <2>1. q < Len(ch[n]) /\ c = ch[n][q + 1]
      BY <1>6, <1>11 DEF Placed
  <2>2. q \in Nat
      BY DivFacts, VolumeAssumption DEF FileType
  <2> HIDE DEF q
  <2>3. q + 1 \in 1..Len(ch[n])
      BY <1>12, <2>1, <2>2
  <2> QED
      BY <1>12, <2>1, <2>3 DEF Rng
<1>14. /\ h \in [Clusters -> Content] /\ h[c] = Byted(f, data[c])
       /\ \A x \in Clusters \ {c} : h[x] = data[x]
       /\ \A x \in Clusters : data[x].n \in Int
  <2>1. data \in [Clusters -> Content]
      BY <1>3 DEF Typed, SectsTyped
  <2>2. Byted(f, data[c]) \in Content
      BY <1>13, <2>1, BytedType
  <2>3. \A x \in Clusters : data[x].n \in Int
      BY <2>1, VolumeAssumption DEF Content
  <2> QED
      BY <1>9, <1>13, <2>1, <2>2, <2>3
<1>15. /\ Image(fat, h, dir[n], ch[n], Len(ch[n])) /\ FileOK(fat, h, dir[n], g, ch[n])
       /\ PosOK(g, ch[n]) /\ g \in FileType
  <2>1. Image(fat, data, dir[n], ch[n], Len(ch[n])) /\ dir[n] \in Entry
      BY <1>3, <1>11 DEF InMemory, Typed, SectsTyped
  <2>2. FileOK(fat, data, dir[n], f, ch[n])
      BY <1>6, <1>11 DEF InFiles
  <2> DEFINE r == ch[n]
             e == dir[n]
  <2>3. /\ r \in Seq(Clusters) /\ \A i, j \in 1..Len(r) : r[i] = r[j] => i = j
      BY <1>12
  <2>4. e \in Entry /\ Image(fat, data, e, r, Len(r)) /\ FileOK(fat, data, e, f, r) /\ Placed(f, r)
      BY <1>11, <2>1, <2>2
  <2>5. /\ h[f.clust] = Byted(f, data[f.clust]) /\ \A x \in Clusters \ {f.clust} : h[x] = data[x]
        /\ \A x \in Clusters : data[x].n \in Int
        /\ f.fptr < MAXSIZE
      BY <1>6, <1>11, <1>14
  <2> HIDE DEF r, e
  <2>6. /\ Image(fat, h, e, r, Len(r)) /\ FileOK(fat, h, e, g, r) /\ PosOK(g, r)
        /\ g \in FileType
      BY <1>7, <2>3, <2>4, <2>5, ByteImages, ZenonT(60)
  <2> QED
      BY <2>6 DEF r, e
<1>16. \A m \in Names : file'[m] = IF m = n THEN g ELSE file[m]
    BY <1>3, <1>8 DEF Typed, FileTyped
<1>17. InMemory(ch)'
  <2>1. ASSUME NEW m \in Names
        PROVE  Follows(fat, ch[m], Len(ch[m])) /\ Image(fat, h, dir[m], ch[m], Len(ch[m]))
    <3>1. Image(fat, data, dir[m], ch[m], Len(ch[m])) /\ dir[m] \in Entry
        BY <1>3, <1>11 DEF InMemory, Typed, SectsTyped
    <3>2. CASE m = n
        BY <1>11, <1>15, <3>2 DEF InMemory
    <3>3. CASE m # n
      <4>1. Image(fat, h, dir[m], ch[m], Len(ch[m]))
          BY <1>11, <1>13, <1>14, <3>1, <3>3, OtherImages
      <4> QED
          BY <1>11, <4>1 DEF InMemory
    <3> QED
        BY <3>2, <3>3
  <2> QED
      BY <1>2, <1>10, <2>1 DEF InMemory
<1>18. InFiles(ch)'
  <2>1. ASSUME NEW m \in Names, file'[m].open PROVE FileOK(fat, h, dir[m], file'[m], ch[m])
    <3>1. CASE m = n
        BY <1>15, <1>16, <3>1
    <3>2. CASE m # n
      <4>1. file'[m] = file[m] /\ file[m].open /\ file[m] \in FileType
          BY <1>3, <1>16, <2>1, <3>2 DEF Typed, FileTyped
      <4>2. FileOK(fat, data, dir[m], file[m], ch[m])
          BY <1>11, <4>1 DEF InFiles
      <4>3. Image(fat, data, EntryOf(file[m]), ch[m], Len(ch[m])) /\ EntryOf(file[m]) \in Entry
          BY <4>1, <4>2, EntryOfType DEF FileOK
      <4> DEFINE e == EntryOf(file[m])
      <4>4. e \in Entry /\ Image(fat, data, e, ch[m], Len(ch[m]))
          BY <4>3
      <4> HIDE DEF e
      <4>5. Image(fat, h, e, ch[m], Len(ch[m]))
          BY <1>11, <1>13, <1>14, <3>2, <4>4, OtherImages
      <4> QED
          BY <4>1, <4>2, <4>5 DEF FileOK, e
    <3> QED
        BY <3>1, <3>2
  <2> QED
      BY <1>2, <1>10, <2>1 DEF InFiles
<1>19. Positions(file', ch, {})
    BY <1>5, <1>15, <1>16 DEF Positions
<1>20. Plan(ch, todo)'
  <2>1. Plan(ch, s)'
    <3>1. s = <<>>
        BY <1>0, <1>1, <1>4, ByteAtHand
    <3> QED
        BY <1>19, <3>1, EndingNone, PlanEnding
  <2> QED
      BY <1>2, <1>4, <2>1
<1>21. SectsTyped' /\ WindowTyped' /\ BookTyped' /\ FileTyped'
  <2>1. SectsTyped'
      BY <1>2, <1>3, <1>10, <1>14 DEF Typed, SectsTyped
  <2>2. WindowTyped'
      BY <1>2, <1>10, <1>13 DEF WindowTyped
  <2>3. file' \in [Names -> FileType]
      BY <1>3, <1>8, <1>15 DEF Typed, FileTyped
  <2> QED
      BY <1>2, <1>3, <2>1, <2>2, <2>3 DEF Typed, BookTyped, FileTyped
<1>22. Counted(fat, free, stale, 0)'
    BY <1>2 DEF CInv, Chains, Counted, FreeSet
<1>23. OnCard(ch)'
    BY <1>1, <1>3, OnCardNext DEF CInv
<1> QED
    BY <1>1, <1>11, <1>17, <1>18, <1>20, <1>21, <1>22, <1>23, Stepped

-----------------------------------------------------------------------------
(* The FAT changes. *)

\* A free cluster is taken.
LEMMA FreeLess ==
  ASSUME NEW f, IsFcn(f, Clusters), NEW c \in Clusters, f[c] = Free, NEW v, v # Free
  PROVE  Cardinality(FreeSet([f EXCEPT ![c] = v])) = Cardinality(FreeSet(f)) - 1
<1> DEFINE g == [f EXCEPT ![c] = v]
<1>1. \A x \in Clusters : g[x] = IF x = c THEN v ELSE f[x]
    BY DEF IsFcn
<1> HIDE DEF g
<1>2. FreeSet(g) = FreeSet(f) \ {c} /\ c \in FreeSet(f)
    BY <1>1 DEF FreeSet
<1>3. IsFiniteSet(FreeSet(f))
    BY FreeSetNat
<1> QED
    BY <1>2, <1>3, FS_RemoveElement DEF g

\* A cluster in use stays in use.
LEMMA FreeSame ==
  ASSUME NEW f, IsFcn(f, Clusters), NEW c \in Clusters, f[c] # Free, NEW v, v # Free
  PROVE  FreeSet([f EXCEPT ![c] = v]) = FreeSet(f)
<1> DEFINE g == [f EXCEPT ![c] = v]
<1>1. \A x \in Clusters : g[x] = IF x = c THEN v ELSE f[x]
    BY DEF IsFcn
<1> HIDE DEF g
<1>2. FreeSet(g) = FreeSet(f)
    BY <1>1 DEF FreeSet
<1> QED
    BY <1>2 DEF g

\* A cluster becomes free.
LEMMA FreeMore ==
  ASSUME NEW f, IsFcn(f, Clusters), NEW c \in Clusters
  PROVE  LET k == Cardinality(FreeSet(f))
             l == Cardinality(FreeSet([f EXCEPT ![c] = Free]))
         IN  l \in Nat /\ l <= NFATENT - 2 /\ l = IF f[c] = Free THEN k ELSE k + 1
<1> DEFINE g == [f EXCEPT ![c] = Free]
<1>1. \A x \in Clusters : g[x] = IF x = c THEN Free ELSE f[x]
    BY DEF IsFcn
<1> HIDE DEF g
<1>2. FreeSet(g) = FreeSet(f) \cup {c} /\ (c \in FreeSet(f) <=> f[c] = Free)
    BY <1>1 DEF FreeSet
<1>3. IsFiniteSet(FreeSet(f)) /\ Cardinality(FreeSet(g)) \in Nat
    BY FreeSetNat
<1>4. Cardinality(FreeSet(g)) = IF f[c] = Free THEN Cardinality(FreeSet(f))
                                ELSE Cardinality(FreeSet(f)) + 1
    BY <1>2, <1>3, FS_AddElement
<1>5. Cardinality(FreeSet(g)) <= NFATENT - 2
  <2>1. IsFiniteSet(Clusters) /\ Cardinality(Clusters) = NFATENT - 2
      BY VolumeAssumption, FS_Interval DEF Clusters
  <2>2. FreeSet(g) \subseteq Clusters
      BY DEF FreeSet
  <2> QED
      BY <2>1, <2>2, FS_Subset
<1> QED
    BY <1>3, <1>4, <1>5 DEF g

\* The clusters of a chain are not free.
LEMMA ChainUsed ==
  ASSUME NEW ch, Chained(ch), InMemory(ch), NEW c \in Clusters, fat[c] = Free
  PROVE  c \in Unused(ch)
<1> SUFFICES ASSUME NEW n \in Names, c \in Rng(ch[n]) PROVE FALSE
    BY DEF Unused
<1>1. Len(ch[n]) \in Nat /\ \A i \in 1..Len(ch[n]) : ch[n][i] \in Clusters
    BY ChainSeqs
<1>2. PICK i \in 1..Len(ch[n]) : c = ch[n][i]
    BY DEF Rng
<1>3. Follows(fat, ch[n], Len(ch[n]))
    BY DEF InMemory
<1>4. CASE i = Len(ch[n])
    BY <1>1, <1>2, <1>3, <1>4, VolumeAssumption DEF Follows, EOC, Free
<1>5. CASE i # Len(ch[n])
  <2>1. i \in 1..(Len(ch[n]) - 1) /\ i + 1 \in 1..Len(ch[n])
      BY <1>1, <1>5
  <2>2. fat[c] = ch[n][i + 1] /\ ch[n][i + 1] \in Clusters
      BY <1>1, <1>2, <1>3, <2>1 DEF Follows
  <2> QED
      BY <2>2 DEF Clusters, Free
<1> QED
    BY <1>4, <1>5

\* A chain without the cluster whose entry of the FAT changes.
LEMMA FatImages ==
  ASSUME NEW s \in Seq(Clusters), NEW x, x \notin Rng(s), NEW g, \A y \in Clusters \ {x} : g[y] = fat[y],
         Follows(fat, s, Len(s))
  PROVE  /\ Follows(g, s, Len(s))
         /\ \A e \in Entry : Image(fat, data, e, s, Len(s)) => Image(g, data, e, s, Len(s))
<1> DEFINE L == Len(s)
<1>1. L \in Nat /\ L \in 0..Len(s) /\ \A i \in 1..L : s[i] \in Clusters
    BY LenProperties, ElementOfSeq
<1>2. \A i \in 1..L : s[i] = s[i] /\ g[s[i]] = fat[s[i]] /\ data[s[i]] = data[s[i]]
    BY <1>1 DEF Rng
<1>3. Follows(g, s, L)
  <2>1. \A i \in 1..(L - 1) : i \in 1..L
      BY <1>1
  <2>2. L > 0 => L \in 1..L
      BY <1>1
  <2> QED
      BY <1>2, <2>1, <2>2 DEF Follows
<1> HIDE DEF L
<1>4. ASSUME NEW e \in Entry, Image(fat, data, e, s, L) PROVE Image(g, data, e, s, L)
    BY <1>1, <1>2, <1>4, ImageKept
<1> QED
    BY <1>3, <1>4 DEF L

\* The chain of one file changes, and the others do not have the cluster.
LEMMA FatChains ==
  ASSUME CInv, Next, NEW ch, Good(ch), NEW x \in Clusters, NEW v, fat' = [fat EXCEPT ![x] = v],
         UNCHANGED <<dir, data, file>>, NEW n \in Names, NEW c2,
         \A m \in Names \ {n} : c2[m] = ch[m] /\ x \notin Rng(ch[m]),
         Follows(fat', c2[n], Len(c2[n])),
         Image(fat', data, dir[n], c2[n], Len(c2[n])),
         file[n].open => FileOK(fat', data, dir[n], file[n], c2[n]),
         \E k \in 0..Len(c2[n]) : Image(cfat', cdata', cdir'[n], c2[n], k)
  PROVE  InMemory(c2)' /\ InFiles(c2)' /\ OnCard(c2)'
<1>1. Typed /\ Chained(ch) /\ InMemory(ch) /\ InFiles(ch)
    BY DEF CInv, Chains, Good
<1>2. PICK g : g = fat'
    OBVIOUS
<1>3. \A y \in Clusters \ {x} : g[y] = fat[y]
    BY <1>1, <1>2 DEF Typed, SectsTyped
<1>4. ASSUME NEW m \in Names \ {n}
      PROVE  /\ Follows(g, ch[m], Len(ch[m]))
             /\ \A e \in Entry : Image(fat, data, e, ch[m], Len(ch[m])) => Image(g, data, e, ch[m], Len(ch[m]))
  <2>1. ch[m] \in Seq(Clusters) /\ Follows(fat, ch[m], Len(ch[m])) /\ x \notin Rng(ch[m])
      BY <1>1, ChainSeqs DEF InMemory
  <2> DEFINE s == ch[m]
  <2>2. s \in Seq(Clusters) /\ Follows(fat, s, Len(s)) /\ x \notin Rng(s)
      BY <2>1
  <2> SUFFICES /\ Follows(g, s, Len(s))
               /\ \A e \in Entry : Image(fat, data, e, s, Len(s)) => Image(g, data, e, s, Len(s))
      OBVIOUS
  <2> HIDE DEF s
  <2> QED
      BY <1>3, <2>2, FatImages
<1>5. ASSUME NEW m \in Names
      PROVE  Follows(g, c2[m], Len(c2[m])) /\ Image(g, data, dir[m], c2[m], Len(c2[m]))
  <2>1. CASE m = n
      BY <1>2, <2>1
  <2>2. CASE m # n
    <3>1. Image(fat, data, dir[m], ch[m], Len(ch[m])) /\ dir[m] \in Entry /\ c2[m] = ch[m]
        BY <1>1, <2>2 DEF InMemory, Typed, SectsTyped
    <3> QED
        BY <1>4, <2>2, <3>1
  <2> QED
      BY <2>1, <2>2
<1>6. InMemory(c2)'
    BY <1>2, <1>5 DEF InMemory
<1>7. ASSUME NEW m \in Names, file[m].open PROVE FileOK(g, data, dir[m], file[m], c2[m])
  <2>1. CASE m = n
      BY <1>2, <1>7, <2>1
  <2>2. CASE m # n
    <3>1. FileOK(fat, data, dir[m], file[m], ch[m]) /\ c2[m] = ch[m]
        BY <1>1, <1>7, <2>2 DEF InFiles
    <3>2. Image(fat, data, EntryOf(file[m]), ch[m], Len(ch[m])) /\ EntryOf(file[m]) \in Entry
        BY <1>1, <3>1, EntryOfType DEF FileOK, Typed, FileTyped
    <3>3. Image(g, data, EntryOf(file[m]), ch[m], Len(ch[m]))
        BY <1>4, <2>2, <3>2
    <3> QED
        BY <3>1, <3>3 DEF FileOK
  <2> QED
      BY <2>1, <2>2
<1>8. InFiles(c2)'
    BY <1>2, <1>7 DEF InFiles
<1>9. OnCard(c2)'
  <2>1. OnCard(ch)'
      BY <1>1, OnCardNext DEF CInv
  <2> QED
      BY <2>1 DEF OnCard
<1> QED
    BY <1>6, <1>8, <1>9

\* An entry of the FAT is put: what stays.
LEMMA PutStays ==
  ASSUME CInv, Next, PutFat, Instr.x \in Clusters, Instr.v \in 1..NFATENT
  PROVE  /\ fat' = [fat EXCEPT ![Instr.x] = Instr.v] /\ todo' = Tail(todo)
         /\ UNCHANGED <<dir, data, book, file, stale, gens>>
         /\ SectsTyped' /\ WindowTyped' /\ BookTyped' /\ FileTyped'
         /\ cdir' = dir'
<1> DEFINE x == Instr.x
           v == Instr.v
<1>1. /\ fat' = [fat EXCEPT ![x] = v] /\ todo' = Tail(todo)
      /\ UNCHANGED <<dir, data, book, file, stale, gens>>
      /\ win' = FatSect(x) /\ dirty' = TRUE
    BY DEF PutFat, Did, Change, MoveWindow
<1>2. Typed
    BY DEF CInv, Chains
<1>3. SectsTyped'
  <2>1. v \in 0..NFATENT
      BY VolumeAssumption
  <2> HIDE DEF x, v
  <2> QED
      BY <1>1, <1>2, <2>1 DEF Typed, SectsTyped
<1>4. WindowTyped'
    BY <1>1 DEF WindowTyped, Sects
<1>5. BookTyped' /\ FileTyped'
    BY <1>1, <1>2 DEF Typed, BookTyped, FileTyped
<1>6. cdir' = dir'
  <2>1. WindowOnly' /\ IsFcn(cdir', Names) /\ IsFcn(dir', Names)
      BY WindowNext, SectorsNext DEF CInv
  <2>2. win' # DirSect
      BY <1>1 DEF FatSect, DirSect
  <2>3. \A n \in Names : dir'[n] = cdir'[n]
      BY <2>1, <2>2 DEF WindowOnly
  <2> QED
      BY <2>1, <2>3 DEF IsFcn
<1> QED
    BY <1>1, <1>3, <1>4, <1>5, <1>6

\* A chain of one cluster.
LEMMA OneCluster ==
  ASSUME NEW c \in Clusters
  PROVE  /\ <<c>> \in Seq(Clusters) /\ Len(<<c>>) = 1 /\ <<c>>[1] = c /\ Last(<<c>>) = c
         /\ \A i \in 1..Len(<<c>>) : i = 1
<1>1. <<c>> \in Seq(Clusters) /\ Len(<<c>>) = 1 /\ <<c>>[1] = c
    OBVIOUS
<1> QED
    BY <1>1 DEF Last

\* The first cluster of a file.
LEMMA PutFirst ==
  ASSUME CInv, Next, PutFat, NEW ch, Good(ch), NEW s, s = Tail(todo),
         NEW n \in Names, NEW c \in Clusters,
         Positions(file, ch, {n}), Writing(file[n]), free > 0,
         Instr.x = c, Instr.v = EOC, s = ToAlloc(n, c), First(file[n]), fat[c] = Free
  PROVE  Chains'
<1>1. Typed /\ Chained(ch) /\ InMemory(ch) /\ InFiles(ch) /\ Counted(fat, free, stale, 0)
    BY DEF CInv, Chains, Good
<1>2. Instr.x \in Clusters /\ Instr.v \in 1..NFATENT /\ EOC # Free
    BY VolumeAssumption DEF EOC, Free
<1>3. /\ fat' = [fat EXCEPT ![c] = EOC] /\ todo' = s
      /\ UNCHANGED <<dir, data, book, file, stale, gens>>
      /\ SectsTyped' /\ WindowTyped' /\ BookTyped' /\ FileTyped'
      /\ cdir' = dir
    BY <1>2, PutStays
<1>4. PICK c2 : c2 = [ch EXCEPT ![n] = <<c>>]
    OBVIOUS
<1>5. /\ c2 \in [Names -> Seq(Clusters)] /\ c2[n] = <<c>>
      /\ \A m \in Names \ {n} : c2[m] = ch[m]
    BY <1>1, <1>4, OneCluster DEF Chained
<1>6. c \in Unused(ch)
    BY <1>1, ChainUsed
<1>7. Chained(c2)
  <2>1. ASSUME NEW a \in Names, NEW b \in Names, NEW i \in 1..Len(c2[a]), NEW j \in 1..Len(c2[b]),
               c2[a][i] = c2[b][j]
        PROVE  a = b /\ i = j
    <3>1. CASE a = n /\ b = n
        BY <1>5, <2>1, <3>1, OneCluster
    <3>2. CASE a = n /\ b # n
        BY <1>5, <1>6, <2>1, <3>2, OneCluster DEF Unused, Rng
    <3>3. CASE a # n /\ b = n
        BY <1>5, <1>6, <2>1, <3>3, OneCluster DEF Unused, Rng
    <3>4. CASE a # n /\ b # n
        BY <1>1, <1>5, <2>1, <3>4 DEF Chained, Apart
    <3> QED
        BY <3>1, <3>2, <3>3, <3>4
  <2> QED
      BY <1>5, <2>1 DEF Chained, Apart
<1>8. /\ file[n].open /\ ~file[n].err /\ file[n].fptr = 0 /\ file[n].sclust = 0
      /\ FileOK(fat, data, dir[n], file[n], ch[n])
    BY <1>1 DEF Writing, First, InFiles
<1>9. dir[n].clust = 0 /\ dir[n].size = 0 /\ file[n].size = 0
  <2>1. dir[n].clust = 0 /\ file[n].size = 0
      BY <1>8 DEF FileOK, Image, EntryOf
  <2>2. Image(fat, data, dir[n], ch[n], Len(ch[n]))
      BY <1>1 DEF InMemory
  <2> QED
      BY <2>1, <2>2 DEF Image
<1>10. InMemory(c2)' /\ InFiles(c2)' /\ OnCard(c2)'
  <2>1. \A m \in Names \ {n} : c2[m] = ch[m] /\ c \notin Rng(ch[m])
      BY <1>5, <1>6 DEF Unused
  <2>2. fat'[c] = EOC
      BY <1>1, <1>3 DEF Typed, SectsTyped
  <2>3. Follows(fat', c2[n], Len(c2[n]))
      BY <1>5, <2>2, OneCluster DEF Follows
  <2>4. \A f, d, k : Image(f, d, dir[n], c2[n], k)
      BY <1>9 DEF Image
  <2>5. FileOK(fat', data, dir[n], file[n], c2[n])
      BY <1>8, <1>9 DEF FileOK, Image, EntryOf
  <2>6. \E k \in 0..Len(c2[n]) : Image(cfat', cdata', cdir'[n], c2[n], k)
    <3>1. 1 \in 0..Len(c2[n])
        BY <1>5, OneCluster
    <3>2. Image(cfat', cdata', cdir'[n], c2[n], 1)
        BY <1>3, <2>4
    <3> QED
        BY <3>1, <3>2
  <2>7. Image(fat', data, dir[n], c2[n], Len(c2[n]))
      BY <2>4
  <2>8. UNCHANGED <<dir, data, file>>
      BY <1>3
  <2> QED
      BY <1>3, <2>1, <2>3, <2>5, <2>6, <2>7, <2>8, FatChains
<1>11. Counted(fat, free, stale, 1)' /\ Counted(fat, free, stale, 0)'
  <2> DEFINE k == Cardinality(FreeSet(fat))
             l == Cardinality(FreeSet(fat'))
  <2>1. l = k - 1 /\ k \in Nat
      BY <1>1, <1>2, <1>3, FreeLess, FreeSetNat DEF Typed, SectsTyped, IsFcn
  <2>2. (~stale => free >= k + 0) /\ free \in Nat
      BY <1>1, VolumeAssumption DEF Counted, Typed, BookTyped
  <2> HIDE DEF k, l
  <2>3. (~stale' => free' >= l + 0) /\ (~stale' => free' >= l + 1)
      BY <1>3, <2>1, <2>2
  <2> QED
      BY <2>3 DEF Counted, l
<1>12. Plan(c2, todo)'
  <2>1. IsSeq(s)
    <3>1. \A a, b : IsSeq(<<a, b>>)
        BY TailsOf
    <3> QED
        BY <3>1 DEF ToAlloc
  <2>2. Positions(file', c2, {n}) /\ Writing(file'[n]) /\ free' > 0
      BY <1>3, <1>5 DEF Positions
  <2>3. Grown(file'[n], c2[n], c)
    <3>1. /\ Len(c2[n]) = 1 /\ Last(c2[n]) = c
          /\ file'[n].fptr = 0
        BY <1>3, <1>5, <1>8, OneCluster
    <3>2. 0 = (1 - 1) * BPC
        BY VolumeAssumption
    <3> QED
        BY <3>1, <3>2 DEF Grown
  <2>4. Left(c2, s)'
      BY <1>11, <2>2, <2>3 DEF Left
  <2>5. Plan(c2, s)'
      BY <2>1, <2>4, PlanNow
  <2> QED
      BY <1>3, <2>5
<1> QED
    BY <1>3, <1>7, <1>10, <1>11, <1>12, Stepped

\* The next cluster of a file, the end of its chain before it is in the chain.
LEMMA PutNext ==
  ASSUME CInv, Next, PutFat, NEW ch, Good(ch), NEW s, s = Tail(todo),
         NEW n \in Names, NEW c \in Clusters,
         Positions(file, ch, {n}), Writing(file[n]), free > 0,
         Instr.x = c, Instr.v = EOC, s = ToLink(n, Last(ch[n]), c), Growing(file[n], ch[n]),
         fat[c] = Free
  PROVE  Chains'
<1>1. Typed /\ Chained(ch) /\ InMemory(ch) /\ InFiles(ch) /\ Counted(fat, free, stale, 0)
    BY DEF CInv, Chains, Good
<1>2. Instr.x \in Clusters /\ Instr.v \in 1..NFATENT /\ EOC # Free
    BY VolumeAssumption DEF EOC, Free
<1>3. /\ fat' = [fat EXCEPT ![c] = EOC] /\ todo' = s
      /\ UNCHANGED <<dir, data, book, file, stale, gens>>
      /\ SectsTyped' /\ WindowTyped' /\ BookTyped' /\ FileTyped'
    BY <1>2, PutStays
<1>4. c \in Unused(ch)
    BY <1>1, ChainUsed
<1>5. fat'[c] = EOC /\ \A y \in Clusters \ {c} : fat'[y] = fat[y]
    BY <1>1, <1>3 DEF Typed, SectsTyped
<1>6. InMemory(ch)' /\ InFiles(ch)' /\ OnCard(ch)'
  <2>1. \A m \in Names : c \notin Rng(ch[m])
      BY <1>4 DEF Unused
  <2> DEFINE r == ch[n]
             e == dir[n]
             g == fat'
  <2>2. r \in Seq(Clusters) /\ c \notin Rng(r) /\ Follows(fat, r, Len(r))
      BY <1>1, <2>1, ChainSeqs DEF InMemory
  <2>3. e \in Entry /\ Image(fat, data, e, r, Len(r))
      BY <1>1 DEF InMemory, Typed, SectsTyped
  <2>4. file[n] \in FileType /\ FileOK(fat, data, e, file[n], r)
      BY <1>1 DEF Writing, InFiles, Typed, FileTyped
  <2>5. EntryOf(file[n]) \in Entry /\ Image(fat, data, EntryOf(file[n]), r, Len(r))
      BY <2>4, EntryOfType DEF FileOK
  <2>6. /\ Follows(g, r, Len(r))
        /\ \A en \in Entry : Image(fat, data, en, r, Len(r)) => Image(g, data, en, r, Len(r))
    <3>1. \A y \in Clusters \ {c} : g[y] = fat[y]
        BY <1>5
    <3> HIDE DEF r, e, g
    <3> QED
        BY <2>2, <3>1, FatImages
  <2>7. Image(g, data, e, r, Len(r)) /\ FileOK(g, data, e, file[n], r)
      BY <2>3, <2>4, <2>5, <2>6 DEF FileOK
  <2>8. \E k \in 0..Len(r) : Image(cfat', cdata', cdir'[n], r, k)
      BY <1>1, OnCardNext DEF CInv, OnCard
  <2>9. UNCHANGED <<dir, data, file>>
      BY <1>3
  <2> QED
      BY <1>3, <2>1, <2>6, <2>7, <2>8, <2>9, FatChains
<1>7. Counted(fat, free, stale, 1)' /\ Counted(fat, free, stale, 0)'
  <2> DEFINE k == Cardinality(FreeSet(fat))
             l == Cardinality(FreeSet(fat'))
  <2>1. l = k - 1 /\ k \in Nat
      BY <1>1, <1>2, <1>3, FreeLess, FreeSetNat DEF Typed, SectsTyped, IsFcn
  <2>2. (~stale => free >= k + 0) /\ free \in Nat
      BY <1>1, VolumeAssumption DEF Counted, Typed, BookTyped
  <2> HIDE DEF k, l
  <2>3. (~stale' => free' >= l + 0) /\ (~stale' => free' >= l + 1)
      BY <1>3, <2>1, <2>2
  <2> QED
      BY <2>3 DEF Counted, l
<1>8. Plan(ch, todo)'
  <2>1. IsSeq(s)
    <3>1. \A a, b, d : IsSeq(<<a, b, d>>)
        BY TailsOf
    <3> QED
        BY <3>1 DEF ToLink
  <2>2. /\ Positions(file', ch, {n}) /\ Writing(file'[n]) /\ free' > 0
        /\ Growing(file'[n], ch[n])
      BY <1>3
  <2>3. Left(ch, s)'
      BY <1>4, <1>5, <1>7, <2>2 DEF Left, Unused
  <2>4. Plan(ch, s)'
      BY <2>1, <2>3, PlanNow
  <2> QED
      BY <1>3, <2>4
<1> QED
    BY <1>1, <1>3, <1>6, <1>7, <1>8, Stepped

\* A chain with a cluster more.
LEMMA Longer ==
  ASSUME NEW s \in Seq(Clusters), Len(s) > 0, NEW c \in Clusters, c \notin Rng(s),
         \A i, j \in 1..Len(s) : s[i] = s[j] => i = j,
         Follows(fat, s, Len(s)), fat[c] = EOC,
         NEW g, g[Last(s)] = c, \A y \in Clusters \ {Last(s)} : g[y] = fat[y],
         NEW t, t = Append(s, c)
  PROVE  /\ t \in Seq(Clusters) /\ Len(t) = Len(s) + 1 /\ Last(t) = c /\ t[Len(s) + 1] = c
         /\ \A i \in 1..Len(s) : t[i] = s[i]
         /\ Follows(g, t, Len(t))
         /\ \A e \in Entry : Image(fat, data, e, s, Len(s)) => Image(g, data, e, t, Len(t))
         /\ \A f, d : \A e \in Entry, k \in 0..Len(s) : Image(f, d, e, s, k) => Image(f, d, e, t, k)
<1> DEFINE L == Len(s)
<1>1. L \in Nat /\ \A i \in 1..L : s[i] \in Clusters
    BY LenProperties, ElementOfSeq
<1>2. /\ t \in Seq(Clusters) /\ Len(t) = L + 1 /\ t[L + 1] = c
      /\ \A i \in 1..L : t[i] = s[i]
    BY AppendProperties
<1>3. Last(t) = c
    BY <1>2 DEF Last
<1>4. \A i \in 1..(L - 1) : s[i] # Last(s) /\ g[s[i]] = fat[s[i]] /\ fat[s[i]] = s[i + 1]
  <2> TAKE i \in 1..(L - 1)
  <2>1. i \in 1..L /\ L \in 1..L /\ i # L
      BY <1>1
  <2>2. s[i] # Last(s)
      BY <2>1 DEF Last
  <2>3. fat[s[i]] = s[i + 1]
      BY DEF Follows
  <2> QED
      BY <1>1, <2>1, <2>2, <2>3
<1>5. c # Last(s) /\ g[c] = EOC
    BY <1>1 DEF Rng, Last
<1>6. Follows(g, t, Len(t))
  <2>1. ASSUME NEW i \in 1..(Len(t) - 1) PROVE g[t[i]] = t[i + 1]
    <3>1. CASE i = L
        BY <1>1, <1>2, <3>1 DEF Last
    <3>2. CASE i # L
      <4>1. i \in 1..(L - 1) /\ i \in 1..L /\ i + 1 \in 1..L
          BY <1>1, <1>2, <3>2
      <4> QED
          BY <1>2, <1>4, <4>1
    <3> QED
        BY <3>1, <3>2
  <2>2. g[t[Len(t)]] = EOC
      BY <1>2, <1>5
  <2> QED
      BY <2>1, <2>2 DEF Follows
<1>7. ASSUME NEW f, NEW d, NEW e \in Entry, NEW k \in 0..L, Image(f, d, e, s, k)
      PROVE  Image(f, d, e, t, k)
  <2>1. k \in 0..Len(s) /\ \A i \in 1..k : t[i] = s[i] /\ f[s[i]] = f[s[i]] /\ d[s[i]] = d[s[i]]
      BY <1>1, <1>2
  <2> HIDE DEF L
  <2> QED
      BY <1>2, <1>7, <2>1, ImageKept
<1>8. ASSUME NEW e \in Entry, Image(fat, data, e, s, L) PROVE Image(g, data, e, t, Len(t))
  <2>1. CASE e.clust = 0
      BY <1>8, <2>1 DEF Image
  <2>2. CASE e.clust # 0
    <3>1. e.clust = s[1] /\ e.size <= L * BPC /\ Filled(data, e, s) /\ e.size \in Nat
        BY <1>8, <2>2, VolumeAssumption DEF Image, Entry
    <3>2. e.size <= Len(t) * BPC /\ e.clust = t[1] /\ Len(t) > 0
      <4>1. BPC \in Nat /\ L * BPC \in Int /\ (L + 1) * BPC = (L * BPC) + BPC
          BY <1>1, VolumeAssumption
      <4>2. t[1] = s[1]
          BY <1>1, <1>2
      <4>3. Len(t) * BPC = (L + 1) * BPC
          BY <1>2
      <4> HIDE DEF L
      <4> QED
          BY <1>1, <1>2, <3>1, <4>1, <4>2, <4>3
    <3>3. \A k \in 0..(e.size - 1) : (k \div BPC) + 1 \in 1..L
        BY <1>1, <3>1, ByteIn
    <3>4. Filled(data, e, t)
        BY <1>2, <3>1, <3>3 DEF Filled
    <3> QED
        BY <1>6, <2>2, <3>2, <3>4 DEF Image
  <2> QED
      BY <2>1, <2>2
<1> QED
    BY <1>2, <1>3, <1>6, <1>7, <1>8

\* The next cluster is in the chain.
LEMMA PutLink ==
  ASSUME CInv, Next, PutFat, NEW ch, Good(ch), NEW s, s = Tail(todo),
         NEW n \in Names, NEW c \in Clusters,
         Positions(file, ch, {n}), Writing(file[n]), free > 0,
         Instr.x = Last(ch[n]), Instr.v = c, s = ToAlloc(n, c), Growing(file[n], ch[n]),
         fat[c] = EOC, c \in Unused(ch), Counted(fat, free, stale, 1)
  PROVE  Chains'
<1>1. Typed /\ Chained(ch) /\ InMemory(ch) /\ InFiles(ch)
    BY DEF CInv, Chains, Good
<1> DEFINE r == ch[n]
           e == dir[n]
           p == Last(r)
<1>2. /\ r \in Seq(Clusters) /\ Len(r) \in Nat /\ Len(r) > 0
      /\ \A i \in 1..Len(r) : r[i] \in Clusters
      /\ \A i, j \in 1..Len(r) : r[i] = r[j] => i = j
      /\ Follows(fat, r, Len(r))
      /\ file[n].sclust # 0 /\ file[n].fptr = Len(r) * BPC
    BY <1>1, ChainSeqs DEF Chained, Apart, Growing, InMemory
<1>3. /\ Len(r) \in 1..Len(r) /\ p \in Clusters /\ p \in Rng(r) /\ fat[p] = EOC
      /\ c # Free /\ fat[p] # Free
  <2>1. Len(r) \in 1..Len(r)
      BY <1>2
  <2>2. p \in Clusters /\ p \in Rng(r) /\ fat[p] = EOC
      BY <1>2, <2>1 DEF Last, Rng, Follows
  <2> QED
      BY <2>1, <2>2, VolumeAssumption DEF EOC, Free, Clusters
<1>4. Instr.x \in Clusters /\ Instr.v \in 1..NFATENT
    BY <1>3, VolumeAssumption DEF Clusters
<1>5. /\ fat' = [fat EXCEPT ![p] = c] /\ todo' = s
      /\ UNCHANGED <<dir, data, book, file, stale, gens>>
      /\ SectsTyped' /\ WindowTyped' /\ BookTyped' /\ FileTyped'
    BY <1>4, PutStays
<1>6. PICK g, t : g = fat' /\ t = Append(r, c)
    OBVIOUS
<1>7. g[p] = c /\ \A y \in Clusters \ {p} : g[y] = fat[y]
    BY <1>1, <1>3, <1>5, <1>6 DEF Typed, SectsTyped
<1>8. \A m \in Names : c \notin Rng(ch[m])
    BY DEF Unused
<1>9. /\ t \in Seq(Clusters) /\ Len(t) = Len(r) + 1 /\ Last(t) = c /\ t[Len(r) + 1] = c
      /\ \A i \in 1..Len(r) : t[i] = r[i]
      /\ Follows(g, t, Len(t))
      /\ \A en \in Entry : Image(fat, data, en, r, Len(r)) => Image(g, data, en, t, Len(t))
      /\ \A f, d : \A en \in Entry, k \in 0..Len(r) : Image(f, d, en, r, k) => Image(f, d, en, t, k)
  <2>1. c \notin Rng(r)
      BY <1>8
  <2>2. g[Last(r)] = c /\ \A y \in Clusters \ {Last(r)} : g[y] = fat[y]
      BY <1>7
  <2>3. /\ r \in Seq(Clusters) /\ Len(r) > 0 /\ Follows(fat, r, Len(r)) /\ t = Append(r, c)
        /\ \A i, j \in 1..Len(r) : r[i] = r[j] => i = j
      BY <1>2, <1>6
  <2> HIDE DEF r, p
  <2>4. /\ t \in Seq(Clusters) /\ Len(t) = Len(r) + 1 /\ t[Len(r) + 1] = c
        /\ \A i \in 1..Len(r) : t[i] = r[i]
      BY <2>3, AppendProperties
  <2>7. Follows(g, t, Len(t))
      BY <2>1, <2>2, <2>3, Longer
  <2>8. Last(t) = c
      BY <2>4 DEF Last
  <2>5. \A en \in Entry : Image(fat, data, en, r, Len(r)) => Image(g, data, en, t, Len(t))
      BY <2>1, <2>2, <2>3, Longer
  <2>6. \A f, d : \A en \in Entry, k \in 0..Len(r) : Image(f, d, en, r, k) => Image(f, d, en, t, k)
      BY <2>1, <2>2, <2>3, Longer
  <2> QED
      BY <2>4, <2>5, <2>6, <2>7, <2>8
<1>10. PICK c2 : c2 = [ch EXCEPT ![n] = t]
    OBVIOUS
<1>11. /\ c2 \in [Names -> Seq(Clusters)] /\ c2[n] = t
       /\ \A m \in Names \ {n} : c2[m] = ch[m]
    BY <1>1, <1>9, <1>10 DEF Chained
<1>12. Chained(c2)
  <2>1. \A i \in 1..Len(t) : i \in 1..Len(r) \/ i = Len(r) + 1
      BY <1>2, <1>9
  <2>2. ASSUME NEW a \in Names, NEW b \in Names, NEW i \in 1..Len(c2[a]), NEW j \in 1..Len(c2[b]),
               c2[a][i] = c2[b][j]
        PROVE  a = b /\ i = j
    <3>1. CASE a = n /\ b = n
      <4>1. i \in 1..Len(t) /\ j \in 1..Len(t) /\ t[i] = t[j]
          BY <1>11, <2>2, <3>1
      <4>2. CASE i \in 1..Len(r) /\ j \in 1..Len(r)
          BY <1>2, <1>9, <3>1, <4>1, <4>2
      <4>5. t[Len(r) + 1] = c /\ \A l \in 1..Len(r) : t[l] = r[l] /\ r[l] # c
          BY <1>8, <1>9 DEF Rng
      <4>3. CASE i \in 1..Len(r) /\ j = Len(r) + 1
          BY <4>1, <4>3, <4>5
      <4>4. CASE i = Len(r) + 1 /\ j \in 1..Len(r)
          BY <4>1, <4>4, <4>5
      <4> QED
          BY <2>1, <3>1, <4>1, <4>2, <4>3, <4>4
    <3>2. CASE a = n /\ b # n
      <4>1. i \in 1..Len(t) /\ j \in 1..Len(ch[b]) /\ t[i] = ch[b][j]
          BY <1>11, <2>2, <3>2
      <4>2. i \notin 1..Len(r)
        <5>1. \A k \in 1..Len(ch[n]) : ch[n][k] # ch[b][j]
            BY <1>1, <3>2, <4>1 DEF Chained, Apart
        <5> QED
            BY <1>9, <4>1, <5>1
      <4>3. ch[b][j] = c
          BY <1>9, <2>1, <4>1, <4>2
      <4> QED
          BY <1>8, <4>1, <4>3 DEF Rng
    <3>3. CASE a # n /\ b = n
      <4>1. j \in 1..Len(t) /\ i \in 1..Len(ch[a]) /\ t[j] = ch[a][i]
          BY <1>11, <2>2, <3>3
      <4>2. j \notin 1..Len(r)
          BY <1>1, <1>9, <3>3, <4>1 DEF Chained, Apart
      <4>3. ch[a][i] = c
          BY <1>9, <2>1, <4>1, <4>2
      <4> QED
          BY <1>8, <4>1, <4>3 DEF Rng
    <3>4. CASE a # n /\ b # n
        BY <1>1, <1>11, <2>2, <3>4 DEF Chained, Apart
    <3> QED
        BY <3>1, <3>2, <3>3, <3>4
  <2> QED
      BY <1>11, <2>2 DEF Chained, Apart
<1>13. InMemory(c2)' /\ InFiles(c2)' /\ OnCard(c2)'
  <2>1. ASSUME NEW m \in Names \ {n} PROVE c2[m] = ch[m] /\ p \notin Rng(ch[m])
    <3>1. p = r[Len(r)]
        BY DEF Last
    <3>2. \A j \in 1..Len(ch[m]) : ch[m][j] # p
        BY <1>1, <1>3, <3>1 DEF Chained, Apart
    <3> QED
        BY <1>11, <3>2 DEF Rng
  <2>2. e \in Entry /\ Image(fat, data, e, r, Len(r))
      BY <1>1 DEF InMemory, Typed, SectsTyped
  <2>3. Image(g, data, e, t, Len(t))
      BY <1>9, <2>2
  <2>4. file[n].open /\ file[n] \in FileType /\ FileOK(fat, data, e, file[n], r)
      BY <1>1 DEF Writing, InFiles, Typed, FileTyped
  <2>5. EntryOf(file[n]) \in Entry /\ Image(fat, data, EntryOf(file[n]), r, Len(r))
      BY <2>4, EntryOfType DEF FileOK
  <2>6. FileOK(g, data, e, file[n], t)
      BY <1>9, <2>4, <2>5 DEF FileOK
  <2>7. \E k \in 0..Len(t) : Image(cfat', cdata', cdir'[n], t, k)
    <3>1. PICK k \in 0..Len(r) : Image(cfat', cdata', cdir'[n], r, k)
        BY <1>1, OnCardNext DEF CInv, OnCard
    <3>2. cdir'[n] \in Entry
        BY <1>1, OnCardNext DEF CInv, CardTyped
    <3>3. k \in 0..Len(t)
        BY <1>2, <1>9
    <3> HIDE DEF r
    <3>4. Image(cfat', cdata', cdir'[n], t, k)
        BY <1>9, <3>1, <3>2
    <3> QED
        BY <3>3, <3>4
  <2>8. UNCHANGED <<dir, data, file>>
      BY <1>5
  <2>9. /\ Follows(fat', c2[n], Len(c2[n])) /\ Image(fat', data, dir[n], c2[n], Len(c2[n]))
        /\ FileOK(fat', data, dir[n], file[n], c2[n])
        /\ \E k \in 0..Len(c2[n]) : Image(cfat', cdata', cdir'[n], c2[n], k)
      BY <1>6, <1>9, <1>11, <2>3, <2>6, <2>7
  <2> HIDE DEF r, e, p
  <2> QED
      BY <1>3, <1>5, <2>1, <2>8, <2>9, FatChains
<1>14. Counted(fat, free, stale, 1)' /\ Counted(fat, free, stale, 0)'
  <2> DEFINE k == Cardinality(FreeSet(fat))
  <2>1. FreeSet(fat') = FreeSet(fat)
    <3> HIDE DEF p
    <3> QED
        BY <1>1, <1>3, <1>5, FreeSame DEF Typed, SectsTyped, IsFcn
  <2>2. (~stale => free >= k + 1) /\ free \in Nat /\ k \in Nat
      BY <1>1, FreeSetNat, VolumeAssumption DEF Counted, Typed, BookTyped
  <2>3. k = Cardinality(FreeSet(fat'))
      BY <2>1
  <2> HIDE DEF k
  <2>4. (~stale' => free' >= k + 0) /\ (~stale' => free' >= k + 1)
      BY <1>5, <2>2
  <2> QED
      BY <2>3, <2>4 DEF Counted
<1>15. Plan(c2, todo)'
  <2>1. IsSeq(s)
    <3>1. \A a, b : IsSeq(<<a, b>>)
        BY TailsOf
    <3> QED
        BY <3>1 DEF ToAlloc
  <2>2. Positions(file', c2, {n}) /\ Writing(file'[n]) /\ free' > 0
      BY <1>5, <1>11 DEF Positions
  <2>3. Grown(file'[n], c2[n], c)
    <3>1. /\ Len(t) - 1 = Len(r) /\ Len(t) > 0
        BY <1>2, <1>9
    <3> QED
        BY <1>2, <1>5, <1>9, <1>11, <3>1 DEF Grown
  <2>4. Left(c2, s)'
      BY <1>14, <2>2, <2>3 DEF Left
  <2>5. Plan(c2, s)'
      BY <2>1, <2>4, PlanNow
  <2> QED
      BY <1>5, <2>5
<1> QED
    BY <1>5, <1>12, <1>13, <1>14, <1>15, Stepped

\* The FAT is put.
LEMMA PutStep ==
  ASSUME CInv, Next, PutFat
  PROVE  Chains'
<1>1. PICK ch : Good(ch)
    BY DEF CInv, Chains
<1>2. todo # <<>> /\ Instr.op = "put"
    BY DEF PutFat, Doing
<1>3. PICK s : s = Tail(todo)
    OBVIOUS
<1>4. PICK n \in Names, c \in Clusters :
        /\ Positions(file, ch, {n}) /\ Writing(file[n]) /\ free > 0
        /\ \/ /\ Instr.x = Last(ch[n]) /\ Instr.v = c /\ s = ToAlloc(n, c)
              /\ Growing(file[n], ch[n])
              /\ fat[c] = EOC /\ c \in Unused(ch) /\ Counted(fat, free, stale, 1)
           \/ /\ Instr.x = c /\ Instr.v = EOC /\ s = ToAlloc(n, c)
              /\ First(file[n]) /\ fat[c] = Free
           \/ /\ Instr.x = c /\ Instr.v = EOC /\ s = ToLink(n, Last(ch[n]), c)
              /\ Growing(file[n], ch[n]) /\ fat[c] = Free
    BY <1>1, <1>2, <1>3, PutAtHand
<1> QED
    BY <1>1, <1>3, <1>4, PutFirst, PutNext, PutLink

-----------------------------------------------------------------------------
(* Entries are written and chains removed. *)

\* The instructions of fopen(), fclose() and remove(), by their kind.
LEMMA FreeAtHand ==
  ASSUME CInv, NEW ch, Good(ch), todo # <<>>, NEW s, s = Tail(todo), Instr.op = "free"
  PROVE  \E n \in Names :
           /\ Positions(file, ch, {}) /\ ~file[n].open /\ dir[n].clust = 0 /\ dir[n].size = 0
           /\ \E S \in {Rng(ch[n]), Unused(ch)} : Instr.x \in S /\ Freeing(n, s, S)
<1>1. PICK n \in Names : Positions(file, ch, {}) /\ Removing(ch, n, Instr, s)
    BY AtHand, NowKinds
<1>2. \A e : Instr # I("entry", n, e)
    BY Kinds
<1>3. \A f, h : Instr # OpenI(n, f, h)
    BY Kinds DEF OpenI
<1> QED
    BY <1>1, <1>2, <1>3, Zenon DEF Removing

\* An entry is to be written.
LEMMA EntryAtHand ==
  ASSUME CInv, NEW ch, Good(ch), todo # <<>>, NEW s, s = Tail(todo), Instr.op = "entry"
  PROVE  \E n \in Names :
           /\ Positions(file, ch, {})
           /\ \/ /\ file[n].open /\ Ending(s)
                 /\ Instr.x = n /\ Instr.v = EntryOf(file[n])
              \/ /\ ~file[n].open /\ Freeing(n, s, Rng(ch[n]))
                 /\ Instr.x = n /\ Instr.v \in Entry /\ Instr.v.clust = 0 /\ Instr.v.size = 0
<1>1. PICK n \in Names : Positions(file, ch, {}) /\ Removing(ch, n, Instr, s)
    BY AtHand, NowKinds
<1>2. \A e : Instr = I("entry", n, e) => Instr.x = n /\ Instr.v = e
    BY Kinds
<1>3. \A f, h : Instr # OpenI(n, f, h)
    BY Kinds DEF OpenI
<1>4. \/ file[n].open /\ Instr = I("entry", n, EntryOf(file[n])) /\ Ending(s)
      \/ /\ ~file[n].open /\ Freeing(n, s, Rng(ch[n]))
         /\ \E e \in Entry : Instr = I("entry", n, e) /\ e.clust = 0 /\ e.size = 0
    BY <1>1, <1>3, Zenon DEF Removing
<1>5. CASE file[n].open /\ Instr = I("entry", n, EntryOf(file[n])) /\ Ending(s)
    BY <1>1, <1>2, <1>5
<1>6. ASSUME ~file[n].open, Freeing(n, s, Rng(ch[n])),
             NEW e \in Entry, Instr = I("entry", n, e), e.clust = 0, e.size = 0
      PROVE  /\ Positions(file, ch, {}) /\ ~file[n].open /\ Freeing(n, s, Rng(ch[n]))
             /\ Instr.x = n /\ Instr.v \in Entry /\ Instr.v.clust = 0 /\ Instr.v.size = 0
    BY <1>1, <1>2, <1>6
<1> QED
    BY <1>4, <1>5, <1>6

\* What frees a chain is a sequence.
LEMMA FreeingSeq ==
  ASSUME NEW n, NEW u, NEW S, Freeing(n, u, S)
  PROVE  IsSeq(u)
<1>1. PICK v, q : u = v \o q /\ Frees(v, S) /\ Rest(n, q)
    BY DEF Freeing
<1>2. \A p : Opens(n, NoEntry, <<>>, p) => IsSeq(p)
    BY TailsOf DEF Opens
<1>3. \A j, p : IsSeq(p) => IsSeq(<<j>> \o p)
    BY ConsOf
<1>4. IsSeq(v) /\ IsSeq(q)
    BY <1>1, <1>2, <1>3 DEF Frees, Rest, Ending
<1> QED
    BY <1>1, <1>4, ConcatSeq

\* It may be in a larger set.
LEMMA FreeingMore ==
  ASSUME NEW n, NEW u, NEW S, NEW T, S \subseteq T, Freeing(n, u, S)
  PROVE  Freeing(n, u, T)
<1>1. PICK v, q : u = v \o q /\ Frees(v, S) /\ Rest(n, q)
    BY DEF Freeing
<1>2. Frees(v, T)
    BY <1>1 DEF Frees
<1> QED
    BY <1>1, <1>2 DEF Freeing

\* The entry of a file.
LEMMA EntryChains ==
  ASSUME CInv, Next, PutEntry
  PROVE  Chains'
<1>1. PICK ch : Good(ch)
    BY DEF CInv, Chains
<1>2. /\ todo # <<>> /\ Instr.op = "entry" /\ todo' = Tail(todo)
      /\ dir' = [dir EXCEPT ![Instr.x] = Instr.v]
      /\ win' = DirSect /\ dirty' = TRUE
      /\ UNCHANGED <<fat, data, book, file, stale, gens>>
    BY DEF PutEntry, Doing, Did, Change, MoveWindow
<1>3. PICK s : s = Tail(todo)
    OBVIOUS
<1>4. PICK n \in Names :
        /\ Positions(file, ch, {})
        /\ \/ /\ file[n].open /\ Ending(s)
              /\ Instr.x = n /\ Instr.v = EntryOf(file[n])
           \/ /\ ~file[n].open /\ Freeing(n, s, Rng(ch[n]))
              /\ Instr.x = n /\ Instr.v \in Entry /\ Instr.v.clust = 0 /\ Instr.v.size = 0
    BY <1>1, <1>2, <1>3, EntryAtHand
<1>5. Typed /\ Chained(ch) /\ InMemory(ch) /\ InFiles(ch)
    BY <1>1 DEF CInv, Chains, Good
<1>6. PICK v : v = Instr.v
    OBVIOUS
<1>7. v \in Entry
  <2>1. file[n] \in FileType
      BY <1>5 DEF Typed, FileTyped
  <2> QED
      BY <1>4, <1>6, <2>1, EntryOfType
<1>8. /\ dir' \in [Names -> Entry] /\ dir'[n] = v
      /\ \A m \in Names \ {n} : dir'[m] = dir[m]
    BY <1>2, <1>4, <1>5, <1>6, <1>7 DEF Typed, SectsTyped
<1>9. Image(fat, data, v, ch[n], Len(ch[n])) /\ (file[n].open => FileOK(fat, data, v, file[n], ch[n]))
  <2>1. CASE file[n].open
    <3>1. FileOK(fat, data, dir[n], file[n], ch[n]) /\ v = EntryOf(file[n])
        BY <1>4, <1>5, <1>6, <2>1 DEF InFiles
    <3>2. v.clust = file[n].sclust /\ v.size = file[n].size
        BY <3>1 DEF EntryOf
    <3>3. v.size \in Nat
        BY <1>7, VolumeAssumption DEF Entry
    <3> QED
        BY <3>1, <3>2, <3>3 DEF FileOK
  <2>2. CASE ~file[n].open
      BY <1>4, <1>6, <2>2 DEF Image
  <2> QED
      BY <2>1, <2>2
<1>10. InMemory(ch)' /\ InFiles(ch)'
  <2>1. ASSUME NEW m \in Names
        PROVE  /\ Follows(fat, ch[m], Len(ch[m]))
               /\ Image(fat, data, dir'[m], ch[m], Len(ch[m]))
               /\ file[m].open => FileOK(fat, data, dir'[m], file[m], ch[m])
    <3>1. CASE m = n
        BY <1>5, <1>8, <1>9, <3>1 DEF InMemory
    <3>2. CASE m # n
        BY <1>5, <1>8, <3>2 DEF InMemory, InFiles
    <3> QED
        BY <3>1, <3>2
  <2> QED
      BY <1>2, <2>1 DEF InMemory, InFiles
<1>11. Plan(ch, todo)'
  <2>1. Positions(file', ch, {})
      BY <1>2, <1>4
  <2>2. Plan(ch, s)'
    <3>1. CASE Ending(s)
        BY <2>1, <3>1, PlanEnding
    <3>2. CASE ~file[n].open /\ Freeing(n, s, Rng(ch[n])) /\ v.clust = 0 /\ v.size = 0
      <4>1. ~file'[n].open /\ dir'[n].clust = 0 /\ dir'[n].size = 0
          BY <1>2, <1>8, <3>2
      <4>2. Left(ch, s)'
          BY <2>1, <3>2, <4>1 DEF Left
      <4> QED
          BY <3>2, <4>2, FreeingSeq, PlanNow
    <3> QED
        BY <1>4, <1>6, <3>1, <3>2
  <2> QED
      BY <1>2, <1>3, <2>2
<1>12. SectsTyped' /\ WindowTyped' /\ BookTyped' /\ FileTyped'
  <2>1. SectsTyped'
      BY <1>2, <1>5, <1>8 DEF Typed, SectsTyped
  <2>2. WindowTyped'
      BY <1>2 DEF WindowTyped, Sects
  <2> QED
      BY <1>2, <1>5, <2>1, <2>2 DEF Typed, BookTyped, FileTyped
<1>13. Counted(fat, free, stale, 0)'
    BY <1>2 DEF CInv, Chains, Counted, FreeSet
<1>14. OnCard(ch)'
    BY <1>1, <1>5, OnCardNext DEF CInv
<1> QED
    BY <1>1, <1>5, <1>10, <1>11, <1>12, <1>13, <1>14, Stepped

\* A cluster is free.
LEMMA FreeChains ==
  ASSUME CInv, Next, FreeFat
  PROVE  Chains'
<1>1. PICK ch : Good(ch)
    BY DEF CInv, Chains
<1>2. PICK x : x = Instr.x
    OBVIOUS
<1>3. /\ todo # <<>> /\ Instr.op = "free" /\ todo' = Tail(todo)
      /\ fat' = [fat EXCEPT ![x] = Free]
      /\ IF free < NFATENT - 2 /\ fat[x] # Free THEN free' = free + 1 /\ fsi' = TRUE
         ELSE UNCHANGED <<free, fsi>>
      /\ win' = FatSect(x) /\ dirty' = TRUE
      /\ UNCHANGED <<dir, data, info, last, file, stale, gens>>
    BY <1>2 DEF FreeFat, Doing, Did, Change, MoveWindow
<1>4. PICK s : s = Tail(todo)
    OBVIOUS
<1>5. PICK n \in Names :
        /\ Positions(file, ch, {}) /\ ~file[n].open /\ dir[n].clust = 0 /\ dir[n].size = 0
        /\ \E S \in {Rng(ch[n]), Unused(ch)} : x \in S /\ Freeing(n, s, S)
    BY <1>1, <1>2, <1>3, <1>4, FreeAtHand
<1>6. PICK S \in {Rng(ch[n]), Unused(ch)} : x \in S /\ Freeing(n, s, S)
    BY <1>5
<1>7. Typed /\ Chained(ch) /\ InMemory(ch) /\ InFiles(ch) /\ Counted(fat, free, stale, 0)
    BY <1>1 DEF CInv, Chains, Good
<1>8. x \in Clusters
  <2>1. Rng(ch[n]) \subseteq Clusters
      BY <1>7, ChainSeqs DEF Rng
  <2>2. Unused(ch) \subseteq Clusters
      BY DEF Unused
  <2> QED
      BY <1>6, <2>1, <2>2
<1>9. \A m \in Names \ {n} : x \notin Rng(ch[m])
  <2>1. CASE S = Unused(ch)
      BY <1>6, <2>1 DEF Unused
  <2>2. CASE S = Rng(ch[n])
      BY <1>6, <1>7, <2>2 DEF Rng, Chained, Apart
  <2> QED
      BY <1>6, <2>1, <2>2
<1>10. PICK c2 : c2 = IF S = Unused(ch) THEN ch ELSE [ch EXCEPT ![n] = <<>>]
    OBVIOUS
<1>11. /\ \A m \in Names \ {n} : c2[m] = ch[m]
       /\ Chained(c2) /\ S \subseteq Unused(c2) /\ Follows(fat', c2[n], Len(c2[n]))
  <2>1. CASE S = Unused(ch)
    <3>1. c2 = ch
        BY <1>10, <2>1
    <3> DEFINE r == ch[n]
               g == fat'
    <3>2. r \in Seq(Clusters) /\ x \notin Rng(r) /\ Follows(fat, r, Len(r))
        BY <1>6, <1>7, <2>1, ChainSeqs DEF InMemory, Unused
    <3>3. \A y \in Clusters \ {x} : g[y] = fat[y]
        BY <1>3, <1>7 DEF Typed, SectsTyped
    <3>4. Follows(g, r, Len(r))
      <4> HIDE DEF r, g
      <4> QED
          BY <3>2, <3>3, FatImages
    <3> QED
        BY <1>7, <2>1, <3>1, <3>4
  <2>2. CASE S # Unused(ch)
    <3>1. c2 = [ch EXCEPT ![n] = <<>>] /\ S = Rng(ch[n])
        BY <1>6, <1>10, <2>2
    <3>2. /\ c2 \in [Names -> Seq(Clusters)] /\ c2[n] = <<>>
          /\ \A m \in Names \ {n} : c2[m] = ch[m]
        BY <1>7, <3>1, NoChain DEF Chained
    <3>3. Len(c2[n]) = 0 /\ 1..0 = {}
        BY <3>2, NoChain
    <3>4. Apart(c2)
      <4>1. ASSUME NEW a \in Names, NEW b \in Names, NEW i \in 1..Len(c2[a]),
                   NEW j \in 1..Len(c2[b]), c2[a][i] = c2[b][j]
            PROVE  a = b /\ i = j
        <5>1. a # n /\ b # n
            BY <3>3, <4>1
        <5> QED
            BY <1>7, <3>2, <4>1, <5>1 DEF Chained, Apart
      <4> QED
          BY <4>1 DEF Apart
    <3>5. S \subseteq Unused(c2)
      <4>1. ASSUME NEW y \in S, NEW m \in Names PROVE y \notin Rng(c2[m])
        <5>1. CASE m = n
            BY <3>3, <5>1 DEF Rng
        <5>2. CASE m # n
            BY <1>7, <3>1, <3>2, <4>1, <5>2 DEF Rng, Chained, Apart
        <5> QED
            BY <5>1, <5>2
      <4>2. S \subseteq Clusters
          BY <1>7, <3>1, ChainSeqs DEF Rng
      <4> QED
          BY <4>1, <4>2 DEF Unused
    <3>6. Follows(fat', c2[n], Len(c2[n]))
        BY <3>3 DEF Follows
    <3> QED
        BY <3>2, <3>4, <3>5, <3>6 DEF Chained
  <2> QED
      BY <2>1, <2>2
<1>12. cdir'[n] = dir[n]
  <2>1. WindowOnly'
      BY WindowNext DEF CInv
  <2>2. win' # DirSect
      BY <1>3 DEF FatSect, DirSect
  <2> QED
      BY <1>3, <2>1, <2>2 DEF WindowOnly
<1>13. InMemory(c2)' /\ InFiles(c2)' /\ OnCard(c2)'
  <2>1. \A f, d, k : Image(f, d, dir[n], c2[n], k)
      BY <1>5 DEF Image
  <2>2. \E k \in 0..Len(c2[n]) : Image(cfat', cdata', cdir'[n], c2[n], k)
    <3>1. 0 \in 0..Len(c2[n])
        BY <1>11, ChainSeqs
    <3> QED
        BY <1>12, <2>1, <3>1
  <2>3. Image(fat', data, dir[n], c2[n], Len(c2[n]))
      BY <2>1
  <2>4. UNCHANGED <<dir, data, file>>
      BY <1>3
  <2>5. \A m \in Names \ {n} : c2[m] = ch[m] /\ x \notin Rng(ch[m])
      BY <1>9, <1>11
  <2> QED
      BY <1>1, <1>3, <1>5, <1>8, <1>11, <2>2, <2>3, <2>4, <2>5, FatChains
<1>14. Counted(fat, free, stale, 0)' /\ free' \in 0..(NFATENT - 2) /\ fsi' \in BOOLEAN
  <2> DEFINE k == Cardinality(FreeSet(fat))
             l == Cardinality(FreeSet(fat'))
  <2>1. l \in Nat /\ l <= NFATENT - 2 /\ l = IF fat[x] = Free THEN k ELSE k + 1
      BY <1>3, <1>7, <1>8, FreeMore DEF Typed, SectsTyped, IsFcn
  <2>2. k \in Nat
      BY FreeSetNat
  <2>3. /\ ~stale => free >= k + 0
        /\ free \in 0..(NFATENT - 2) /\ fsi \in BOOLEAN
      BY <1>7 DEF Counted, Typed, BookTyped
  <2> HIDE DEF k, l
  <2>4. free' \in 0..(NFATENT - 2) /\ fsi' \in BOOLEAN
    <3>1. CASE free < NFATENT - 2 /\ fat[x] # Free
      <4>1. free' = free + 1 /\ fsi' = TRUE
          BY <1>3, <3>1
      <4> QED
          BY <2>3, <3>1, <4>1, VolumeAssumption
    <3>2. CASE ~(free < NFATENT - 2 /\ fat[x] # Free)
      <4>1. free' = free /\ fsi' = fsi
          BY <1>3, <3>2
      <4> QED
          BY <2>3, <4>1
    <3> QED
        BY <3>1, <3>2
  <2>5. ~stale' => free' >= l + 0
      BY <1>3, <2>1, <2>2, <2>3, VolumeAssumption
  <2> QED
      BY <2>4, <2>5 DEF Counted, l
<1>15. Plan(c2, todo)'
  <2>1. Freeing(n, s, Unused(c2))
      BY <1>6, <1>11, FreeingMore
  <2>2. ~file'[n].open /\ dir'[n].clust = 0 /\ dir'[n].size = 0
      BY <1>3, <1>5
  <2>3. Positions(file', c2, {})
    <3>1. ASSUME NEW m \in Names PROVE PosOK(file[m], c2[m])
      <4>1. CASE m = n
          BY <1>5, <4>1 DEF PosOK
      <4>2. CASE m # n
          BY <1>5, <1>11, <4>2 DEF Positions
      <4> QED
          BY <4>1, <4>2
    <3> QED
        BY <1>3, <3>1 DEF Positions
  <2>4. Left(c2, s)'
      BY <2>1, <2>2, <2>3 DEF Left
  <2>5. Plan(c2, s)'
      BY <2>1, <2>4, FreeingSeq, PlanNow
  <2> QED
      BY <1>3, <1>4, <2>5
<1>16. SectsTyped' /\ WindowTyped' /\ BookTyped' /\ FileTyped'
  <2>1. SectsTyped'
    <3>1. Free \in 0..NFATENT
        BY VolumeAssumption DEF Free
    <3> QED
        BY <1>3, <1>7, <1>8, <3>1 DEF Typed, SectsTyped
  <2>2. WindowTyped'
      BY <1>3, <1>8 DEF WindowTyped, Sects
  <2> QED
      BY <1>3, <1>7, <1>14, <2>1, <2>2 DEF Typed, BookTyped, FileTyped
<1> QED
    BY <1>1, <1>11, <1>13, <1>14, <1>15, <1>16, Stepped

-----------------------------------------------------------------------------
(* The calls. *)

\* Between two calls every open file is at its place.
LEMMA Idle ==
  ASSUME NEW ch, Plan(ch, todo), todo = <<>>
  PROVE  Positions(file, ch, {})
<1>1. PICK r, t : todo = r \o t /\ AllLooks(r) /\ IsSeq(t) /\ Left(ch, t)
    BY DEF Plan
<1>2. t = <<>>
    BY <1>1, LastOf DEF AllLooks
<1>3. \A n, c, p : t # <<ByteI(n)>> /\ t # ToAlloc(n, c) /\ t # ToLink(n, p, c)
                   /\ t # ToFirst(n, c) /\ t # ToNext(n, p, c)
    BY <1>2, TailsOf DEF ToAlloc, ToLink, ToFirst, ToNext
<1> QED
    BY <1>1, <1>3 DEF Left

\* A call begins, with a file as it was or another.
LEMMA CallStep ==
  ASSUME CInv, Next, NEW is, Call(is), gens' \in 0..MAXGEN, file' \in [Names -> FileType],
         NEW ch, Good(ch), InFiles(ch)', Plan(ch, is)'
  PROVE  Chains'
<1>1. Typed /\ Counted(fat, free, stale, 0)
    BY DEF CInv, Chains
<1>2. todo' = is /\ UNCHANGED <<live, card, wind, book, stale>>
    BY DEF Call
<1>3. WindowTyped' /\ BookTyped' /\ FileTyped'
    BY <1>1, <1>2 DEF Typed, WindowTyped, BookTyped, FileTyped
<1>4. Counted(fat, free, stale, 0)'
    BY <1>1, <1>2 DEF Counted, FreeSet
<1>5. Plan(ch, todo)'
    BY <1>2
<1> QED
    BY <1>2, <1>3, <1>4, <1>5, Stayed

\* What there is when a call begins.
LEMMA CallBegins ==
  ASSUME CInv, todo = <<>>
  PROVE  /\ Typed /\ Counted(fat, free, stale, 0)
         /\ \E ch : Good(ch) /\ Positions(file, ch, {})
    BY Idle DEF CInv, Chains, Good

\* A call that leaves the files alone.
LEMMA SameFiles ==
  ASSUME CInv, NEW ch, Good(ch), UNCHANGED live, file' = file, Positions(file, ch, {})
  PROVE  InFiles(ch)' /\ Positions(file', ch, {}) /\ file' \in [Names -> FileType]
    BY SameLike, LikeFiles DEF Good, CInv, Chains, Typed, FileTyped

\* The chain that an entry starts.
LEMMA ChainOf ==
  ASSUME CInv, NEW ch, Good(ch), NEW n \in Names
  PROVE  \A k \in 0..NFATENT :
           Nth(fat, dir[n].clust, k) = IF dir[n].clust = 0 THEN 0
                                       ELSE IF k < Len(ch[n]) THEN ch[n][k + 1] ELSE EOC
<1>1. /\ ch[n] \in Seq(Clusters) /\ Len(ch[n]) \in Nat /\ Len(ch[n]) < NFATENT
      /\ Follows(fat, ch[n], Len(ch[n])) /\ Image(fat, data, dir[n], ch[n], Len(ch[n]))
    BY ChainSeqs DEF Good, InMemory
<1>2. CASE dir[n].clust = 0
  <2>1. 0 \notin Clusters
      BY DEF Clusters
  <2> QED
      BY <1>2, <2>1, NthNone
<1>3. CASE dir[n].clust # 0
  <2>1. Len(ch[n]) > 0 /\ dir[n].clust = ch[n][1]
      BY <1>1, <1>3 DEF Image
  <2>2. Len(ch[n]) \in 1..Len(ch[n])
      BY <1>1, <2>1
  <2>3. \A k \in 0..NFATENT : Nth(fat, ch[n][1], k) = IF k < Len(ch[n]) THEN ch[n][k + 1] ELSE EOC
    <3> DEFINE t == ch[n]
    <3> HIDE DEF t
    <3>1. t \in Seq(Clusters) /\ Len(t) < NFATENT /\ Len(t) \in 1..Len(t) /\ Follows(fat, t, Len(t))
        BY <1>1, <2>2 DEF t
    <3>2. \A k \in 0..NFATENT : Nth(fat, t[1], k) = IF k < Len(t) THEN t[k + 1] ELSE EOC
        BY <3>1, NthFollows
    <3> QED
        BY <3>2 DEF t
  <2> QED
      BY <1>3, <2>1, <2>3
<1> QED
    BY <1>2, <1>3

\* A sequence has no more clusters than its length.
LEMMA RngSize ==
  ASSUME NEW s, Len(s) \in Nat
  PROVE  IsFiniteSet(Rng(s)) /\ Cardinality(Rng(s)) \in Nat /\ Cardinality(Rng(s)) <= Len(s)
<1>1. /\ IsFiniteSet(1..Len(s))
      /\ Cardinality(1..Len(s)) = IF 1 > Len(s) THEN 0 ELSE Len(s) - 1 + 1
    BY FS_Interval, SMTT(30)
<1>2. Cardinality(1..Len(s)) = Len(s)
    BY <1>1
<1> DEFINE g == [i \in 1..Len(s) |-> s[i]]
<1>3. g \in Surjection(1..Len(s), Rng(s))
    BY DEF Surjection, Rng
<1> HIDE DEF g
<1>4. IsFiniteSet(Rng(s)) /\ Cardinality(Rng(s)) <= Len(s)
    BY <1>1, <1>2, <1>3, FS_Surjection
<1> QED
    BY <1>4, FS_CardinalityType

\* remove_chain() frees clusters of the chain.
LEMMA RemovedFrees ==
  ASSUME CInv, NEW ch, Good(ch), NEW n \in Names, dir[n].clust # 0
  PROVE  Frees(RemoveChain(dir[n].clust), Rng(ch[n]))
<1> DEFINE c == dir[n].clust
           s == ch[n]
           l == Length(fat, c)
           r == RemoveChain(c)
<1>1. s \in Seq(Clusters) /\ Len(s) \in Nat /\ Len(s) < NFATENT /\ NFATENT \in Nat
    BY ChainSeqs, VolumeAssumption DEF Good
<1>2. \A k \in 0..NFATENT : Nth(fat, c, k) = IF k < Len(s) THEN s[k + 1] ELSE EOC
    BY ChainOf
<1>3. EOC \notin Clusters
    BY VolumeAssumption DEF EOC, Clusters
<1>4. l \in Nat /\ l <= Len(s)
  <2>1. Chain(fat, c) \subseteq Rng(s)
    <3>1. ASSUME NEW k \in 0..NFATENT, Nth(fat, c, k) \in Clusters PROVE Nth(fat, c, k) \in Rng(s)
      <4>1. k < Len(s) /\ Nth(fat, c, k) = s[k + 1]
          BY <1>2, <1>3, <3>1
      <4>2. k + 1 \in 1..Len(s)
          BY <1>1, <4>1
      <4> QED
          BY <4>1, <4>2 DEF Rng
    <3> QED
        BY <3>1 DEF Chain
  <2>2. IsFiniteSet(Rng(s)) /\ Cardinality(Rng(s)) \in Nat /\ Cardinality(Rng(s)) <= Len(s)
      BY <1>1, RngSize
  <2>3. Cardinality(Chain(fat, c)) <= Cardinality(Rng(s))
      BY <2>1, <2>2, FS_Subset
  <2> QED
      BY <1>1, <2>2, <2>3, LengthNat DEF Length
<1>5. ASSUME NEW k \in 1..l PROVE r[k] = I("free", s[k], 0) /\ s[k] \in Rng(s)
  <2>1. k \in 1..Len(s) /\ k - 1 \in 0..NFATENT /\ k - 1 < Len(s) /\ (k - 1) + 1 = k
      BY <1>1, <1>4
  <2>2. ChainSeq(fat, c)[k] = Nth(fat, c, k - 1)
      BY DEF ChainSeq
  <2>3. Nth(fat, c, k - 1) = s[k]
      BY <1>2, <2>1
  <2> QED
      BY <2>1, <2>2, <2>3 DEF RemoveChain, Rng
<1>6. IsSeq(r) /\ Len(r) = l
  <2> DEFINE S == {r[k] : k \in 1..l}
  <2>1. r \in [1..l -> S]
      BY DEF RemoveChain
  <2> HIDE DEF r, l, S
  <2>2. r \in Seq(S)
      BY <1>4, <2>1, SeqDef
  <2> QED
      BY <1>4, <2>1, <2>2, LenProperties DEF IsSeq
<1> HIDE DEF r, l, s, c
<1>7. \A k \in 1..Len(r) : r[k].op = "free" /\ r[k].x \in Rng(s)
    BY <1>5, <1>6, Kinds
<1> SUFFICES Frees(r, Rng(s))
    BY DEF r, s, c
<1> QED
    BY <1>6, <1>7 DEF Frees


\* Three sequences in a row.
LEMMA ThreeSeqs ==
  ASSUME NEW a, NEW b, NEW c, IsSeq(a), IsSeq(b), IsSeq(c)
  PROVE  (a \o b) \o c = a \o (b \o c)
<1>1. PICK A : a \in Seq(A)
    BY DEF IsSeq
<1>2. PICK B : b \in Seq(B)
    BY DEF IsSeq
<1>3. PICK C : c \in Seq(C)
    BY DEF IsSeq
<1> DEFINE S == A \cup B \cup C
<1>4. a \in Seq(S) /\ b \in Seq(S) /\ c \in Seq(S)
  <2>1. A \subseteq S /\ B \subseteq S /\ C \subseteq S
      OBVIOUS
  <2> HIDE DEF S
  <2> QED
      BY <1>1, <1>2, <1>3, <2>1, SeqMonotonic
<1> HIDE DEF S
<1> QED
    BY <1>4, ConcatAssociative

\* A sequence and nothing.
LEMMA ConcatNone ==
  ASSUME NEW a, IsSeq(a)
  PROVE  a \o <<>> = a
<1>1. PICK A : a \in Seq(A)
    BY DEF IsSeq
<1> QED
    BY <1>1, ConcatEmptySeq

\* fclose() writes the entry of the file.
LEMMA FcloseStep ==
  ASSUME CInv, Next, NEW n \in Names, Fclose(n)
  PROVE  Chains'
<1>1. Typed /\ todo = <<>> /\ file[n].open /\ file' = file /\ gens' = gens
    BY CallBegins DEF Fclose
<1>2. PICK ch : Good(ch) /\ Positions(file, ch, {})
    BY <1>1, CallBegins
<1>3. PICK is : /\ Call(is)
                /\ is = (IF file[n].mod
                         THEN <<I("entry", n, EntryOf(file[n])), I("sync", 0, 0), I("info", 0, 0)>>
                         ELSE <<>>) \o <<I("closed", n, 0)>>
    BY DEF Fclose, EntryOf
<1>4. UNCHANGED live
    BY <1>3 DEF Call
<1>5. InFiles(ch)' /\ Positions(file', ch, {}) /\ file' \in [Names -> FileType]
    BY <1>1, <1>2, <1>4, SameFiles
<1>6. Plan(ch, is)'
  <2> DEFINE e == I("entry", n, EntryOf(file[n]))
             c == I("closed", n, 0)
  <2>1. CASE file[n].mod
    <3> DEFINE q == <<I("sync", 0, 0), I("info", 0, 0), c>>
    <3>1. is = <<e, I("sync", 0, 0), I("info", 0, 0), c>>
        BY <1>3, <2>1, ThreeAndOne
    <3>2. is = <<e>> \o q
      <4>1. \A a, b, d, g : <<a, b, d, g>> = <<a>> \o <<b, d, g>>
          OBVIOUS
      <4> QED
          BY <3>1, <4>1
    <3>3. Ending(q)
      <4>1. IsSeq(q) /\ Len(q) = 3
          BY TailsOf
      <4>2. q[1].op = "sync" /\ q[2].op = "info" /\ q[3].op = "closed"
          BY Kinds
      <4> HIDE DEF q
      <4>3. \A k \in 1..Len(q) : k = 1 \/ k = 2 \/ k = 3
          BY <4>1
      <4> QED
          BY <4>1, <4>2, <4>3 DEF Ending
    <3>4. IsSeq(<<e>> \o q)
        BY <3>3, ConsOf DEF Ending
    <3> HIDE DEF q
    <3>5. IsSeq(is) /\ \E u : is = <<I("entry", n, EntryOf(file'[n]))>> \o u /\ Ending(u)
        BY <1>1, <3>2, <3>3, <3>4
    <3>6. Left(ch, is)'
        BY <1>1, <1>5, <3>5 DEF Left
    <3> QED
        BY <3>5, <3>6, PlanNow
  <2>2. CASE ~file[n].mod
    <3>1. is = <<c>>
        BY <1>3, <2>2
    <3>2. Ending(<<c>>)
      <4>1. IsSeq(<<c>>) /\ Len(<<c>>) = 1 /\ <<c>>[1].op = "closed"
        <5>1. \A a : IsSeq(<<a>>) /\ Len(<<a>>) = 1 /\ <<a>>[1] = a
            BY TailsOf
        <5> QED
            BY <5>1, Kinds
      <4> HIDE DEF c
      <4> QED
          BY <4>1 DEF Ending
    <3> QED
        BY <1>5, <3>1, <3>2, PlanEnding
  <2> QED
      BY <2>1, <2>2
<1> QED
    BY <1>1, <1>2, <1>3, <1>5, <1>6, CallStep DEF Typed, FileTyped

\* An entry without clusters, and what is left of its chain.
LEMMA RemovingLeft ==
  ASSUME NEW ch, NEW n \in Names, Positions(file', ch, {}), ~file'[n].open,
         NEW t, NEW e \in Entry, e.clust = 0, e.size = 0,
         NEW u, Freeing(n, u, Rng(ch[n])), t = <<I("entry", n, e)>> \o u
  PROVE  Left(ch, t)'
<1>1. \E x \in Entry : \E w : /\ t = <<I("entry", n, x)>> \o w /\ x.clust = 0 /\ x.size = 0
                          /\ Freeing(n, w, Rng(ch[n]))
    BY Zenon
<1> QED
    BY <1>1 DEF Left

\* remove(): the entry first, then the chain it started.
LEMMA RemoveStep ==
  ASSUME CInv, Next, NEW n \in Names, Remove(n)
  PROVE  Chains'
<1>1. Typed /\ todo = <<>> /\ ~file[n].open /\ file' = file /\ gens' = gens
    BY CallBegins DEF Remove
<1>2. PICK ch : Good(ch) /\ Positions(file, ch, {})
    BY <1>1, CallBegins
<1> DEFINE e == <<I("entry", n, NoEntry)>>
           r == IF dir[n].clust = 0 THEN <<>> ELSE RemoveChain(dir[n].clust)
           q == <<I("sync", 0, 0), I("info", 0, 0)>>
<1>3. PICK is : Call(is) /\ is = e \o r \o q
    BY DEF Remove
<1>4. UNCHANGED live
    BY <1>3 DEF Call
<1>5. InFiles(ch)' /\ Positions(file', ch, {}) /\ file' \in [Names -> FileType]
    BY <1>1, <1>2, <1>4, SameFiles
<1>6. Frees(r, Rng(ch[n]))
  <2>1. IsSeq(<<>>) /\ Len(<<>>) = 0
      BY TailsOf
  <2>2. Frees(<<>>, Rng(ch[n]))
      BY <2>1 DEF Frees
  <2> QED
      BY <1>2, <2>2, RemovedFrees
<1>7. Ending(q)
  <2>1. IsSeq(q) /\ Len(q) = 2 /\ q[1].op = "sync" /\ q[2].op = "info"
    <3>1. \A a, b : IsSeq(<<a, b>>) /\ Len(<<a, b>>) = 2 /\ <<a, b>>[1] = a /\ <<a, b>>[2] = b
        BY TailsOf
    <3> QED
        BY <3>1, Kinds
  <2> HIDE DEF q
  <2>2. \A k \in 1..Len(q) : k = 1 \/ k = 2
      BY <2>1
  <2> QED
      BY <2>1, <2>2 DEF Ending
<1>8. NoEntry \in Entry /\ NoEntry.clust = 0 /\ NoEntry.size = 0
    BY VolumeAssumption DEF NoEntry, Entry
<1>9. PICK u : u = r \o q
    OBVIOUS
<1>10. is = e \o u /\ IsSeq(is)
  <2>1. IsSeq(e)
      BY TailsOf
  <2>2. IsSeq(r) /\ IsSeq(q)
      BY <1>6, <1>7 DEF Frees, Ending
  <2> HIDE DEF e, r, q
  <2> QED
      BY <1>3, <1>9, <2>1, <2>2, ConcatSeq, ThreeSeqs, SMTT(30)
<1>11. Freeing(n, u, Rng(ch[n]))
  <2> HIDE DEF r, q
  <2> QED
      BY <1>6, <1>7, <1>9 DEF Freeing, Rest
<1>12. Plan(ch, is)'
  <2>1. Left(ch, is)'
      BY <1>1, <1>5, <1>8, <1>10, <1>11, RemovingLeft
  <2> QED
      BY <1>10, <2>1, PlanNow
<1> HIDE DEF e, r, q
<1> QED
    BY <1>1, <1>2, <1>3, <1>5, <1>12, CallStep DEF Typed, FileTyped


\* A file that is opened to be written anew: an entry without clusters, then
\* the chain that its old entry started.
LEMMA OpenNewStep ==
  ASSUME CInv, Next, NEW n \in Names, OpenNew(n)
  PROVE  Chains'
<1>1. /\ Typed /\ todo = <<>> /\ ~file[n].open /\ file' = file
      /\ gens < MAXGEN /\ gens' = gens + 1
    BY CallBegins DEF OpenNew
<1>2. PICK ch : Good(ch) /\ Positions(file, ch, {})
    BY <1>1, CallBegins
<1> DEFINE x   == [clust |-> 0, size |-> 0, gen |-> gens + 1]
           old == dir[n].clust
           e   == <<I("entry", n, x)>>
           l   == <<I("look", DirSect, 0)>>
           r   == IF old = 0 THEN <<>> ELSE RemoveChain(old)
           m   == IF old = 0 THEN <<>> ELSE r \o l
           o   == <<Opening(n, x, 0, 0, TRUE, old)>>
           q   == IF old = 0 THEN o ELSE l \o o
<1>3. PICK is : Call(is) /\ is = e \o m \o o
    BY DEF OpenNew
<1>4. UNCHANGED live
    BY <1>3 DEF Call
<1>5. InFiles(ch)' /\ Positions(file', ch, {}) /\ file' \in [Names -> FileType]
    BY <1>1, <1>2, <1>4, SameFiles
<1>6. gens' \in 0..MAXGEN /\ gens \in Nat
    BY <1>1, VolumeAssumption DEF Typed, FileTyped
<1>7. Frees(r, Rng(ch[n]))
  <2>1. IsSeq(<<>>) /\ Len(<<>>) = 0
      BY TailsOf
  <2>2. Frees(<<>>, Rng(ch[n]))
      BY <2>1 DEF Frees
  <2> QED
      BY <1>2, <2>2, RemovedFrees
<1>8. x \in Entry /\ x.clust = 0 /\ x.size = 0
    BY <1>1, <1>6, VolumeAssumption DEF Entry
<1>9. Opens(n, NoEntry, <<>>, o)
  <2> DEFINE f == [open |-> TRUE, sclust |-> 0, size |-> 0, fptr |-> 0, clust |-> 0, mod |-> TRUE,
                   err |-> FALSE, gen |-> gens + 1]
  <2>1. o = <<OpenI(n, f, old)>>
      BY DEF Opening, OpenI
  <2>2. f \in FileType
      BY <1>1, <1>6, VolumeAssumption DEF FileType
  <2>3. old \in {0} \cup Clusters
      BY <1>1 DEF Typed, SectsTyped, Entry
  <2>4. Agrees(f, NoEntry) /\ PosOK(f, <<>>)
      BY DEF Agrees, PosOK, NoEntry
  <2> HIDE DEF f, o, old
  <2> QED
      BY <2>1, <2>2, <2>3, <2>4 DEF Opens
<1>10. IsSeq(e) /\ IsSeq(l) /\ IsSeq(o) /\ IsSeq(r)
    BY <1>7, TailsOf DEF Frees
<1>11. is = e \o (r \o q) /\ IsSeq(r \o q)
  <2> HIDE DEF e, l, o, r
  <2>1. CASE old = 0
    <3>1. r = <<>> /\ m = <<>> /\ q = o
        BY <2>1 DEF r
    <3>2. e \o m = e
        BY <1>10, <3>1, ConcatNone
    <3>3. r \o q = o
        BY <1>10, <3>1, FirstOf
    <3> HIDE DEF m, q
    <3> QED
        BY <1>3, <1>10, <3>2, <3>3
  <2>2. CASE old # 0
    <3>1. m = r \o l /\ q = l \o o
        BY <2>2
    <3>2. (e \o (r \o l)) \o o = e \o ((r \o l) \o o)
      <4>1. PICK v : v = r \o l
          OBVIOUS
      <4>2. IsSeq(v)
          BY <1>10, <4>1, ConcatSeq
      <4>3. (e \o v) \o o = e \o (v \o o)
          BY <1>10, <4>2, ThreeSeqs, SMTT(30)
      <4> QED
          BY <4>1, <4>3
    <3>4. (r \o l) \o o = r \o (l \o o)
        BY <1>10, ThreeSeqs
    <3>3. IsSeq(r \o (l \o o))
        BY <1>10, ConcatSeq
    <3> QED
        BY <1>3, <3>1, <3>2, <3>3, <3>4
  <2> QED
      BY <2>1, <2>2
<1>12. Rest(n, q)
  <2> HIDE DEF o
  <2>1. CASE old = 0
      BY <1>9, <2>1 DEF Rest
  <2>2. CASE old # 0
    <3>1. q = l \o o
        BY <2>2
    <3> QED
        BY <1>9, <3>1, Zenon DEF Rest
  <2> QED
      BY <2>1, <2>2
<1>13. PICK u : u = r \o q
    OBVIOUS
<1>14. Plan(ch, is)'
  <2>1. Freeing(n, u, Rng(ch[n]))
    <3> HIDE DEF r, q
    <3> QED
        BY <1>7, <1>12, <1>13 DEF Freeing
  <2>2. is = e \o u /\ IsSeq(is)
    <3> HIDE DEF e, r, q
    <3> QED
        BY <1>10, <1>11, <1>13, ConcatSeq
  <2>3. PICK y : y = x
      OBVIOUS
  <2>4. y \in Entry /\ y.clust = 0 /\ y.size = 0 /\ is = <<I("entry", n, y)>> \o u
      BY <1>8, <2>2, <2>3
  <2>5. Left(ch, is)'
    <3> HIDE DEF x
    <3> QED
        BY <1>1, <1>5, <2>1, <2>4, RemovingLeft
  <2> QED
      BY <2>2, <2>5, PlanNow
<1> HIDE DEF e, r, q, l, o, m, x, old
<1> QED
    BY <1>1, <1>2, <1>3, <1>5, <1>6, <1>14, CallStep


\* Sectors of the FAT that are looked at.
LEMMA LooksSeq ==
  ASSUME NEW k \in Nat, NEW r, IsFcn(r, 1..k),
         \A j \in 1..k : \E c \in Clusters : r[j] = I("look", FatSect(c), 0)
  PROVE  AllLooks(r) /\ Len(r) = k
<1> DEFINE S == {r[j] : j \in 1..k}
<1>1. r \in [1..k -> S]
    BY DEF IsFcn
<1> HIDE DEF S
<1>2. r \in Seq(S) /\ Len(r) = k
    BY <1>1, SeqDef, LenProperties
<1>3. ASSUME NEW j \in 1..k PROVE r[j].op = "look" /\ r[j].x \in Sects
  <2>1. PICK c \in Clusters : r[j] = I("look", FatSect(c), 0)
      OBVIOUS
  <2> QED
      BY <2>1, Kinds DEF Sects
<1> QED
    BY <1>2, <1>3 DEF AllLooks, IsSeq

\* One sector.
LEMMA LookOne ==
  ASSUME NEW x \in Sects
  PROVE  AllLooks(<<I("look", x, 0)>>)
<1>1. \A a : IsSeq(<<a>>) /\ Len(<<a>>) = 1 /\ <<a>>[1] = a
    BY TailsOf
<1> DEFINE i == I("look", x, 0)
<1>2. i.op = "look" /\ i.x \in Sects
    BY Kinds
<1> HIDE DEF i
<1>3. AllLooks(<<i>>)
    BY <1>1, <1>2 DEF AllLooks
<1> QED
    BY <1>3 DEF i

\* Looks and looks.
LEMMA LooksConcat ==
  ASSUME NEW a, NEW b, AllLooks(a), AllLooks(b)
  PROVE  AllLooks(a \o b)
<1>1. IsSeq(a) /\ IsSeq(b)
    BY DEF AllLooks
<1>2. PICK A : a \in Seq(A)
    BY <1>1 DEF IsSeq
<1>3. PICK B : b \in Seq(B)
    BY <1>1 DEF IsSeq
<1>4. a \in Seq(A \cup B) /\ b \in Seq(A \cup B)
    BY <1>2, <1>3, SeqMonotonic
<1> DEFINE w == a \o b
<1>5. /\ w \in Seq(A \cup B) /\ Len(w) = Len(a) + Len(b)
      /\ \A i \in 1..Len(a) + Len(b) : w[i] = IF i <= Len(a) THEN a[i] ELSE b[i - Len(a)]
    BY <1>4, ConcatProperties
<1>6. Len(a) \in Nat /\ Len(b) \in Nat
    BY <1>4, LenProperties
<1> HIDE DEF w
<1>7. ASSUME NEW k \in 1..Len(w) PROVE w[k].op = "look" /\ w[k].x \in Sects
  <2>1. CASE k <= Len(a)
    <3>1. k \in 1..Len(a) /\ w[k] = a[k]
        BY <1>5, <1>6, <2>1
    <3> QED
        BY <3>1 DEF AllLooks
  <2>2. CASE k > Len(a)
    <3>1. k - Len(a) \in 1..Len(b) /\ w[k] = b[k - Len(a)]
        BY <1>5, <1>6, <2>2
    <3> QED
        BY <3>1 DEF AllLooks
  <2> QED
      BY <1>5, <1>6, <2>1, <2>2
<1> QED
    BY <1>5, <1>7 DEF AllLooks, IsSeq, w

\* An old file is opened; for fopen(n, "a"), after a walk to its last byte's cluster.
LEMMA OpenOldStep ==
  ASSUME CInv, Next, NEW n \in Names, NEW append, OpenOld(n, append)
  PROVE  Chains'
<1>1. Typed /\ todo = <<>> /\ ~file[n].open /\ file' = file /\ gens' = gens
    BY CallBegins DEF OpenOld
<1>2. PICK ch : Good(ch) /\ Positions(file, ch, {})
    BY <1>1, CallBegins
<1> DEFINE e == dir[n]
           k == IF e.size = 0 THEN 0 ELSE (e.size - 1) \div BPC
           d == <<I("look", DirSect, 0)>>
           l == [j \in 1..k |-> I("look", FatSect(Nth(fat, e.clust, j - 1)), 0)]
           p == IF append THEN e.size ELSE 0
           c == IF append THEN Nth(fat, e.clust, k) ELSE 0
           o == <<Opening(n, e, p, c, FALSE, 0)>>
<1>3. PICK is : Call(is) /\ is = d \o (IF append THEN l \o o ELSE o)
    BY DEF OpenOld
<1>4. UNCHANGED live
    BY <1>3 DEF Call
<1>5. InFiles(ch)' /\ Positions(file', ch, {}) /\ file' \in [Names -> FileType]
    BY <1>1, <1>2, <1>4, SameFiles
<1>6. e \in Entry /\ e.size \in 0..MAXSIZE /\ e.gen \in 0..MAXGEN /\ e.clust \in {0} \cup Clusters
    BY <1>1 DEF Typed, SectsTyped, Entry
<1>7. ch[n] \in Seq(Clusters) /\ Len(ch[n]) \in Nat /\ Len(ch[n]) < NFATENT
      /\ \A i \in 1..Len(ch[n]) : ch[n][i] \in Clusters
    BY <1>2, ChainSeqs DEF Good
<1>8. \A j \in 0..NFATENT : Nth(fat, e.clust, j) = IF e.clust = 0 THEN 0
                                                   ELSE IF j < Len(ch[n]) THEN ch[n][j + 1] ELSE EOC
    BY <1>2, ChainOf
<1>9. /\ k \in Nat /\ k \in 0..NFATENT
      /\ e.clust # 0 => k < Len(ch[n])
      /\ e.clust = 0 => e.size = 0 /\ k = 0
  <2>1. Image(fat, data, e, ch[n], Len(ch[n]))
      BY <1>2 DEF Good, InMemory
  <2>2. NFATENT \in Nat /\ e.size \in Nat
      BY <1>6, VolumeAssumption
  <2>3. CASE e.clust = 0
      BY <2>1, <2>2, <2>3 DEF Image
  <2>4. CASE e.clust # 0 /\ e.size = 0
      BY <1>7, <2>1, <2>2, <2>4 DEF Image
  <2>5. CASE e.clust # 0 /\ e.size # 0
    <3>1. e.size <= Len(ch[n]) * BPC
        BY <2>1, <2>5 DEF Image
    <3>2. e.size - 1 \in 0..(e.size - 1)
        BY <2>2, <2>5
    <3>3. ((e.size - 1) \div BPC) + 1 \in 1..Len(ch[n])
        BY <1>7, <2>2, <3>1, <3>2, ByteIn
    <3>4. (e.size - 1) \div BPC \in Nat
      <4>1. e.size - 1 \in Nat /\ BPC \in Nat \ {0}
          BY <2>2, <2>5, VolumeAssumption
      <4>2. \A z \in Nat : z \div BPC \in Nat
          BY <4>1, DivFacts
      <4> QED
          BY <4>1, <4>2
    <3>5. k = (e.size - 1) \div BPC
        BY <2>5
    <3> HIDE DEF k
    <3> QED
        BY <1>7, <2>2, <2>5, <3>3, <3>4, <3>5
  <2> QED
      BY <2>3, <2>4, <2>5
<1>10. c \in {0} \cup Clusters /\ (append /\ e.size > 0 => c = ch[n][k + 1])
  <2> HIDE DEF k
  <2>1. CASE append /\ e.clust # 0
    <3>1. c = ch[n][k + 1] /\ k + 1 \in 1..Len(ch[n])
        BY <1>7, <1>8, <1>9, <2>1
    <3> QED
        BY <1>7, <3>1
  <2>2. CASE ~(append /\ e.clust # 0)
      BY <1>8, <1>9, <2>2
  <2> QED
      BY <2>1, <2>2
<1>11. Opens(n, dir[n], ch[n], o)
  <2> DEFINE f == [open |-> TRUE, sclust |-> e.clust, size |-> e.size, fptr |-> p, clust |-> c,
                   mod |-> FALSE, err |-> FALSE, gen |-> e.gen]
  <2>1. o = <<OpenI(n, f, 0)>>
      BY DEF Opening, OpenI
  <2>2. f \in FileType
    <3>1. p \in 0..MAXSIZE
        BY <1>6, VolumeAssumption
    <3> HIDE DEF p, c
    <3> QED
        BY <1>6, <1>10, <3>1 DEF FileType
  <2>3. Agrees(f, dir[n])
    <3>1. p <= e.size
        BY <1>6, VolumeAssumption
    <3> HIDE DEF p, c
    <3> QED
        BY <3>1 DEF Agrees
  <2>4. PosOK(f, ch[n])
    <3>1. ASSUME p > 0 PROVE c = ch[n][((p - 1) \div BPC) + 1]
      <4>1. append /\ e.size > 0 /\ p = e.size
          BY <3>1
      <4>2. k = (e.size - 1) \div BPC
          BY <4>1
      <4> HIDE DEF c, k
      <4> QED
          BY <1>10, <4>1, <4>2
    <3> HIDE DEF p, c
    <3> QED
        BY <3>1 DEF PosOK
  <2> HIDE DEF f, o
  <2> QED
      BY <2>1, <2>2, <2>3, <2>4 DEF Opens
<1>12. AllLooks(d)
  <2>1. DirSect \in Sects
      BY DEF Sects
  <2> QED
      BY <2>1, LookOne
<1>13. AllLooks(l)
  <2>1. IsFcn(l, 1..k)
      BY DEF IsFcn
  <2>2. ASSUME NEW j \in 1..k PROVE \E x \in Clusters : l[j] = I("look", FatSect(x), 0)
    <3>1. l[j] = I("look", FatSect(Nth(fat, e.clust, j - 1)), 0)
        OBVIOUS
    <3>2. j \in 1..k
        OBVIOUS
    <3> HIDE DEF k, l
    <3>3. e.clust # 0 /\ j - 1 \in 0..NFATENT /\ j - 1 < Len(ch[n]) /\ j \in 1..Len(ch[n])
        BY <1>7, <1>9, <3>2, VolumeAssumption
    <3>4. Nth(fat, e.clust, j - 1) = ch[n][j] /\ ch[n][j] \in Clusters
      <4>1. (j - 1) + 1 = j
          BY <1>9, <3>2
      <4> QED
          BY <1>7, <1>8, <3>3, <4>1
    <3> QED
        BY <3>1, <3>4
  <2> HIDE DEF k, l
  <2> QED
      BY <1>9, <2>1, <2>2, LooksSeq
<1>14. PICK r : r = IF append THEN d \o l ELSE d
    OBVIOUS
<1>15. PICK t : t = o
    OBVIOUS
<1>16. AllLooks(r) /\ is = r \o t /\ IsSeq(t)
  <2>1. IsSeq(o) /\ IsSeq(d) /\ IsSeq(l)
      BY <1>12, <1>13, TailsOf DEF AllLooks
  <2> HIDE DEF o, d, l
  <2>2. CASE append
    <3>1. (d \o l) \o o = d \o (l \o o)
        BY <2>1, ThreeSeqs
    <3> QED
        BY <1>3, <1>12, <1>13, <1>14, <1>15, <2>1, <2>2, <3>1, LooksConcat
  <2>3. CASE ~append
      BY <1>3, <1>12, <1>14, <1>15, <2>1, <2>3
  <2> QED
      BY <2>2, <2>3
<1>17. Plan(ch, is)'
  <2>1. Opens(n, dir'[n], ch[n], t)
      BY <1>4, <1>11, <1>15
  <2> HIDE DEF e, k, d, l, p, c, o
  <2>2. Left(ch, t)'
      BY <1>1, <1>5, <2>1 DEF Left
  <2> QED
      BY <1>16, <2>2, PlanLooks
<1> HIDE DEF e, k, d, l, p, c, o
<1> QED
    BY <1>1, <1>2, <1>3, <1>5, <1>17, CallStep DEF Typed, FileTyped


\* fputc(): where the byte goes, if the chain is long enough.
LEMMA FputcPlace ==
  ASSUME NEW s \in Seq(Clusters), NEW f \in FileType, f.open, ~f.err,
         Image(fat, data, EntryOf(f), s, Len(s)), f.fptr <= f.size, PosOK(f, s)
  PROVE  /\ f.fptr % BPC # 0 => Placed(f, s)
         /\ f.fptr = 0 => \/ f.sclust = 0
                          \/ /\ f.sclust \in Clusters
                             /\ Placed([f EXCEPT !.clust = f.sclust], s)
         /\ f.fptr # 0 /\ f.fptr % BPC = 0 =>
              /\ f.clust \in Clusters
              /\ \/ /\ fat[f.clust] \in Clusters
                    /\ Placed([f EXCEPT !.clust = fat[f.clust]], s)
                 \/ fat[f.clust] = EOC /\ f.clust = Last(s) /\ Growing(f, s)
<1>1. /\ f.fptr \in Nat /\ f.size \in Nat /\ f.sclust \in {0} \cup Clusters
      /\ Len(s) \in Nat /\ BPC \in Nat \ {0}
      /\ \A i \in 1..Len(s) : s[i] \in Clusters
    BY VolumeAssumption, LenProperties, ElementOfSeq DEF FileType
<1>2. f.sclust = 0 => f.size = 0
    BY DEF Image, EntryOf
<1>3. f.sclust # 0 => /\ Len(s) > 0 /\ f.sclust = s[1] /\ f.size <= Len(s) * BPC
                      /\ Follows(fat, s, Len(s))
    BY DEF Image, EntryOf
<1> DEFINE q == f.fptr \div BPC
           g(c) == [f EXCEPT !.clust = c]
<1>4. \A c : g(c).sclust = f.sclust /\ g(c).fptr = f.fptr /\ g(c).clust = c
    BY DEF FileType
<1>5. ASSUME f.fptr # 0
      PROVE  /\ f.sclust # 0 /\ ((f.fptr - 1) \div BPC) + 1 \in 1..Len(s)
             /\ f.clust = s[((f.fptr - 1) \div BPC) + 1]
  <2>1. f.sclust # 0 /\ f.fptr - 1 \in 0..(f.size - 1)
      BY <1>1, <1>2, <1>5
  <2>2. ((f.fptr - 1) \div BPC) + 1 \in 1..Len(s)
      BY <1>1, <1>3, <2>1, ByteIn
  <2>3. f.fptr > 0
      BY <1>1, <1>5
  <2> QED
      BY <2>1, <2>2, <2>3 DEF PosOK
<1>6. q \in Nat /\ f.fptr = BPC * q + (f.fptr % BPC)
    BY <1>1, DivFacts
<1>7. ASSUME f.fptr % BPC # 0 PROVE Placed(f, s)
  <2>1. f.fptr # 0
      BY <1>1, <1>7
  <2>2. (f.fptr - 1) \div BPC = q
      BY <1>1, <1>7, DivSame
  <2> HIDE DEF q
  <2>3. q + 1 \in 1..Len(s)
      BY <1>5, <2>1, <2>2
  <2>4. q < Len(s)
      BY <1>1, <1>6, <2>3
  <2> QED
      BY <1>5, <2>1, <2>2, <2>4 DEF Placed, q
<1>8. ASSUME f.fptr = 0, f.sclust # 0
      PROVE  f.sclust \in Clusters /\ Placed(g(f.sclust), s)
  <2>1. f.fptr \div BPC = 0
      BY <1>1, <1>8
  <2>2. f.fptr \div BPC < Len(s) /\ f.sclust = s[(f.fptr \div BPC) + 1]
      BY <1>1, <1>3, <1>8, <2>1
  <2> HIDE DEF g
  <2> QED
      BY <1>1, <1>4, <1>8, <2>2 DEF Placed
<1>9. ASSUME f.fptr # 0, f.fptr % BPC = 0
      PROVE  /\ f.clust \in Clusters
             /\ \/ fat[f.clust] \in Clusters /\ Placed(g(fat[f.clust]), s)
                \/ fat[f.clust] = EOC /\ f.clust = Last(s) /\ Growing(f, s)
  <2>1. (f.fptr - 1) \div BPC = q - 1
      BY <1>1, <1>9, DivEdge
  <2>2. f.fptr = q * BPC
    <3>1. \A a, b \in Nat : a * b = b * a /\ a * b + 0 = a * b
        OBVIOUS
    <3> HIDE DEF q
    <3> QED
        BY <1>1, <1>6, <1>9, <3>1
  <2> HIDE DEF q
  <2>3. q \in 1..Len(s) /\ f.clust = s[q] /\ f.sclust # 0
    <3>1. (q - 1) + 1 = q
        BY <1>6
    <3> QED
        BY <1>5, <1>9, <2>1, <3>1
  <2>4. CASE q = Len(s)
    <3>1. fat[s[q]] = EOC
        BY <1>1, <1>3, <2>3, <2>4 DEF Follows
    <3> QED
        BY <1>1, <1>3, <2>2, <2>3, <2>4, <3>1 DEF Growing, Last
  <2>5. CASE q # Len(s)
    <3>1. q < Len(s) /\ q \in 1..(Len(s) - 1) /\ q + 1 \in 1..Len(s)
        BY <1>1, <2>3, <2>5
    <3>2. fat[s[q]] = s[q + 1]
        BY <1>3, <2>3, <3>1 DEF Follows
    <3>3. s[q + 1] \in Clusters /\ s[q] \in Clusters
        BY <1>1, <2>3, <3>1
    <3> HIDE DEF g
    <3> QED
        BY <1>4, <2>3, <3>1, <3>2, <3>3 DEF Placed, q
  <2> QED
      BY <1>1, <2>3, <2>4, <2>5
<1> QED
    BY <1>7, <1>8, <1>9


\* create_chain() searches clusters.
LEMMA Searched ==
  ASSUME Typed, NEW clst \in {0} \cup Clusters
  PROVE  SearchOrder(clst) \in Seq(Clusters)
<1>1. NFATENT \in Nat /\ NFATENT > 2 /\ last \in 1..(NFATENT - 1)
    BY VolumeAssumption DEF Typed, BookTyped
<1>2. ASSUME NEW scl \in 1..(NFATENT - 1) PROVE From(scl) \in Seq(Clusters)
  <2> DEFINE m == NFATENT - 2
             r == From(scl)
  <2>1. ASSUME NEW k \in 1..m PROVE r[k] \in Clusters
    <3>1. r[k] = IF scl + k < NFATENT THEN scl + k ELSE scl + k - NFATENT + 2
        BY DEF From
    <3> HIDE DEF r
    <3> QED
        BY <1>1, <3>1 DEF Clusters
  <2>2. r \in [1..m -> Clusters]
      BY <2>1 DEF From
  <2>3. m \in Nat
      BY <1>1
  <2> HIDE DEF r, m
  <2>4. r \in Seq(Clusters)
      BY <2>2, <2>3, SeqDef
  <2> QED
      BY <2>4 DEF r
<1>3. CASE clst = 0
  <2>1. SearchOrder(clst) = From(last)
      BY <1>1, <1>3 DEF SearchOrder
  <2> QED
      BY <1>1, <1>2, <2>1
<1>4. CASE clst \in Clusters
  <2>1. clst # 0 /\ Clusters \subseteq 1..(NFATENT - 1)
      BY <1>1, <1>4 DEF Clusters
  <2>2. After(clst) \in Clusters
      BY <1>1, <1>4 DEF After, Clusters
  <2>3. <<After(clst)>> \in Seq(Clusters)
      BY <2>2, OneCluster
  <2>4. PICK scl : scl = IF last \in Clusters THEN last ELSE clst
      OBVIOUS
  <2>5. From(scl) \in Seq(Clusters)
      BY <1>2, <1>4, <2>1, <2>4
  <2>6. <<After(clst)>> \o From(scl) \in Seq(Clusters)
      BY <2>3, <2>5, ConcatProperties
  <2>7. SearchOrder(clst) = IF fat[After(clst)] = Free THEN <<After(clst)>>
                            ELSE <<After(clst)>> \o From(scl)
      BY <2>1, <2>4, Zenon DEF SearchOrder
  <2> QED
      BY <2>3, <2>6, <2>7
<1> QED
    BY <1>3, <1>4

\* It looks at their sectors of the FAT.
LEMMA LooksOf ==
  ASSUME NEW s \in Seq(Clusters)
  PROVE  AllLooks(Looks(s))
<1> DEFINE r == Looks(s)
<1>1. Len(s) \in Nat /\ \A k \in 1..Len(s) : s[k] \in Clusters
    BY LenProperties, ElementOfSeq
<1>2. IsFcn(r, 1..Len(s)) /\ \A k \in 1..Len(s) : r[k] = I("look", FatSect(s[k]), 0)
    BY DEF Looks, IsFcn
<1> HIDE DEF r
<1>3. \A k \in 1..Len(s) : \E c \in Clusters : r[k] = I("look", FatSect(c), 0)
    BY <1>1, <1>2
<1>4. AllLooks(r)
    BY <1>1, <1>2, <1>3, LooksSeq
<1> QED
    BY <1>4 DEF r

\* Instructions in a row.
LEMMA OneAndOne ==
  ASSUME NEW x, NEW y
  PROVE  <<x, y>> = <<x>> \o <<y>>
<1> DEFINE S == {x, y}
           a == <<x>>
           b == <<y>>
           t == <<x, y>>
<1>1. a \in Seq(S) /\ b \in Seq(S) /\ t \in Seq(S)
    OBVIOUS
<1>2. Len(a) = 1 /\ Len(b) = 1 /\ Len(t) = 2 /\ a[1] = x /\ b[1] = y /\ t[1] = x /\ t[2] = y
    OBVIOUS
<1> SUFFICES t = a \o b
    OBVIOUS
<1> HIDE DEF S, a, b, t
<1>3. /\ a \o b \in Seq(S) /\ Len(a \o b) = 2
      /\ \A i \in 1..2 : (a \o b)[i] = IF i <= 1 THEN a[i] ELSE b[i - 1]
  <2>1. /\ a \o b \in Seq(S) /\ Len(a \o b) = Len(a) + Len(b)
        /\ \A i \in 1..Len(a) + Len(b) : (a \o b)[i] = IF i <= Len(a) THEN a[i] ELSE b[i - Len(a)]
      BY <1>1, ConcatProperties
  <2> QED
      BY <1>2, <2>1
<1>4. \A i \in 1..2 : t[i] = (a \o b)[i]
  <2>1. 1..2 = {1, 2}
      OBVIOUS
  <2> QED
      BY <1>2, <1>3, <2>1
<1> QED
    BY <1>1, <1>2, <1>3, <1>4, SeqEqual

\* One and two.
LEMMA OneAndTwo ==
  ASSUME NEW x, NEW y, NEW z
  PROVE  <<x, y, z>> = <<x>> \o <<y, z>>
    OBVIOUS

\* Two and two.
LEMMA TwoAndTwo ==
  ASSUME NEW w, NEW x, NEW y, NEW z
  PROVE  <<w, x, y, z>> = <<w, x>> \o <<y, z>>
    OBVIOUS

\* The looks, and then a full card or a new cluster.
LEMMA NewPlan ==
  ASSUME Typed, NEW n, NEW clst \in {0} \cup Clusters
  PROVE  \E r, t : /\ NewCluster(n, clst) = r \o t /\ AllLooks(r) /\ IsSeq(t)
                   /\ \/ Ending(t)
                      \/ /\ free > 0
                         /\ \E c \in Clusters :
                              /\ fat[c] = Free
                              /\ t = IF clst = 0 THEN ToFirst(n, c) ELSE ToNext(n, clst, c)
<1> DEFINE s    == SearchOrder(clst)
           ncl  == s[FirstFree(s)]
           a    == IF clst = 0 THEN <<>> ELSE <<I("look", FatSect(clst), 0)>>
           full == <<I("full", n, 0)>>
           all  == Looks(s)
           some == Looks(SubSeq(s, 1, FirstFree(s) - 1))
           p1   == <<I("put", ncl, EOC)>>
           p2   == IF clst = 0 THEN <<>> ELSE <<I("put", clst, ncl)>>
           e    == <<I("alloc", n, ncl), I("byte", n, 0)>>
<1>1. NewCluster(n, clst) =
        a \o (IF free = 0 THEN full ELSE IF ~Found(s) THEN all \o full
              ELSE some \o p1 \o p2 \o e)
    BY DEF NewCluster
<1>2. s \in Seq(Clusters) /\ IsSeq(s) /\ Len(s) \in Nat
    BY Searched, LenProperties DEF IsSeq
<1>3. AllLooks(a)
  <2>1. CASE clst = 0
    <3>1. IsSeq(<<>>) /\ Len(<<>>) = 0
        BY TailsOf
    <3> QED
        BY <2>1, <3>1 DEF AllLooks
  <2>2. CASE clst # 0
    <3>1. FatSect(clst) \in Sects
        BY <2>2 DEF Sects
    <3> QED
        BY <2>2, <3>1, LookOne
  <2> QED
      BY <2>1, <2>2
<1>4. Ending(full) /\ IsSeq(full)
  <2>1. \A x : IsSeq(<<x>>) /\ Len(<<x>>) = 1 /\ <<x>>[1] = x
      BY TailsOf
  <2> DEFINE x == I("full", n, 0)
  <2>2. x.op = "full"
      BY Kinds
  <2> HIDE DEF x
  <2>3. Ending(<<x>>) /\ IsSeq(<<x>>)
      BY <2>1, <2>2 DEF Ending
  <2> QED
      BY <2>3 DEF x
<1>5. AllLooks(all)
    BY <1>2, LooksOf
<1>6. CASE free = 0
  <2>1. NewCluster(n, clst) = a \o full
      BY <1>1, <1>6
  <2> HIDE DEF a, full
  <2> QED
      BY <1>3, <1>4, <2>1, Zenon
<1>7. CASE free # 0 /\ ~Found(s)
  <2> HIDE DEF a, full, all, s
  <2>1. NewCluster(n, clst) = a \o (all \o full)
      BY <1>1, <1>7
  <2>2. a \o (all \o full) = (a \o all) \o full
    <3>1. IsSeq(a) /\ IsSeq(all) /\ IsSeq(full)
        BY <1>3, <1>4, <1>5 DEF AllLooks
    <3> QED
        BY <3>1, ThreeSeqs
  <2> QED
      BY <1>3, <1>4, <1>5, <2>1, <2>2, LooksConcat
<1>8. CASE free # 0 /\ Found(s)
  <2>1. FirstFree(s) \in 1..Len(s) /\ fat[ncl] = Free /\ ncl \in Clusters
    <3>1. FirstFree(s) \in 1..Len(s) /\ fat[s[FirstFree(s)]] = Free
        BY <1>2, <1>8, FirstNat
    <3> QED
        BY <1>2, <3>1, ElementOfSeq
  <2>2. AllLooks(some)
    <3>1. FirstFree(s) - 1 \in 0..Len(s)
        BY <1>2, <2>1
    <3>2. SubSeq(s, 1, FirstFree(s) - 1) \in Seq(Clusters)
        BY <1>2, <3>1, FirstClusters
    <3> QED
        BY <3>2, LooksOf
  <2> DEFINE t == IF clst = 0 THEN ToFirst(n, ncl) ELSE ToNext(n, clst, ncl)
  <2>3. (p1 \o p2) \o e = t
    <3> HIDE DEF ncl
    <3>3. CASE clst = 0
      <4>1. \A x : <<x>> \o <<>> = <<x>>
          BY TailsOf, ConcatNone
      <4>2. \A x, y, z : <<x, y, z>> = <<x>> \o <<y, z>>
          BY OneAndTwo
      <4>3. p1 \o p2 = p1
          BY <3>3, <4>1
      <4>4. t = p1 \o e
        <5>1. t = <<I("put", ncl, EOC), I("alloc", n, ncl), I("byte", n, 0)>>
            BY <3>3 DEF ToFirst, ByteI
        <5> HIDE DEF t
        <5> QED
            BY <4>2, <5>1
      <4> HIDE DEF p1, p2, e, t
      <4> QED
          BY <4>3, <4>4
    <3>4. CASE clst # 0
      <4>1. \A x, y : <<x, y>> = <<x>> \o <<y>>
          BY OneAndOne
      <4>2. \A w, x, y, z : <<w, x, y, z>> = <<w, x>> \o <<y, z>>
          BY TwoAndTwo
      <4>3. p2 = <<I("put", clst, ncl)>>
          BY <3>4
      <4>4. t = <<I("put", ncl, EOC), I("put", clst, ncl), I("alloc", n, ncl), I("byte", n, 0)>>
          BY <3>4 DEF ToNext, ByteI
      <4>5. p1 \o p2 = <<I("put", ncl, EOC), I("put", clst, ncl)>>
          BY <4>1, <4>3
      <4>6. t = <<I("put", ncl, EOC), I("put", clst, ncl)>> \o e
          BY <4>2, <4>4
      <4> HIDE DEF p1, p2, t, e
      <4> QED
          BY <4>5, <4>6, Zenon
    <3> QED
        BY <3>3, <3>4
  <2>4. IsSeq(p1) /\ IsSeq(p2) /\ IsSeq(e)
      BY TailsOf
  <2>5. free > 0
      BY <1>8, VolumeAssumption DEF Typed, BookTyped
  <2> HIDE DEF a, full, all, some, p1, p2, e, t
  <2>6. NewCluster(n, clst) = (a \o some) \o t /\ IsSeq(t)
    <3> HIDE DEF s, ncl
    <3>1. NewCluster(n, clst) = a \o (((some \o p1) \o p2) \o e)
        BY <1>1, <1>8
    <3>2. IsSeq(a) /\ IsSeq(some)
        BY <1>3, <2>2 DEF AllLooks
    <3>3. (some \o p1) \o p2 = some \o (p1 \o p2) /\ IsSeq(p1 \o p2)
        BY <2>4, <3>2, ThreeSeqs, ConcatSeq
    <3>6. (some \o (p1 \o p2)) \o e = some \o ((p1 \o p2) \o e)
      <4> DEFINE p == p1 \o p2
      <4> HIDE DEF p
      <4>1. IsSeq(p)
          BY <3>3 DEF p
      <4>2. (some \o p) \o e = some \o (p \o e)
          BY <2>4, <3>2, <4>1, ThreeSeqs, SMTT(30)
      <4> QED
          BY <4>2 DEF p
    <3>4. IsSeq((p1 \o p2) \o e)
        BY <2>4, <3>3, ConcatSeq
    <3>5. a \o (some \o t) = (a \o some) \o t
        BY <2>3, <3>2, <3>4, ThreeSeqs
    <3> QED
        BY <2>3, <3>1, <3>3, <3>4, <3>5, <3>6
  <2>7. AllLooks(a \o some)
      BY <1>3, <2>2, LooksConcat
  <2>8. PICK c \in Clusters : c = ncl
      BY <2>1
  <2>9. fat[c] = Free /\ t = IF clst = 0 THEN ToFirst(n, c) ELSE ToNext(n, clst, c)
      BY <2>1, <2>8 DEF t
  <2> HIDE DEF s, ncl
  <2> QED
      BY <2>5, <2>6, <2>7, <2>9, Zenon
<1> QED
    BY <1>6, <1>7, <1>8


\* fputc() begins: the byte alone, or with the next cluster of the chain, or with a new one.
LEMMA FputcStep ==
  ASSUME CInv, Next, NEW n \in Names, Fputc(n)
  PROVE  Chains'
<1>1. /\ Typed /\ todo = <<>> /\ file[n].open /\ ~file[n].err /\ file[n].fptr < MAXSIZE
      /\ gens' = gens
    BY CallBegins DEF Fputc
<1>2. PICK ch : Good(ch) /\ Positions(file, ch, {})
    BY <1>1, CallBegins
<1> DEFINE s == ch[n]
           f == file[n]
           g(c) == [f EXCEPT !.clust = c]
           prev == IF f.fptr = 0 THEN 0 ELSE f.clust
           next == IF f.fptr = 0 THEN f.sclust ELSE fat[f.clust]
<1>3. f \in FileType /\ s \in Seq(Clusters)
    BY <1>1, <1>2, ChainSeqs DEF Typed, FileTyped, Good
<1>4. FileOK(fat, data, dir[n], f, s) /\ PosOK(f, s)
    BY <1>1, <1>2 DEF Good, InFiles, Positions
<1>5. /\ f.fptr % BPC # 0 => Placed(f, s)
      /\ f.fptr = 0 => \/ f.sclust = 0
                       \/ f.sclust \in Clusters /\ Placed(g(f.sclust), s)
      /\ f.fptr # 0 /\ f.fptr % BPC = 0 =>
           /\ f.clust \in Clusters
           /\ \/ fat[f.clust] \in Clusters /\ Placed(g(fat[f.clust]), s)
              \/ fat[f.clust] = EOC /\ f.clust = Last(s) /\ Growing(f, s)
    BY <1>1, <1>3, <1>4, FputcPlace DEF FileOK
<1>6. gens' \in 0..MAXGEN
    BY <1>1 DEF Typed, FileTyped
<1>7. UNCHANGED live /\ UNCHANGED <<free, stale>>
    BY DEF Fputc, Call
<1>8. Free \notin Clusters /\ EOC \notin Clusters /\ EOC # Free /\ 0 \notin Clusters /\ Free = 0
    BY VolumeAssumption DEF Free, EOC, Clusters
<1>9. Positions(file, ch, {n})
    BY <1>2 DEF Positions
<1>10. CASE f.fptr % BPC # 0
  <2>1. Call(<<ByteI(n)>>) /\ file' = file
      BY <1>10, Zenon DEF Fputc, ByteI
  <2>2. InFiles(ch)' /\ Positions(file', ch, {}) /\ file' \in [Names -> FileType]
      BY <1>1, <1>2, <1>7, <2>1, SameFiles
  <2>3. Positions(file', ch, {n}) /\ Writing(file'[n]) /\ Placed(file'[n], s)
      BY <1>1, <1>5, <1>9, <1>10, <2>1 DEF Writing
  <2>4. Plan(ch, <<ByteI(n)>>)'
      BY <2>3, ByteLeft
  <2> QED
      BY <1>2, <1>6, <2>1, <2>2, <2>4, CallStep
<1>11. CASE f.fptr % BPC = 0 /\ next \in Clusters
  <2>1. prev # 0 => next # Free
      BY <1>8, <1>11
  <2> DEFINE is == (IF prev = 0 THEN <<>> ELSE <<I("look", FatSect(prev), 0)>>) \o <<ByteI(n)>>
             r  == IF prev = 0 THEN <<>> ELSE <<I("look", FatSect(prev), 0)>>
  <2>2. Call(is) /\ file' = [file EXCEPT ![n].clust = next]
      BY <1>11, <2>1, Zenon DEF Fputc, ByteI
  <2>3. file' = [file EXCEPT ![n] = g(next)]
      BY <2>2
  <2>4. Placed(g(next), s) /\ g(next) \in FileType /\ g(next).open /\ ~g(next).err
        /\ g(next).fptr < MAXSIZE
    <3>1. Placed(g(next), s)
        BY <1>5, <1>8, <1>11
    <3> HIDE DEF next
    <3>2. g(next) \in FileType
        BY <1>3, <1>11 DEF FileType
    <3>3. g(next).open = f.open /\ g(next).err = f.err /\ g(next).fptr = f.fptr
        BY <1>3 DEF FileType
    <3> QED
        BY <1>1, <3>1, <3>2, <3>3
  <2>5. FileOK(fat, data, dir[n], g(next), s)
    <3>1. EntryOf(g(next)) = EntryOf(f) /\ g(next).fptr = f.fptr /\ g(next).size = f.size
          /\ g(next).sclust = f.sclust
        BY <1>3 DEF EntryOf, FileType
    <3> HIDE DEF g
    <3> QED
        BY <1>4, <3>1 DEF FileOK
  <2>6. AllLooks(r)
    <3>1. CASE prev = 0
      <4>1. IsSeq(<<>>) /\ Len(<<>>) = 0
          BY TailsOf
      <4> QED
          BY <3>1, <4>1 DEF AllLooks
    <3>2. CASE prev # 0
      <4>1. prev \in Clusters
          BY <1>5, <1>11, <3>2
      <4>2. FatSect(prev) \in Sects
          BY <4>1 DEF Sects
      <4> QED
          BY <3>2, <4>2, LookOne
    <3> QED
        BY <3>1, <3>2
  <2>7. PICK h : h = g(next)
      OBVIOUS
  <2>8. /\ file' = [file EXCEPT ![n] = h] /\ h \in FileType /\ h.open /\ ~h.err /\ h.fptr < MAXSIZE
        /\ Placed(h, s) /\ FileOK(fat, data, dir[n], h, s)
      BY <2>3, <2>4, <2>5, <2>7
  <2> HIDE DEF g, next, f
  <2>9. InFiles(ch)' /\ Positions(file', ch, {n})
      BY <1>1, <1>2, <1>7, <1>9, <2>8, OneFile DEF Good
  <2>10. file'[n] = h /\ file' \in [Names -> FileType]
      BY <1>1, <2>8 DEF Typed, FileTyped
  <2>11. PICK w, u : w = r /\ u = is
      OBVIOUS
  <2>12. AllLooks(w) /\ u = w \o <<ByteI(n)>> /\ Call(u)
      BY <2>2, <2>6, <2>11
  <2> HIDE DEF r, is
  <2>13. Writing(file'[n]) /\ Placed(file'[n], s)
      BY <2>8, <2>10 DEF Writing
  <2>14. Plan(ch, u)'
      BY <2>9, <2>12, <2>13, ByteLeft
  <2> QED
      BY <1>2, <1>6, <2>9, <2>10, <2>12, <2>14, CallStep
<1>12. CASE f.fptr % BPC = 0 /\ next \notin Clusters
  <2>1. \/ f.fptr = 0 /\ f.sclust = 0 /\ prev = 0
        \/ f.fptr # 0 /\ prev = f.clust /\ prev \in Clusters /\ next = EOC
           /\ prev = Last(s) /\ Growing(f, s)
      BY <1>5, <1>12
  <2>2. prev # 0 => next # Free
      BY <1>8, <2>1
  <2>3. PICK p : p = prev
      OBVIOUS
  <2>4. PICK is : is = NewCluster(n, p)
      OBVIOUS
  <2>5. Call(is) /\ file' = file
    <3>1. Call(NewCluster(n, prev)) /\ file' = file
        BY <1>12, <2>2, Zenon DEF Fputc
    <3> QED
        BY <2>3, <2>4, <3>1
  <2>6. InFiles(ch)' /\ Positions(file', ch, {}) /\ file' \in [Names -> FileType]
      BY <1>1, <1>2, <1>7, <2>5, SameFiles
  <2>7. /\ p \in {0} \cup Clusters
        /\ p = 0 => First(file'[n])
        /\ p # 0 => p = Last(s) /\ Growing(file'[n], s)
      BY <1>8, <2>1, <2>3, <2>5 DEF First
  <2> HIDE DEF next, prev
  <2>8. PICK r, t : /\ is = r \o t /\ AllLooks(r) /\ IsSeq(t)
                    /\ \/ Ending(t)
                       \/ /\ free > 0
                          /\ \E c \in Clusters :
                               /\ fat[c] = Free
                               /\ t = IF p = 0 THEN ToFirst(n, c) ELSE ToNext(n, p, c)
      BY <1>1, <2>4, <2>7, NewPlan
  <2>9. Left(ch, t)'
    <3>1. CASE Ending(t)
        BY <2>6, <3>1 DEF Left
    <3>2. CASE ~Ending(t)
      <4>1. PICK c \in Clusters :
              free > 0 /\ fat[c] = Free /\ t = IF p = 0 THEN ToFirst(n, c) ELSE ToNext(n, p, c)
          BY <2>8, <3>2
      <4>2. free' > 0 /\ fat'[c] = Free
          BY <1>7, <4>1
      <4>3. Positions(file', ch, {n}) /\ Writing(file'[n])
          BY <1>1, <1>9, <2>5 DEF Writing
      <4>4. \/ t = ToFirst(n, c) /\ First(file'[n])
            \/ t = ToNext(n, Last(ch[n]), c) /\ Growing(file'[n], ch[n])
          BY <2>7, <4>1
      <4> QED
          BY <4>2, <4>3, <4>4 DEF Left
    <3> QED
        BY <3>1, <3>2
  <2>10. Plan(ch, is)'
      BY <2>8, <2>9, PlanLooks
  <2> QED
      BY <1>2, <1>6, <2>5, <2>6, <2>10, CallStep
<1> QED
    BY <1>10, <1>11, <1>12


-----------------------------------------------------------------------------
(* The invariant. *)

\* An empty volume has no chains, and all clusters are free.
LEMMA InitChains ==
  ASSUME Init
  PROVE  Chains
<1>1. NFATENT \in Nat /\ NFATENT > 2 /\ MAXSIZE \in Nat /\ MAXGEN \in Nat /\ BPC \in Nat \ {0}
    BY VolumeAssumption
<1>2. Closed \in FileType /\ ~Closed.open
    BY ClosedType
<1>3. NoEntry \in Entry /\ Blank \in Content
    BY <1>1 DEF NoEntry, Entry, Blank, Content
<1>4. Typed
  <2>1. SectsTyped
    <3>1. Free \in 0..NFATENT
        BY <1>1 DEF Free
    <3> QED
        BY <1>3, <3>1 DEF Init, SectsTyped
  <2>2. CardTyped
      BY <2>1 DEF Init, SectsTyped, CardTyped
  <2>3. WindowTyped
      BY DEF Init, WindowTyped
  <2>4. BookTyped
    <3>1. fsi \in BOOLEAN /\ stale \in BOOLEAN
        BY DEF Init
    <3>2. free \in 0..(NFATENT - 2) /\ last \in 1..(NFATENT - 1)
        BY <1>1 DEF Init
    <3>3. info = [free |-> free, last |-> last]
        BY DEF Init
    <3> QED
        BY <3>1, <3>2, <3>3 DEF BookTyped
  <2>5. FileTyped
      BY <1>1, <1>2 DEF Init, FileTyped
  <2> QED
      BY <2>1, <2>2, <2>3, <2>4, <2>5 DEF Typed
<1>5. Counted(fat, free, stale, 0)
  <2>1. FreeSet(fat) = Clusters
      BY DEF Init, FreeSet
  <2>2. /\ IsFiniteSet(Clusters)
        /\ Cardinality(Clusters) = IF 2 > NFATENT - 1 THEN 0 ELSE (NFATENT - 1) - 2 + 1
      BY <1>1, FS_Interval DEF Clusters
  <2>3. Cardinality(Clusters) = NFATENT - 2
      BY <1>1, <2>2
  <2>4. free = NFATENT - 2
      BY DEF Init
  <2> QED
      BY <1>1, <2>1, <2>3, <2>4 DEF Counted
<1>6. PICK ch : ch = [n \in Names |-> <<>>]
    OBVIOUS
<1>7. /\ \A n \in Names : ch[n] \in Seq(Clusters) /\ Len(ch[n]) = 0
      /\ ch \in [Names -> Seq(Clusters)]
    BY <1>6, NoChain
<1>8. \A n \in Names : /\ \A m : Image(fat, data, dir[n], ch[n], m)
                       /\ \A m : Image(cfat, cdata, cdir[n], ch[n], m)
    BY DEF Init, Image, NoEntry
<1>9. Chained(ch)
  <2>1. \A n \in Names : 1..Len(ch[n]) = {}
      BY <1>7
  <2> QED
      BY <1>7, <2>1 DEF Chained, Apart
<1>10. InMemory(ch)
  <2>1. \A n \in Names : Follows(fat, ch[n], Len(ch[n]))
      BY <1>7 DEF Follows
  <2> QED
      BY <1>8, <2>1 DEF InMemory
<1>11. OnCard(ch)
  <2>1. \A n \in Names : 0 \in 0..Len(ch[n])
      BY <1>7
  <2> QED
      BY <1>8, <2>1 DEF OnCard
<1>12. InFiles(ch) /\ Positions(file, ch, {})
    BY <1>2 DEF Init, InFiles, Positions, PosOK
<1>13. Plan(ch, todo)
  <2>1. AllLooks(<<>>) /\ IsSeq(<<>>) /\ <<>> \o <<>> = <<>>
    <3>1. IsSeq(<<>>) /\ Len(<<>>) = 0
        BY TailsOf
    <3>2. AllLooks(<<>>)
        BY <3>1 DEF AllLooks
    <3> QED
        BY <3>1, <3>2, ConcatNone
  <2>2. Left(ch, <<>>)
      BY <1>12, EndingNone DEF Left
  <2>3. todo = <<>>
      BY DEF Init
  <2> QED
      BY <2>1, <2>2, <2>3 DEF Plan
<1> QED
    BY <1>4, <1>5, <1>9, <1>10, <1>11, <1>12, <1>13 DEF Chains, Good

\* Every step keeps chains.
LEMMA ChainsNext ==
  ASSUME CInv, Next
  PROVE  Chains'
<1>1. CASE Instruction
  <2>1. CASE LookAt
      BY <2>1, LookStep
  <2>2. CASE PutFat
      BY <2>2, PutStep
  <2>3. CASE FreeFat
      BY <2>3, FreeChains
  <2>4. CASE Alloc
      BY <2>4, AllocStep
  <2>5. CASE PutEntry
      BY <2>5, EntryChains
  <2>6. CASE PutByte
      BY <2>6, ByteStep
  <2>7. CASE Full \/ Sync \/ Info \/ Ended
      BY <2>7, QuietStep
  <2>8. CASE Opened
      BY <2>8, OpenedStep
  <2> QED
      BY <1>1, <2>1, <2>2, <2>3, <2>4, <2>5, <2>6, <2>7, <2>8 DEF Instruction
<1>2. CASE WriteFails \/ ReadFails
    BY <1>2, FailStep
<1>3. CASE InfoFails
    BY <1>3, QuietStep
<1>4. CASE Crash
    BY <1>4, CrashStep
<1>5. ASSUME NEW n \in Names, OpenNew(n) \/ Fputc(n) \/ Fclose(n) \/ Remove(n)
      PROVE  Chains'
    BY <1>5, OpenNewStep, FputcStep, FcloseStep, RemoveStep
<1>6. ASSUME NEW n \in Names, NEW append \in BOOLEAN, OpenOld(n, append)
      PROVE  Chains'
    BY <1>6, OpenOldStep
<1> QED
    BY <1>1, <1>2, <1>3, <1>4, <1>5, <1>6 DEF Next

\* Nothing happens.
LEMMA StutterChains ==
  ASSUME CInv, UNCHANGED vars
  PROVE  Chains'
<1>1. Typed'
    BY DEF CInv, Chains, vars, Typed, SectsTyped, CardTyped, WindowTyped, BookTyped, FileTyped
<1>2. Counted(fat, free, stale, 0)'
    BY DEF CInv, Chains, vars, Counted, FreeSet
<1>3. PICK ch : Good(ch)
    BY DEF CInv, Chains
<1>4. InMemory(ch)' /\ OnCard(ch)' /\ InFiles(ch)' /\ Chained(ch)
    BY <1>3 DEF Good, vars, InMemory, OnCard, InFiles
<1>5. Plan(ch, todo)'
  <2>1. PICK s : s = todo
      OBVIOUS
  <2>2. Plan(ch, s)'
      BY <1>3, <2>1, PlanSame DEF Good, vars
  <2> QED
      BY <2>1, <2>2 DEF vars
<1>6. Good(ch)'
    BY <1>4, <1>5 DEF Good, Chained, Apart
<1> QED
    BY <1>1, <1>2, <1>6 DEF Chains

\* The invariant of the chains: at any moment there are sequences of clusters,
\* one for each file and no cluster in two of them, that the FAT in memory
\* follows to their ends and the FAT on the card as far as its entries count
\* bytes; and what a call has left to do keeps it so.
THEOREM ChainsInvariant == Spec => []CInv
<1>1. Init => CInv
    BY InitIInv, InitChains DEF CInv
<1>2. CInv /\ [Next]_vars => CInv'
  <2> SUFFICES ASSUME CInv, [Next]_vars PROVE CInv'
      OBVIOUS
  <2>1. CASE Next
    <3>1. IInv'
        BY <2>1, TodoNext, WindowNext, KeptNext DEF CInv, IInv
    <3> QED
        BY <2>1, <3>1, ChainsNext DEF CInv
  <2>2. CASE UNCHANGED vars
    <3>1. IInv'
        BY <2>2, StutterIInv DEF CInv
    <3> QED
        BY <2>2, <3>1, StutterChains DEF CInv
  <2> QED
      BY <2>1, <2>2
<1> QED
    BY <1>1, <1>2, PTL DEF Spec

\* The state of the volume, of the files and of the card has its type: clusters
\* stay on the card, and free_clst within 0 and their number.
THEOREM TypeOKHolds == Spec => []TypeOK
<1>1. CInv => TypeOK
  <2> SUFFICES ASSUME CInv PROVE TypeOK
      OBVIOUS
  <2>1. Typed
      BY DEF CInv, Chains
  <2>2. SectsTyped /\ CardTyped
      BY <2>1 DEF Typed
  <2>3. \A e \in {dir[n] : n \in Names} \cup {cdir[n] : n \in Names} :
          e \in [clust : {0} \cup Clusters, size : 0..MAXSIZE, gen : 0..MAXGEN]
      BY <2>2 DEF SectsTyped, CardTyped, Entry
  <2>4. \A d \in {data[c] : c \in Clusters} \cup {cdata[c] : c \in Clusters} :
          d \in [gen : 0..MAXGEN, n : 0..BPC]
      BY <2>2 DEF SectsTyped, CardTyped, Content
  <2>5. win \in {NoSect, DirSect, InfoSect} \cup {FatSect(c) : c \in Clusters}
                \cup {DataSect(c) : c \in Clusters}
      BY <2>1 DEF Typed, WindowTyped, Sects
  <2>6. \A n \in Names : file[n] \in FileType
      BY <2>1 DEF Typed, FileTyped
  <2>7. /\ fat \in [Clusters -> 0..NFATENT] /\ cfat \in [Clusters -> 0..NFATENT]
        /\ dirty \in BOOLEAN
      BY <2>1, <2>2 DEF SectsTyped, CardTyped, Typed, WindowTyped
  <2>8. BookTyped
      BY <2>1 DEF Typed
  <2> QED
      BY <2>3, <2>4, <2>5, <2>6, <2>7, <2>8, Zenon DEF TypeOK, BookTyped, FileType
<1> QED
    BY <1>1, ChainsInvariant, PTL

\* The chain that an entry on the card starts.
LEMMA CardImage ==
  ASSUME CInv, NEW ch, Good(ch), NEW n \in Names
  PROVE  \/ cdir[n].clust = 0 /\ cdir[n].size = 0
         \/ \E m \in 1..Len(ch[n]) :
              /\ m < NFATENT /\ cdir[n].size <= m * BPC /\ Filled(cdata, cdir[n], ch[n])
              /\ \A k \in 0..NFATENT :
                   Nth(cfat, cdir[n].clust, k) = IF k < m THEN ch[n][k + 1] ELSE EOC
<1> DEFINE s == ch[n]
           e == cdir[n]
<1>1. s \in Seq(Clusters) /\ Len(s) \in Nat /\ Len(s) < NFATENT /\ NFATENT \in Nat
    BY ChainSeqs, VolumeAssumption DEF Good
<1>2. PICK m \in 0..Len(s) : Image(cfat, cdata, e, s, m)
    BY DEF Good, OnCard
<1> HIDE DEF s, e
<1>3. CASE e.clust = 0
    BY <1>2, <1>3 DEF Image, e
<1>4. CASE e.clust # 0
  <2>1. m \in 1..Len(s) /\ m < NFATENT
      BY <1>1, <1>2, <1>4 DEF Image
  <2>2. e.clust = s[1] /\ e.size <= m * BPC /\ Follows(cfat, s, m) /\ Filled(cdata, e, s)
      BY <1>2, <1>4 DEF Image
  <2>3. \A k \in 0..NFATENT : Nth(cfat, s[1], k) = IF k < m THEN s[k + 1] ELSE EOC
      BY <1>1, <2>1, <2>2, NthFollows
  <2>4. \A k \in 0..NFATENT : Nth(cfat, e.clust, k) = IF k < m THEN s[k + 1] ELSE EOC
      BY <2>2, <2>3
  <2> QED
      BY <2>1, <2>2, <2>4 DEF e, s
<1> QED
    BY <1>3, <1>4

\* Whatever moment the card is pulled out at, every chain on it ends, and no
\* cluster is in two of them (create_chain(), f_open(), f_unlink()).
THEOREM ChainsSoundHolds == Spec => []ChainsSound
<1>1. CInv => ChainsSound
  <2> SUFFICES ASSUME CInv PROVE ChainsSound
      OBVIOUS
  <2>1. PICK ch : Good(ch)
      BY DEF CInv, Chains
  <2>2. NFATENT \in Nat /\ NFATENT \in 0..NFATENT /\ EOC \notin Clusters /\ 0 \notin Clusters
      BY VolumeAssumption DEF EOC, Clusters
  <2>3. ASSUME NEW n \in Names, cdir[n].clust # 0
        PROVE  Nth(cfat, cdir[n].clust, NFATENT) = EOC
    <3>1. PICK m \in 1..Len(ch[n]) :
            /\ m < NFATENT
            /\ \A k \in 0..NFATENT :
                 Nth(cfat, cdir[n].clust, k) = IF k < m THEN ch[n][k + 1] ELSE EOC
        BY <2>1, <2>3, CardImage
    <3>2. ~(NFATENT < m)
      <4>1. Len(ch[n]) \in Nat
          BY <2>1, ChainSeqs DEF Good
      <4> QED
          BY <2>2, <3>1, <4>1
    <3> QED
        BY <2>2, <3>1, <3>2
  <2>4. ASSUME NEW n \in Names PROVE CardChain(n) \subseteq Rng(ch[n])
    <3>1. ASSUME NEW k \in 0..NFATENT, Nth(cfat, cdir[n].clust, k) \in Clusters
          PROVE  Nth(cfat, cdir[n].clust, k) \in Rng(ch[n])
      <4>1. cdir[n].clust # 0
          BY <2>2, <3>1, NthNone
      <4>2. PICK m \in 1..Len(ch[n]) :
              Nth(cfat, cdir[n].clust, k) = IF k < m THEN ch[n][k + 1] ELSE EOC
          BY <2>1, <4>1, CardImage
      <4>3. Len(ch[n]) \in Nat
          BY <2>1, ChainSeqs DEF Good
      <4>4. k < m /\ k + 1 \in 1..Len(ch[n]) /\ Nth(cfat, cdir[n].clust, k) = ch[n][k + 1]
          BY <2>2, <3>1, <4>2, <4>3
      <4> QED
          BY <4>4 DEF Rng
    <3> QED
        BY <3>1 DEF CardChain, Chain
  <2>5. ASSUME NEW a \in Names, NEW b \in Names, a # b PROVE Rng(ch[a]) \cap Rng(ch[b]) = {}
      BY <2>1, <2>5 DEF Good, Chained, Apart, Rng
  <2> QED
      BY <2>3, <2>4, <2>5 DEF ChainsSound
<1> QED
    BY <1>1, ChainsInvariant, PTL

\* Whatever moment the card is pulled out at, the bytes an entry on it counts
\* were written to its file (f_sync() writes the entry after the data).
THEOREM OwnDataHolds == Spec => []OwnData
<1>1. CInv => OwnData
  <2> SUFFICES ASSUME CInv, NEW n \in Names, NEW k \in 1..cdir[n].size
               PROVE  LET c == Nth(cfat, cdir[n].clust, (k - 1) \div BPC) IN
                      c \in Clusters /\ cdata[c].gen = cdir[n].gen /\ (k - 1) % BPC < cdata[c].n
      BY DEF OwnData
  <2>1. PICK ch : Good(ch)
      BY DEF CInv, Chains
  <2>2. cdir[n].size \in Nat /\ NFATENT \in Nat /\ BPC \in Nat \ {0}
      BY VolumeAssumption DEF CInv, Chains, Typed, CardTyped, Entry
  <2>3. PICK m \in 1..Len(ch[n]) :
          /\ m < NFATENT /\ cdir[n].size <= m * BPC /\ Filled(cdata, cdir[n], ch[n])
          /\ \A i \in 0..NFATENT :
               Nth(cfat, cdir[n].clust, i) = IF i < m THEN ch[n][i + 1] ELSE EOC
    <3>1. cdir[n].size # 0
        BY <2>2
    <3> QED
        BY <2>1, <3>1, CardImage
  <2>4. Len(ch[n]) \in Nat /\ \A i \in 1..Len(ch[n]) : ch[n][i] \in Clusters
      BY <2>1, ChainSeqs DEF Good
  <2>5. PICK z \in 0..(cdir[n].size - 1) : z = k - 1
      BY <2>2
  <2>6. (z \div BPC) + 1 \in 1..m /\ z \div BPC \in Nat
    <3>1. z \in Nat /\ m \in Nat
        BY <2>2, <2>4
    <3> QED
        BY <2>2, <2>3, <3>1, ByteIn, DivFacts
  <2>7. /\ cdata[ch[n][(z \div BPC) + 1]].gen = cdir[n].gen
        /\ z % BPC < cdata[ch[n][(z \div BPC) + 1]].n
      BY <2>3 DEF Filled
  <2>8. PICK i : i = z \div BPC
      OBVIOUS
  <2>9. Nth(cfat, cdir[n].clust, i) = ch[n][i + 1] /\ ch[n][i + 1] \in Clusters
    <3>1. i \in 0..NFATENT /\ i < m /\ i + 1 \in 1..Len(ch[n])
        BY <2>2, <2>3, <2>4, <2>6, <2>8
    <3> QED
        BY <2>3, <2>4, <3>1
  <2> QED
      BY <2>5, <2>7, <2>8, <2>9
<1> QED
    BY <1>1, ChainsInvariant, PTL

\* Between two calls free_clst is no less than the number of free clusters, so
\* that create_chain() does not find a card full that is not, unless FSInfo
\* was out of date at the mount.
THEOREM NotFullEarlyHolds == Spec => []NotFullEarly
<1>1. CInv => NotFullEarly
  <2> SUFFICES ASSUME CInv, ~stale PROVE free >= Cardinality({c \in Clusters : fat[c] = Free})
      BY DEF NotFullEarly
  <2>1. free >= Cardinality(FreeSet(fat)) + 0
      BY DEF CInv, Chains, Counted
  <2>2. Cardinality(FreeSet(fat)) \in Nat
      BY FreeSetNat
  <2> QED
      BY <2>1, <2>2 DEF FreeSet
<1> QED
    BY <1>1, ChainsInvariant, PTL

=============================================================================
