--------------------------- MODULE SymTab_proofs ---------------------------
(***************************************************************************)
(* Proofs about the symbol table, for any set of names and any hash        *)
(* function.                                                               *)
(***************************************************************************)
EXTENDS SymTab, TLAPS, NaturalsInduction, WellFoundedInduction, SequenceTheorems

Copying == pc # "run"
Known   == Live \cup InTable

\* No two cells of one name, in the table or in use; no place of T twice.
OneName  == \A c, d \in Known : c.name = d.name => c = d
OnePlace == \A i, j \in 1 .. Len(T) : T[i].name = T[j].name => i = j

\* A slot holds a symbol of the table, and of the right bucket.
Mapped == \A s \in Slots : mapsym[s] # NULL =>
            mapsym[s] \in InTable /\ hash[mapsym[s].name] = s[1]

\* The bucket of every symbol in the table has its first slot taken, by a
\* symbol of the corral if that one is: this is why mksymb() need not search.
FirstTaken == \A c \in InTable :
  /\ mapsym[<<hash[c.name], 0>>] # NULL
  /\ InTop(c) => InTop(mapsym[<<hash[c.name], 0>>])

\* Where the table's symbols lie, and which symbols in use are among them.
TableHere == \A c \in InTable : InTop(c) \/ c.at = half
LiveHere  ==
  /\ \A c \in Live : c.at # "stale" /\ (InTop(c) \/ c.at = half => c \in InTable)
  /\ pc = "run" => Live \subseteq InTable
  /\ pc = "rest" => top \cup {tval} \subseteq InTable
  /\ pc = "top" => tval \in InTable

Fenced ==
  /\ topend => topbase /\ InTop(tval)
  /\ topend /\ ~ topchg => \A c \in top : InTop(c)
  /\ pc \in {"tval", "top"} => ~ topend
  /\ ~ topbase /\ half = "low" => \A c \in Live : c.at # "corral"

Oldest == \A i, j \in 1 .. Len(T) : InTop(T[j]) /\ i < j => InTop(T[i])

Good == /\ OneName /\ OnePlace /\ Mapped /\ FirstTaken /\ TableHere /\ LiveHere
        /\ Fenced /\ Oldest
IInv == TypeOK /\ (oom = 0 => Good)

-----------------------------------------------------------------------------
\* The mark of an empty slot is no symbol.
LEMMA NullNoCell == NULL \notin Cells
  BY DEF NULL, Cells, Halves

\* What hashfun() and the slots are.
LEMMA SlotTypes ==
  ASSUME TypeOK, NEW n \in Names
  PROVE  /\ hash[n] \in Buckets
         /\ <<hash[n], 0>> \in Slots /\ <<hash[n], 1>> \in Slots
         /\ SlotFor(n) \in Slots
  BY HashAssumption DEF Slots, SlotFor

\* Every place of T holds a symbol.
LEMMA TableType ==
  ASSUME TypeOK
  PROVE  /\ Len(T) \in Nat /\ T \in Seq(Cells)
         /\ \A i \in 1 .. Len(T) : T[i] \in Cells
         /\ InTable \subseteq Cells
  BY DEF TypeOK, InTable

\* PUSH(T, v) and the load of the map, whatever the symbol.
LEMMA PushType ==
  ASSUME TypeOK, NEW c \in Cells, Push(c)
  PROVE  /\ T' \in Seq(Cells) /\ mapsym' \in [Slots -> Cells \cup {NULL}]
         /\ Len(T') = Len(T) + 1 /\ T'[Len(T) + 1] = c
         /\ \A i \in 1 .. Len(T) : T'[i] = T[i]
         /\ InTable' = InTable \cup {c}
         /\ \A s \in Slots : mapsym'[s] = IF s = SlotFor(c.name) THEN c ELSE mapsym[s]
<1>1. c.name \in Names
  BY DEF Cells
<1>2. SlotFor(c.name) \in Slots
  BY <1>1, SlotTypes
<1>3. /\ T' \in Seq(Cells) /\ Len(T') = Len(T) + 1 /\ T'[Len(T) + 1] = c
      /\ \A i \in 1 .. Len(T) : T'[i] = T[i]
  BY TableType DEF Push
<1>4. InTable' = InTable \cup {c}
  <2>1. \A i \in 1 .. Len(T') : T'[i] \in InTable \cup {c}
    <3>1. SUFFICES ASSUME NEW i \in 1 .. Len(T') PROVE T'[i] \in InTable \cup {c}
      OBVIOUS
    <3>2. i \in 1 .. Len(T) \/ i = Len(T) + 1
      BY <1>3, TableType
    <3>3. QED
      BY <3>2, <1>3 DEF InTable
  <2>2. \A i \in 1 .. Len(T) : T[i] \in InTable' /\ i \in 1 .. Len(T')
    BY <1>3, TableType DEF InTable
  <2>3. c \in InTable'
    BY <1>3, TableType DEF InTable
  <2>4. QED
    BY <2>1, <2>2, <2>3 DEF InTable
<1>5. \A s \in Slots : mapsym'[s] = IF s = SlotFor(c.name) THEN c ELSE mapsym[s]
  BY <1>2 DEF Push, TypeOK
<1>6. mapsym' \in [Slots -> Cells \cup {NULL}]
  BY <1>2 DEF Push, TypeOK
<1>7. QED
  BY <1>3, <1>4, <1>5, <1>6

\* A symbol of a new name pushed on the table keeps the table in order.
LEMMA PushKeeps ==
  ASSUME TypeOK, OnePlace, Mapped, FirstTaken, TableHere, Oldest,
         NEW c \in Cells, Push(c), UNCHANGED <<half, topend>>,
         c.at = half, ~ InTop(c),
         \A d \in InTable : d.name # c.name
  PROVE  OnePlace' /\ Mapped' /\ FirstTaken' /\ TableHere' /\ Oldest'
<1> DEFINE s0 == SlotFor(c.name)
<1>1. /\ Len(T') = Len(T) + 1 /\ T'[Len(T) + 1] = c
      /\ \A i \in 1 .. Len(T) : T'[i] = T[i]
      /\ InTable' = InTable \cup {c}
      /\ \A s \in Slots : mapsym'[s] = IF s = s0 THEN c ELSE mapsym[s]
  BY PushType
<1>2. c.name \in Names /\ c # NULL
  BY NullNoCell DEF Cells
<1>3. /\ s0 \in Slots /\ <<hash[c.name], 0>> \in Slots
      /\ s0[1] = hash[c.name]
      /\ s0 = <<hash[c.name], 0>> \/ s0 = <<hash[c.name], 1>>
      /\ s0 = <<hash[c.name], 0>> => mapsym[<<hash[c.name], 0>>] = NULL
      /\ s0 # <<hash[c.name], 0>> => mapsym[<<hash[c.name], 0>>] # NULL
  <2>1. s0 \in Slots /\ <<hash[c.name], 0>> \in Slots
    BY <1>2, SlotTypes
  <2>2. CASE mapsym[<<hash[c.name], 0>>] = NULL
    <3>1. s0 = <<hash[c.name], 0>>
      BY <2>2 DEF SlotFor
    <3>2. QED
      BY <3>1, <2>1, <2>2
  <2>3. CASE mapsym[<<hash[c.name], 0>>] # NULL
    <3>1. s0 = <<hash[c.name], 1>>
      BY <2>3 DEF SlotFor
    <3>2. QED
      BY <3>1, <2>1, <2>3
  <2>4. QED
    BY <2>2, <2>3
<1>4. \A d : InTop(d)' <=> InTop(d)
  BY DEF InTop
<1> HIDE DEF s0
<1>5. OnePlace'
  <2> SUFFICES ASSUME NEW i \in 1 .. Len(T'), NEW j \in 1 .. Len(T'),
                      T'[i].name = T'[j].name
               PROVE  i = j
    BY DEF OnePlace
  <2>1. i \in 1 .. Len(T) \/ i = Len(T) + 1
    BY <1>1, TableType
  <2>2. j \in 1 .. Len(T) \/ j = Len(T) + 1
    BY <1>1, TableType
  <2>3. \A k \in 1 .. Len(T) : T[k].name # c.name
    BY DEF InTable
  <2>4. QED
    BY <2>1, <2>2, <2>3, <1>1 DEF OnePlace
<1>6. Mapped'
  BY <1>1, <1>3 DEF Mapped
<1>7. FirstTaken'
  <2> SUFFICES ASSUME NEW d \in InTable'
               PROVE  /\ mapsym'[<<hash[d.name], 0>>] # NULL
                      /\ InTop(d)' => InTop(mapsym[<<hash[d.name], 0>>])'
    BY DEF FirstTaken
  <2>1. CASE d = c
    BY <2>1, <1>1, <1>2, <1>3, <1>4
  <2>2. CASE d \in InTable
    <3>1. <<hash[d.name], 0>> \in Slots
      BY <2>2, TableType, SlotTypes DEF Cells
    <3>2. mapsym[<<hash[d.name], 0>>] # NULL
      BY <2>2 DEF FirstTaken
    <3>3. <<hash[d.name], 0>> # s0
      BY <3>2, <1>3
    <3>4. QED
      BY <3>1, <3>2, <3>3, <2>2, <1>1, <1>4 DEF FirstTaken
  <2>3. QED
    BY <2>1, <2>2, <1>1
<1>8. TableHere'
  BY <1>1, <1>4 DEF TableHere
<1>9. Oldest'
  <2> SUFFICES ASSUME NEW i \in 1 .. Len(T'), NEW j \in 1 .. Len(T'),
                      InTop(T[j])', i < j
               PROVE  InTop(T[i])'
    BY DEF Oldest
  <2>1. j # Len(T) + 1
    BY <1>1, <1>4
  <2>2. j \in 1 .. Len(T) /\ i \in 1 .. Len(T)
    BY <2>1, <1>1, TableType
  <2>3. QED
    BY <2>2, <1>1, <1>4 DEF Oldest
<1>10. QED
  BY <1>5, <1>6, <1>7, <1>8, <1>9

-----------------------------------------------------------------------------
\* The loop of copytop() that drops symbols has a place to stop at.
LEMMA KeptLenType ==
  ASSUME TypeOK
  PROVE  /\ KeptLen \in 0 .. Len(T)
         /\ KeptLen = 0 \/ InTop(T[KeptLen])
         /\ \A i \in KeptLen + 1 .. Len(T) : ~ InTop(T[i])
<1> DEFINE P(k) == /\ k = 0 \/ InTop(T[k])
                   /\ \A i \in k + 1 .. Len(T) : ~ InTop(T[i])
           ends == {k \in 0 .. Len(T) : k = 0 \/ InTop(T[k])}
           dist == {Len(T) - k : k \in ends}
<1>1. Len(T) \in Nat
  BY TableType
<1>2. dist \subseteq Nat /\ Len(T) \in dist
  BY <1>1
<1>3. PICK d \in dist : \A e \in dist : ~ (<<e, d>> \in OpToRel(<, Nat))
  BY <1>2, WFMin, NatLessThanWellFounded
<1>4. \A e \in dist : ~ (e < d)
  BY <1>2, <1>3 DEF OpToRel
<1>5. PICK k \in ends : d = Len(T) - k
  OBVIOUS
<1> HIDE DEF dist
<1>6. \A i \in k + 1 .. Len(T) : ~ InTop(T[i])
  <2> SUFFICES ASSUME NEW i \in k + 1 .. Len(T), InTop(T[i])
               PROVE  FALSE
    OBVIOUS
  <2>1. i \in 0 .. Len(T) /\ i > k
    BY <1>1, <1>5
  <2>2. i \in ends
    BY <2>1
  <2>3. Len(T) - i \in dist
    BY <2>2 DEF dist
  <2>4. ~ (Len(T) - i < Len(T) - k)
    BY <2>3, <1>4, <1>5
  <2>5. k \in 0 .. Len(T)
    OBVIOUS
  <2>6. QED
    BY <2>1, <2>4, <2>5, <1>1
<1>7. k \in 0 .. Len(T) /\ P(k)
  BY <1>5, <1>6
<1>8. KeptLen = CHOOSE k1 \in 0 .. Len(T) : P(k1)
  BY DEF KeptLen
<1> HIDE DEF P
<1>9. KeptLen \in 0 .. Len(T) /\ P(KeptLen)
  BY <1>7, <1>8
<1>10. QED
  BY <1>9 DEF P

\* What it keeps and what it drops: the symbols of the corral, and the others.
LEMMA KeptIsCorral ==
  ASSUME TypeOK, Oldest, OnePlace, T' = Kept
  PROVE  /\ T' \in Seq(Cells) /\ Len(T') \in 0 .. Len(T)
         /\ \A i \in 1 .. Len(T') : T'[i] = T[i] /\ InTop(T[i])
         /\ InTable' = {c \in InTable : InTop(c)}
         /\ Dropped = {c \in InTable : ~ InTop(c)}
<1> DEFINE k == KeptLen
<1>1. /\ k \in 0 .. Len(T)
      /\ k = 0 \/ InTop(T[k])
      /\ \A i \in k + 1 .. Len(T) : ~ InTop(T[i])
  BY KeptLenType
<1>2. Len(T) \in Nat /\ \A i \in 1 .. Len(T) : T[i] \in Cells
  BY TableType
<1>3. \A i \in 1 .. k : InTop(T[i])
  BY <1>1, <1>2 DEF Oldest
<1>4. Dropped = {T[i] : i \in k + 1 .. Len(T)}
  BY DEF Dropped
<1>5. T' = SubSeq(T, 1, k)
  BY DEF Kept
<1> HIDE DEF k
<1>6. T' \in Seq(Cells) /\ Len(T') = k /\ \A i \in 1 .. k : T'[i] = T[i]
  <2>1. \A i \in 1 .. k : T[i] \in Cells
    BY <1>1, <1>2
  <2>2. /\ SubSeq(T, 1, k) \in Seq(Cells)
        /\ Len(SubSeq(T, 1, k)) = IF 1 =< k THEN k - 1 + 1 ELSE 0
        /\ \A i \in 1 .. k - 1 + 1 : SubSeq(T, 1, k)[i] = T[1 + i - 1]
    BY <2>1, <1>1, <1>2, SubSeqProperties
  <2>3. k - 1 + 1 = k /\ \A i \in 1 .. k : 1 + i - 1 = i
    BY <1>1, <1>2
  <2>4. Len(SubSeq(T, 1, k)) = k
    BY <2>2, <1>1, <1>2
  <2>5. \A i \in 1 .. k : SubSeq(T, 1, k)[i] = T[i]
    BY <2>2, <2>3
  <2>6. QED
    BY <2>2, <2>4, <2>5, <1>5
<1>7. InTable' = {T[i] : i \in 1 .. k}
  BY <1>6 DEF InTable
<1>8. InTable' = {c \in InTable : InTop(c)}
  <2>1. \A i \in 1 .. k : i \in 1 .. Len(T)
    BY <1>1, <1>2
  <2>2. \A i \in 1 .. Len(T) : InTop(T[i]) => i \in 1 .. k
    BY <1>1, <1>2
  <2>3. QED
    BY <2>1, <2>2, <1>3, <1>7 DEF InTable
<1>9. Dropped = {c \in InTable : ~ InTop(c)}
  <2>1. \A i \in k + 1 .. Len(T) : i \in 1 .. Len(T)
    BY <1>1, <1>2
  <2>2. \A i \in 1 .. Len(T) : ~ InTop(T[i]) => i \in k + 1 .. Len(T)
    BY <1>1, <1>2, <1>3
  <2>3. QED
    BY <2>1, <2>2, <1>1, <1>4 DEF InTable
<1>10. QED
  BY <1>1, <1>3, <1>6, <1>8, <1>9

-----------------------------------------------------------------------------
\* A lookup gives a symbol of the name asked for, or none.
LEMMA FoundType ==
  ASSUME TypeOK, NEW n \in Names
  PROVE  /\ Found(n) \in Cells \cup {NULL}
         /\ Found(n) # NULL => Found(n).name = n
<1> DEFINE first == mapsym[<<hash[n], 0>>]
           second == mapsym[<<hash[n], 1>>]
           there == {c \in InTable : c.name = n}
           any == CHOOSE c \in there : TRUE
<1>1. first \in Cells \cup {NULL} /\ second \in Cells \cup {NULL}
  BY SlotTypes DEF TypeOK
<1>2. there \subseteq Cells /\ \A c \in there : c.name = n
  BY TableType
<1>3. there # {} => any \in there
  OBVIOUS
<1>4. Found(n) = IF Named(first, n) THEN first
                 ELSE IF first # NULL /\ Named(second, n) THEN second
                 ELSE IF first # NULL /\ there # {} THEN any
                 ELSE NULL
  BY DEF Found
<1> HIDE DEF first, second, there, any
<1>5. QED
  BY <1>1, <1>2, <1>3, <1>4 DEF Named

\* When the map leads into the table, a lookup finds a symbol of the table;
\* when all first slots are taken that should be, it finds the one there is.
LEMMA FoundInTable ==
  ASSUME TypeOK, Mapped, FirstTaken, NEW n \in Names
  PROVE  /\ Found(n) # NULL => Found(n) \in InTable
         /\ Found(n) = NULL => \A d \in InTable : d.name # n
<1> DEFINE first == mapsym[<<hash[n], 0>>]
           second == mapsym[<<hash[n], 1>>]
           there == {c \in InTable : c.name = n}
           any == CHOOSE c \in there : TRUE
<1>1. /\ first # NULL => first \in InTable
      /\ second # NULL => second \in InTable
  BY SlotTypes DEF Mapped
<1>2. there \subseteq InTable /\ NULL \notin InTable
  BY TableType, NullNoCell
<1>3. there # {} => any \in there
  OBVIOUS
<1>4. Found(n) = IF Named(first, n) THEN first
                 ELSE IF first # NULL /\ Named(second, n) THEN second
                 ELSE IF first # NULL /\ there # {} THEN any
                 ELSE NULL
  BY DEF Found
<1>5. \A d \in InTable : d.name = n => first # NULL /\ d \in there
  BY DEF FirstTaken
<1> HIDE DEF first, second, there, any
<1>6. Found(n) # NULL => Found(n) \in InTable
  BY <1>1, <1>2, <1>3, <1>4 DEF Named
<1>7. ASSUME Found(n) = NULL, NEW d \in InTable, d.name = n
      PROVE  FALSE
  <2>1. first # NULL /\ there # {}
    BY <1>5, <1>7
  <2>2. any # NULL
    BY <2>1, <1>2, <1>3
  <2>3. QED
    BY <2>1, <2>2, <1>4, <1>7 DEF Named
<1>8. QED
  BY <1>6, <1>7

\* mksymb() keeps the table in order, whether it finds the symbol or not.
LEMMA InternStep ==
  ASSUME TypeOK, Good, NEW n \in Names, Intern(n)
  PROVE  Good'
<1> DEFINE found == Found(n)
           new == [name |-> n, at |-> half]
<1>1. /\ found # NULL => found \in InTable /\ found.name = n
      /\ found = NULL => \A d \in InTable : d.name # n
  BY FoundInTable, FoundType DEF Good
<1>2. Live \subseteq InTable
  BY DEF Good, LiveHere, Intern
<1>3. UNCHANGED <<half, topbase, topend, topchg, top, tval, pc>>
  BY DEF Intern, fence
<1>4. \A d : InTop(d)' <=> InTop(d)
  BY <1>3 DEF InTop
<1>5. CASE found # NULL
  <2>1. /\ held' = held \cup {found} /\ T' = T
        /\ \/ mapsym' = mapsym
           \/ mapsym' = [mapsym EXCEPT ![<<hash[n], 1>>] = found]
    BY <1>5 DEF Intern
  <2>2. InTable' = InTable
    BY <2>1 DEF InTable
  <2>3. Live' = Live \cup {found}
    BY <2>1, <1>3 DEF Live
  <2>4. \A s \in Slots : mapsym'[s] = mapsym[s]
                         \/ (s = <<hash[n], 1>> /\ mapsym'[s] = found)
    <3> DEFINE slot == <<hash[n], 1>>
    <3> HIDE DEF slot, found
    <3>1. CASE mapsym' = mapsym
      BY <3>1
    <3>2. CASE mapsym' = [mapsym EXCEPT ![<<hash[n], 1>>] = found]
      <4>1. mapsym' = [mapsym EXCEPT ![slot] = found]
            /\ mapsym \in [Slots -> Cells \cup {NULL}]
        BY <3>2 DEF slot, TypeOK
      <4>2. \A s \in Slots : mapsym'[s] = mapsym[s] \/ (s = slot /\ mapsym'[s] = found)
        BY <4>1
      <4>3. QED
        BY <4>2 DEF slot
    <3>3. QED
      BY <2>1, <3>1, <3>2
  <2>5. \A c \in InTable : mapsym'[<<hash[c.name], 0>>] = mapsym[<<hash[c.name], 0>>]
    <3> SUFFICES ASSUME NEW c \in InTable
                 PROVE  mapsym'[<<hash[c.name], 0>>] = mapsym[<<hash[c.name], 0>>]
      OBVIOUS
    <3>1. <<hash[c.name], 0>> \in Slots
      BY TableType, SlotTypes DEF Cells
    <3>2. QED
      BY <3>1, <2>4
  <2>6. OneName' /\ OnePlace' /\ Oldest'
    BY <2>1, <2>2, <2>3, <1>1, <1>2, <1>4, <1>5
       DEF Good, OneName, Known, OnePlace, Oldest
  <2>7. Mapped'
    BY <2>2, <2>4, <1>1, <1>5 DEF Good, Mapped
  <2>8. FirstTaken'
    BY <2>2, <2>5, <1>4 DEF Good, FirstTaken
  <2>9. TableHere' /\ LiveHere' /\ Fenced'
    <3>1. TableHere'
      BY <2>2, <1>3, <1>4 DEF Good, TableHere
    <3>2. \A c \in InTable : c.at # "stale" \/ half = "stale"
      BY DEF Good, TableHere, InTop
    <3>3. half # "stale" /\ half # "corral"
      BY DEF TypeOK, Halves
    <3>4. LiveHere'
      BY <2>2, <2>3, <3>2, <3>3, <1>1, <1>2, <1>3, <1>4, <1>5
         DEF Good, LiveHere, Intern
    <3>5. ~ topbase /\ half = "low" => found.at # "corral"
      BY <3>3, <1>1, <1>5 DEF Good, Fenced, TableHere, InTop
    <3>6. Fenced'
      BY <2>3, <3>5, <1>3, <1>4 DEF Good, Fenced
    <3>7. QED
      BY <3>1, <3>4, <3>6
  <2>10. QED
    BY <2>6, <2>7, <2>8, <2>9 DEF Good
<1>6. CASE found = NULL
  <2>1. Push(new) /\ held' = held \cup {new}
    BY <1>6 DEF Intern
  <2>2. new \in Cells /\ new.name = n /\ new.at = half
    BY DEF TypeOK, Cells
  <2>3. half # "stale" /\ half # "corral"
    BY DEF TypeOK, Halves
  <2>4. ~ InTop(new)
    BY <2>2, <2>3 DEF InTop
  <2> HIDE DEF new
  <2>5. OnePlace' /\ Mapped' /\ FirstTaken' /\ TableHere' /\ Oldest'
    BY <2>1, <2>2, <2>4, <1>1, <1>3, <1>6, PushKeeps DEF Good
  <2>6. InTable' = InTable \cup {new}
    BY <2>1, <2>2, PushType
  <2>7. Live' = Live \cup {new}
    BY <2>1, <1>3 DEF Live
  <2>8. OneName'
    BY <2>2, <2>6, <2>7, <1>1, <1>2, <1>6 DEF Good, OneName, Known
  <2>9. LiveHere'
    BY <2>2, <2>3, <2>6, <2>7, <1>2, <1>3, <1>4 DEF Good, LiveHere, Intern
  <2>10. Fenced'
    BY <2>2, <2>3, <2>7, <1>3, <1>4 DEF Good, Fenced
  <2>11. QED
    BY <2>5, <2>8, <2>9, <2>10 DEF Good
<1>7. QED
  BY <1>5, <1>6

-----------------------------------------------------------------------------
\* The mutator moves symbols between the registers and the environment.
LEMMA MutatorStep ==
  ASSUME TypeOK, Good, NEW c \in Live,
         Load(c) \/ Drop(c) \/ Define(c) \/ Forget(c)
  PROVE  Good'
<1>1. /\ pc = "run" /\ UNCHANGED <<T, mapsym, tval, half, topbase, topend, pc>>
      /\ \/ top' = top /\ topchg' = topchg
         \/ topchg' = (topchg \/ topend)
      /\ Live' \subseteq Live
  BY DEF Load, Drop, Define, Forget, SetTop, table, fence, Live
<1>2. InTable' = InTable /\ \A d : InTop(d)' <=> InTop(d)
  BY <1>1 DEF InTable, InTop
<1>3. Live \subseteq InTable
  BY <1>1 DEF Good, LiveHere
<1>4. OneName' /\ OnePlace' /\ Oldest'
  BY <1>1, <1>2 DEF Good, OneName, Known, OnePlace, Oldest
<1>5. Mapped' /\ FirstTaken' /\ TableHere'
  BY <1>1, <1>2 DEF Good, Mapped, FirstTaken, TableHere
<1>6. LiveHere'
  BY <1>1, <1>2, <1>3 DEF Good, LiveHere
<1>7. Fenced'
  <2>1. topend' /\ ~ topchg' => top' = top /\ ~ topchg
    BY <1>1
  <2>2. QED
    BY <2>1, <1>1, <1>2 DEF Good, Fenced
<1>8. QED
  BY <1>4, <1>5, <1>6, <1>7 DEF Good

\* A collection that leaves the corral alone keeps its symbols only.
LEMMA KeepTopStep ==
  ASSUME TypeOK, Good, StartGC, KeepTop
  PROVE  Good'
<1>1. /\ pc = "run" /\ pc' = "rest" /\ topend /\ ~ topchg
      /\ UNCHANGED <<top, held, tval, topbase, topend, topchg>>
      /\ half' \in Halves /\ half' # half
  BY DEF StartGC, KeepTop, roots, TypeOK, Halves
<1>2. /\ Len(T') \in 0 .. Len(T)
      /\ \A i \in 1 .. Len(T') : T'[i] = T[i] /\ InTop(T[i])
      /\ InTable' = {c \in InTable : InTop(c)}
      /\ Dropped = {c \in InTable : ~ InTop(c)}
  BY KeptIsCorral DEF Good, KeepTop
<1>3. \A d : InTop(d)' <=> InTop(d)
  BY <1>1 DEF InTop
<1>4. Live \subseteq InTable /\ Live' = Live
  BY <1>1 DEF Good, LiveHere, Live
<1>5. \A s \in Slots : mapsym'[s] = IF mapsym[s] \in Dropped THEN NULL ELSE mapsym[s]
  BY DEF KeepTop
<1>6. OneName'
  BY <1>2, <1>4 DEF Good, OneName, Known
<1>7. OnePlace' /\ Oldest'
  <2>1. \A i \in 1 .. Len(T') : i \in 1 .. Len(T)
    BY <1>2, TableType
  <2>2. QED
    BY <2>1, <1>2, <1>3 DEF Good, OnePlace, Oldest
<1>8. Mapped'
  BY <1>2, <1>5 DEF Good, Mapped
<1>9. FirstTaken'
  <2> SUFFICES ASSUME NEW c \in InTable'
               PROVE  /\ mapsym'[<<hash[c.name], 0>>] # NULL
                      /\ InTop(c)' => InTop(mapsym[<<hash[c.name], 0>>])'
    BY DEF FirstTaken
  <2>1. c \in InTable /\ InTop(c)
    BY <1>2
  <2>2. <<hash[c.name], 0>> \in Slots
    BY <2>1, TableType, SlotTypes DEF Cells
  <2>3. /\ InTop(mapsym[<<hash[c.name], 0>>])
        /\ mapsym[<<hash[c.name], 0>>] # NULL
    BY <2>1 DEF Good, FirstTaken
  <2>4. mapsym'[<<hash[c.name], 0>>] = mapsym[<<hash[c.name], 0>>]
    BY <2>2, <2>3, <1>2, <1>5
  <2>5. QED
    BY <2>3, <2>4, <1>3
<1>10. TableHere'
  BY <1>2, <1>3 DEF TableHere
<1>11. LiveHere'
  <2>1. \A c \in Live : c.at = half' => InTop(c)
    BY <1>1, <1>4 DEF Good, TableHere
  <2>2. top \cup {tval} \subseteq InTable'
    BY <1>1, <1>2, <1>4 DEF Good, Fenced, Live
  <2>3. QED
    BY <2>1, <2>2, <1>1, <1>2, <1>3, <1>4 DEF Good, LiveHere
<1>12. Fenced'
  BY <1>1, <1>3 DEF Good, Fenced
<1>13. QED
  BY <1>6, <1>7, <1>8, <1>9, <1>10, <1>11, <1>12 DEF Good

\* One that copies the environment starts from an empty table.
LEMMA CopyTopStep ==
  ASSUME TypeOK, Good, StartGC, CopyTop
  PROVE  Good'
<1>1. /\ pc = "run" /\ pc' = "tval" /\ ~ topend'
      /\ UNCHANGED <<top, held, tval, topchg>>
      /\ half' \in Halves /\ half' # half /\ half \in Halves
      /\ half' = "low" => topbase' = topbase
  BY DEF StartGC, CopyTop, roots, TypeOK, Halves
<1>2. T' = << >> /\ \A s \in Slots : mapsym'[s] = NULL
  BY DEF CopyTop
<1>3. InTable' = {} /\ Len(T') = 0
  BY <1>2 DEF InTable
<1>4. Live' = Live /\ Live \subseteq InTable
  BY <1>1 DEF Good, LiveHere, Live
<1>5. OneName' /\ OnePlace' /\ Mapped' /\ FirstTaken' /\ TableHere' /\ Oldest'
  BY <1>2, <1>3, <1>4
     DEF Good, OneName, Known, OnePlace, Mapped, FirstTaken, TableHere, Oldest
<1>6. \A c \in Live : c.at = half \/ (topend /\ c.at = "corral")
  BY <1>4 DEF Good, TableHere, InTop
<1>7. LiveHere'
  BY <1>1, <1>4, <1>6 DEF Good, LiveHere, InTop, Halves
<1>8. Fenced'
  <2>1. ASSUME ~ topbase', half' = "low", NEW c \in Live'
        PROVE  c.at # "corral"
    BY <2>1, <1>1, <1>4, <1>6 DEF Good, Fenced, Halves
  <2>2. QED
    BY <2>1, <1>1 DEF Fenced
<1>9. QED
  BY <1>5, <1>7, <1>8 DEF Good

-----------------------------------------------------------------------------
\* A copied symbol takes the old one's place, and is the only one of its
\* name: the table has none yet, for it would be that very cell.
LEMMA CopyKeeps ==
  ASSUME TypeOK, Good, NEW c \in Live, Copy(c)
  PROVE  /\ OneName' /\ OnePlace' /\ Mapped' /\ FirstTaken' /\ TableHere' /\ Oldest'
         /\ InTable' = InTable \cup {Copied(c)} /\ c \notin InTable
         /\ \A d \in Live' : d.at # "stale" /\ (InTop(d) \/ d.at = half => d \in InTable')
         /\ \A d : InTop(d)' <=> InTop(d)
         /\ Live' = (Live \ {c}) \cup {Copied(c)}
<1> DEFINE new == Copied(c)
<1>1. /\ new \in Cells /\ new.name = c.name /\ new.at = half
      /\ half # "stale" /\ half # "corral"
  BY DEF Copied, Cells, TypeOK, Halves, Live
<1>2. ~ InTop(new)
  BY <1>1 DEF InTop
<1>3. c \notin InTable
  BY DEF Good, TableHere, Copy, InHeap
<1>4. \A d \in InTable : d.name # new.name
  BY <1>1, <1>3 DEF Good, OneName, Known
<1>5. Push(new) /\ UNCHANGED <<half, topbase, topend, topchg, oom>>
  BY DEF Copy, fence
<1>6. Live' = (Live \ {c}) \cup {new}
  BY DEF Copy, Forwarded, Live
<1> HIDE DEF new
<1>7. OnePlace' /\ Mapped' /\ FirstTaken' /\ TableHere' /\ Oldest'
  BY <1>1, <1>2, <1>4, <1>5, PushKeeps DEF Good
<1>8. InTable' = InTable \cup {new}
  BY <1>1, <1>5, PushType
<1>9. OneName'
  BY <1>1, <1>3, <1>6, <1>8 DEF Good, OneName, Known
<1>10. \A d : InTop(d)' <=> InTop(d)
  BY <1>5 DEF InTop
<1>11. \A d \in Live' : d.at # "stale" /\ (InTop(d) \/ d.at = half => d \in InTable')
  BY <1>1, <1>6, <1>8 DEF Good, LiveHere
<1>12. QED
  BY <1>3, <1>6, <1>7, <1>8, <1>9, <1>10, <1>11 DEF new, Good

\* tval = copyroot(tval)
LEMMA CopyTvalStep ==
  ASSUME TypeOK, Good, CopyTval, oom = 0
  PROVE  Good'
<1>1. pc = "tval" /\ pc' = "top" /\ ~ topend /\ tval \in Live
  BY DEF CopyTval, Good, Fenced, Live
<1>2. CASE AllCopied({tval}) /\ UNCHANGED <<table, roots, fence, oom>>
  <2>1. tval \in InTable
    BY <1>1, <1>2 DEF AllCopied, Good, LiveHere, InHeap
  <2>2. /\ UNCHANGED <<T, mapsym, top, held, tval, half, topbase, topend, topchg>>
        /\ InTable' = InTable /\ Live' = Live /\ \A d : InTop(d)' <=> InTop(d)
    BY <1>2 DEF table, roots, fence, InTable, Live, InTop
  <2>3. OneName' /\ OnePlace' /\ Mapped' /\ FirstTaken' /\ TableHere' /\ Oldest'
    BY <2>2 DEF Good, OneName, Known, OnePlace, Mapped, FirstTaken, TableHere, Oldest
  <2>4. LiveHere' /\ Fenced'
    BY <2>1, <2>2, <1>1 DEF Good, LiveHere, Fenced
  <2>5. QED
    BY <2>3, <2>4 DEF Good
<1>3. CASE Copy(tval)
  <2>1. /\ OneName' /\ OnePlace' /\ Mapped' /\ FirstTaken' /\ TableHere' /\ Oldest'
        /\ InTable' = InTable \cup {Copied(tval)}
        /\ \A d \in Live' : d.at # "stale" /\ (InTop(d) \/ d.at = half => d \in InTable')
        /\ \A d : InTop(d)' <=> InTop(d)
        /\ Live' = (Live \ {tval}) \cup {Copied(tval)}
    BY <1>1, <1>3, CopyKeeps
  <2>2. tval' = Copied(tval) /\ UNCHANGED <<half, topbase, topend, topchg>>
    BY <1>3 DEF Copy, fence
  <2>3. LiveHere'
    BY <2>1, <2>2, <1>1 DEF LiveHere
  <2>4. Fenced'
    <3>1. ASSUME ~ topbase', half' = "low", NEW d \in Live'
          PROVE  d.at # "corral"
      BY <3>1, <2>1, <2>2 DEF Good, Fenced, Copied
    <3>2. QED
      BY <3>1, <2>2, <1>1 DEF Fenced
  <2>5. QED
    BY <2>1, <2>3, <2>4 DEF Good
<1>4. QED
  BY <1>2, <1>3 DEF CopyTval

\* topenv and the roots after it.
LEMMA CopySymbolStep ==
  ASSUME TypeOK, Good, NEW c \in Live, CopySymbol(c)
  PROVE  Good'
<1>1. /\ OneName' /\ OnePlace' /\ Mapped' /\ FirstTaken' /\ TableHere' /\ Oldest'
      /\ InTable' = InTable \cup {Copied(c)} /\ c \notin InTable
      /\ \A d \in Live' : d.at # "stale" /\ (InTop(d) \/ d.at = half => d \in InTable')
      /\ \A d : InTop(d)' <=> InTop(d)
      /\ Live' = (Live \ {c}) \cup {Copied(c)}
  BY CopyKeeps DEF CopySymbol
<1>2. /\ pc \in {"top", "rest"} /\ pc' = pc
      /\ UNCHANGED <<half, topbase, topend, topchg>>
      /\ top' = Forwarded(top, c)
      /\ tval' = IF tval = c THEN Copied(c) ELSE tval
      /\ ~ InTop(c)
  BY DEF CopySymbol, Copy, fence
<1>3. tval # c /\ tval' = tval /\ tval \in InTable
  BY <1>1, <1>2 DEF Good, LiveHere
<1>4. pc = "rest" => c \notin top /\ top' = top
  BY <1>1, <1>2 DEF Good, LiveHere, Forwarded
<1>5. LiveHere'
  BY <1>1, <1>2, <1>3, <1>4 DEF Good, LiveHere
<1>6. Fenced'
  <2>1. ASSUME ~ topbase', half' = "low", NEW d \in Live'
        PROVE  d.at # "corral"
    BY <2>1, <1>1, <1>2 DEF Good, Fenced, Copied
  <2>2. topend => topbase /\ InTop(tval)
    BY DEF Good, Fenced
  <2>3. topend /\ ~ topchg => \A d \in top' : InTop(d)
    BY <1>2, <1>4 DEF Good, Fenced
  <2>4. pc = "top" => ~ topend
    BY DEF Good, Fenced
  <2>5. QED
    BY <2>1, <2>2, <2>3, <2>4, <1>1, <1>2, <1>3 DEF Fenced
<1>7. QED
  BY <1>1, <1>5, <1>6 DEF Good

\* The copy of the environment is the corral from now on.
LEMMA BuildCorralStep ==
  ASSUME TypeOK, Good, TopCopied, BuildCorral
  PROVE  Good'
<1>1. /\ pc = "top" /\ pc' = "rest" /\ half = "low" /\ half' = half
      /\ topbase' /\ topend' /\ ~ topchg' /\ ~ topbase /\ ~ topend
      /\ AllCopied(top)
  BY DEF TopCopied, BuildCorral, Good, Fenced
<1>2. \A d : Corral(d).name = d.name
  BY DEF Corral
<1>3. /\ \A d \in InTable : d.at = "low" /\ Corral(d).at = "corral"
      /\ Corral(NULL) = NULL
  BY <1>1 DEF Good, TableHere, InTop, Corral, NULL
<1>4. /\ Len(T') = Len(T) /\ \A i \in 1 .. Len(T) : T'[i] = Corral(T[i])
      /\ InTable' = {Corral(d) : d \in InTable}
  <2>1. T' = [i \in 1 .. Len(T) |-> Corral(T[i])]
    BY DEF BuildCorral
  <2>2. Len(T') = Len(T) /\ \A i \in 1 .. Len(T) : T'[i] = Corral(T[i])
    BY <2>1, TableType
  <2>3. QED
    BY <2>2 DEF InTable
<1>5. Live' = {Corral(d) : d \in Live}
  BY DEF BuildCorral, Live
<1>6. \A s \in Slots : mapsym'[s] = Corral(mapsym[s])
  BY DEF BuildCorral
<1>7. /\ \A d \in InTable' : InTop(d)'
      /\ \A d \in Live : d.at # "low" => d.at # "corral" /\ Corral(d) = d
      /\ \A d \in Live : d.at = "low" => d \in InTable
  BY ZenonT(60), <1>1, <1>3, <1>4 DEF Good, Fenced, LiveHere, InTop, Corral
<1>8. top \cup {tval} \subseteq InTable
  BY <1>1 DEF Good, LiveHere, AllCopied, InTop, InHeap, Live
<1>9. OneName'
  <2>1. \A c, d \in Known : c.name = d.name => Corral(c) = Corral(d)
    BY DEF Good, OneName
  <2>2. Known' = {Corral(d) : d \in Known}
    BY <1>4, <1>5 DEF Known
  <2>3. QED
    BY <2>1, <2>2, <1>2 DEF OneName
<1>10. OnePlace' /\ Oldest' /\ TableHere'
  <2>1. OnePlace'
    BY <1>2, <1>4 DEF Good, OnePlace
  <2>2. \A i \in 1 .. Len(T) : InTop(T[i])'
    BY <1>4, <1>7 DEF InTable
  <2>3. QED
    BY <2>1, <2>2, <1>4, <1>7 DEF Oldest, TableHere
<1>11. \A s \in Slots : mapsym[s] # NULL =>
         /\ mapsym[s] \in InTable /\ hash[mapsym[s].name] = s[1]
         /\ mapsym'[s] # NULL
  BY <1>3, <1>6 DEF Good, Mapped, NULL
<1>12. Mapped'
  BY <1>2, <1>3, <1>4, <1>6, <1>11 DEF Mapped
<1>13. FirstTaken'
  <2> SUFFICES ASSUME NEW c \in InTable
               PROVE  /\ mapsym'[<<hash[c.name], 0>>] # NULL
                      /\ InTop(mapsym[<<hash[c.name], 0>>])'
    BY <1>2, <1>4 DEF FirstTaken
  <2>1. <<hash[c.name], 0>> \in Slots
    BY TableType, SlotTypes DEF Cells
  <2>2. mapsym[<<hash[c.name], 0>>] # NULL
    BY DEF Good, FirstTaken
  <2>3. /\ mapsym'[<<hash[c.name], 0>>] # NULL
        /\ mapsym'[<<hash[c.name], 0>>] \in InTable'
    BY <2>1, <2>2, <1>4, <1>6, <1>11
  <2>4. QED
    BY <2>3, <1>7
<1>14. top' \cup {tval'} \subseteq InTable'
  BY <1>4, <1>8 DEF BuildCorral
<1>15. LiveHere'
  <2>1. \A c \in Live' : c.at # "stale" /\ (InTop(c)' \/ c.at = half' => c \in InTable')
    BY <1>1, <1>3, <1>4, <1>5, <1>7 DEF Good, LiveHere, InTop
  <2>2. QED
    BY <2>1, <1>1, <1>14 DEF LiveHere
<1>16. Fenced'
  BY <1>1, <1>7, <1>14 DEF Fenced
<1>17. QED
  BY <1>9, <1>10, <1>12, <1>13, <1>15, <1>16 DEF Good

\* Or it stays where it is.
LEMMA LeaveStep ==
  ASSUME TypeOK, Good,
         \/ TopCopied /\ LeaveUncorralled
         \/ FinishGC
         \/ UNCHANGED vars
  PROVE  Good'
<1>1. /\ UNCHANGED <<T, mapsym, top, held, tval, half, topbase, topend, topchg>>
      /\ InTable' = InTable /\ Live' = Live /\ \A d : InTop(d)' <=> InTop(d)
  BY DEF LeaveUncorralled, FinishGC, vars, table, roots, fence, InTable, Live, InTop
<1>2. OneName' /\ OnePlace' /\ Mapped' /\ FirstTaken' /\ TableHere' /\ Oldest'
  BY <1>1 DEF Good, OneName, Known, OnePlace, Mapped, FirstTaken, TableHere, Oldest
<1>3. \A d \in Live : InTop(d) \/ InHeap(d) => d \in InTable
  BY DEF Good, LiveHere, InHeap
<1>4. \/ pc' = pc
      \/ pc = "top" /\ pc' = "rest" /\ AllCopied(top)
      \/ pc = "rest" /\ pc' = "run" /\ AllCopied(held)
  BY DEF TopCopied, FinishGC, vars
<1>5. LiveHere'
  BY <1>1, <1>3, <1>4 DEF Good, LiveHere, AllCopied, Live
<1>6. Fenced'
  BY <1>1, <1>4 DEF Good, Fenced
<1>7. QED
  BY <1>2, <1>5, <1>6 DEF Good

-----------------------------------------------------------------------------
\* A fresh start has the true value, in its slot and in the table.
LEMMA InitIInv == Init => IInv
<1> SUFFICES ASSUME Init PROVE IInv
  OBVIOUS
<1> DEFINE t0 == [name |-> TVAL, at |-> "low"]
<1>1. t0 \in Cells /\ t0.name = TVAL /\ t0.at = "low"
  BY HashAssumption DEF Cells, Halves
<1>2. <<hash[TVAL], 0>> \in Slots
  BY HashAssumption DEF Slots
<1>3. /\ T = <<t0>> /\ tval = t0 /\ top = {} /\ held = {}
      /\ half = "low" /\ topbase = FALSE /\ topend = FALSE /\ topchg = FALSE
      /\ pc = "run" /\ oom = 0
      /\ mapsym = [s \in Slots |-> IF s = <<hash[TVAL], 0>> THEN t0 ELSE NULL]
  BY DEF Init
<1> HIDE DEF t0
<1>4. T \in Seq(Cells) /\ Len(T) = 1 /\ T[1] = t0
  BY <1>1, <1>3
<1>5. InTable = {t0} /\ Live = {t0}
  BY <1>3, <1>4 DEF InTable, Live
<1>6. TypeOK
  <2>1. mapsym \in [Slots -> Cells \cup {NULL}]
    BY <1>1, <1>3
  <2>2. half \in Halves /\ pc \in {"run", "tval", "top", "rest"} /\ oom \in 0 .. 2
    BY <1>3 DEF Halves
  <2>3. topbase \in BOOLEAN /\ topend \in BOOLEAN /\ topchg \in BOOLEAN
    BY <1>3
  <2>4. T \in Seq(Cells) /\ top \in SUBSET Cells /\ held \in SUBSET Cells /\ tval \in Cells
    BY <1>1, <1>3, <1>4
  <2>5. QED
    BY <2>1, <2>2, <2>3, <2>4 DEF TypeOK
<1>7. \A s \in Slots : mapsym[s] = IF s = <<hash[TVAL], 0>> THEN t0 ELSE NULL
  BY <1>3
<1>8. t0 # NULL
  BY <1>1, NullNoCell
<1>9. Mapped /\ FirstTaken
  <2>1. Mapped
    <3> SUFFICES ASSUME NEW s \in Slots, mapsym[s] # NULL
                 PROVE  mapsym[s] \in InTable /\ hash[mapsym[s].name] = s[1]
      BY DEF Mapped
    <3>1. s = <<hash[TVAL], 0>> /\ mapsym[s] = t0
      BY <1>7
    <3>2. QED
      BY <3>1, <1>1, <1>5
  <2>2. FirstTaken
    BY <1>1, <1>2, <1>3, <1>5, <1>7, <1>8 DEF FirstTaken, InTop
  <2>3. QED
    BY <2>1, <2>2
<1>10. OneName /\ OnePlace /\ Oldest
  BY <1>3, <1>4, <1>5 DEF OneName, Known, OnePlace, Oldest, InTop
<1>11. TableHere /\ LiveHere /\ Fenced
  BY <1>1, <1>3, <1>5 DEF TableHere, LiveHere, Fenced, InTop
<1>12. QED
  BY <1>6, <1>9, <1>10, <1>11 DEF IInv, Good

\* Every variable keeps its type, after an exhausted collection too.
LEMMA TypeStep ==
  ASSUME TypeOK, [Next]_vars
  PROVE  TypeOK'
<1>1. ASSUME NEW n \in Names, Intern(n)
      PROVE  TypeOK'
  <2>1. [name |-> n, at |-> half] \in Cells
    BY DEF TypeOK, Cells
  <2>2. CASE Found(n) = NULL
    <3>1. T' \in Seq(Cells) /\ mapsym' \in [Slots -> Cells \cup {NULL}]
      BY <1>1, <2>1, <2>2, PushType DEF Intern
    <3>2. QED
      BY <3>1, <1>1, <2>1, <2>2 DEF Intern, TypeOK, fence
  <2>3. CASE Found(n) # NULL
    <3>1. Found(n) \in Cells /\ <<hash[n], 1>> \in Slots
      BY <2>3, FoundType, SlotTypes
    <3>2. mapsym' \in [Slots -> Cells \cup {NULL}]
      BY <3>1, <1>1, <2>3 DEF Intern, TypeOK
    <3>3. QED
      BY <3>1, <3>2, <1>1, <2>3 DEF Intern, TypeOK, fence
  <2>4. QED
    BY <2>2, <2>3
<1>2. ASSUME NEW c \in Live, Load(c) \/ Drop(c) \/ Define(c) \/ Forget(c)
      PROVE  TypeOK'
  BY <1>2 DEF Load, Drop, Define, Forget, SetTop, TypeOK, table, fence, Live
<1>3. ASSUME NEW c \in Live, Copy(c), pc' \in {"run", "tval", "top", "rest"}
      PROVE  TypeOK'
  <2>1. c \in Cells /\ Copied(c) \in Cells
    BY DEF Live, TypeOK, Copied, Cells
  <2>2. T' \in Seq(Cells) /\ mapsym' \in [Slots -> Cells \cup {NULL}]
    BY <1>3, <2>1, PushType DEF Copy
  <2>3. QED
    BY <1>3, <2>1, <2>2 DEF Copy, Forwarded, TypeOK, fence
<1>4. ASSUME NEW c \in Live, CopySymbol(c)
      PROVE  TypeOK'
  BY <1>3, <1>4 DEF CopySymbol, TypeOK
<1>5. CASE StartGC
  <2>1. CASE KeepTop
    <3>1. T' \in Seq(Cells)
      <4>1. KeptLen \in 0 .. Len(T)
        BY KeptLenType
      <4>2. \A i \in 1 .. KeptLen : T[i] \in Cells
        BY <4>1, TableType
      <4>3. SubSeq(T, 1, KeptLen) \in Seq(Cells)
        BY <4>1, <4>2, TableType, SubSeqProperties
      <4>4. QED
        BY <2>1, <4>3 DEF KeepTop, Kept
    <3>2. mapsym' \in [Slots -> Cells \cup {NULL}]
      BY <2>1 DEF KeepTop, TypeOK
    <3>3. QED
      BY <3>1, <3>2, <1>5, <2>1 DEF StartGC, KeepTop, TypeOK, Halves, roots
  <2>2. CASE CopyTop
    <3>1. T' \in Seq(Cells) /\ mapsym' \in [Slots -> Cells \cup {NULL}]
      BY <2>2 DEF CopyTop
    <3>2. oom' \in 0 .. 2
      BY <1>5 DEF StartGC, TypeOK
    <3>3. /\ half' \in Halves /\ pc' \in {"run", "tval", "top", "rest"}
          /\ topbase' \in BOOLEAN /\ topend' \in BOOLEAN /\ topchg' \in BOOLEAN
      BY <1>5, <2>2 DEF StartGC, CopyTop, TypeOK, Halves
    <3>4. QED
      BY <3>1, <3>2, <3>3, <1>5 DEF StartGC, TypeOK, roots
  <2>3. QED
    BY <1>5, <2>1, <2>2 DEF StartGC
<1>6. CASE CopyTval
  <2>1. tval \in Live
    BY DEF Live
  <2>2. QED
    BY <1>3, <1>6, <2>1 DEF CopyTval, TypeOK, table, roots, fence
<1>7. CASE TopCopied
  <2>1. CASE BuildCorral
    <3>1. \A d \in Cells \cup {NULL} : Corral(d) \in Cells \cup {NULL}
      BY DEF Corral, Cells, NULL
    <3>2. \A d \in Cells : Corral(d) \in Cells
      BY DEF Corral, Cells
    <3>3. T' \in Seq(Cells)
      <4>1. \A i \in 1 .. Len(T) : Corral(T[i]) \in Cells
        BY <3>2, TableType
      <4>2. QED
        BY <2>1, <4>1, TableType DEF BuildCorral
    <3>4. mapsym' \in [Slots -> Cells \cup {NULL}]
      BY <2>1, <3>1 DEF BuildCorral, TypeOK
    <3>5. tval' \in Cells /\ top' \in SUBSET Cells /\ held' \in SUBSET Cells
      BY <2>1, <3>2 DEF BuildCorral, TypeOK
    <3>6. QED
      BY <3>3, <3>4, <3>5, <1>7, <2>1 DEF BuildCorral, TopCopied, TypeOK
  <2>2. CASE LeaveUncorralled
    BY <1>7, <2>2 DEF LeaveUncorralled, TopCopied, TypeOK, table, roots, fence
  <2>3. QED
    BY <1>7, <2>1, <2>2 DEF TopCopied
<1>8. CASE FinishGC
  BY <1>8 DEF FinishGC, TypeOK, table, roots, fence
<1>9. CASE CopyGivesUp
  <2> DEFINE map    == [s \in Slots |-> Stale(mapsym[s])]
             first  == map[<<hash[TVAL], 0>>]
             second == map[<<hash[TVAL], 1>>]
             found  == IF Named(first, TVAL) THEN first
                       ELSE IF first # NULL /\ Named(second, TVAL) THEN second
                       ELSE NULL
             new    == [name |-> TVAL, at |-> "low"]
             slot   == <<hash[TVAL], IF first = NULL THEN 0 ELSE 1>>
  <2>1. \A d \in Cells \cup {NULL} : Stale(d) \in Cells \cup {NULL}
    BY DEF Stale, Cells, NULL
  <2>2. map \in [Slots -> Cells \cup {NULL}]
    BY <2>1 DEF TypeOK
  <2>3. slot \in Slots /\ new \in Cells
    BY HashAssumption DEF Slots, Cells, Halves
  <2>4. first \in Cells \cup {NULL} /\ second \in Cells \cup {NULL}
    BY <2>2, HashAssumption, SlotTypes
  <2>5. /\ top' = {} /\ held' = {}
        /\ half' = "low" /\ topbase' = FALSE /\ topend' = FALSE /\ topchg' = FALSE
        /\ pc' = "run" /\ oom' = 1
        /\ IF found # NULL
           THEN tval' = found /\ T' = << >> /\ mapsym' = map
           ELSE tval' = new /\ T' = <<new>> /\ mapsym' = [map EXCEPT ![slot] = new]
    BY <1>9 DEF CopyGivesUp
  <2>6. found \in Cells \cup {NULL}
    BY <2>4
  <2> HIDE DEF map, first, second, found, new, slot
  <2>7. tval' \in Cells /\ T' \in Seq(Cells) /\ mapsym' \in [Slots -> Cells \cup {NULL}]
    <3>1. << >> \in Seq(Cells) /\ <<new>> \in Seq(Cells)
      BY <2>3
    <3>2. [map EXCEPT ![slot] = new] \in [Slots -> Cells \cup {NULL}]
      BY <2>2, <2>3
    <3>3. CASE found # NULL
      BY <3>1, <3>3, <2>2, <2>5, <2>6
    <3>4. CASE found = NULL
      BY <3>1, <3>2, <3>4, <2>3, <2>5
    <3>5. QED
      BY <3>3, <3>4
  <2>8. /\ half' \in Halves /\ pc' \in {"run", "tval", "top", "rest"}
        /\ topbase' \in BOOLEAN /\ topend' \in BOOLEAN /\ topchg' \in BOOLEAN
    BY <2>5 DEF Halves
  <2>9. oom' \in 0 .. 2 /\ top' \in SUBSET Cells /\ held' \in SUBSET Cells
    BY <2>5
  <2>10. QED
    BY <2>7, <2>8, <2>9 DEF TypeOK
<1>10. CASE UNCHANGED vars
  BY <1>10 DEF TypeOK, vars, table, roots, fence
<1>11. QED
  BY <1>1, <1>2, <1>4, <1>5, <1>6, <1>7, <1>8, <1>9, <1>10 DEF Next

\* Every step keeps the table in order until memory runs out.
LEMMA NextIInv == IInv /\ [Next]_vars => IInv'
<1> SUFFICES ASSUME IInv, [Next]_vars PROVE IInv'
  OBVIOUS
<1>1. TypeOK'
  BY TypeStep DEF IInv
<1> SUFFICES ASSUME oom' = 0 PROVE Good'
  BY <1>1 DEF IInv
<1>2. oom \in 0 .. 2
  BY DEF IInv, TypeOK
<1>3. ~ CopyGivesUp
  BY DEF CopyGivesUp
<1>4. oom = 0
  <2>1. CASE StartGC
    BY <2>1, <1>2 DEF StartGC
  <2>2. CASE ~ StartGC
    BY <2>2, <1>3 DEF Next, Intern, Load, Drop, Define, Forget, SetTop, CopySymbol,
       Copy, CopyTval, TopCopied, FinishGC, vars
  <2>3. QED
    BY <2>1, <2>2
<1>5. TypeOK /\ Good
  BY <1>4 DEF IInv
<1>6. CASE StartGC
  BY <1>5, <1>6, KeepTopStep, CopyTopStep DEF StartGC
<1>7. CASE TopCopied
  BY <1>5, <1>7, BuildCorralStep, LeaveStep DEF TopCopied
<1>8. QED
  BY <1>3, <1>4, <1>5, <1>6, <1>7, InternStep, MutatorStep, CopySymbolStep,
     CopyTvalStep, LeaveStep DEF Next

\* The inductive invariant holds in every reachable state.
THEOREM TableInvariant == Spec => []IInv
  BY InitIInv, NextIInv, PTL DEF Spec

\* Every variable keeps its type.
THEOREM TypeOKHolds == Spec => []TypeOK
<1>1. IInv => TypeOK
  BY DEF IInv
<1>2. QED
  BY <1>1, TableInvariant, PTL

\* mksymb() never puts a second symbol of one name in the table.
THEOREM NoTwinsHolds == Spec => []NoTwins
<1>1. IInv => NoTwins
  BY DEF IInv, Good, OnePlace, NoTwins
<1>2. QED
  BY <1>1, TableInvariant, PTL

\* The quick map never leads out of the table.
THEOREM MapInTableHolds == Spec => []MapInTable
<1>1. IInv => MapInTable
  BY DEF IInv, Good, Mapped, MapInTable
<1>2. QED
  BY <1>1, TableInvariant, PTL

\* copytop()'s loop meets the corral's symbols last.
THEOREM CorralIsOldestHolds == Spec => []CorralIsOldest
<1>1. IInv => CorralIsOldest
  BY DEF IInv, Good, Oldest, CorralIsOldest
<1>2. QED
  BY <1>1, TableInvariant, PTL

\* What eq relies on: a name in use always reads back as the same cell.
THEOREM ReadsBackHolds == Spec => []ReadsBack
<1>1. IInv => ReadsBack
  <2> SUFFICES ASSUME IInv, oom = 0, pc = "run", NEW c \in Live
               PROVE  Found(c.name) = c
    BY DEF ReadsBack, ReadsBackAlways
  <2>1. TypeOK /\ Good
    BY DEF IInv
  <2>2. c \in InTable /\ c.name \in Names
    BY <2>1, TableType DEF Good, LiveHere, Cells
  <2>3. /\ Found(c.name) # NULL
        /\ Found(c.name) \in InTable /\ Found(c.name).name = c.name
    BY <2>1, <2>2, FoundInTable, FoundType DEF Good
  <2>4. QED
    BY <2>1, <2>2, <2>3 DEF Good, OneName, Known
<1>2. QED
  BY <1>1, TableInvariant, PTL

-----------------------------------------------------------------------------
\* While a collection runs, every symbol in the table is one that something
\* leads to, or one of the corral.
InCorral == {c \in Cells : c.at = "corral"}
Owned    == Copying /\ oom = 0 => InTable \subseteq Live \cup InCorral

\* What a collection starts with is the corral's, or nothing.
LEMMA StartOwned ==
  ASSUME TypeOK, Good, StartGC
  PROVE  InTable' \subseteq InCorral
<1>1. CASE KeepTop
  <2>1. InTable' = {c \in InTable : InTop(c)}
    BY <1>1, KeptIsCorral DEF KeepTop, Good
  <2>2. QED
    BY <2>1, TableType DEF InTop, InCorral
<1>2. CASE CopyTop
  <2>1. T' = << >>
    BY <1>2 DEF CopyTop
  <2>2. QED
    BY <2>1 DEF InTable
<1>3. QED
  BY <1>1, <1>2 DEF StartGC

\* A symbol is put in the table when the pointers to it are turned to the
\* copy; the one it replaces was in the other half, and not in the table.
LEMMA CopyOwned ==
  ASSUME TypeOK, Good, NEW c \in Live, Copy(c), InTable \subseteq Live \cup InCorral
  PROVE  InTable' \subseteq Live' \cup InCorral
  BY CopyKeeps

\* The environment's symbols become the corral's, and all others keep a
\* pointer to them.
LEMMA CorralOwned ==
  ASSUME TypeOK, BuildCorral, InTable \subseteq Live \cup InCorral
  PROVE  InTable' \subseteq Live' \cup InCorral
<1>1. InTable' = {Corral(d) : d \in InTable}
  <2>1. T' = [i \in 1 .. Len(T) |-> Corral(T[i])]
    BY DEF BuildCorral
  <2>2. Len(T') = Len(T) /\ \A i \in 1 .. Len(T) : T'[i] = Corral(T[i])
    BY <2>1, TableType
  <2>3. QED
    BY <2>2 DEF InTable
<1>2. Live' = {Corral(d) : d \in Live}
  BY DEF BuildCorral, Live
<1>3. \A d \in InCorral : Corral(d) = d
  BY DEF InCorral, Corral
<1>4. QED
  BY <1>1, <1>2, <1>3

\* No step of a collection puts a symbol in the table that nothing leads to.
LEMMA NextOwned == IInv /\ Owned /\ [Next]_vars => Owned'
<1> SUFFICES ASSUME IInv, Owned, [Next]_vars, Copying', oom' = 0
             PROVE  InTable' \subseteq Live' \cup InCorral
  BY DEF Owned, InCorral
<1>1. TypeOK /\ ~ CopyGivesUp
  BY DEF IInv, CopyGivesUp
<1>2. CASE StartGC
  <2>1. oom = 0
    BY <1>1, <1>2 DEF StartGC, TypeOK
  <2>2. QED
    BY <2>1, <1>2, StartOwned DEF IInv
<1>3. CASE ~ StartGC
  <2>1. oom = 0 /\ Copying
    BY <1>1, <1>3 DEF Copying, Next, Intern, Load, Drop, Define, Forget, SetTop,
       CopySymbol, Copy, CopyTval, TopCopied, FinishGC, vars
  <2>2. Good /\ InTable \subseteq Live \cup InCorral
    BY <2>1 DEF IInv, Owned
  <2>3. CASE \E c \in Live : CopySymbol(c)
    BY <2>2, <2>3, <1>1, CopyOwned DEF CopySymbol
  <2>4. CASE CopyTval
    <3>1. tval \in Live
      BY DEF Live
    <3>2. CASE Copy(tval)
      BY <3>1, <3>2, <2>2, <1>1, CopyOwned
    <3>3. CASE UNCHANGED <<table, roots, fence, oom>>
      BY <3>3, <2>2 DEF table, roots, InTable, Live
    <3>4. QED
      BY <3>2, <3>3, <2>4 DEF CopyTval
  <2>5. CASE TopCopied
    <3>1. CASE BuildCorral
      BY <3>1, <2>2, <1>1, CorralOwned
    <3>2. CASE LeaveUncorralled
      BY <3>2, <2>2 DEF LeaveUncorralled, table, roots, InTable, Live
    <3>3. QED
      BY <3>1, <3>2, <2>5 DEF TopCopied
  <2>6. CASE UNCHANGED vars
    BY <2>6, <2>2 DEF vars, table, roots, InTable, Live
  <2>7. ~ FinishGC /\ (\A n \in Names : ~ Intern(n))
    BY <2>1 DEF Copying, FinishGC, Intern
  <2>8. \A c \in Live : ~ (Load(c) \/ Drop(c) \/ Define(c) \/ Forget(c))
    BY <2>1 DEF Copying, Load, Drop, Define, Forget, SetTop
  <2>9. QED
    BY <2>3, <2>4, <2>5, <2>6, <2>7, <2>8, <1>1, <1>3 DEF Next
<1>4. QED
  BY <1>2, <1>3

\* So it does not leave one behind when it ends: what a name reads back as
\* after a collection is the corral's, or still in use.
THEOREM NoLeakHolds == Spec => NoLeak
<1>1. Init => Owned
  BY DEF Init, Owned, Copying
<1>2. IInv /\ Owned /\ [Next]_vars =>
        [(pc = "rest" /\ pc' = "run" /\ oom' = 0)
           => InTable' \subseteq Live' \cup {c \in Cells : c.at = "corral"}]_vars
  <2> SUFFICES ASSUME IInv, Owned, [Next]_vars, pc = "rest", pc' = "run", oom' = 0
               PROVE  InTable' \subseteq Live' \cup {c \in Cells : c.at = "corral"}
    OBVIOUS
  <2>1. FinishGC
    BY DEF Next, Intern, Load, Drop, Define, Forget, SetTop, CopySymbol, StartGC,
       CopyTval, TopCopied, CopyGivesUp, vars
  <2>2. InTable' = InTable /\ Live' = Live /\ oom = 0
    BY <2>1 DEF FinishGC, table, roots, InTable, Live
  <2>3. QED
    BY <2>2 DEF Owned, Copying, InCorral
<1>3. QED
  BY <1>1, <1>2, TableInvariant, NextOwned, PTL DEF Spec, NoLeak

=============================================================================
