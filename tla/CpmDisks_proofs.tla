-------------------------- MODULE CpmDisks_proofs --------------------------
(***************************************************************************)
(* For any cards, images and sectors: no card ever gets what was meant for *)
(* another, or is read by way of another's directory, CP/M reads back what *)
(* it wrote, and a mount ends only for a card that does not answer.        *)
(***************************************************************************)
EXTENDS CpmDisks, TLAPS

\* A card that answers is the one that is mounted: to answer it must have been
\* initialized since it was put in, and that is done with nothing mounted.
Trusted ==
  /\ live => slot # NONE
  /\ fs.card # NONE /\ live => slot = fs.card
  /\ fs.card # NONE /\ dstat = "NOINIT" => ~ live \/ flaky

\* What is mounted, and which window may be dirty, at each access.
Mounted ==
  /\ pc \in {"init", "boot"} => fs.card = NONE
  /\ pc = "find" /\ opening = 0 => fs.card = NONE
  /\ pc = "dir" => fs.card # NONE
  /\ pc \in {"seekfat", "file", "fat", "data"} => fs.card # NONE /\ file[disk_].valid
  /\ fs.dirty => fs.card # NONE /\ pc \notin {"init", "find", "boot", "dir"}

\* The window holds what CP/M wrote there, or what is on the card.
Window ==
  /\ fs.dirty => fs.sect \in Slots /\ told[fs.sect] = fs.data
  /\ fs.card # NONE /\ fs.sect \in Slots /\ ~ fs.dirty => fs.data = img[fs.card][fs.sect]

Inv == TypeOK /\ Trusted /\ Mounted /\ Window /\ OwnDirectory /\ ReadsBack
-----------------------------------------------------------------------------
\* The window's two special sectors are no image's.
LEMMA SectorFacts ==
  /\ META \notin Slots /\ NOSECT \notin Slots
  /\ 1 \in Disks /\ DISKS \in Nat /\ 0 \in Data /\ Values \subseteq Data
  /\ \A d \in Disks, s \in Sectors : <<d, s>> \in Slots
  /\ NONE \notin Cards
BY DisksAssumption, CardsAssumption DEF META, NOSECT, Slots, Disks, Data

\* disk_status() moves no card, and gives up only one that does not answer.
LEMMA StatusFacts ==
  ASSUME DriveOK, disk_status
  PROVE  /\ slot' = slot /\ live' = live
         /\ dstat' \in {"OK", "NOINIT"} /\ timer' \in BOOLEAN
         /\ dstat = "NOINIT" => dstat' = "NOINIT"
         /\ dstat' = "NOINIT" => dstat = "NOINIT" \/ ~ (slot # NONE /\ live) \/ flaky
BY DEF DriveOK, disk_status, Answers

\* disk_initialize() wakes only a card that is there.
LEMMA InitializeFacts ==
  ASSUME DriveOK, disk_initialize, live => slot # NONE
  PROVE  /\ slot' = slot /\ live' \in BOOLEAN /\ (live' => slot # NONE)
         /\ dstat' \in {"OK", "NOINIT"} /\ timer' \in BOOLEAN
BY DEF DriveOK, disk_initialize

\* Only a card that is there and awake answers.
LEMMA TransferFacts ==
  ASSUME DriveOK, NEW ok \in BOOLEAN, Transfer(ok)
  PROVE  /\ slot' = slot /\ live' = live /\ dstat' = dstat /\ timer' \in BOOLEAN
         /\ ok => dstat = "OK" /\ slot # NONE /\ slot \in Cards /\ live
BY DEF DriveOK, Transfer, Answers

\* The drive's variables keep their types, whatever is done to it.
LEMMA DriveType ==
  ASSUME DriveOK, flaky' = flaky, live => slot # NONE,
         \/ disk_status \/ disk_initialize \/ UNCHANGED drive
         \/ \E ok \in BOOLEAN : Transfer(ok)
         \/ Pull \/ (\E c \in Cards : Insert(c)) \/ TimerEnds
  PROVE  DriveOK'
<1>1. CASE disk_status
  BY <1>1, StatusFacts DEF DriveOK
<1>2. CASE disk_initialize
  BY <1>2, InitializeFacts DEF DriveOK
<1>3. CASE UNCHANGED drive
  BY <1>3 DEF DriveOK, drive
<1>4. CASE \E ok \in BOOLEAN : Transfer(ok)
  BY <1>4, TransferFacts DEF DriveOK
<1>5. CASE Pull \/ (\E c \in Cards : Insert(c)) \/ TimerEnds
  BY <1>5 DEF DriveOK, Pull, Insert, TimerEnds
<1> QED
  BY <1>1, <1>2, <1>3, <1>4, <1>5

\* What openImageFiles() tries next, and the image it tries to open.
LEMMA OpensFacts ==
  ASSUME TypeOK, pc \in {"find", "boot", "dir"}, NEW found \in BOOLEAN, Opens(found)
  PROVE  /\ opening' \in 1 .. 2 * DISKS + 1
         /\ pc' \in {"find", "idle", "check"}
         /\ pc' = "find" => opening' <= 2 * DISKS
         /\ opening > 0 => (opening + 1) \div 2 \in Disks
<1> DEFINE d == (opening + 1) \div 2
<1>1. opening \in 0 .. 2 * DISKS /\ DISKS \in Nat
  BY SectorFacts DEF TypeOK
<1>2. opening > 0 => d \in 1 .. DISKS
  BY <1>1
<1>3. opening' \in 1 .. 2 * DISKS + 1
  BY <1>1, <1>2 DEF Opens
<1> QED
  BY <1>1, <1>2, <1>3 DEF Opens, Disks

-----------------------------------------------------------------------------
\* The mount and its window, the files and what CP/M was told, as the type
\* invariant has them.
VolumeOK ==
  /\ fs \in [card : Cards \cup {NONE}, sect : Slots \cup {META, NOSECT},
             data : Data, dirty : BOOLEAN]
  /\ file \in [Disks -> [open : BOOLEAN, valid : BOOLEAN, err : BOOLEAN,
                         card : Cards \cup {NONE}]]
  /\ told \in [Slots -> Data]

ImagesOK == img \in [Cards -> [Slots -> Data]]

CallOK ==
  /\ call \in [op : {"start", "select", "read", "write"}, disk : Disks,
               sect : Sectors, data : Data]
  /\ call.op = "write" => call.data \in Values

PlaceOK ==
  /\ disk_ \in Disks /\ opening \in 0 .. 2 * DISKS + 1 /\ late \in BOOLEAN
  /\ pc \in {"find", "boot", "dir"} => opening <= 2 * DISKS
  /\ pc = "dir" => opening > 0
  /\ pc \in {"idle", "init", "find", "boot", "dir", "check", "seek", "seekfat",
             "file", "fat", "data"}

\* The parts make the whole.
LEMMA TypeParts == TypeOK <=> DriveOK /\ VolumeOK /\ ImagesOK /\ CallOK /\ PlaceOK
BY DEF TypeOK, VolumeOK, ImagesOK, CallOK, PlaceOK

\* What a mount and its end set is of its type.
LEMMA VolumeFacts ==
  /\ Unmounted \in [card : Cards \cup {NONE}, sect : Slots \cup {META, NOSECT},
                    data : Data, dirty : BOOLEAN]
  /\ Nothing \in [Slots -> Data]
  /\ Closed \in [open : BOOLEAN, valid : BOOLEAN, err : BOOLEAN, card : Cards \cup {NONE}]
BY SectorFacts DEF Unmounted, Nothing, Closed

\* The sector that an access aims at.
LEMMA TargetFacts ==
  ASSUME PlaceOK, CallOK
  PROVE  Target \in Slots \cup {META} /\ (pc = "data" => Target \in Slots)
BY SectorFacts DEF PlaceOK, CallOK, Target

\* Every call keeps the type of each part.
LEMMA StepType ==
  ASSUME TypeOK, Trusted, Mounted, Step \/ User \/ Clock, flaky' = flaky
  PROVE  TypeOK'
<1> USE TypeParts DEF Trusted
<1> SUFFICES VolumeOK' /\ ImagesOK' /\ CallOK' /\ PlaceOK' /\ DriveOK'
  BY PTL
<1>1. ASSUME NEW c \in Calls, CheckStatus(c) PROVE VolumeOK' /\ ImagesOK' /\ CallOK' /\ PlaceOK' /\ DriveOK'
  <2>1. DriveOK'
    BY <1>1, DriveType DEF CheckStatus
  <2>2. VolumeOK' /\ ImagesOK'
    BY <1>1, VolumeFacts DEF CheckStatus, volume, closeImageFiles, VolumeOK, ImagesOK
  <2>3. CallOK'
    BY <1>1, SectorFacts DEF CheckStatus, Calls, CallOK, PlaceOK
  <2>4. PlaceOK'
    <3>1. c.disk \in Disks
      BY <1>1 DEF Calls, PlaceOK
    <3>2. disk_' \in Disks /\ pc' \in {"idle", "init", "seek"}
      BY <1>1, <3>1 DEF CheckStatus, CheckOpen, PlaceOK
    <3> QED
      BY <1>1, <3>2 DEF CheckStatus, closeImageFiles, PlaceOK
  <2> QED
    BY <2>1, <2>2, <2>3, <2>4
<1>2. CASE CheckInit
  <2>1. DriveOK'
    BY <1>2, DriveType DEF CheckInit
  <2>2. VolumeOK' /\ ImagesOK' /\ CallOK'
    BY <1>2 DEF CheckInit, volume, VolumeOK, ImagesOK, CallOK
  <2>3. PlaceOK'
    BY <1>2, SectorFacts DEF CheckInit, Return, PlaceOK
  <2> QED
    BY <2>1, <2>2, <2>3
<1>3. CASE FindMounted
  <2>1. DriveOK'
    BY <1>3, DriveType DEF FindMounted
  <2>2. VolumeOK' /\ ImagesOK' /\ CallOK'
    BY <1>3, VolumeFacts DEF FindMounted, volume, VolumeOK, ImagesOK, CallOK
  <2> QED
    BY <1>3, <2>1, <2>2 DEF FindMounted, Mounted, PlaceOK
<1>4. CASE FindUnmounted
  <2>1. DriveOK'
    BY <1>4, DriveType DEF FindUnmounted
  <2>2. VolumeOK' /\ ImagesOK' /\ CallOK'
    BY <1>4 DEF FindUnmounted, volume, VolumeOK, ImagesOK, CallOK
  <2>3. PlaceOK'
    <3>1. CASE pc' = "boot" /\ opening' = opening
      BY <1>4, <3>1 DEF FindUnmounted, PlaceOK
    <3>2. CASE Opens(FALSE)
      <4>1. /\ opening' \in 1 .. 2 * DISKS + 1 /\ pc' \in {"find", "idle", "check"}
            /\ pc' = "find" => opening' <= 2 * DISKS
        BY <1>4, <3>2, OpensFacts DEF FindUnmounted
      <4> QED
        BY <1>4, <4>1, SectorFacts DEF FindUnmounted, PlaceOK
    <3> QED
      BY <1>4, <3>1, <3>2 DEF FindUnmounted
  <2> QED
    BY <2>1, <2>2, <2>3
<1>5. CASE FindBoot
  <2> PICK ok \in BOOLEAN :
        /\ pc = "boot" /\ Transfer(ok)
        /\ IF ok
           THEN /\ fs' = [Unmounted EXCEPT !.card = slot, !.sect = META]
                /\ file' = [d \in Disks |-> [file[d] EXCEPT !.valid = FALSE]]
                /\ told' = Nothing
                /\ IF opening = 0 THEN Opens(TRUE) ELSE pc' = "dir" /\ UNCHANGED opening
           ELSE UNCHANGED volume /\ Opens(FALSE)
        /\ UNCHANGED <<img, disk_, call, late>>
    BY <1>5 DEF FindBoot
  <2>1. DriveOK'
    BY DriveType
  <2>2. VolumeOK'
    <3>1. CASE ok
      <4>1. slot \in Cards
        BY <3>1, TransferFacts
      <4>2. fs' \in [card : Cards \cup {NONE}, sect : Slots \cup {META, NOSECT},
                     data : Data, dirty : BOOLEAN]
        BY <3>1, <4>1, SectorFacts DEF Unmounted
      <4>3. file' \in [Disks -> [open : BOOLEAN, valid : BOOLEAN, err : BOOLEAN,
                                card : Cards \cup {NONE}]]
        <5>1. ASSUME NEW d \in Disks
              PROVE  [file[d] EXCEPT !.valid = FALSE]
                       \in [open : BOOLEAN, valid : BOOLEAN, err : BOOLEAN, card : Cards \cup {NONE}]
          BY DEF VolumeOK
        <5> QED
          BY <3>1, <5>1
      <4> QED
        BY <3>1, <4>2, <4>3, VolumeFacts DEF VolumeOK
    <3>2. CASE ~ ok
      BY <3>2 DEF VolumeOK, volume
    <3> QED
      BY <3>1, <3>2
  <2>3. ImagesOK' /\ CallOK'
    BY DEF ImagesOK, CallOK
  <2>4. PlaceOK'
    <3>1. CASE pc' = "dir" /\ opening' = opening /\ opening # 0
      BY <3>1, SectorFacts DEF PlaceOK
    <3>2. ASSUME NEW found \in BOOLEAN, Opens(found) PROVE PlaceOK'
      BY <3>2, OpensFacts, SectorFacts DEF PlaceOK
    <3> QED
      BY <3>1, <3>2
  <2> QED
    BY <2>1, <2>2, <2>3, <2>4
<1>6. CASE OpenImage
  <2> DEFINE d == (opening + 1) \div 2
  <2> PICK ok \in BOOLEAN, found \in BOOLEAN :
        /\ pc = "dir" /\ Transfer(ok)
        /\ found => ok
        /\ file' = [file EXCEPT ![d] =
             IF found THEN [open |-> TRUE, valid |-> TRUE, err |-> FALSE, card |-> slot]
             ELSE Closed]
        /\ fs' = IF ok THEN [fs EXCEPT !.sect = META] ELSE [fs EXCEPT !.sect = NOSECT]
        /\ Opens(found)
        /\ UNCHANGED <<img, told, disk_, call, late>>
    BY <1>6 DEF OpenImage
  <2>1. DriveOK'
    BY DriveType
  <2>2. d \in Disks
    BY OpensFacts DEF PlaceOK
  <2>3. fs' \in [card : Cards \cup {NONE}, sect : Slots \cup {META, NOSECT},
                 data : Data, dirty : BOOLEAN]
    BY DEF VolumeOK
  <2>4. VolumeOK'
    <3> HIDE DEF d
    <3>1. CASE found
      BY <2>2, <2>3, <3>1, TransferFacts DEF VolumeOK
    <3>2. CASE ~ found
      BY <2>2, <2>3, <3>2, VolumeFacts DEF VolumeOK
    <3> QED
      BY <3>1, <3>2
  <2>5. ImagesOK' /\ CallOK'
    BY DEF ImagesOK, CallOK
  <2>6. PlaceOK'
    BY OpensFacts, SectorFacts DEF PlaceOK
  <2> QED
    BY <2>1, <2>4, <2>5, <2>6
<1>7. CASE ImagesOpened
  <2>1. DriveOK' /\ VolumeOK' /\ ImagesOK' /\ CallOK'
    BY <1>7, DriveType DEF ImagesOpened, volume, VolumeOK, ImagesOK, CallOK
  <2>2. PlaceOK'
    BY <1>7 DEF ImagesOpened, CheckOpen, PlaceOK, CallOK
  <2> QED
    BY <2>1, <2>2
<1>8. CASE Seek \/ Access
  <2>1. PICK next \in {{"seekfat", "file"}, {"fat", "data"}} : pc \in {"seek", "file"} /\ Validate(next)
    BY <1>8 DEF Seek, Access
  <2>2. DriveOK'
    BY <2>1, DriveType DEF Validate
  <2>3. VolumeOK' /\ ImagesOK' /\ CallOK'
    BY <2>1 DEF Validate, volume, VolumeOK, ImagesOK, CallOK
  <2>4. PlaceOK'
    BY <2>1 DEF Validate, Return, PlaceOK
  <2> QED
    BY <2>2, <2>3, <2>4
<1>9. CASE SyncWindow
  <2>1. PICK ok \in BOOLEAN :
        /\ pc \in {"seekfat", "fat", "data"} /\ fs.dirty
        /\ Transfer(ok)
        /\ img' = img \/ (live /\ img' = [img EXCEPT ![slot][fs.sect] = fs.data])
        /\ IF ok THEN fs' = [fs EXCEPT !.dirty = FALSE] /\ UNCHANGED <<file, pc>>
                 ELSE Fail /\ UNCHANGED fs
        /\ UNCHANGED <<told, disk_, call, opening, late>>
    BY <1>9, TransferFacts DEF SyncWindow, Flushed
  <2>2. DriveOK' /\ CallOK'
    BY <2>1, DriveType DEF CallOK
  <2>3. VolumeOK'
    <3>1. CASE ok
      BY <2>1, <3>1 DEF VolumeOK
    <3>2. CASE ~ ok
      <4>1. file' \in [Disks -> [open : BOOLEAN, valid : BOOLEAN, err : BOOLEAN,
                                card : Cards \cup {NONE}]]
        <5>1. file' = [file EXCEPT ![disk_].err = TRUE]
          BY <2>1, <3>2 DEF Fail
        <5> QED
          BY <5>1 DEF VolumeOK, PlaceOK
      <4> QED
        BY <2>1, <3>2, <4>1 DEF VolumeOK
    <3> QED
      BY <3>1, <3>2
  <2>4. ImagesOK'
    <3>1. slot \in Cards \cup {NONE} /\ fs.data \in Data
      BY DEF DriveOK, VolumeOK
    <3>2. CASE img' = img
      BY <3>2 DEF ImagesOK
    <3>3. CASE live /\ img' = [img EXCEPT ![slot][fs.sect] = fs.data]
      BY <3>1, <3>3 DEF ImagesOK
    <3> QED
      BY <2>1, <3>2, <3>3
  <2>5. PlaceOK'
    BY <2>1 DEF Fail, Return, PlaceOK
  <2> QED
    BY <2>2, <2>3, <2>4, <2>5
<1>10. CASE MoveWindow
  <2>1. PICK ok \in BOOLEAN :
        /\ pc \in {"seekfat", "fat", "data"}
        /\ Transfer(ok)
        /\ fs' = [fs EXCEPT !.sect = IF ok THEN Target ELSE NOSECT,
                            !.data = IF ok /\ pc = "data" THEN img[slot][Target] ELSE 0]
        /\ IF ok THEN UNCHANGED file /\ pc' = (CASE pc = "seekfat" -> "file" [] OTHER -> "data")
                 ELSE Fail
        /\ UNCHANGED <<img, told, disk_, call, opening, late>>
    BY <1>10 DEF MoveWindow
  <2>2. DriveOK' /\ CallOK' /\ ImagesOK'
    BY <2>1, DriveType DEF CallOK, ImagesOK
  <2>3. fs'.data \in Data
    BY <2>1, TransferFacts, TargetFacts, SectorFacts DEF ImagesOK, VolumeOK
  <2>4. VolumeOK'
    <3>1. fs' \in [card : Cards \cup {NONE}, sect : Slots \cup {META, NOSECT},
                   data : Data, dirty : BOOLEAN]
      BY <2>1, <2>3, TargetFacts DEF VolumeOK
    <3>2. file' \in [Disks -> [open : BOOLEAN, valid : BOOLEAN, err : BOOLEAN,
                              card : Cards \cup {NONE}]]
      BY ZenonT(60), <2>1 DEF Fail, VolumeOK, PlaceOK
    <3> QED
      BY <2>1, <3>1, <3>2 DEF VolumeOK
  <2>5. PlaceOK'
    BY <2>1 DEF Fail, Return, PlaceOK
  <2> QED
    BY <2>2, <2>4, <2>5
<1>11. CASE FatInWindow
  <2>1. DriveOK' /\ VolumeOK' /\ ImagesOK' /\ CallOK'
    BY <1>11, DriveType DEF FatInWindow, volume, VolumeOK, ImagesOK, CallOK
  <2>2. PlaceOK'
    BY <1>11 DEF FatInWindow, PlaceOK
  <2> QED
    BY <2>1, <2>2
<1>12. CASE Copied
  <2>1. DriveOK' /\ ImagesOK' /\ CallOK'
    BY <1>12, DriveType DEF Copied, ImagesOK, CallOK
  <2>2. VolumeOK'
    BY ZenonT(60), <1>12, TargetFacts, SectorFacts DEF Copied, VolumeOK, CallOK
  <2>3. PlaceOK'
    BY <1>12 DEF Copied, Return, PlaceOK
  <2> QED
    BY <2>1, <2>2, <2>3
<1>13. CASE User
  BY <1>13, DriveType DEF User, volume, VolumeOK, ImagesOK, CallOK, PlaceOK
<1>14. CASE Clock
  BY <1>14, DriveType DEF Clock, volume, VolumeOK, ImagesOK, CallOK, PlaceOK
<1> QED
  BY <1>1, <1>2, <1>3, <1>4, <1>5, <1>6, <1>7, <1>8, <1>9, <1>10, <1>11, <1>12,
     <1>13, <1>14 DEF Step

-----------------------------------------------------------------------------
\* Whoever is trusted stays so: a card is initialized only with nothing
\* mounted, and what is mounted is what answered.
LEMMA StepTrusted ==
  ASSUME TypeOK, Trusted, Mounted, Step \/ User \/ Clock, flaky' = flaky
  PROVE  Trusted'
<1> USE DEF TypeOK
<1>1. ASSUME disk_status, fs'.card \in {fs.card, NONE} PROVE Trusted'
  BY <1>1, StatusFacts DEF Trusted
<1>2. ASSUME disk_initialize, fs' = fs, fs.card = NONE PROVE Trusted'
  BY <1>2, InitializeFacts DEF Trusted
<1>3. ASSUME NEW ok \in BOOLEAN, Transfer(ok), fs'.card = fs.card PROVE Trusted'
  BY <1>3, TransferFacts DEF Trusted
<1>4. ASSUME UNCHANGED drive, fs'.card = fs.card PROVE Trusted'
  BY <1>4 DEF Trusted, drive
<1>5. CASE \E c \in Calls : CheckStatus(c)
  BY <1>1, <1>5 DEF CheckStatus, closeImageFiles, Unmounted, volume
<1>6. CASE CheckInit
  BY <1>2, <1>6 DEF CheckInit, volume, Mounted
<1>7. CASE FindMounted
  BY <1>1, <1>7 DEF FindMounted, Unmounted, volume
<1>8. CASE FindUnmounted
  BY <1>2, <1>8 DEF FindUnmounted, volume
<1>9. CASE FindBoot
  <2> PICK ok \in BOOLEAN :
        Transfer(ok) /\ fs' = IF ok THEN [Unmounted EXCEPT !.card = slot, !.sect = META] ELSE fs
    BY <1>9 DEF FindBoot, volume
  <2>1. CASE ok
    <3>1. fs'.card = slot
      BY <2>1 DEF Unmounted
    <3>2. slot' = slot /\ dstat' = dstat
      BY TransferFacts
    <3>3. slot # NONE /\ dstat = "OK"
      BY <2>1, TransferFacts
    <3> QED
      BY <3>1, <3>2, <3>3 DEF Trusted
  <2>2. CASE ~ ok
    BY <1>3, <2>2
  <2> QED
    BY <2>1, <2>2
<1>10. CASE OpenImage \/ SyncWindow \/ MoveWindow
  <2>1. \E ok \in BOOLEAN : Transfer(ok)
    BY <1>10 DEF OpenImage, SyncWindow, MoveWindow
  <2>2. fs'.card = fs.card
    BY <1>10 DEF OpenImage, SyncWindow, MoveWindow
  <2> QED
    BY <1>3, <2>1, <2>2
<1>11. CASE ImagesOpened \/ FatInWindow \/ Copied
  BY <1>4, <1>11 DEF ImagesOpened, FatInWindow, Copied, volume
<1>12. CASE Seek \/ Access
  BY <1>1, <1>4, <1>12 DEF Seek, Access, Validate, volume
<1>13. CASE User
  BY <1>13 DEF User, Pull, Insert, volume, Trusted, DriveOK
<1>14. CASE Clock
  BY <1>14 DEF Clock, TimerEnds, volume, Trusted
<1> QED
  BY <1>5, <1>6, <1>7, <1>8, <1>9, <1>10, <1>11, <1>12, <1>13, <1>14 DEF Step

\* Nothing is mounted when a mount begins, and only a good file is accessed.
LEMMA StepMounted ==
  ASSUME TypeOK, Trusted, Mounted, Step \/ User \/ Clock, flaky' = flaky
  PROVE  Mounted'
<1> USE DEF TypeOK
<1>1. CASE \E c \in Calls : CheckStatus(c)
  BY <1>1 DEF CheckStatus, CheckOpen, closeImageFiles, Unmounted, volume, Mounted
<1>2. CASE CheckInit
  BY <1>2 DEF CheckInit, volume, Return, Mounted
<1>3. CASE FindMounted
  BY <1>3 DEF FindMounted, Unmounted, volume, Mounted
<1>4. CASE FindUnmounted
  <2>1. CASE Opens(FALSE)
    BY <1>4, <2>1, OpensFacts DEF FindUnmounted, volume, Mounted
  <2>2. CASE pc' = "boot"
    BY <1>4, <2>2 DEF FindUnmounted, volume, Mounted
  <2> QED
    BY <1>4, <2>1, <2>2 DEF FindUnmounted
<1>5. CASE FindBoot
  <2> PICK ok \in BOOLEAN :
        /\ pc = "boot" /\ Transfer(ok)
        /\ IF ok
           THEN /\ fs' = [Unmounted EXCEPT !.card = slot, !.sect = META]
                /\ IF opening = 0 THEN Opens(TRUE) ELSE pc' = "dir" /\ UNCHANGED opening
           ELSE UNCHANGED volume /\ Opens(FALSE)
    BY <1>5 DEF FindBoot
  <2>1. fs'.dirty = FALSE
    BY DEF Unmounted, volume, Mounted
  <2>2. CASE pc' = "dir"
    <3>1. ok
      BY <2>2, OpensFacts
    <3> QED
      BY <2>1, <2>2, <3>1, TransferFacts, SectorFacts DEF Unmounted, Mounted
  <2>3. ASSUME NEW found \in BOOLEAN, Opens(found) PROVE Mounted'
    BY <2>1, <2>3, OpensFacts DEF Mounted
  <2> QED
    BY <2>2, <2>3
<1>6. CASE OpenImage
  <2> PICK ok \in BOOLEAN, found \in BOOLEAN :
        /\ pc = "dir" /\ Opens(found)
        /\ fs' = IF ok THEN [fs EXCEPT !.sect = META] ELSE [fs EXCEPT !.sect = NOSECT]
    BY <1>6 DEF OpenImage
  <2> QED
    BY OpensFacts DEF Mounted
<1>7. CASE ImagesOpened
  BY <1>7 DEF ImagesOpened, CheckOpen, volume, Mounted
<1>8. CASE Seek \/ Access
  BY <1>8 DEF Seek, Access, Validate, Return, volume, Mounted
<1>9. CASE SyncWindow
  BY <1>9 DEF SyncWindow, Fail, Return, Mounted
<1>10. CASE MoveWindow
  BY <1>10 DEF MoveWindow, Fail, Return, Mounted
<1>11. CASE FatInWindow
  BY <1>11 DEF FatInWindow, volume, Mounted
<1>12. CASE Copied
  BY <1>12 DEF Copied, Return, Mounted
<1>13. CASE User \/ Clock
  BY <1>13 DEF User, Clock, volume, Mounted
<1> QED
  BY <1>1, <1>2, <1>3, <1>4, <1>5, <1>6, <1>7, <1>8, <1>9, <1>10, <1>11, <1>12,
     <1>13 DEF Step

\* The window agrees with the card or with CP/M, and CP/M with the window: one
\* goes with the other.
LEMMA StepWindow ==
  ASSUME Inv, Step \/ User \/ Clock, flaky' = flaky
  PROVE  Window' /\ ReadsBack'
<1> USE TypeParts DEF Inv
<1>1. ASSUME UNCHANGED <<img, fs, told>> PROVE Window' /\ ReadsBack'
  BY <1>1 DEF Window, ReadsBack, Latest
<1>2. ASSUME fs' = Unmounted PROVE Window' /\ ReadsBack'
  BY <1>2, SectorFacts DEF Unmounted, Window, ReadsBack
<1>3. CASE \E c \in Calls : CheckStatus(c)
  BY <1>1, <1>2, <1>3 DEF CheckStatus, closeImageFiles, volume
<1>4. CASE CheckInit \/ FindUnmounted \/ ImagesOpened \/ FatInWindow
  BY <1>1, <1>4 DEF CheckInit, FindUnmounted, ImagesOpened, FatInWindow, volume
<1>5. CASE FindMounted
  BY <1>1, <1>2, <1>5 DEF FindMounted, volume
<1>6. CASE FindBoot
  <2>1. CASE UNCHANGED volume
    BY <1>1, <1>6, <2>1 DEF FindBoot, volume
  <2>2. CASE fs' = [Unmounted EXCEPT !.card = slot, !.sect = META] /\ told' = Nothing
    <3>1. fs'.sect = META /\ fs'.dirty = FALSE
      BY <2>2 DEF Unmounted
    <3> QED
      BY <2>2, <3>1, SectorFacts DEF Nothing, Window, ReadsBack
  <2> QED
    BY <1>6, <2>1, <2>2 DEF FindBoot
<1>7. CASE OpenImage \/ MoveWindow
  \* A clean window moves, and what was in it is on the card.
  <2>1. /\ ~ fs.dirty /\ fs'.dirty = fs.dirty /\ fs'.card = fs.card
        /\ img' = img /\ told' = told
    BY <1>7 DEF OpenImage, MoveWindow, Mounted, VolumeOK
  <2>2. fs'.sect \in Slots => fs'.data = img[fs.card][fs'.sect]
    <3>1. CASE OpenImage
      BY <3>1, SectorFacts DEF OpenImage, VolumeOK
    <3>2. CASE MoveWindow
      <4> PICK ok \in BOOLEAN :
            /\ pc \in {"seekfat", "fat", "data"} /\ Transfer(ok)
            /\ fs' = [fs EXCEPT !.sect = IF ok THEN Target ELSE NOSECT,
                        !.data = IF ok /\ pc = "data" THEN img[slot][Target] ELSE 0]
        BY <3>2 DEF MoveWindow
      <4>1. fs'.sect = (IF ok THEN Target ELSE NOSECT)
        BY DEF VolumeOK
      <4>2. fs'.data = IF ok /\ pc = "data" THEN img[slot][Target] ELSE 0
        BY DEF VolumeOK
      <4>3. CASE ok /\ pc = "data"
        BY <4>1, <4>2, <4>3, TransferFacts DEF Mounted, Trusted
      <4>4. CASE ~ (ok /\ pc = "data")
        BY <4>1, <4>4, SectorFacts DEF Target
      <4> QED
        BY <4>3, <4>4
    <3> QED
      BY <1>7, <3>1, <3>2
  <2> QED
    BY <2>1, <2>2 DEF Window, ReadsBack, Latest
<1>8. CASE Seek \/ Access
  BY <1>1, <1>8 DEF Seek, Access, Validate, volume
<1>9. CASE SyncWindow
  \* Whether or not the sector got to the card, CP/M sees it in the window.
  <2>1. /\ fs'.card = fs.card /\ fs'.sect = fs.sect /\ fs'.data = fs.data
        /\ told' = told /\ fs.dirty
    BY <1>9 DEF SyncWindow, VolumeOK
  <2>2. fs.card \in Cards /\ fs.sect \in Slots
    BY <2>1 DEF VolumeOK, Window, Mounted
  <2>3. CASE UNCHANGED <<img, fs>>
    BY <1>1, <2>1, <2>3
  <2>4. CASE img' = [img EXCEPT ![slot][fs.sect] = fs.data] /\ slot = fs.card
    <3>1. img'[fs.card] = [img[fs.card] EXCEPT ![fs.sect] = fs.data]
      BY <2>2, <2>4 DEF ImagesOK
    <3>2. \A x \in Slots : img'[fs.card][x] = IF x = fs.sect THEN fs.data ELSE img[fs.card][x]
      BY <2>2, <3>1 DEF ImagesOK
    <3> QED
      BY <2>1, <2>2, <3>2 DEF Window, ReadsBack, Latest
  <2> QED
    BY <1>9, <2>3, <2>4, TransferFacts DEF SyncWindow, Flushed, Trusted, Mounted
<1>10. CASE Copied
  <2>1. CASE call.op = "write"
    <3>1. /\ Target \in Slots /\ fs.sect = Target
          /\ fs'.card = fs.card /\ fs'.sect = Target /\ fs'.data = call.data /\ fs'.dirty
          /\ img' = img /\ told' = [told EXCEPT ![Target] = call.data]
      BY <1>10, <2>1, TargetFacts DEF Copied, VolumeOK
    <3>2. \A x \in Slots : told'[x] = IF x = Target THEN call.data ELSE told[x]
      BY <3>1 DEF VolumeOK
    <3> QED
      BY <3>1, <3>2 DEF Window, ReadsBack, Latest
  <2>2. CASE call.op # "write"
    BY <1>1, <1>10, <2>2 DEF Copied
  <2> QED
    BY <2>1, <2>2
<1>11. CASE User \/ Clock
  BY <1>1, <1>11 DEF User, Clock, volume
<1> QED
  BY <1>3, <1>4, <1>5, <1>6, <1>7, <1>8, <1>9, <1>10, <1>11 DEF Step

\* A file that is good was found on the card that is mounted: a mount makes a
\* file of an earlier one bad.
LEMMA StepDirectory ==
  ASSUME Inv, Step \/ User \/ Clock, flaky' = flaky
  PROVE  OwnDirectory'
<1> USE TypeParts DEF Inv
<1>1. ASSUME fs'.card \in {fs.card, NONE}, file' = file PROVE OwnDirectory'
  BY <1>1 DEF OwnDirectory
<1>2. CASE (\E c \in Calls : CheckStatus(c)) \/ FindMounted
  BY <1>1, <1>2 DEF CheckStatus, FindMounted, closeImageFiles, Unmounted, volume, OwnDirectory
<1>3. CASE CheckInit \/ FindUnmounted \/ ImagesOpened \/ FatInWindow \/ Seek \/ Access \/ User \/ Clock
  BY <1>1, <1>3 DEF CheckInit, FindUnmounted, ImagesOpened, FatInWindow, Seek, Access,
     Validate, User, Clock, volume
<1>4. CASE FindBoot
  <2>1. CASE UNCHANGED volume
    BY <1>1, <2>1 DEF volume
  <2>2. CASE file' = [d \in Disks |-> [file[d] EXCEPT !.valid = FALSE]]
    <3>1. \A d \in Disks : file'[d].valid = FALSE
      BY <2>2 DEF VolumeOK
    <3> QED
      BY <3>1 DEF OwnDirectory
  <2> QED
    BY <1>4, <2>1, <2>2 DEF FindBoot
<1>5. CASE OpenImage
  <2> DEFINE d == (opening + 1) \div 2
  <2> PICK ok \in BOOLEAN, found \in BOOLEAN :
        /\ pc = "dir" /\ Transfer(ok) /\ Opens(found) /\ (found => ok)
        /\ file' = [file EXCEPT ![d] =
             IF found THEN [open |-> TRUE, valid |-> TRUE, err |-> FALSE, card |-> slot]
             ELSE Closed]
        /\ fs' = IF ok THEN [fs EXCEPT !.sect = META] ELSE [fs EXCEPT !.sect = NOSECT]
    BY <1>5 DEF OpenImage
  <2>1. d \in Disks
    BY OpensFacts DEF PlaceOK
  <2>2. fs'.card = fs.card
    BY DEF VolumeOK
  <2> HIDE DEF d
  <2>3. \A e \in Disks \ {d} : file'[e] = file[e]
    BY <2>1 DEF VolumeOK
  <2>4. file'[d].valid => file'[d].card = fs.card
    <3>1. CASE found
      BY <2>1, <3>1, TransferFacts DEF VolumeOK, Trusted, Mounted
    <3>2. CASE ~ found
      BY <2>1, <3>2 DEF VolumeOK, Closed
    <3> QED
      BY <3>1, <3>2
  <2> QED
    BY <2>2, <2>3, <2>4 DEF OwnDirectory
<1>6. CASE SyncWindow \/ MoveWindow \/ Copied
  \* At most the file's error changes.
  <2>1. fs'.card = fs.card
    BY <1>6 DEF SyncWindow, MoveWindow, Copied, VolumeOK
  <2>2. CASE file' = file
    BY <1>1, <2>1, <2>2
  <2>3. CASE file' = [file EXCEPT ![disk_].err = TRUE]
    <3>1. \A d \in Disks : file'[d].valid = file[d].valid /\ file'[d].card = file[d].card
      BY <2>3 DEF VolumeOK
    <3> QED
      BY <2>1, <3>1 DEF OwnDirectory
  <2> QED
    BY <1>6, <2>2, <2>3 DEF SyncWindow, MoveWindow, Copied, Fail
<1> QED
  BY <1>2, <1>3, <1>4, <1>5, <1>6 DEF Step

-----------------------------------------------------------------------------
\* It all holds as the images are about to be opened at first.
LEMMA InitInv == Init => Inv
<1> SUFFICES ASSUME Init PROVE Inv
  OBVIOUS
<1>1. ~ fs.dirty /\ fs.card = NONE /\ fs.sect = NOSECT
  BY DEF Init, Unmounted
<1>2. DriveOK
  BY DEF Init, DriveInit, DriveOK
<1>3. VolumeOK /\ ImagesOK
  BY VolumeFacts DEF Init, VolumeOK, ImagesOK
<1>4. CallOK /\ PlaceOK
  <2>1. CallOK
    BY SectorFacts DEF Init, CallOK
  <2>2. 0 \in 0 .. 2 * DISKS + 1 /\ 0 <= 2 * DISKS
    BY SectorFacts
  <2> QED
    BY <2>1, <2>2, SectorFacts DEF Init, PlaceOK
<1>5. Trusted /\ Mounted /\ Window /\ OwnDirectory /\ ReadsBack
  BY <1>1, SectorFacts DEF Init, DriveInit, Trusted, Mounted, Window, OwnDirectory, ReadsBack
<1> QED
  BY <1>2, <1>3, <1>4, <1>5, TypeParts DEF Inv

\* And every step keeps it.
LEMMA NextInv == Inv /\ [Next]_vars => Inv'
<1> SUFFICES ASSUME Inv, [Next]_vars PROVE Inv'
  OBVIOUS
<1>1. CASE Next
  BY <1>1, StepType, StepTrusted, StepMounted, StepWindow, StepDirectory DEF Next, Inv
<1>2. CASE UNCHANGED vars
  BY <1>2 DEF vars, drive, Inv, TypeOK, DriveOK, Trusted, Mounted, Window, OwnDirectory,
     ReadsBack, Latest
<1> QED
  BY <1>1, <1>2

\* The invariant.
THEOREM Invariant == Spec => []Inv
BY InitInv, NextInv, PTL DEF Spec

\* Each variable keeps its type.
THEOREM TypeInvariant == Spec => []TypeOK
<1>1. Inv => TypeOK
  BY DEF Inv
<1> QED
  BY <1>1, Invariant, PTL

\* CP/M reads what it has written as long as the card stays mounted.
THEOREM ReadBack == Spec => []ReadsBack
<1>1. Inv => ReadsBack
  BY DEF Inv
<1> QED
  BY <1>1, Invariant, PTL

\* No card is accessed by way of another's directory.
THEOREM Directories == Spec => []OwnDirectory
<1>1. Inv => OwnDirectory
  BY DEF Inv
<1> QED
  BY <1>1, Invariant, PTL

\* What is written to a card was meant for this card: the window can only be
\* written to the card it came from.
THEOREM Written == Spec => OnlyWhatWasWritten
<1> DEFINE A == \A c \in Cards, x \in Slots : img'[c][x] # img[c][x] =>
                   fs.card = c /\ told[x] = img'[c][x]
<1>1. Inv /\ [Next]_vars => [A]_vars
  <2> SUFFICES ASSUME Inv, Next PROVE A
    OBVIOUS
  <2>1. CASE SyncWindow
    <3>1. CASE img' = img
      BY <3>1
    <3>2. CASE img' = [img EXCEPT ![slot][fs.sect] = fs.data] /\ slot = fs.card
      BY <2>1, <3>2, TypeParts DEF SyncWindow, Inv, Window, ImagesOK
    <3> QED
      BY <2>1, <3>1, <3>2, TransferFacts, TypeParts DEF SyncWindow, Flushed, Inv, Trusted, Mounted
  <2>2. CASE ~ SyncWindow
    <3>1. img' = img
      BY <2>2 DEF Next, Step, CheckStatus, CheckInit, FindMounted, FindUnmounted, FindBoot,
         OpenImage, ImagesOpened, Seek, Access, Validate, MoveWindow, FatInWindow, Copied,
         User, Clock
    <3> QED
      BY <3>1
  <2> QED
    BY <2>1, <2>2
<1> QED
  BY <1>1, Invariant, PTL DEF Spec, OnlyWhatWasWritten

\* A mount ends only for a card that does not answer.
THEOREM Mounts == Spec => MountLasts
<1> DEFINE A == fs.card # NONE /\ fs'.card = NONE => ~ live \/ flaky
<1>1. Inv /\ [Next]_vars => [A]_vars
  <2> SUFFICES ASSUME Inv, Next, fs.card # NONE, fs'.card = NONE PROVE ~ live \/ flaky
    OBVIOUS
  <2>1. CASE disk_status /\ dstat' = "NOINIT"
    BY <2>1, StatusFacts DEF Inv, TypeOK, Trusted
  <2>2. CASE ~ (disk_status /\ dstat' = "NOINIT")
    <3>1. CASE (\E c \in Calls : CheckStatus(c)) \/ FindMounted \/ CheckInit \/ FindUnmounted
      <4>1. disk_status => dstat' = "OK"
        BY <2>2, StatusFacts DEF Inv, TypeOK
      <4> QED
        BY <3>1, <4>1 DEF CheckStatus, FindMounted, CheckInit, FindUnmounted, volume
    <3>2. CASE FindBoot
      BY <3>2 DEF FindBoot, Inv, Mounted
    <3>3. CASE OpenImage \/ SyncWindow \/ MoveWindow \/ Copied
      <4>1. fs'.card = fs.card
        BY <3>3, TypeParts DEF OpenImage, SyncWindow, MoveWindow, Copied, Inv, VolumeOK
      <4> QED
        BY <4>1
    <3>4. CASE ImagesOpened \/ Seek \/ Access \/ FatInWindow \/ User \/ Clock
      BY <3>4 DEF ImagesOpened, Seek, Access, Validate, FatInWindow, User, Clock, volume
    <3> QED
      BY <3>1, <3>2, <3>3, <3>4 DEF Next, Step
  <2> QED
    BY <2>1, <2>2
<1> QED
  BY <1>1, Invariant, PTL DEF Spec, MountLasts
=============================================================================
