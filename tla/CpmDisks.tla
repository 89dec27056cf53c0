------------------------------ MODULE CpmDisks ------------------------------
(***************************************************************************)
(* CP/M's disks: images in files of an SD card, which may be taken out and *)
(* exchanged at any moment, in the middle of a call too.  selectDisk(),    *)
(* readSector() and writeSector() over as much of FatFs as they meet: one  *)
(* mounted volume with a window of one sector, and a file for each image.  *)
(*                                                                         *)
(* A step is one access to the card.  A sector is an image's, or one of    *)
(* the volume's own ("meta"); its content is a number.  Once written it is *)
(* in the window, and on the card when the window moves.                   *)
(***************************************************************************)
EXTENDS Naturals, Disk

CONSTANTS
  DISKS,    \* number of disk images
  Sectors,  \* of an image
  Values    \* what CP/M writes

ASSUME DisksAssumption ==
  DISKS \in Nat \ {0} /\ Sectors # {} /\ 0 \notin Values /\ Values # {}

Disks  == 1 .. DISKS
Data   == Values \cup {0}               \* 0: what is on the cards at first
Slots  == Disks \X Sectors              \* the sectors CP/M sees
META   == <<0, 0>>                      \* a sector of the FAT or a directory
NOSECT == <<0, 1>>                      \* winsect = 0xFFFFFFFF

VARIABLES
  img,      \* the content of the images on each card
  fs,       \* the volume: its card, or NONE (fs_type = 0), and the window
  file,     \* imageFileOpen[] and imageFile[]; ghost: the card it was found on
  disk_,    \* the disk that is selected
  call,     \* the call CP/M makes
  opening,  \* what openImageFiles() tries: 0: to mount; 2d-1, 2d: to open image d
  pc,       \* the next access to the card, "idle" between calls
  told,     \* ghost: what CP/M wrote since the card was mounted
  late      \* ghost: a card was put in while openImageFiles() was at work

vars == <<drive, flaky, img, fs, file, disk_, call, opening, pc, told, late>>
volume == <<fs, file, told>>

Closed  == [open |-> FALSE, valid |-> FALSE, err |-> FALSE, card |-> NONE]
Unmounted == [card |-> NONE, sect |-> NOSECT, data |-> 0, dirty |-> FALSE]
Nothing == [x \in Slots |-> 0]          \* CP/M has written no sector

Calls ==
  {[op |-> "select", disk |-> d, sect |-> s, data |-> 0] : d \in Disks, s \in Sectors}
  \cup {[op |-> "read", disk |-> disk_, sect |-> s, data |-> 0] : s \in Sectors}
  \cup {[op |-> "write", disk |-> disk_, sect |-> s, data |-> x] :
          s \in Sectors, x \in Values}

-----------------------------------------------------------------------------
Return == pc' = "idle"

\* closeImageFiles(): f_unmount() drops what is in the window.
closeImageFiles ==
  /\ fs' = Unmounted
  /\ file' = [d \in Disks |-> Closed]
  /\ told' = Nothing /\ late' = FALSE

\* The image has to be open.  selectDisk() ends here.
CheckOpen(c) ==
  /\ pc' = IF file[c.disk].open /\ c.op # "select" THEN "seek" ELSE "idle"
  /\ disk_' = IF file[c.disk].open THEN c.disk ELSE disk_

\* CP/M calls: "Check for disk change or no disk"
CheckStatus(c) ==
  /\ pc = "idle" /\ call' = c /\ disk_status
  /\ IF dstat' = "NOINIT"
     THEN closeImageFiles /\ pc' = "init" /\ UNCHANGED disk_
     ELSE CheckOpen(c) /\ UNCHANGED <<volume, late>>
  /\ UNCHANGED <<img, opening>>

CheckInit ==
  /\ pc = "init" /\ disk_initialize
  /\ IF dstat' = "OK" THEN pc' = "find" /\ opening' = 0 ELSE Return /\ UNCHANGED opening
  /\ UNCHANGED <<img, volume, disk_, call, late>>        \* f_mount() finds no mount to end

\* openImageFiles(): f_mount(), then f_open() of every image in the root and,
\* if that failed, in /etc.
Opens_Beyond(found) ==                  \* mutant: disk <= SD_CARD_DISKS
  LET d == (opening + 1) \div 2
  IN  /\ opening' = IF found /\ opening > 0 THEN 2 * d + 1 ELSE opening + 1
      /\ pc' = IF opening' > 2 * DISKS + 2
               THEN IF call.op = "start" THEN "idle" ELSE "check"
               ELSE "find"
Opens(found) ==
  LET d == (opening + 1) \div 2
  IN  /\ opening' = IF found /\ opening > 0 THEN 2 * d + 1 ELSE opening + 1
      /\ pc' = IF opening' > 2 * DISKS
               THEN IF call.op = "start" THEN "idle" ELSE "check"
               ELSE "find"

\* find_volume(): a volume that is mounted is good if the drive still is.
FindMounted ==
  /\ pc = "find" /\ fs.card # NONE
  /\ disk_status
  /\ IF dstat' = "OK" THEN pc' = "dir" /\ UNCHANGED volume
     ELSE pc' = "find" /\ fs' = Unmounted /\ told' = Nothing /\ UNCHANGED file
  /\ UNCHANGED <<img, disk_, call, opening, late>>

FindUnmounted ==
  /\ pc = "find" /\ fs.card = NONE
  /\ disk_initialize
  /\ IF dstat' = "OK" THEN pc' = "boot" /\ UNCHANGED opening ELSE Opens(FALSE)
  /\ UNCHANGED <<img, volume, disk_, call, late>>

\* It reads the boot sector and gives the volume a new id: files that were
\* open are so no longer.
FindBoot_SameId ==                      \* mutant: without ++Fsid
  \E ok \in BOOLEAN :
    /\ pc = "boot" /\ Transfer(ok)
    /\ IF ok
       THEN /\ fs' = [Unmounted EXCEPT !.card = slot, !.sect = META]
            /\ UNCHANGED file /\ told' = Nothing
            /\ IF opening = 0 THEN Opens(TRUE) ELSE pc' = "dir" /\ UNCHANGED opening
       ELSE UNCHANGED volume /\ Opens(FALSE)
    /\ UNCHANGED <<img, disk_, call, late>>
FindBoot ==
  \E ok \in BOOLEAN :
    /\ pc = "boot" /\ Transfer(ok)
    /\ IF ok
       THEN /\ fs' = [Unmounted EXCEPT !.card = slot, !.sect = META]
            /\ file' = [d \in Disks |-> [file[d] EXCEPT !.valid = FALSE]]
            /\ told' = Nothing
            /\ IF opening = 0 THEN Opens(TRUE) ELSE pc' = "dir" /\ UNCHANGED opening
       ELSE UNCHANGED volume /\ Opens(FALSE)
    /\ UNCHANGED <<img, disk_, call, late>>

\* f_open() looks the image up.  It is in one of the two places.
OpenImage ==
  LET d == (opening + 1) \div 2
  IN  \E ok, found \in BOOLEAN :
        /\ pc = "dir" /\ Transfer(ok)
        /\ found => ok
        /\ ok /\ opening = 2 * d => found
        /\ file' = [file EXCEPT ![d] =
             IF found THEN [open |-> TRUE, valid |-> TRUE, err |-> FALSE, card |-> slot]
             ELSE Closed]
        /\ fs' = IF ok THEN [fs EXCEPT !.sect = META] ELSE [fs EXCEPT !.sect = NOSECT]
        /\ Opens(found)
        /\ UNCHANGED <<img, told, disk_, call, late>>

ImagesOpened ==
  /\ pc = "check" /\ CheckOpen(call)
  /\ UNCHANGED <<drive, img, volume, call, opening, late>>

-----------------------------------------------------------------------------
\* validate() of f_lseek(), f_read() and f_write(), and the error an earlier
\* call has left in the file.
Validate(next) ==
  /\ IF fs.card # NONE /\ file[disk_].valid
     THEN /\ disk_status
          /\ IF dstat' = "OK" /\ ~ file[disk_].err THEN pc' \in next ELSE Return
     ELSE UNCHANGED drive /\ Return
  /\ UNCHANGED <<img, volume, disk_, call, opening, late>>

\* Both may have to follow the chain of clusters in the FAT.
Seek == pc = "seek" /\ Validate({"seekfat", "file"})
Access == pc = "file" /\ Validate({"fat", "data"})

Target == IF pc = "data" THEN <<disk_, call.sect>> ELSE META
Fail == Return /\ file' = [file EXCEPT ![disk_].err = TRUE]

MoveWindow_NoSync ==                    \* mutant: without sync_window()
  \E ok \in BOOLEAN :
    /\ pc \in {"seekfat", "fat", "data"} /\ fs.sect # Target
    /\ Transfer(ok)
    /\ fs' = [fs EXCEPT !.sect = IF ok THEN Target ELSE NOSECT, !.dirty = FALSE,
                        !.data = IF ok /\ pc = "data" THEN img[slot][Target] ELSE 0]
    /\ IF ok THEN UNCHANGED file /\ pc' = (CASE pc = "seekfat" -> "file" [] OTHER -> "data")
             ELSE Fail
    /\ UNCHANGED <<img, told, disk_, call, opening, late>>

\* sync_window(), before the window moves, or as f_write() begins a sector.  A
\* write that is reported as failed may have reached the card.
Flushed == [img EXCEPT ![slot][fs.sect] = fs.data]

SyncWindow ==
  \E ok \in BOOLEAN :
    /\ pc \in {"seekfat", "fat", "data"} /\ fs.dirty
    /\ fs.sect # Target \/ call.op = "write"
    /\ Transfer(ok)
    /\ IF ok THEN /\ img' = Flushed
                  /\ fs' = [fs EXCEPT !.dirty = FALSE]
                  /\ UNCHANGED <<file, pc>>
             ELSE /\ img' \in {img} \cup (IF live /\ dstat = "OK" THEN {Flushed} ELSE {})
                  /\ Fail /\ UNCHANGED fs
    /\ UNCHANGED <<told, disk_, call, opening, late>>

\* move_window()
MoveWindow ==
  \E ok \in BOOLEAN :
    /\ pc \in {"seekfat", "fat", "data"} /\ fs.sect # Target /\ ~ fs.dirty
    /\ Transfer(ok)
    /\ fs' = [fs EXCEPT !.sect = IF ok THEN Target ELSE NOSECT,
                        !.data = IF ok /\ pc = "data" THEN img[slot][Target] ELSE 0]
    /\ IF ok THEN UNCHANGED file /\ pc' = (CASE pc = "seekfat" -> "file" [] OTHER -> "data")
             ELSE Fail
    /\ UNCHANGED <<img, told, disk_, call, opening, late>>

FatInWindow ==
  /\ pc \in {"seekfat", "fat"} /\ fs.sect = META
  /\ pc' = (CASE pc = "seekfat" -> "file" [] OTHER -> "data")
  /\ UNCHANGED <<drive, img, volume, disk_, call, opening, late>>

\* The sector is in the window: to CP/M, or from CP/M.
Copied ==
  /\ pc = "data" /\ fs.sect = Target /\ Return
  /\ IF call.op = "write"
     THEN /\ fs' = [fs EXCEPT !.data = call.data, !.dirty = TRUE]
          /\ told' = [told EXCEPT ![Target] = call.data]
     ELSE UNCHANGED <<fs, told>>
  /\ UNCHANGED <<drive, img, file, disk_, call, opening, late>>

-----------------------------------------------------------------------------
\* initCpmDiskio() is about to open the images.
Init ==
  /\ DriveInit
  /\ img = [c \in Cards |-> Nothing]
  /\ fs = Unmounted /\ file = [d \in Disks |-> Closed]
  /\ disk_ = 1 /\ opening = 0 /\ pc = "find"
  /\ \E s \in Sectors : call = [op |-> "start", disk |-> 1, sect |-> s, data |-> 0]
  /\ told = Nothing /\ late = FALSE

Step ==
  \/ \E c \in Calls : CheckStatus(c)
  \/ CheckInit
  \/ FindMounted \/ FindUnmounted \/ FindBoot \/ OpenImage
  \/ ImagesOpened \/ Seek \/ Access
  \/ SyncWindow \/ MoveWindow \/ FatInWindow \/ Copied

User ==
  /\ Pull \/ \E c \in Cards : Insert(c)
  /\ late' = (late \/ (slot = NONE /\ pc \in {"find", "boot", "dir"}))
  /\ UNCHANGED <<img, volume, disk_, call, opening, pc>>

Clock == TimerEnds /\ UNCHANGED <<img, volume, disk_, call, opening, pc, late>>

Next == (Step \/ User \/ Clock) /\ UNCHANGED flaky
Spec == Init /\ [][Next]_vars

\* CP/M keeps calling and every call returns; the timer runs down.  The user
\* need do nothing.
FairSpec ==
  Spec /\ WF_vars(Step /\ UNCHANGED flaky) /\ WF_vars(Clock /\ UNCHANGED flaky)

-----------------------------------------------------------------------------
TypeOK ==
  /\ DriveOK
  /\ img \in [Cards -> [Slots -> Data]] /\ told \in [Slots -> Data]
  /\ fs \in [card : Cards \cup {NONE}, sect : Slots \cup {META, NOSECT},
             data : Data, dirty : BOOLEAN]
  /\ file \in [Disks -> [open : BOOLEAN, valid : BOOLEAN, err : BOOLEAN,
                         card : Cards \cup {NONE}]]
  /\ disk_ \in Disks /\ opening \in 0 .. 2 * DISKS + 1
  /\ pc \in {"find", "boot", "dir"} => opening <= 2 * DISKS
  /\ pc = "dir" => opening > 0
  /\ call \in [op : {"start", "select", "read", "write"}, disk : Disks,
               sect : Sectors, data : Data]
  /\ call.op = "write" => call.data \in Values
  /\ pc \in {"idle", "init", "find", "boot", "dir", "check", "seek",
             "seekfat", "file", "fat", "data"}
  /\ late \in BOOLEAN

\* The exchange of a card never leads to a write on the new one of what was
\* meant for the old one: a card changes in a sector that CP/M has written since
\* this very card was mounted, and to what CP/M wrote.
OnlyWhatWasWritten ==
  [][\A c \in Cards, x \in Slots : img'[c][x] # img[c][x] =>
       fs.card = c /\ told[x] = img'[c][x]]_vars

\* What an image's clusters are comes from the directory of the card that is
\* mounted: a file found on another card is never good on this one.
OwnDirectory ==
  fs.card # NONE => \A d \in Disks : file[d].valid => file[d].card = fs.card

\* As long as a card is mounted CP/M reads what it has written to it, from the
\* window or from the card.
Latest(x) == IF fs.sect = x THEN fs.data ELSE img[fs.card][x]
ReadsBack ==
  fs.card # NONE => \A x \in Slots : told[x] # 0 => Latest(x) = told[x]

\* A mount, with what the window holds, is given up only when the card was
\* taken out, or does not answer.
MountLasts == [][fs.card # NONE /\ fs'.card = NONE => ~ live \/ flaky]_vars

\* A card that stays in is found and all of its images can be used, unless it
\* was put in while they were being opened.
Usable ==
  /\ fs.card = slot /\ live
  /\ \A d \in Disks : file[d].open /\ file[d].valid /\ ~ file[d].err
Settles == <>[](slot # NONE) => <>[](Usable \/ late \/ flaky)

\* What WRITE_TYPE_IMMEDIATE_WRITE stands for, CP/M's directory writes being of
\* that type: when the call returns the sector is on the card.
WrittenAtOnce ==
  pc = "idle" /\ fs.card # NONE => \A x \in Slots : told[x] # 0 => img[fs.card][x] = told[x]
=============================================================================
