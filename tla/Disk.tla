-------------------------------- MODULE Disk --------------------------------
(***************************************************************************)
(* The SD card in its slot, and diskio.c, which finds out about it by      *)
(* trying: a card that answers is trusted for two seconds.  A card that    *)
(* has just been put in does not answer before it is initialized, so the   *)
(* driver cannot take one card for another.                                *)
(***************************************************************************)
CONSTANTS
  Cards,    \* SD cards
  NONE      \* no card

ASSUME CardsAssumption == NONE \notin Cards

VARIABLES
  slot,     \* the card in the slot
  live,     \* it has been initialized since it was put in
  dstat,    \* drive status: "OK" (0) or "NOINIT"
  timer,    \* TMR0 counts down its two seconds
  flaky     \* the card sometimes times out (a constant of the behaviour)

drive == <<slot, live, dstat, timer>>

\* What a command that reads or writes a sector may come back with.
Answers == {slot # NONE /\ live} \cup (IF flaky THEN {FALSE} ELSE {})

\* disk_status(0)
disk_status_NoCheck ==             \* mutant: a card that was there still is
  UNCHANGED drive
disk_status_NoRead ==              \* mutant: does not try whether the card answers
  /\ dstat' = IF timer THEN dstat ELSE "NOINIT"
  /\ UNCHANGED <<slot, live, timer>>
disk_status ==
  /\ IF dstat = "OK" /\ ~ timer
     THEN \E ok \in Answers : /\ dstat' = IF ok THEN "OK" ELSE "NOINIT"
                              /\ timer' = ok
     ELSE UNCHANGED <<dstat, timer>>
  /\ UNCHANGED <<slot, live>>

\* disk_initialize(0): CMD0 to CMD58 make a card live.
disk_initialize ==
  /\ \E ok \in {slot # NONE} \cup (IF flaky THEN {FALSE} ELSE {}) :
       /\ dstat' = IF ok THEN "OK" ELSE "NOINIT"
       /\ timer' = (ok \/ timer)
       /\ live' \in IF ok THEN {TRUE} ELSE {live, FALSE}
  /\ UNCHANGED slot

\* disk_read() and disk_write() of one sector; ok: RES_OK.
Transfer_Retry(ok) ==              \* mutant: initializes the card and tries again
  /\ ok = (dstat = "OK" /\ slot # NONE)
  /\ live' = (live \/ ok)
  /\ timer' = (ok \/ timer)
  /\ UNCHANGED <<slot, dstat>>
Transfer(ok) ==
  /\ IF dstat = "OK" THEN ok \in Answers ELSE ok = FALSE
  /\ timer' = (ok \/ timer)
  /\ UNCHANGED <<slot, live, dstat>>

-----------------------------------------------------------------------------
\* The user's hand, and the clock.
Pull ==
  /\ slot # NONE
  /\ slot' = NONE /\ live' = FALSE
  /\ UNCHANGED <<dstat, timer>>

Insert(c) ==
  /\ slot = NONE
  /\ slot' = c /\ live' = FALSE
  /\ UNCHANGED <<dstat, timer>>

TimerEnds ==
  /\ timer
  /\ timer' = FALSE
  /\ UNCHANGED <<slot, live, dstat>>

DriveInit ==
  /\ slot \in Cards \cup {NONE} /\ live = FALSE
  /\ dstat = "NOINIT" /\ timer = FALSE
  /\ flaky \in BOOLEAN

DriveOK ==
  /\ slot \in Cards \cup {NONE} /\ live \in BOOLEAN
  /\ dstat \in {"OK", "NOINIT"} /\ timer \in BOOLEAN /\ flaky \in BOOLEAN
=============================================================================
