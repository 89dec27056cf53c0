------------------------------ MODULE Keyboard ------------------------------
(***************************************************************************)
(* The keyboard controller: its main loop (APP_HostHIDKeyboardTasks) reads *)
(* reports from a USB keyboard and passes on what the terminal sends, and  *)
(* a timer's interrupt starts the reads and repeats the key that is held.  *)
(* Both write to the eZ80, byte by byte; the interrupt runs to its end.    *)
(*                                                                         *)
(* A key is what it is with its modifiers; a report is the set of keys that*)
(* are down.                                                               *)
(***************************************************************************)
EXTENDS Uart, Sequences

CONSTANTS
  Keys,          \* keys that send something
  Str,           \* what they send: a sequence of bytes
  Ident,         \* the answer to an inquiry
  LOCK, MOD,     \* caps lock, and a modifier
  NONE,          \* no key
  Reports,       \* what a keyboard may report
  FIRST, REPEAT  \* FIRST_DELAY, and the delay of the next repeats

ASSUME KeyboardAssumption ==
  /\ LOCK \notin Keys /\ MOD \notin Keys /\ NONE \notin Keys \cup {LOCK, MOD} /\ LOCK # MOD
  /\ Str \in [Keys -> Seq(Bytes \ Flow)] /\ Ident \in Seq(Bytes \ Flow)   \* 7 bits
  /\ Reports \subseteq SUBSET (Keys \cup {LOCK, MOD})
  /\ FIRST \in Nat /\ REPEAT \in Nat /\ FIRST > 1 /\ REPEAT > 0

VARIABLES
  dev,                        \* a keyboard is plugged in and running
  addr,                       \* keyboard.address is not 0
  state,                      \* keyboard.state
  old, now, news,             \* oldData; data of the report; keys yet to look at
  leds,                       \* keyboard.leds.updated
  keydown, downcnt, rptdelay, \* auto-repeat
  stuck,                      \* ghost: a key was down when its keyboard was detached
  pc, back,                   \* where the main loop is, and returns to
  msg, savekeydown,           \* NRSendStr(): what is left to send
  isr,                        \* what is left to send in the interrupt
  rxq                         \* what has come from the terminal

usb    == <<dev, addr>>
report == <<old, now, news, leds>>
repeat == <<keydown, downcnt, rptdelay, stuck>>
base   == <<pc, back, msg, savekeydown>>
keyboard == <<usb, state, report, repeat, base, isr, rxq>>

Base(where) == isr = <<>> /\ pc = where

-----------------------------------------------------------------------------
(* APP_HostHIDTimerHandler(), 120 times a second. *)
Timer ==
  /\ isr = <<>> /\ state = "CONNECTED"
  /\ state' = "GET"
  /\ IF keydown = NONE THEN UNCHANGED <<downcnt, rptdelay, isr>>
     ELSE IF downcnt + 1 < rptdelay
     THEN downcnt' = downcnt + 1 /\ UNCHANGED <<rptdelay, isr>>
     ELSE isr' = Str[keydown] /\ downcnt' = 0 /\ rptdelay' = REPEAT
  /\ UNCHANGED <<usb, report, keydown, stuck, base, rxq, ez, out>>

TimerByte ==
  /\ isr # <<>>
  /\ ez' = Receive(ez, Head(isr))
  /\ isr' = Tail(isr)
  /\ UNCHANGED <<usb, state, report, repeat, base, rxq, out>>

-----------------------------------------------------------------------------
(* NRSendStr(): no repeats while it sends. *)
NRSendStr_Repeats(s, to) ==            \* mutant: keydown is not cleared
  /\ savekeydown' = keydown
  /\ msg' = s /\ pc' = "send" /\ back' = to
  /\ UNCHANGED <<keydown, stuck>>
NRSendStr(s, to) ==
  /\ savekeydown' = keydown /\ keydown' = NONE
  /\ msg' = s /\ pc' = "send" /\ back' = to
  /\ UNCHANGED stuck

SendByte ==
  /\ Base("send") /\ msg # <<>>
  /\ ez' = Receive(ez, Head(msg))
  /\ msg' = Tail(msg)
  /\ UNCHANGED <<usb, state, report, repeat, pc, back, savekeydown, isr, rxq, out>>

Sent ==
  /\ Base("send") /\ msg = <<>>
  /\ keydown' = savekeydown /\ savekeydown' = NONE
  /\ pc' = back /\ back' = "tasks"
  /\ UNCHANGED <<usb, state, report, downcnt, rptdelay, stuck, msg, isr, rxq, ez, out>>

-----------------------------------------------------------------------------
(***************************************************************************)
(* APP_HostHIDKeyboardTasks(): the device comes and goes, then the states. *)
(***************************************************************************)
Detach ==
  /\ Base("tasks") /\ addr /\ ~dev
  /\ addr' = FALSE /\ state' = "WAITING"
  /\ old' = {} /\ now' = {} /\ leds' = FALSE
  /\ stuck' = (stuck \/ keydown # NONE)
  /\ UNCHANGED <<dev, news, keydown, downcnt, rptdelay, base, isr, rxq, ez, out>>

\* The rest of a call, in a state.
In(s) == /\ Base("tasks") /\ state = s
         /\ ~(addr /\ ~dev)
         /\ addr' = dev
         /\ UNCHANGED dev

\* DEVICE_NOT_CONNECTED, at the start; WAITING_FOR_DEVICE
Reset == /\ In("NOT_CONNECTED")
         /\ state' = "WAITING"
         /\ UNCHANGED <<report, repeat, base, isr, rxq, ez, out>>
Connect == /\ In("WAITING") /\ dev
           /\ state' = "CONNECTED"
           /\ UNCHANGED <<report, repeat, base, isr, rxq, ez, out>>

\* DEVICE_CONNECTED: something from the terminal.
Relay ==
  /\ In("CONNECTED") /\ rxq # <<>>
  /\ NRSendStr(IF Head(rxq) = "ENQ" THEN Ident ELSE <<Head(rxq)>>, "tasks")
  /\ rxq' = Tail(rxq)
  /\ UNCHANGED <<state, report, downcnt, rptdelay, isr, ez, out>>

\* GET_INPUT_REPORT, unless the host is busy; SEND_OUTPUT_REPORT
Start(from, to) ==
  /\ In(from)
  /\ state' = to
  /\ UNCHANGED <<report, repeat, base, isr, rxq, ez, out>>
StartRead  == Start("GET", "INPUT_PENDING")
StartWriteLeds == Start("SEND", "OUTPUT_PENDING")

\* INPUT_REPORT_PENDING: nothing, or an error; or a report.
NoReport == Start("INPUT_PENDING", "CONNECTED")
Report ==
  /\ In("INPUT_PENDING") /\ dev
  /\ now' \in Reports
  /\ state' = "CONNECTED" /\ pc' = "import"
  /\ UNCHANGED <<old, news, leds, repeat, back, msg, savekeydown, isr, rxq, ez, out>>

\* OUTPUT_REPORT_PENDING
WroteLeds ==
  /\ In("OUTPUT_PENDING")
  /\ state' = "CONNECTED" /\ leds' = FALSE
  /\ UNCHANGED <<old, now, news, repeat, base, isr, rxq, ez, out>>

-----------------------------------------------------------------------------
(* App_ProcessInputReport() *)

\* A new modifier, or the release of the key, ends the repeats.
Import_NoRelease ==                    \* mutant: the release is not looked for
  /\ Base("import")
  /\ keydown' = IF MOD \in now \ old THEN NONE ELSE keydown
  /\ stuck' = (stuck /\ keydown' # NONE)
  /\ news' = (now \ old) \ {MOD} /\ pc' = "report"
  /\ UNCHANGED <<usb, state, old, now, leds, downcnt, rptdelay, back, msg, savekeydown, isr,
                 rxq, ez, out>>
Import ==
  /\ Base("import")
  /\ keydown' = IF MOD \in now \ old \/ keydown \notin now THEN NONE ELSE keydown
  /\ stuck' = FALSE
  /\ news' = (now \ old) \ {MOD} /\ pc' = "report"
  /\ UNCHANGED <<usb, state, old, now, leds, downcnt, rptdelay, back, msg, savekeydown, isr,
                 rxq, ez, out>>

Lock ==
  /\ Base("report") /\ LOCK \in news
  /\ news' = news \ {LOCK}
  /\ leds' = TRUE /\ keydown' = NONE
  /\ UNCHANGED <<usb, state, old, now, downcnt, rptdelay, stuck, base, isr, rxq, ez, out>>

Press(k) ==
  /\ Base("report") /\ k \in news
  /\ news' = news \ {k}
  /\ keydown' = k /\ downcnt' = 0 /\ rptdelay' = FIRST
  /\ pc' = "press"
  /\ UNCHANGED <<usb, state, old, now, leds, stuck, back, msg, savekeydown, isr, rxq, ez, out>>

SendKey ==
  /\ Base("press")
  /\ NRSendStr(Str[keydown], "report")
  /\ UNCHANGED <<usb, state, report, downcnt, rptdelay, isr, rxq, ez, out>>

Processed ==
  /\ Base("report") /\ news = {}
  /\ old' = now /\ now' = {}
  /\ state' = IF leds THEN "SEND" ELSE state
  /\ pc' = "tasks"
  /\ UNCHANGED <<usb, news, leds, repeat, back, msg, savekeydown, isr, rxq, ez, out>>

-----------------------------------------------------------------------------
\* The user plugs a keyboard in or out; the next one not before the main loop
\* has seen that this one is gone.
Plug == /\ dev \/ ~addr
        /\ dev' = ~dev
        /\ UNCHANGED <<addr, state, report, repeat, base, isr, rxq, ez, out>>

Tasks == \/ Detach \/ Reset \/ Connect \/ Relay \/ StartRead \/ NoReport \/ Report
         \/ StartWriteLeds \/ WroteLeds
Process == Import \/ Lock \/ (\E k \in Keys : Press(k)) \/ SendKey \/ Processed

InitKeyboard ==
  /\ dev = FALSE /\ addr = FALSE /\ state = "NOT_CONNECTED"
  /\ old = {} /\ now = {} /\ news = {} /\ leds = FALSE
  /\ keydown = NONE /\ downcnt = 0 /\ rptdelay = FIRST /\ stuck = FALSE
  /\ pc = "tasks" /\ back = "tasks" /\ msg = <<>> /\ savekeydown = NONE
  /\ isr = <<>> /\ rxq = <<>>

=============================================================================
