------------------------------ MODULE Console -------------------------------
(***************************************************************************)
(* The console: the eZ80 writes to a VGA terminal (terminal.spin), which   *)
(* cannot reach it; what the terminal has to say, and first of all XOFF and*)
(* XON, goes to the keyboard controller, which passes it on between the    *)
(* keys.                                                                   *)
(***************************************************************************)
EXTENDS Keyboard

CONSTANTS VBUF, HIGH, LOW,  \* the terminal's input buffer, and its marks
          RXQSIZ            \* of the keyboard controller's queue

ASSUME ConsoleAssumption ==
  /\ VBUF \in Nat /\ HIGH \in Nat /\ LOW \in Nat /\ RXQSIZ \in Nat
  /\ 0 < LOW /\ LOW <= HIGH /\ HIGH <= VBUF /\ RXQSIZ > 1

VARIABLES
  vbuf,     \* how many bytes the terminal has not read: any bytes
  vhold,    \* it has said XOFF
  reading   \* past the flow control, waiting for a character

terminal == <<vbuf, vhold, reading>>
vars == <<ez, out, keyboard, terminal>>

\* _UART1_RX_ISR(): the ring does not look whether it is full, and then is empty.
Pass(m) ==
  IF Len(rxq) + 1 = RXQSIZ
  THEN rxq' = <<>> /\ ez' = [ez EXCEPT !.lost = TRUE]
  ELSE rxq' = Append(rxq, m) /\ UNCHANGED ez

notrxq == <<usb, state, report, repeat, base, isr>>

\* write_UART0(): the byte, when nobody holds it; a full terminal loses it.
Put ==
  /\ out = "writing" /\ ez.hold = {}
  /\ vbuf' = IF vbuf < VBUF THEN vbuf + 1 ELSE vbuf
  /\ UNCHANGED <<ez, out, keyboard, vhold, reading>>

\* The terminal's main loop: XON/XOFF handling ...
FlowControl_Late ==                  \* mutant: XON only when the buffer was full
  /\ ~reading /\ reading' = TRUE
  /\ IF vhold /\ vbuf = VBUF - 1 THEN vhold' = FALSE /\ Pass("XON")
     ELSE IF ~vhold /\ vbuf >= HIGH THEN vhold' = TRUE /\ Pass("XOFF")
     ELSE UNCHANGED <<vhold, rxq, ez>>
  /\ UNCHANGED <<vbuf, notrxq, out>>
FlowControl ==
  /\ ~reading /\ reading' = TRUE
  /\ IF vhold /\ vbuf < LOW THEN vhold' = FALSE /\ Pass("XON")
     ELSE IF ~vhold /\ vbuf >= HIGH THEN vhold' = TRUE /\ Pass("XOFF")
     ELSE UNCHANGED <<vhold, rxq, ez>>
  /\ UNCHANGED <<vbuf, notrxq, out>>

\* ... and a character.  While it beeps nobody may write.
ReadChar ==
  /\ reading /\ vbuf > 0
  /\ reading' = FALSE
  /\ vbuf' = vbuf - 1
  /\ \/ UNCHANGED <<vhold, rxq, ez>>
     \/ Pass("ENQ") /\ UNCHANGED vhold                 \* ENQ
     \/ ~vhold /\ vhold' = TRUE /\ Pass("XOFF")        \* BEL
  /\ UNCHANGED <<notrxq, out>>

-----------------------------------------------------------------------------
Terminal == FlowControl \/ ReadChar
Program  == \/ (Getch \/ StartWrite \/ Wrote) /\ UNCHANGED <<keyboard, terminal>>
            \/ Put
Controller == (Timer \/ TimerByte \/ SendByte \/ Sent \/ Tasks \/ Process)
              /\ UNCHANGED terminal
User == Plug /\ UNCHANGED terminal

Init == /\ InitUart /\ InitKeyboard
        /\ vbuf = 0 /\ vhold = FALSE /\ reading = FALSE

Next == Terminal \/ Program \/ Controller \/ User

Spec == Init /\ [][Next]_vars

On(A) == A /\ UNCHANGED terminal

\* The terminal and the main loop run for ever.  The loop gets round many times
\* between two ticks of the timer: it finds the state CONNECTED, and what the
\* terminal has sent, before the timer changes it.  The host is not busy for
\* ever, every USB transfer ends, and 120 times a second is more than a user
\* types: again and again a read ends with no data.
Fairness ==
  /\ WF_vars(Terminal)
  /\ WF_vars(On(TimerByte)) /\ WF_vars(On(SendByte \/ Sent \/ Process))
  /\ WF_vars(On(Detach \/ Reset \/ Connect \/ StartRead \/ StartWriteLeds \/ WroteLeds))
  /\ SF_vars(On(NoReport)) /\ SF_vars(On(Relay))
FairSpec == Spec /\ Fairness

-----------------------------------------------------------------------------
\* Every variable has its type; a key the controller repeats is one that sends
\* something.
TypeOK ==
  /\ ez.fifo \in 0..FIFOSIZE /\ ez.hold \subseteq {0, 1} /\ ez.lost \in BOOLEAN
  /\ out \in {"free", "writing"}
  /\ dev \in BOOLEAN /\ addr \in BOOLEAN
  /\ state \in {"NOT_CONNECTED", "WAITING", "CONNECTED", "GET", "INPUT_PENDING", "SEND",
                "OUTPUT_PENDING"}
  /\ {keydown, savekeydown} \subseteq Keys \cup {NONE}
  /\ downcnt \in 0..FIRST /\ rptdelay \in {FIRST, REPEAT}
  /\ vbuf \in 0..VBUF /\ Len(rxq) < RXQSIZ

\* What a key sends, and an answer to the terminal, come out whole: the
\* interrupt's repeats never fall between their bytes (NRSendStr()).
Whole == pc = "send" => isr = <<>>

\* A key that repeats is down in the last report, unless its keyboard has been
\* detached since.
RepeatsHeld ==
  (pc = "tasks" /\ keydown # NONE) => (keydown \in old \/ stuck)

\* What the interrupt repeats is down, without exception, as
\* App_ProcessInputReport() has it: "if repeating, but the repeated key is no
\* longer pressed, stop".
RepeatsPressed == (pc = "tasks" /\ isr # <<>>) => keydown \in old

\* What is on its way from the terminal to the eZ80, oldest first, and what the
\* last of its flow control says.
OnTheWay == (IF pc = "send" THEN msg ELSE <<>>) \o rxq
FlowAt == {i \in 1..Len(OnTheWay) : OnTheWay[i] \in Flow}
LastFlow == CHOOSE i \in FlowAt : \A j \in FlowAt : j <= i

\* Terminal and eZ80 agree about who holds: once what is on its way has
\* arrived, the eZ80 is held exactly if the terminal wants it to be, whatever
\* is typed meanwhile, ^C and ^Q too, unless a byte was dropped.
Agree ==
  ~ez.lost =>
    vhold = IF FlowAt = {} THEN 1 \in ez.hold ELSE OnTheWay[LastFlow] = "XOFF"

\* Output goes on: the terminal's hold ends, unless the XON was dropped or the
\* keyboard, which passes it on, is not there.
Flows == (1 \in ez.hold) ~> (1 \notin ez.hold \/ ez.lost \/ ~dev)

=============================================================================
