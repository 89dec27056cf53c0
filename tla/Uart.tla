-------------------------------- MODULE Uart --------------------------------
(***************************************************************************)
(* The serial port of the eZ80 (UART0) as MakerLisp patches it: the        *)
(* interrupt routine takes ^C, XON and XOFF out of what comes in, and a    *)
(* program that writes waits while it is on hold.  The keyboard's ^S and   *)
(* ^Q (DC3, DC1) and the terminal's own flow control (XOFF, XON: the same  *)
(* with bit 7) hold it apart from each other.                              *)
(***************************************************************************)
EXTENDS Integers

CONSTANTS FIFOSIZE,    \* of the software receive FIFO
          Bytes        \* any; those that mean something have names

ASSUME UartAssumption ==
  /\ FIFOSIZE \in Nat \ {0}
  /\ {"ETX", "DC1", "DC3", "XON", "XOFF", "ENQ"} \subseteq Bytes

VARIABLES
  ez,     \* fifo: bytes in the receive FIFO; hold: bits of hold_UART0; lost
          \* (ghost): has a flow control byte been dropped, here or on its way
  out     \* the program is "free", or in the loop of write_UART0()

Flow == {"XON", "XOFF"}

\* addorbrk(), and what the interrupt routine does before: a byte that comes
\* when the FIFO is full is dropped, whatever it is.
Receive_BreakFrees(e, c) ==            \* mutant: ^C ends every hold
  IF e.fifo = FIFOSIZE THEN [e EXCEPT !.lost = @ \/ c \in Flow]
  ELSE CASE c = "ETX"  -> [e EXCEPT !.fifo = 0, !.hold = {}]
         [] c = "DC1"  -> [e EXCEPT !.hold = @ \ {0}]
         [] c = "XON"  -> [e EXCEPT !.hold = @ \ {1}]
         [] c = "DC3"  -> [e EXCEPT !.hold = @ \cup {0}]
         [] c = "XOFF" -> [e EXCEPT !.hold = @ \cup {1}]
         [] OTHER      -> [e EXCEPT !.fifo = @ + 1]
Receive(e, c) ==
  IF e.fifo = FIFOSIZE THEN [e EXCEPT !.lost = @ \/ c \in Flow]
  ELSE CASE c = "ETX"  -> [fifo |-> 0, hold |-> e.hold \ {0}, lost |-> e.lost]
         [] c = "DC1"  -> [e EXCEPT !.hold = @ \ {0}]
         [] c = "XON"  -> [e EXCEPT !.hold = @ \ {1}]
         [] c = "DC3"  -> [e EXCEPT !.hold = @ \cup {0}]
         [] c = "XOFF" -> [e EXCEPT !.hold = @ \cup {1}]
         [] OTHER      -> [e EXCEPT !.fifo = @ + 1]

\* getch()
Getch == /\ out = "free" /\ ez.fifo > 0
         /\ ez' = [ez EXCEPT !.fifo = @ - 1]
         /\ UNCHANGED out

\* write_UART0(): it waits before every byte, and after the last.
StartWrite == /\ out = "free"
              /\ out' = "writing"
              /\ UNCHANGED ez
Wrote == /\ out = "writing" /\ ez.hold = {}
         /\ out' = "free"
         /\ UNCHANGED ez

InitUart == /\ ez = [fifo |-> 0, hold |-> {}, lost |-> FALSE]
            /\ out = "free"

=============================================================================
