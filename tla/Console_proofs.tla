--------------------------- MODULE Console_proofs ---------------------------
(***************************************************************************)
(* The console's safety, proved for any keys and what they send, and for   *)
(* queues, marks and delays of any size.                                   *)
(***************************************************************************)
EXTENDS Console, SequenceTheorems, TLAPS

(***************************************************************************)
(* What the last flow control byte of s says of a hold, h being what there *)
(* is before s arrives.  Agree names the last one with CHOOSE; that there  *)
(* is a last one need not be shown this way.                               *)
(***************************************************************************)
NoneIn(s) == \A i \in 1..Len(s) : s[i] \notin Flow
Says(s, h, v) ==
  \/ NoneIn(s) /\ v = h
  \/ \E i \in 1..Len(s) : /\ s[i] \in Flow
                          /\ \A j \in (i + 1)..Len(s) : s[j] \notin Flow
                          /\ v = (s[i] = "XOFF")

\* A flow control byte at the end has the last word.
LEMMA SaysLast ==
  ASSUME NEW s \in Seq(Bytes), NEW c \in Flow, NEW h \in BOOLEAN
  PROVE  Says(Append(s, c), h, c = "XOFF")
<1>1. /\ Len(Append(s, c)) = Len(s) + 1 /\ Len(s) \in Nat
      /\ Append(s, c)[Len(s) + 1] = c
    BY DEF Flow
<1> QED
    BY <1>1 DEF Says

\* Another byte at the end changes nothing.
LEMMA SaysMore ==
  ASSUME NEW s \in Seq(Bytes), NEW c \in Bytes \ Flow, NEW h \in BOOLEAN, NEW v \in BOOLEAN,
         Says(s, h, v)
  PROVE  Says(Append(s, c), h, v)
<1> DEFINE t == Append(s, c)
<1>1. /\ Len(t) = Len(s) + 1 /\ Len(s) \in Nat
      /\ \A i \in 1..Len(s) : t[i] = s[i]
      /\ t[Len(s) + 1] = c
    OBVIOUS
<1> SUFFICES Says(t, h, v)
    OBVIOUS
<1> HIDE DEF t
<1>2. CASE NoneIn(s) /\ v = h
    BY <1>1, <1>2 DEF Says, NoneIn
<1>3. CASE \E i \in 1..Len(s) : /\ s[i] \in Flow
                                /\ \A j \in (i + 1)..Len(s) : s[j] \notin Flow
                                /\ v = (s[i] = "XOFF")
  <2>1. PICK i \in 1..Len(s) : /\ s[i] \in Flow
                               /\ \A j \in (i + 1)..Len(s) : s[j] \notin Flow
                               /\ v = (s[i] = "XOFF")
      BY <1>3
  <2>2. i \in 1..Len(t) /\ t[i] \in Flow /\ v = (t[i] = "XOFF")
      BY <1>1, <2>1
  <2>3. ASSUME NEW j \in (i + 1)..Len(t) PROVE t[j] \notin Flow
      BY <1>1, <2>1
  <2> QED
      BY <2>2, <2>3 DEF Says
<1> QED
    BY <1>2, <1>3 DEF Says

\* The first byte arrives.
LEMMA SaysTail ==
  ASSUME NEW s \in Seq(Bytes), s # <<>>, NEW h \in BOOLEAN, NEW v \in BOOLEAN,
         Says(s, h, v)
  PROVE  Says(Tail(s), IF Head(s) \in Flow THEN Head(s) = "XOFF" ELSE h, v)
<1> DEFINE t == Tail(s)
           g == IF Head(s) \in Flow THEN Head(s) = "XOFF" ELSE h
<1>1. /\ Len(t) = Len(s) - 1 /\ Len(s) \in Nat /\ Len(s) > 0
      /\ \A i \in 1..Len(t) : t[i] = s[i + 1]
      /\ Head(s) = s[1]
    BY HeadTailProperties, EmptySeq
<1>2. CASE NoneIn(s) /\ v = h
  <2>1. NoneIn(t)
      BY <1>1, <1>2 DEF NoneIn
  <2>2. g = h
      BY <1>1, <1>2 DEF NoneIn
  <2> QED
      BY <1>2, <2>1, <2>2 DEF Says
<1>3. CASE \E i \in 1..Len(s) : /\ s[i] \in Flow
                                /\ \A j \in (i + 1)..Len(s) : s[j] \notin Flow
                                /\ v = (s[i] = "XOFF")
  <2> PICK i \in 1..Len(s) : /\ s[i] \in Flow
                             /\ \A j \in (i + 1)..Len(s) : s[j] \notin Flow
                             /\ v = (s[i] = "XOFF")
      BY <1>3
  <2>1. \A j \in i..Len(t) : t[j] \notin Flow
      BY <1>1
  <2>2. CASE i = 1
    <3>1. NoneIn(t)
        BY <1>1, <2>1, <2>2 DEF NoneIn
    <3>2. v = g
        BY <1>1, <2>2
    <3> QED
        BY <3>1, <3>2 DEF Says
  <2>3. CASE i # 1
    <3>1. (i - 1) \in 1..Len(t) /\ t[i - 1] = s[i] /\ (i - 1) + 1 = i
        BY <1>1, <2>3
    <3> QED
        BY <2>1, <3>1 DEF Says
  <2> QED
      BY <2>2, <2>3
<1> QED
    BY <1>2, <1>3 DEF Says

\* Bytes of no concern in front change nothing.
LEMMA SaysBehind ==
  ASSUME NEW w \in Seq(Bytes), NoneIn(w), NEW s \in Seq(Bytes),
         NEW h \in BOOLEAN, NEW v \in BOOLEAN, Says(s, h, v)
  PROVE  Says(w \o s, h, v)
<1> DEFINE t == w \o s
<1>1. /\ Len(t) = Len(w) + Len(s) /\ Len(w) \in Nat /\ Len(s) \in Nat
      /\ \A i \in 1..Len(t) : t[i] = IF i <= Len(w) THEN w[i] ELSE s[i - Len(w)]
    BY ConcatProperties
<1> SUFFICES Says(t, h, v)
    OBVIOUS
<1> HIDE DEF t
<1>2. CASE NoneIn(s) /\ v = h
  <2>1. ASSUME NEW i \in 1..Len(t) PROVE t[i] \notin Flow
    <3>1. CASE i <= Len(w)
        BY <1>1, <3>1 DEF NoneIn
    <3>2. CASE i > Len(w)
      <4>1. i - Len(w) \in 1..Len(s) /\ t[i] = s[i - Len(w)]
          BY <1>1, <3>2
      <4> QED
          BY <1>2, <4>1 DEF NoneIn
    <3> QED
        BY <1>1, <3>1, <3>2
  <2>2. NoneIn(t)
      BY <2>1 DEF NoneIn
  <2> QED
      BY <1>2, <2>2 DEF Says
<1>3. CASE \E i \in 1..Len(s) : /\ s[i] \in Flow
                                /\ \A j \in (i + 1)..Len(s) : s[j] \notin Flow
                                /\ v = (s[i] = "XOFF")
  <2> PICK i \in 1..Len(s) : /\ s[i] \in Flow
                             /\ \A j \in (i + 1)..Len(s) : s[j] \notin Flow
                             /\ v = (s[i] = "XOFF")
      BY <1>3
  <2>1. (i + Len(w)) \in 1..Len(t) /\ t[i + Len(w)] = s[i]
      BY <1>1
  <2>2. ASSUME NEW j \in (i + Len(w) + 1)..Len(t) PROVE t[j] \notin Flow
    <3>1. j - Len(w) \in (i + 1)..Len(s) /\ t[j] = s[j - Len(w)]
        BY <1>1
    <3> QED
        BY <3>1
  <2> QED
      BY <2>1, <2>2 DEF Says
<1> QED
    BY <1>2, <1>3 DEF Says

\* What Says() says is what Agree says.
LEMMA SaysAgree ==
  ASSUME NEW v \in BOOLEAN, NEW h \in BOOLEAN,
         OnTheWay \in Seq(Bytes), Says(OnTheWay, h, v)
  PROVE  v = IF FlowAt = {} THEN h ELSE OnTheWay[LastFlow] = "XOFF"
<1> DEFINE s == OnTheWay
<1>0. Len(s) \in Nat
    BY LenProperties
<1>1. CASE NoneIn(s) /\ v = h
    BY <1>1 DEF NoneIn, FlowAt
<1>2. CASE \E i \in 1..Len(s) : /\ s[i] \in Flow
                                /\ \A j \in (i + 1)..Len(s) : s[j] \notin Flow
                                /\ v = (s[i] = "XOFF")
  <2> PICK i \in 1..Len(s) : /\ s[i] \in Flow
                             /\ \A j \in (i + 1)..Len(s) : s[j] \notin Flow
                             /\ v = (s[i] = "XOFF")
      BY <1>2
  <2>1. i \in FlowAt /\ \A j \in FlowAt : j <= i
    <3>1. i \in FlowAt
        BY DEF FlowAt
    <3>2. ASSUME NEW j \in FlowAt PROVE j <= i
      <4>1. j \in 1..Len(s) /\ s[j] \in Flow
          BY DEF FlowAt
      <4> QED
          BY <1>0, <4>1
    <3> QED
        BY <3>1, <3>2
  <2>2. LastFlow \in FlowAt /\ \A j \in FlowAt : j <= LastFlow
      BY <2>1 DEF LastFlow
  <2>3. LastFlow = i
      BY <1>0, <2>1, <2>2 DEF FlowAt
  <2> QED
      BY <2>1, <2>3
<1> QED
    BY <1>1, <1>2 DEF Says

-----------------------------------------------------------------------------
(* The invariant. *)

\* Where the main loop is, and the key that repeats.
KeyOK ==
  /\ keydown \in Keys \cup {NONE} /\ savekeydown \in Keys \cup {NONE}
  /\ pc \in {"tasks", "import", "report", "press", "send"} /\ back \in {"tasks", "report"}
  /\ pc = "press" => keydown \in Keys

EzType == [fifo : Int, hold : SUBSET {0, 1}, lost : BOOLEAN]
EzOK   == ez \in EzType

\* What is to be sent; only the terminal says XON and XOFF.
BytesOK == /\ msg \in Seq(Bytes) /\ isr \in Seq(Bytes) /\ rxq \in Seq(Bytes)
           /\ NoneIn(isr)
           /\ vhold \in BOOLEAN

\* While the main loop sends no key repeats.
Quiet == pc = "send" => keydown = NONE /\ isr = <<>>

\* The key that repeats, or will when NRSendStr() has put it back, is in the
\* report that counts: the last one, or the one being processed.
Processing == pc \in {"report", "press"} \/ (pc = "send" /\ back = "report")
InLast(k)  == k # NONE => k \in old \/ stuck
InNow(k)   == k # NONE => k \in now
Held ==
  /\ pc = "tasks" => InLast(keydown)
  /\ pc = "send" /\ back = "tasks" => InLast(savekeydown)
  /\ Processing => news \subseteq now
  /\ pc \in {"report", "press"} => InNow(keydown)
  /\ pc = "send" /\ back = "report" => InNow(savekeydown)

Agreed == ~ez.lost => Says(OnTheWay, 1 \in ez.hold, vhold)

IInv == KeyOK /\ EzOK /\ BytesOK /\ Quiet /\ Held /\ Agreed

USE DEF keyboard, terminal, usb, report, repeat, base, notrxq, vars, Base, In, Start

\* The main loop and the key.
LEMMA KeyOKKept ==
  KeyOK /\ [Next]_vars => KeyOK'
<1> SUFFICES ASSUME KeyOK, [Next]_vars PROVE KeyOK'
    OBVIOUS
<1> USE DEF KeyOK
<1>1. CASE Terminal \/ Program \/ Plug \/ UNCHANGED vars
    BY <1>1 DEF Terminal, FlowControl, ReadChar, Pass, Program, Getch, StartWrite, Wrote, Put, Plug
<1>2. CASE Timer
    BY <1>2 DEF Timer
<1>3. CASE TimerByte
    BY <1>3 DEF TimerByte
<1>4. CASE SendByte
    BY <1>4 DEF SendByte
<1>5. CASE Sent
    BY <1>5 DEF Sent
<1>6. CASE Detach
    BY <1>6 DEF Detach
<1>7. CASE Reset
    BY <1>7 DEF Reset
<1>8. CASE Connect
    BY <1>8 DEF Connect
<1>9. CASE Relay
    BY <1>9 DEF Relay, NRSendStr
<1>10. CASE StartRead
    BY <1>10 DEF StartRead
<1>11. CASE NoReport
    BY <1>11 DEF NoReport
<1>12. CASE Report
    BY <1>12 DEF Report
<1>13. CASE StartWriteLeds
    BY <1>13 DEF StartWriteLeds
<1>14. CASE WroteLeds
    BY <1>14 DEF WroteLeds
<1>15. CASE Import
    BY <1>15 DEF Import
<1>16. CASE Lock
    BY <1>16 DEF Lock
<1>17. CASE \E k \in Keys : Press(k)
    BY <1>17 DEF Press
<1>18. CASE SendKey
    BY <1>18 DEF SendKey, NRSendStr
<1>19. CASE Processed
    BY <1>19 DEF Processed
<1> QED
    BY <1>1, <1>2, <1>3, <1>4, <1>5, <1>6, <1>7, <1>8, <1>9, <1>10, <1>11, <1>12, <1>13, <1>14, <1>15, <1>16, <1>17, <1>18, <1>19 DEF Next, Controller, User, Tasks, Process

\* No step lets the interrupt send between the bytes of the main loop.
LEMMA QuietKept ==
  KeyOK /\ Quiet /\ [Next]_vars => Quiet'
<1> SUFFICES ASSUME KeyOK, Quiet, [Next]_vars PROVE Quiet'
    OBVIOUS
<1> USE DEF KeyOK, Quiet
<1>1. CASE Terminal \/ Program \/ Plug \/ UNCHANGED vars
    BY <1>1 DEF Terminal, FlowControl, ReadChar, Pass, Program, Getch, StartWrite, Wrote, Put, Plug
<1>2. CASE Timer
    BY <1>2 DEF Timer
<1>3. CASE TimerByte
    BY <1>3 DEF TimerByte
<1>4. CASE SendByte
    BY <1>4 DEF SendByte
<1>5. CASE Sent
    BY <1>5 DEF Sent
<1>6. CASE Detach
    BY <1>6 DEF Detach
<1>7. CASE Reset
    BY <1>7 DEF Reset
<1>8. CASE Connect
    BY <1>8 DEF Connect
<1>9. CASE Relay
    BY <1>9 DEF Relay, NRSendStr
<1>10. CASE StartRead
    BY <1>10 DEF StartRead
<1>11. CASE NoReport
    BY <1>11 DEF NoReport
<1>12. CASE Report
    BY <1>12 DEF Report
<1>13. CASE StartWriteLeds
    BY <1>13 DEF StartWriteLeds
<1>14. CASE WroteLeds
    BY <1>14 DEF WroteLeds
<1>15. CASE Import
    BY <1>15 DEF Import
<1>16. CASE Lock
    BY <1>16 DEF Lock
<1>17. CASE \E k \in Keys : Press(k)
    BY <1>17 DEF Press
<1>18. CASE SendKey
    BY <1>18 DEF SendKey, NRSendStr
<1>19. CASE Processed
    BY <1>19 DEF Processed
<1> QED
    BY <1>1, <1>2, <1>3, <1>4, <1>5, <1>6, <1>7, <1>8, <1>9, <1>10, <1>11, <1>12, <1>13, <1>14, <1>15, <1>16, <1>17, <1>18, <1>19 DEF Next, Controller, User, Tasks, Process

\* No step lets a key repeat that is not in the report.
LEMMA HeldKept ==
  KeyOK /\ Quiet /\ Held /\ [Next]_vars => Held'
<1> SUFFICES ASSUME KeyOK, Quiet, Held, [Next]_vars PROVE Held'
    OBVIOUS
<1> USE DEF KeyOK, Quiet, Held, InLast, InNow, Processing
<1>1. CASE Terminal \/ Program \/ Plug \/ UNCHANGED vars
    BY <1>1 DEF Terminal, FlowControl, ReadChar, Pass, Program, Getch, StartWrite, Wrote, Put, Plug
<1>2. CASE Timer
    BY <1>2 DEF Timer
<1>3. CASE TimerByte
    BY <1>3 DEF TimerByte
<1>4. CASE SendByte
    BY <1>4 DEF SendByte
<1>5. CASE Sent
    BY <1>5 DEF Sent
<1>6. CASE Detach
    BY <1>6 DEF Detach
<1>7. CASE Reset
    BY <1>7 DEF Reset
<1>8. CASE Connect
    BY <1>8 DEF Connect
<1>9. CASE Relay
    BY <1>9 DEF Relay, NRSendStr
<1>10. CASE StartRead
    BY <1>10 DEF StartRead
<1>11. CASE NoReport
    BY <1>11 DEF NoReport
<1>12. CASE Report
    BY <1>12 DEF Report
<1>13. CASE StartWriteLeds
    BY <1>13 DEF StartWriteLeds
<1>14. CASE WroteLeds
    BY <1>14 DEF WroteLeds
<1>15. CASE Import
    BY <1>15 DEF Import
<1>16. CASE Lock
    BY <1>16 DEF Lock
<1>17. CASE \E k \in Keys : Press(k)
    BY <1>17 DEF Press
<1>18. CASE SendKey
    BY <1>18 DEF SendKey, NRSendStr
<1>19. CASE Processed
    BY <1>19 DEF Processed
<1> QED
    BY <1>1, <1>2, <1>3, <1>4, <1>5, <1>6, <1>7, <1>8, <1>9, <1>10, <1>11, <1>12, <1>13, <1>14, <1>15, <1>16, <1>17, <1>18, <1>19 DEF Next, Controller, User, Tasks, Process

-----------------------------------------------------------------------------
(* Bytes. *)

\* A byte that arrives keeps the type of the port, and only flow control from
\* the terminal changes its hold; with the FIFO full it is lost.
LEMMA Received ==
  ASSUME NEW c \in Bytes, EzOK
  PROVE  /\ Receive(ez, c) \in EzType
         /\ ~Receive(ez, c).lost =>
              /\ ~ez.lost
              /\ (1 \in Receive(ez, c).hold) = (IF c \in Flow THEN c = "XOFF" ELSE 1 \in ez.hold)
<1> USE DEF EzOK, EzType, Receive, Flow
<1>0. /\ ez = [fifo |-> ez.fifo, hold |-> ez.hold, lost |-> ez.lost]
      /\ ez.fifo \in Int /\ ez.hold \in SUBSET {0, 1} /\ ez.lost \in BOOLEAN
    OBVIOUS
<1>1. CASE ez.fifo = FIFOSIZE
  <2>1. Receive(ez, c) = [ez EXCEPT !.lost = @ \/ c \in Flow]
      BY <1>1
  <2> QED
      BY <2>1
<1>2. CASE ez.fifo # FIFOSIZE /\ c = "ETX"
    BY <1>0, <1>2
<1>3. CASE ez.fifo # FIFOSIZE /\ c = "DC1"
    BY <1>0, <1>3
<1>4. CASE ez.fifo # FIFOSIZE /\ c = "XON"
    BY <1>0, <1>4
<1>5. CASE ez.fifo # FIFOSIZE /\ c = "DC3"
    BY <1>0, <1>5
<1>6. CASE ez.fifo # FIFOSIZE /\ c = "XOFF"
    BY <1>0, <1>6
<1>7. CASE ez.fifo # FIFOSIZE /\ c \notin {"ETX", "DC1", "XON", "DC3", "XOFF"}
    BY <1>0, <1>7
<1> QED
    BY <1>1, <1>2, <1>3, <1>4, <1>5, <1>6, <1>7

\* What keys and answers consist of.
LEMMA Strings ==
  /\ \A k \in Keys : Str[k] \in Seq(Bytes) /\ NoneIn(Str[k])
  /\ Ident \in Seq(Bytes) /\ NoneIn(Ident)
<1>1. ASSUME NEW s \in Seq(Bytes \ Flow) PROVE s \in Seq(Bytes) /\ NoneIn(s)
    BY ElementOfSeq, SeqMonotonic DEF NoneIn
<1> QED
    BY <1>1, KeyboardAssumption

\* What the terminal says are bytes.
LEMMA Said ==
  \A m \in {"XON", "XOFF", "ENQ"} : m \in Bytes
    BY UartAssumption

\* The rest of a sequence of no concern.
LEMMA TailOK ==
  ASSUME NEW s \in Seq(Bytes), s # <<>>
  PROVE  Head(s) \in Bytes /\ Tail(s) \in Seq(Bytes)
         /\ (NoneIn(s) => NoneIn(Tail(s)) /\ Head(s) \notin Flow)
<1>1. /\ Head(s) \in Bytes /\ Tail(s) \in Seq(Bytes) /\ Len(Tail(s)) = Len(s) - 1
      /\ \A i \in 1..Len(Tail(s)) : Tail(s)[i] = s[i + 1]
      /\ Len(s) \in Nat /\ Len(s) > 0 /\ Head(s) = s[1]
    BY HeadTailProperties, EmptySeq
<1> QED
    BY <1>1 DEF NoneIn

\* The types of port and bytes.
LEMMA BytesKept ==
  KeyOK /\ EzOK /\ BytesOK /\ [Next]_vars => EzOK' /\ BytesOK'
<1> SUFFICES ASSUME KeyOK, EzOK, BytesOK, [Next]_vars PROVE EzOK' /\ BytesOK'
    OBVIOUS
<1>1. CASE Terminal
  <2>1. ASSUME NEW m \in Bytes, Pass(m) PROVE EzOK' /\ rxq' \in Seq(Bytes)
    <3>1. CASE Len(rxq) + 1 = RXQSIZ
        BY <2>1, <3>1, EmptySeq DEF Pass, EzOK, EzType
    <3>2. CASE Len(rxq) + 1 # RXQSIZ
      <4>1. rxq' = Append(rxq, m) /\ ez' = ez
          BY <2>1, <3>2 DEF Pass
      <4> QED
          BY <4>1, AppendProperties DEF EzOK, BytesOK
    <3> QED
        BY <3>1, <3>2
  <2> QED
      BY <1>1, <2>1, Said DEF Terminal, FlowControl, ReadChar, BytesOK, EzOK
<1>2. CASE Program \/ User \/ UNCHANGED vars
  <2>1. EzOK'
      BY <1>2 DEF Program, Getch, StartWrite, Wrote, Put, User, Plug, EzOK, EzType
  <2>2. UNCHANGED <<msg, isr, rxq, vhold>>
    <3>1. CASE Program
        BY <3>1 DEF Program, Put
    <3>2. CASE User \/ UNCHANGED vars
        BY <1>2, <3>2 DEF User, Plug
    <3> QED
        BY <1>2, <3>1, <3>2
  <2> QED
      BY <2>1, <2>2 DEF BytesOK, NoneIn
<1>3. CASE Timer /\ UNCHANGED terminal
    BY <1>3, Strings DEF Timer, EzOK, BytesOK, KeyOK, NoneIn
<1>4. CASE TimerByte /\ UNCHANGED terminal
    BY <1>4, TailOK, Received DEF TimerByte, EzOK, BytesOK
<1>5. CASE SendByte /\ UNCHANGED terminal
    BY <1>5, TailOK, Received DEF SendByte, EzOK, BytesOK
<1>6. CASE (Relay \/ SendKey \/ Sent) /\ UNCHANGED terminal
  <2>1. CASE Relay
    <3>1. /\ UNCHANGED <<ez, isr, vhold>> /\ rxq # <<>> /\ rxq' = Tail(rxq)
          /\ msg' = IF Head(rxq) = "ENQ" THEN Ident ELSE <<Head(rxq)>>
        BY <1>6, <2>1 DEF Relay, NRSendStr
    <3>2. Head(rxq) \in Bytes /\ Tail(rxq) \in Seq(Bytes)
        BY <3>1, TailOK DEF BytesOK
    <3>3. msg' \in Seq(Bytes)
        BY <3>1, <3>2, Strings
    <3> QED
        BY <3>1, <3>2, <3>3 DEF EzOK, BytesOK, NoneIn
  <2>2. CASE SendKey
    <3>1. UNCHANGED <<ez, isr, vhold, rxq>> /\ msg' = Str[keydown] /\ keydown \in Keys
        BY <1>6, <2>2 DEF SendKey, NRSendStr, KeyOK
    <3> QED
        BY <3>1, Strings DEF EzOK, BytesOK, NoneIn
  <2>3. CASE Sent
      BY <1>6, <2>3 DEF Sent, EzOK, BytesOK, NoneIn
  <2> QED
      BY <1>6, <2>1, <2>2, <2>3
<1>7. CASE (Detach \/ Reset \/ Connect \/ StartRead \/ NoReport \/ Report \/ StartWriteLeds \/ WroteLeds) /\ UNCHANGED terminal
    BY <1>7 DEF Detach, Reset, Connect, StartRead, NoReport, Report, StartWriteLeds, WroteLeds,
                EzOK, BytesOK
<1>8. CASE (Import \/ Lock \/ (\E k \in Keys : Press(k)) \/ Processed) /\ UNCHANGED terminal
    BY <1>8 DEF Import, Lock, Press, Processed, EzOK, BytesOK
<1> QED
    BY <1>1, <1>2, <1>3, <1>4, <1>5, <1>6, <1>7, <1>8 DEF Next, Controller, Tasks, Process

-----------------------------------------------------------------------------
(* Terminal and eZ80 agree. *)

\* What is on its way consists of bytes.
LEMMA OnTheWayBytes ==
  BytesOK => OnTheWay \in Seq(Bytes)
    BY ConcatProperties, EmptySeq DEF BytesOK, OnTheWay

\* The terminal says something.
LEMMA PassAgrees ==
  ASSUME NEW m \in {"XON", "XOFF", "ENQ"}, EzOK, BytesOK, Agreed, Pass(m),
         UNCHANGED <<pc, msg>>,
         vhold' = IF m \in Flow THEN m = "XOFF" ELSE vhold
  PROVE  Agreed'
<1>1. CASE Len(rxq) + 1 = RXQSIZ
    BY <1>1 DEF Pass, EzOK, EzType, Agreed
<1>2. CASE Len(rxq) + 1 # RXQSIZ
  <2>0. rxq' = Append(rxq, m) /\ ez' = ez
      BY <1>2 DEF Pass
  <2>1. OnTheWay' = Append(OnTheWay, m)
    <3>0. msg \in Seq(Bytes) /\ rxq \in Seq(Bytes) /\ m \in Bytes
        BY Said DEF BytesOK
    <3>1. msg \o Append(rxq, m) = Append(msg \o rxq, m)
        BY <3>0, AppendProperties, AppendIsConcat, ConcatAssociative, ConcatProperties
    <3>2. <<>> \o Append(rxq, m) = Append(<<>> \o rxq, m)
        BY <3>0, ConcatEmptySeq, AppendProperties
    <3> QED
        BY <2>0, <3>1, <3>2 DEF OnTheWay
  <2>2. ASSUME ~ez.lost PROVE Says(OnTheWay', 1 \in ez.hold, vhold')
    <3> DEFINE h == 1 \in ez.hold
               s == OnTheWay
    <3>1. Says(s, h, vhold)
        BY <2>2 DEF Agreed
    <3>2. s \in Seq(Bytes) /\ OnTheWay' = Append(s, m)
        BY <2>1, OnTheWayBytes
    <3>3. h \in BOOLEAN /\ vhold \in BOOLEAN
        BY DEF BytesOK
    <3> SUFFICES Says(Append(s, m), h, vhold')
        BY <3>2, Zenon
    <3> HIDE DEF h, s
    <3>4. CASE m \in Flow
      <4>1. Says(Append(s, m), h, m = "XOFF")
          BY <3>2, <3>3, <3>4, SaysLast
      <4>2. vhold' = (m = "XOFF")
          BY <3>4
      <4> QED
          BY <4>1, <4>2, Zenon
    <3>5. CASE m \notin Flow
      <4>1. m \in Bytes \ Flow
          BY <3>5, Said
      <4>2. Says(Append(s, m), h, vhold)
          BY <3>1, <3>2, <3>3, <4>1, SaysMore
      <4>3. vhold' = vhold
          BY <3>5
      <4> QED
          BY <4>2, <4>3, Zenon
    <3> QED
        BY <3>4, <3>5
  <2> QED
      BY <2>0, <2>2 DEF Agreed
<1> QED
    BY <1>1, <1>2

\* The keyboard controller hands on what the terminal has said.
LEMMA RelayAgrees ==
  ASSUME EzOK, BytesOK, Agreed, Relay, UNCHANGED terminal
  PROVE  Agreed'
<1> DEFINE h == 1 \in ez.hold
           w == IF Head(rxq) = "ENQ" THEN Ident ELSE <<Head(rxq)>>
<1>1. /\ pc = "tasks" /\ pc' = "send" /\ rxq # <<>> /\ rxq' = Tail(rxq) /\ msg' = w
      /\ UNCHANGED <<ez, vhold>>
    BY DEF Relay, NRSendStr
<1>2. /\ rxq \in Seq(Bytes) /\ Head(rxq) \in Bytes /\ Tail(rxq) \in Seq(Bytes)
      /\ h \in BOOLEAN /\ vhold \in BOOLEAN
    BY <1>1, TailOK DEF BytesOK
<1>3. OnTheWay = rxq /\ OnTheWay' = w \o Tail(rxq)
    BY <1>1, <1>2, ConcatEmptySeq DEF OnTheWay
<1> SUFFICES ASSUME ~ez.lost, Says(rxq, h, vhold) PROVE Says(w \o Tail(rxq), h, vhold)
    BY <1>1, <1>3 DEF Agreed
<1> HIDE DEF h
<1>4. CASE Head(rxq) = "ENQ"
  <2>1. Says(Tail(rxq), IF Head(rxq) \in Flow THEN Head(rxq) = "XOFF" ELSE h, vhold)
      BY <1>1, <1>2, SaysTail
  <2>2. Says(Tail(rxq), h, vhold)
      BY <1>4, <2>1 DEF Flow
  <2> QED
      BY <1>2, <1>4, <2>2, Strings, SaysBehind
<1>5. CASE Head(rxq) # "ENQ"
  <2>1. <<Head(rxq)>> \o Tail(rxq) = rxq
      BY <1>1, <1>2, HeadTailProperties, EmptySeq, ConcatProperties, SeqEqual
  <2> QED
      BY <1>5, <2>1
<1> QED
    BY <1>4, <1>5

\* A byte of the main loop arrives.
LEMMA SendByteAgrees ==
  ASSUME EzOK, BytesOK, Agreed, SendByte, UNCHANGED terminal
  PROVE  Agreed'
<1> DEFINE s == msg \o rxq
           c == Head(msg)
<1>1. /\ pc = "send" /\ pc' = "send" /\ msg # <<>> /\ msg' = Tail(msg)
      /\ ez' = Receive(ez, c) /\ UNCHANGED <<rxq, vhold>>
    BY DEF SendByte
<1>2. /\ c \in Bytes /\ Tail(msg) \in Seq(Bytes) /\ msg \in Seq(Bytes) /\ rxq \in Seq(Bytes)
      /\ (1 \in ez.hold) \in BOOLEAN /\ vhold \in BOOLEAN
    BY <1>1, TailOK DEF BytesOK
<1>3. s \in Seq(Bytes) /\ s # <<>> /\ Head(s) = c /\ Tail(s) = Tail(msg) \o rxq
  <2>1. /\ s \in Seq(Bytes) /\ Len(s) = Len(msg) + Len(rxq)
        /\ Len(msg) \in Nat \ {0} /\ Len(rxq) \in Nat
        /\ \A i \in 1..Len(s) : s[i] = IF i <= Len(msg) THEN msg[i] ELSE rxq[i - Len(msg)]
      BY <1>1, <1>2, ConcatProperties, EmptySeq
  <2>2. s # <<>> /\ s[1] = msg[1]
      BY <2>1
  <2>3. Head(s) = c
      BY <1>1, <1>2, <2>1, <2>2
  <2>4. /\ Tail(s) \in Seq(Bytes) /\ Len(Tail(s)) = Len(s) - 1
        /\ \A i \in 1..Len(Tail(s)) : Tail(s)[i] = s[i + 1]
      BY <2>1, <2>2, HeadTailProperties
  <2>5. /\ Len(Tail(msg)) = Len(msg) - 1
        /\ \A i \in 1..Len(Tail(msg)) : Tail(msg)[i] = msg[i + 1]
      BY <1>1, <1>2, HeadTailProperties
  <2> DEFINE t == Tail(msg) \o rxq
  <2>6. /\ t \in Seq(Bytes) /\ Len(t) = Len(Tail(msg)) + Len(rxq)
        /\ \A i \in 1..Len(t) : t[i] = IF i <= Len(Tail(msg)) THEN Tail(msg)[i]
                                       ELSE rxq[i - Len(Tail(msg))]
      BY <1>2, ConcatProperties
  <2> HIDE DEF s, t
  <2>7. Len(Tail(s)) = Len(t)
      BY <2>1, <2>4, <2>5, <2>6
  <2>8. ASSUME NEW i \in 1..Len(t) PROVE Tail(s)[i] = t[i]
    <3>1. Tail(s)[i] = s[i + 1] /\ (i + 1) \in 1..Len(s)
        BY <2>1, <2>4, <2>7
    <3>2. CASE i <= Len(Tail(msg))
        BY <2>1, <2>5, <2>6, <3>1, <3>2
    <3>3. CASE i > Len(Tail(msg))
        BY <2>1, <2>5, <2>6, <3>1, <3>3
    <3> QED
        BY <2>1, <2>5, <2>6, <3>2, <3>3
  <2>9. Tail(s) = t
      BY <2>4, <2>6, <2>7, <2>8, SeqEqual
  <2> QED
      BY <2>1, <2>2, <2>3, <2>9 DEF t
<1>4. OnTheWay = s /\ OnTheWay' = Tail(s)
    BY <1>1, <1>3 DEF OnTheWay
<1> DEFINE g == IF c \in Flow THEN c = "XOFF" ELSE 1 \in ez.hold
<1>5. ~ez'.lost => ~ez.lost /\ (1 \in ez'.hold) = g
    BY <1>1, <1>2, Received
<1>6. ASSUME ~ez.lost PROVE Says(Tail(s), g, vhold)
  <2>1. Says(s, 1 \in ez.hold, vhold)
      BY <1>4, <1>6 DEF Agreed
  <2> DEFINE h == 1 \in ez.hold
  <2>2. Says(s, h, vhold) /\ h \in BOOLEAN
      BY <2>1
  <2> HIDE DEF h
  <2>3. Says(Tail(s), IF Head(s) \in Flow THEN Head(s) = "XOFF" ELSE h, vhold)
      BY <1>2, <1>3, <2>2, SaysTail
  <2> QED
      BY <1>3, <2>3 DEF h
<1> SUFFICES ASSUME ~ez'.lost PROVE Says(Tail(s), 1 \in ez'.hold, vhold)
    BY <1>1, <1>4 DEF Agreed
<1>7. Says(Tail(s), g, vhold) /\ (1 \in ez'.hold) = g
    BY <1>5, <1>6
<1> QED
    BY <1>7, Zenon

\* Nobody has to be asked twice: no step breaks the agreement.
LEMMA AgreedKept ==
  KeyOK /\ EzOK /\ BytesOK /\ Quiet /\ Agreed /\ [Next]_vars => Agreed'
<1> SUFFICES ASSUME KeyOK, EzOK, BytesOK, Quiet, Agreed, [Next]_vars PROVE Agreed'
    OBVIOUS
<1>1. CASE FlowControl
  <2>1. UNCHANGED <<pc, msg>>
      BY <1>1 DEF FlowControl
  <2>2. CASE vhold /\ vbuf < LOW
    <3>1. Pass("XON") /\ vhold' = ("XON" = "XOFF")
        BY <1>1, <2>2 DEF FlowControl
    <3> QED
        BY <2>1, <3>1, PassAgrees DEF Flow
  <2>3. CASE ~(vhold /\ vbuf < LOW) /\ ~vhold /\ vbuf >= HIGH
    <3>1. Pass("XOFF") /\ vhold' = ("XOFF" = "XOFF")
        BY <1>1, <2>3 DEF FlowControl
    <3> QED
        BY <2>1, <3>1, PassAgrees DEF Flow
  <2>4. CASE ~(vhold /\ vbuf < LOW) /\ ~(~vhold /\ vbuf >= HIGH)
    <3>1. UNCHANGED <<vhold, rxq, ez>>
        BY <1>1, <2>4 DEF FlowControl
    <3> QED
        BY <2>1, <3>1 DEF Agreed, Says, NoneIn, OnTheWay
  <2> QED
      BY <2>2, <2>3, <2>4
<1>2. CASE ReadChar
  <2>1. UNCHANGED <<pc, msg>>
      BY <1>2 DEF ReadChar
  <2>2. CASE UNCHANGED <<vhold, rxq, ez>>
      BY <2>1, <2>2 DEF Agreed, Says, NoneIn, OnTheWay
  <2>3. CASE Pass("ENQ") /\ UNCHANGED vhold
      BY <2>1, <2>3, PassAgrees DEF Flow
  <2>4. CASE ~vhold /\ vhold' = TRUE /\ Pass("XOFF")
    <3>1. vhold' = ("XOFF" = "XOFF")
        BY <2>4
    <3> QED
        BY <2>1, <2>4, <3>1, PassAgrees DEF Flow
  <2> QED
      BY <1>2, <2>2, <2>3, <2>4 DEF ReadChar
<1>3. CASE Program
  <2>1. UNCHANGED <<pc, msg, rxq, vhold>> /\ UNCHANGED OnTheWay
      BY <1>3 DEF Program, Put, OnTheWay
  <2>2. ez'.lost = ez.lost /\ ez'.hold = ez.hold
      BY <1>3 DEF Program, Getch, StartWrite, Wrote, Put, EzOK, EzType
  <2> QED
      BY <2>1, <2>2 DEF Agreed
<1>4. CASE TimerByte /\ UNCHANGED terminal
  <2>1. /\ isr # <<>> /\ ez' = Receive(ez, Head(isr)) /\ UNCHANGED <<vhold, OnTheWay>>
      BY <1>4 DEF TimerByte, OnTheWay
  <2>2. Head(isr) \in Bytes /\ Head(isr) \notin Flow
      BY <2>1, TailOK DEF BytesOK
  <2>3. ~ez'.lost => ~ez.lost /\ (1 \in ez'.hold) = (1 \in ez.hold)
      BY <2>1, <2>2, Received
  <2>4. UNCHANGED OnTheWay /\ UNCHANGED vhold
      BY <2>1
  <2> QED
      BY <2>3, <2>4, Zenon DEF Agreed
<1>5. CASE SendByte /\ UNCHANGED terminal
    BY <1>5, SendByteAgrees
<1>6. CASE Relay /\ UNCHANGED terminal
    BY <1>6, RelayAgrees
<1>7. CASE SendKey /\ UNCHANGED terminal
  <2> DEFINE h == 1 \in ez.hold
  <2>1. /\ pc = "press" /\ pc' = "send" /\ msg' = Str[keydown] /\ keydown \in Keys
        /\ UNCHANGED <<ez, rxq, vhold>>
      BY <1>7 DEF SendKey, NRSendStr, KeyOK
  <2>2. OnTheWay = rxq /\ OnTheWay' = Str[keydown] \o rxq
      BY <2>1, ConcatEmptySeq DEF OnTheWay, BytesOK
  <2>3. rxq \in Seq(Bytes) /\ h \in BOOLEAN /\ vhold \in BOOLEAN
      BY DEF BytesOK
  <2> SUFFICES ASSUME ~ez.lost, Says(rxq, h, vhold) PROVE Says(Str[keydown] \o rxq, h, vhold)
      BY <2>1, <2>2 DEF Agreed
  <2> HIDE DEF h
  <2> QED
      BY <2>1, <2>3, Strings, SaysBehind
<1>8. CASE Sent /\ UNCHANGED terminal
  <2>1. UNCHANGED <<ez, rxq, vhold>> /\ pc = "send" /\ msg = <<>> /\ msg' = <<>> /\ pc' # "send"
      BY <1>8 DEF Sent, KeyOK
  <2>2. OnTheWay' = OnTheWay
      BY <2>1 DEF OnTheWay
  <2> QED
      BY <2>1, <2>2 DEF Agreed
<1>9. CASE (Timer \/ Detach \/ Reset \/ Connect \/ StartRead \/ NoReport \/ Report \/ StartWriteLeds
            \/ WroteLeds \/ Import \/ Lock \/ (\E k \in Keys : Press(k)) \/ Processed)
           /\ UNCHANGED terminal
  <2>1. /\ UNCHANGED <<ez, msg, rxq, vhold>>
        /\ pc' = pc \/ (pc # "send" /\ pc' # "send")
      BY <1>9 DEF Timer, Detach, Reset, Connect, StartRead, NoReport, Report, StartWriteLeds,
                  WroteLeds, Import, Lock, Press, Processed
  <2>2. OnTheWay' = OnTheWay
      BY <2>1 DEF OnTheWay
  <2> QED
      BY <2>1, <2>2 DEF Agreed
<1>10. CASE User \/ UNCHANGED vars
  <2>1. UNCHANGED <<ez, msg, rxq, vhold, pc>>
      BY <1>10 DEF User, Plug
  <2> QED
      BY <2>1 DEF Agreed, OnTheWay, Says, NoneIn
<1> QED
    BY <1>1, <1>2, <1>3, <1>4, <1>5, <1>6, <1>7, <1>8, <1>9, <1>10
       DEF Next, Terminal, Controller, Tasks, Process

-----------------------------------------------------------------------------
\* The console starts in the invariant.
LEMMA InitIInv == Init => IInv
<1> SUFFICES ASSUME Init PROVE IInv
    OBVIOUS
<1> USE DEF Init, InitUart, InitKeyboard
<1>1. KeyOK /\ Quiet /\ Held
    BY DEF KeyOK, Quiet, Held, Processing, InLast, InNow
<1>2. EzOK
    BY DEF EzOK, EzType
<1>3. BytesOK
  <2>1. <<>> \in Seq(Bytes) /\ NoneIn(<<>>)
      BY EmptySeq DEF NoneIn
  <2>2. msg = <<>> /\ isr = <<>> /\ rxq = <<>> /\ vhold \in BOOLEAN
      OBVIOUS
  <2> QED
      BY <2>1, <2>2, Zenon DEF BytesOK
<1>4. OnTheWay = <<>>
    BY ConcatEmptySeq, EmptySeq DEF OnTheWay
<1>5. Agreed
  <2>1. (1 \in ez.hold) = FALSE /\ vhold = FALSE
      OBVIOUS
  <2>2. NoneIn(<<>>)
      BY EmptySeq DEF NoneIn
  <2> QED
      BY <1>4, <2>1, <2>2, Zenon DEF Agreed, Says
<1> QED
    BY <1>1, <1>2, <1>3, <1>5 DEF IInv

\* The invariant of the console, for any keys and queues of any size.
THEOREM InductiveInvariant == Spec => []IInv
<1>1. IInv /\ [Next]_vars => IInv'
    BY KeyOKKept, QuietKept, HeldKept, BytesKept, AgreedKept DEF IInv
<1> QED
    BY InitIInv, <1>1, PTL DEF Spec

\* Keys and answers come out whole: NRSendStr() keeps the interrupt out.
THEOREM WholeHolds == Spec => []Whole
<1>1. IInv => Whole
    BY DEF IInv, Quiet, Whole
<1> QED
    BY <1>1, InductiveInvariant, PTL

\* A key that repeats is down in the last report, or its keyboard is gone.
THEOREM RepeatsHeldHolds == Spec => []RepeatsHeld
<1>1. IInv => RepeatsHeld
    BY DEF IInv, Held, InLast, RepeatsHeld
<1> QED
    BY <1>1, InductiveInvariant, PTL

\* Terminal and eZ80 agree about who holds, whatever is typed.
THEOREM AgreeHolds == Spec => []Agree
<1>1. IInv => Agree
  <2> SUFFICES ASSUME EzOK, BytesOK, Agreed, ~ez.lost
               PROVE  vhold = IF FlowAt = {} THEN 1 \in ez.hold ELSE OnTheWay[LastFlow] = "XOFF"
      BY DEF IInv, Agree
  <2> DEFINE h == 1 \in ez.hold
  <2>1. Says(OnTheWay, h, vhold) /\ OnTheWay \in Seq(Bytes)
      BY OnTheWayBytes DEF Agreed
  <2>2. h \in BOOLEAN /\ vhold \in BOOLEAN
      BY DEF BytesOK
  <2> HIDE DEF h
  <2>3. vhold = IF FlowAt = {} THEN h ELSE OnTheWay[LastFlow] = "XOFF"
      BY <2>1, <2>2, SaysAgree
  <2> QED
      BY <2>3 DEF h
<1> QED
    BY <1>1, InductiveInvariant, PTL

=============================================================================
