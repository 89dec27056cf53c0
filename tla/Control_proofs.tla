--------------------------- MODULE Control_proofs ---------------------------
(***************************************************************************)
(* Which break handler is hooked where, proved for every depth of include  *)
(* files, with and without *error-continue*.                               *)
(***************************************************************************)
EXTENDS Control, TLAPS

\* Who will restore which handler.
InEval == at \in {"compile", "eval", "busy", "debug", "unwind", "leave", "cread"}
          \/ (at = "gc" /\ ret # "read")
Saved ==
  /\ InEval => oldebrkh = "brkhand"
  /\ at = "gc" /\ ret = "read" => gcoldbrk = "brkhand"
  /\ at = "gc" /\ ret = "cread" => gcoldbrk = "crbrkhand"
  /\ at = "gc" /\ ret = "eval" => gcoldbrk = "ebrkhand" \/ contd
  /\ at \in {"cread", "debug"} \/ (at = "gc" /\ ret = "cread") \/ (at = "busy" /\ ~ dontbrk)
       => oldbrk = "ebrkhand" \/ contd

\* Between two reads the line is empty, also during the collection.
LineReset ==
  /\ at \in Reading /\ readdone => line = "empty"
  /\ at = "gc" => readdone /\ line = "empty"
  /\ done => at \in {"top", "end", "dead"}

IInv == TypeOK /\ HandlerFits /\ ReadsAfresh /\ DeferHolds /\ Saved /\ LineReset

\* The program starts in the invariant.
LEMMA InitIInv == Init => IInv
<1> SUFFICES ASSUME Init PROVE IInv
    OBVIOUS
<1> USE DEF Init, Reading
<1>1. TypeOK
  <2>1. PlaceOK /\ HandlerOK
      BY DEF PlaceOK, HandlerOK, Places, Handlers
  <2>2. FlagOK
      BY DEF FlagOK
  <2>3. finsp \in 0 .. MAXFINS
      BY ControlAssumption
  <2> QED
      BY <2>1, <2>2, <2>3 DEF TypeOK
<1>2. HandlerFits /\ ReadsAfresh /\ DeferHolds
    BY DEF HandlerFits, ReadsAfresh, DeferHolds
<1>3. Saved /\ LineReset
    BY DEF Saved, InEval, LineReset
<1> QED
    BY <1>1, <1>2, <1>3 DEF IInv

USE DEF place, handlers, flags, reader0, reader, fixed, reading, Reading,
        EvalErr, Dead, brkhand, ebrkhand, ebrkjmp, crbrkhand, Hear, BeginGC, Collected, ExRead

\* A break keeps the invariant, whichever handler hears it.
LEMMA BreakKeeps ==
  IInv /\ Break => IInv'
<1> SUFFICES ASSUME IInv, Break PROVE IInv'
    OBVIOUS
<1> USE DEF IInv, Break
<1>1. CASE brk = "deferbrk"
  <2>1. PlaceOK'    BY <1>1 DEF PlaceOK, Places, TypeOK
  <2>2. HandlerOK'  BY <1>1 DEF HandlerOK, Handlers, TypeOK
  <2>3. FlagOK'     BY <1>1 DEF FlagOK, TypeOK
  <2>4. (finsp \in 0 .. MAXFINS)'  BY <1>1, ControlAssumption DEF TypeOK
  <2>5. (HandlerFits /\ DeferHolds /\ Saved)'
      BY <1>1 DEF HandlerFits, DeferHolds, Saved, InEval, LineReset,
          TypeOK, PlaceOK, Places, FlagOK
  <2>6. (ReadsAfresh /\ LineReset)'
      BY <1>1 DEF ReadsAfresh, LineReset, HandlerFits, TypeOK, PlaceOK, FlagOK
  <2> QED  BY <2>1, <2>2, <2>3, <2>4, <2>5, <2>6 DEF TypeOK
<1>2. CASE brk = "brkhand" /\ brkhand
  <2>1. PlaceOK'    BY <1>2 DEF PlaceOK, Places, TypeOK
  <2>2. HandlerOK'  BY <1>2 DEF HandlerOK, Handlers, TypeOK
  <2>3. FlagOK'     BY <1>2 DEF FlagOK, TypeOK
  <2>4. (finsp \in 0 .. MAXFINS)'  BY <1>2, ControlAssumption DEF TypeOK
  <2>5. (HandlerFits /\ DeferHolds /\ Saved)'
      BY <1>2 DEF HandlerFits, DeferHolds, Saved, InEval, LineReset,
          TypeOK, PlaceOK, Places, FlagOK
  <2>6. (ReadsAfresh /\ LineReset)'
      BY <1>2 DEF ReadsAfresh, LineReset, HandlerFits, TypeOK, PlaceOK, FlagOK
  <2> QED  BY <2>1, <2>2, <2>3, <2>4, <2>5, <2>6 DEF TypeOK
<1>3. CASE brk = "ebrkhand" /\ ebrkhand(at)
  <2>1. PlaceOK'    BY <1>3 DEF PlaceOK, Places, TypeOK
  <2>2. HandlerOK'  BY <1>3 DEF HandlerOK, Handlers, TypeOK
  <2>3. FlagOK'     BY <1>3 DEF FlagOK, TypeOK
  <2>4. (finsp \in 0 .. MAXFINS)'  BY <1>3, ControlAssumption DEF TypeOK
  <2>5. (HandlerFits /\ DeferHolds /\ Saved)'
      BY <1>3 DEF HandlerFits, DeferHolds, Saved, InEval, LineReset,
          TypeOK, PlaceOK, Places, FlagOK
  <2>6. (ReadsAfresh /\ LineReset)'
      BY <1>3 DEF ReadsAfresh, LineReset, HandlerFits, TypeOK, PlaceOK, FlagOK
  <2> QED  BY <2>1, <2>2, <2>3, <2>4, <2>5, <2>6 DEF TypeOK
<1>4. CASE brk = "ebrkjmp" /\ at = "top" /\ ebrkjmp(at)
  <2>1. PlaceOK'    BY <1>4 DEF PlaceOK, Places, TypeOK
  <2>2. HandlerOK'  BY <1>4 DEF HandlerOK, Handlers, TypeOK
  <2>3. FlagOK'     BY <1>4 DEF FlagOK, TypeOK
  <2>4. (finsp \in 0 .. MAXFINS)'  BY <1>4, ControlAssumption DEF TypeOK
  <2>5. (HandlerFits /\ DeferHolds /\ Saved)'
      BY <1>4 DEF HandlerFits, DeferHolds, Saved, InEval, LineReset,
          TypeOK, PlaceOK, Places, FlagOK
  <2>6. (ReadsAfresh /\ LineReset)'
      BY <1>4 DEF ReadsAfresh, LineReset, HandlerFits, TypeOK, PlaceOK, FlagOK
  <2> QED  BY <2>1, <2>2, <2>3, <2>4, <2>5, <2>6 DEF TypeOK
<1>5. CASE brk = "ebrkjmp" /\ at # "top" /\ ebrkjmp(at)
  <2>1. PlaceOK'    BY <1>5 DEF PlaceOK, Places, TypeOK
  <2>2. HandlerOK'  BY <1>5 DEF HandlerOK, Handlers, TypeOK
  <2>3. FlagOK'     BY <1>5 DEF FlagOK, TypeOK
  <2>4. (finsp \in 0 .. MAXFINS)'  BY <1>5, ControlAssumption DEF TypeOK
  <2>5. (HandlerFits /\ DeferHolds /\ Saved)'
      BY <1>5 DEF HandlerFits, DeferHolds, Saved, InEval, LineReset,
          TypeOK, PlaceOK, Places, FlagOK
  <2>6. (ReadsAfresh /\ LineReset)'
      BY <1>5 DEF ReadsAfresh, LineReset, HandlerFits, TypeOK, PlaceOK, FlagOK
  <2> QED  BY <2>1, <2>2, <2>3, <2>4, <2>5, <2>6 DEF TypeOK
<1>6. CASE brk = "crbrkhand" /\ crbrkhand(at)
  <2>1. PlaceOK'    BY <1>6 DEF PlaceOK, Places, TypeOK
  <2>2. HandlerOK'  BY <1>6 DEF HandlerOK, Handlers, TypeOK
  <2>3. FlagOK'     BY <1>6 DEF FlagOK, TypeOK
  <2>4. (finsp \in 0 .. MAXFINS)'  BY <1>6, ControlAssumption DEF TypeOK
  <2>5. (HandlerFits /\ DeferHolds /\ Saved)'
      BY <1>6 DEF HandlerFits, DeferHolds, Saved, InEval, LineReset,
          TypeOK, PlaceOK, Places, FlagOK
  <2>6. (ReadsAfresh /\ LineReset)'
      BY <1>6 DEF ReadsAfresh, LineReset, HandlerFits, TypeOK, PlaceOK, FlagOK
  <2> QED  BY <2>1, <2>2, <2>3, <2>4, <2>5, <2>6 DEF TypeOK
<1> QED
    BY <1>1, <1>2, <1>3, <1>4, <1>5, <1>6 DEF TypeOK, HandlerOK, Handlers, Saved, PlaceOK

\* StartLoop keeps the invariant.
LEMMA StartLoopKeeps ==
  IInv /\ StartLoop => IInv'
<1> SUFFICES ASSUME IInv, StartLoop PROVE IInv'
    OBVIOUS
<1> USE DEF IInv, StartLoop
<1>1. PlaceOK'    BY DEF PlaceOK, Places, TypeOK
<1>2. HandlerOK'  BY DEF HandlerOK, Handlers, TypeOK
<1>3. FlagOK'     BY DEF FlagOK, TypeOK
<1>4. (finsp \in 0 .. MAXFINS)'  BY ControlAssumption DEF TypeOK
<1>5. (HandlerFits /\ DeferHolds /\ Saved)'
    BY DEF HandlerFits, DeferHolds, Saved, InEval, LineReset,
        TypeOK, PlaceOK, Places, FlagOK
<1>6. (ReadsAfresh /\ LineReset)'
    BY DEF ReadsAfresh, LineReset, HandlerFits, TypeOK, PlaceOK, FlagOK
<1> QED  BY <1>1, <1>2, <1>3, <1>4, <1>5, <1>6 DEF TypeOK

\* PrintResult keeps the invariant.
LEMMA PrintResultKeeps ==
  IInv /\ PrintResult => IInv'
<1> SUFFICES ASSUME IInv, PrintResult PROVE IInv'
    OBVIOUS
<1> USE DEF IInv, PrintResult
<1>1. PlaceOK'    BY DEF PlaceOK, Places, TypeOK
<1>2. HandlerOK'  BY DEF HandlerOK, Handlers, TypeOK
<1>3. FlagOK'     BY DEF FlagOK, TypeOK
<1>4. (finsp \in 0 .. MAXFINS)'  BY ControlAssumption DEF TypeOK
<1>5. (HandlerFits /\ DeferHolds /\ Saved)'
    BY DEF HandlerFits, DeferHolds, Saved, InEval, LineReset,
        TypeOK, PlaceOK, Places, FlagOK
<1>6. (ReadsAfresh /\ LineReset)'
    BY DEF ReadsAfresh, LineReset, HandlerFits, TypeOK, PlaceOK, FlagOK
<1> QED  BY <1>1, <1>2, <1>3, <1>4, <1>5, <1>6 DEF TypeOK

\* StartRead keeps the invariant.
LEMMA StartReadKeeps ==
  IInv /\ StartRead => IInv'
<1> SUFFICES ASSUME IInv, StartRead PROVE IInv'
    OBVIOUS
<1> USE DEF IInv, StartRead
<1>1. PlaceOK'    BY DEF PlaceOK, Places, TypeOK
<1>2. HandlerOK'  BY DEF HandlerOK, Handlers, TypeOK
<1>3. FlagOK'     BY DEF FlagOK, TypeOK
<1>4. (finsp \in 0 .. MAXFINS)'  BY ControlAssumption DEF TypeOK
<1>5. (HandlerFits /\ DeferHolds /\ Saved)'
    BY DEF HandlerFits, DeferHolds, Saved, InEval, LineReset,
        TypeOK, PlaceOK, Places, FlagOK
<1>6. (ReadsAfresh /\ LineReset)'
    BY DEF ReadsAfresh, LineReset, HandlerFits, TypeOK, PlaceOK, FlagOK
<1> QED  BY <1>1, <1>2, <1>3, <1>4, <1>5, <1>6 DEF TypeOK

\* ReadPart keeps the invariant.
LEMMA ReadPartKeeps ==
  IInv /\ ReadPart => IInv'
<1> SUFFICES ASSUME IInv, ReadPart PROVE IInv'
    OBVIOUS
<1> USE DEF IInv, ReadPart
<1>1. PlaceOK'    BY DEF PlaceOK, Places, TypeOK
<1>2. HandlerOK'  BY DEF HandlerOK, Handlers, TypeOK
<1>3. FlagOK'     BY DEF FlagOK, TypeOK
<1>4. (finsp \in 0 .. MAXFINS)'  BY ControlAssumption DEF TypeOK
<1>5. (HandlerFits /\ DeferHolds /\ Saved)'
    BY DEF HandlerFits, DeferHolds, Saved, InEval, LineReset,
        TypeOK, PlaceOK, Places, FlagOK
<1>6. (ReadsAfresh /\ LineReset)'
    BY DEF ReadsAfresh, LineReset, HandlerFits, TypeOK, PlaceOK, FlagOK
<1> QED  BY <1>1, <1>2, <1>3, <1>4, <1>5, <1>6 DEF TypeOK

\* ReadErr keeps the invariant.
LEMMA ReadErrKeeps ==
  IInv /\ ReadErr => IInv'
<1> SUFFICES ASSUME IInv, ReadErr PROVE IInv'
    OBVIOUS
<1> USE DEF IInv, ReadErr
<1>1. PlaceOK'    BY DEF PlaceOK, Places, TypeOK
<1>2. HandlerOK'  BY DEF HandlerOK, Handlers, TypeOK
<1>3. FlagOK'     BY DEF FlagOK, TypeOK
<1>4. (finsp \in 0 .. MAXFINS)'  BY ControlAssumption DEF TypeOK
<1>5. (HandlerFits /\ DeferHolds /\ Saved)'
    BY DEF HandlerFits, DeferHolds, Saved, InEval, LineReset,
        TypeOK, PlaceOK, Places, FlagOK
<1>6. (ReadsAfresh /\ LineReset)'
    BY DEF ReadsAfresh, LineReset, HandlerFits, TypeOK, PlaceOK, FlagOK
<1> QED  BY <1>1, <1>2, <1>3, <1>4, <1>5, <1>6 DEF TypeOK

\* ReadBlank keeps the invariant.
LEMMA ReadBlankKeeps ==
  IInv /\ ReadBlank => IInv'
<1> SUFFICES ASSUME IInv, ReadBlank PROVE IInv'
    OBVIOUS
<1> USE DEF IInv, ReadBlank
<1>1. PlaceOK'    BY DEF PlaceOK, Places, TypeOK
<1>2. HandlerOK'  BY DEF HandlerOK, Handlers, TypeOK
<1>3. FlagOK'     BY DEF FlagOK, TypeOK
<1>4. (finsp \in 0 .. MAXFINS)'  BY ControlAssumption DEF TypeOK
<1>5. (HandlerFits /\ DeferHolds /\ Saved)'
    BY DEF HandlerFits, DeferHolds, Saved, InEval, LineReset,
        TypeOK, PlaceOK, Places, FlagOK
<1>6. (ReadsAfresh /\ LineReset)'
    BY DEF ReadsAfresh, LineReset, HandlerFits, TypeOK, PlaceOK, FlagOK
<1> QED  BY <1>1, <1>2, <1>3, <1>4, <1>5, <1>6 DEF TypeOK

\* ReadEOF keeps the invariant.
LEMMA ReadEOFKeeps ==
  IInv /\ ReadEOF => IInv'
<1> SUFFICES ASSUME IInv, ReadEOF PROVE IInv'
    OBVIOUS
<1> USE DEF IInv, ReadEOF
<1>1. PlaceOK'    BY DEF PlaceOK, Places, TypeOK
<1>2. HandlerOK'  BY DEF HandlerOK, Handlers, TypeOK
<1>3. FlagOK'     BY DEF FlagOK, TypeOK
<1>4. (finsp \in 0 .. MAXFINS)'  BY ControlAssumption DEF TypeOK
<1>5. (HandlerFits /\ DeferHolds /\ Saved)'
    BY DEF HandlerFits, DeferHolds, Saved, InEval, LineReset,
        TypeOK, PlaceOK, Places, FlagOK
<1>6. (ReadsAfresh /\ LineReset)'
    BY DEF ReadsAfresh, LineReset, HandlerFits, TypeOK, PlaceOK, FlagOK
<1> QED  BY <1>1, <1>2, <1>3, <1>4, <1>5, <1>6 DEF TypeOK

\* Read keeps the invariant.
LEMMA ReadKeeps ==
  IInv /\ Read => IInv'
<1> SUFFICES ASSUME IInv, Read PROVE IInv'
    OBVIOUS
<1> USE DEF IInv, Read
<1>1. PlaceOK'    BY DEF PlaceOK, Places, TypeOK
<1>2. HandlerOK'  BY DEF HandlerOK, Handlers, TypeOK
<1>3. FlagOK'     BY DEF FlagOK, TypeOK
<1>4. (finsp \in 0 .. MAXFINS)'  BY ControlAssumption DEF TypeOK
<1>5. (HandlerFits /\ DeferHolds /\ Saved)'
    BY DEF HandlerFits, DeferHolds, Saved, InEval, LineReset,
        TypeOK, PlaceOK, Places, FlagOK
<1>6. (ReadsAfresh /\ LineReset)'
    BY DEF ReadsAfresh, LineReset, HandlerFits, TypeOK, PlaceOK, FlagOK
<1> QED  BY <1>1, <1>2, <1>3, <1>4, <1>5, <1>6 DEF TypeOK

\* ReadEOT keeps the invariant.
LEMMA ReadEOTKeeps ==
  IInv /\ ReadEOT => IInv'
<1> SUFFICES ASSUME IInv, ReadEOT PROVE IInv'
    OBVIOUS
<1> USE DEF IInv, ReadEOT
<1>1. PlaceOK'    BY DEF PlaceOK, Places, TypeOK
<1>2. HandlerOK'  BY DEF HandlerOK, Handlers, TypeOK
<1>3. FlagOK'     BY DEF FlagOK, TypeOK
<1>4. (finsp \in 0 .. MAXFINS)'  BY ControlAssumption DEF TypeOK
<1>5. (HandlerFits /\ DeferHolds /\ Saved)'
    BY DEF HandlerFits, DeferHolds, Saved, InEval, LineReset,
        TypeOK, PlaceOK, Places, FlagOK
<1>6. (ReadsAfresh /\ LineReset)'
    BY DEF ReadsAfresh, LineReset, HandlerFits, TypeOK, PlaceOK, FlagOK
<1> QED  BY <1>1, <1>2, <1>3, <1>4, <1>5, <1>6 DEF TypeOK

\* ReadValue keeps the invariant.
LEMMA ReadValueKeeps ==
  IInv /\ ReadValue => IInv'
<1> SUFFICES ASSUME IInv, ReadValue PROVE IInv'
    OBVIOUS
<1> USE DEF IInv, ReadValue
<1>1. PlaceOK'    BY DEF PlaceOK, Places, TypeOK
<1>2. HandlerOK'  BY DEF HandlerOK, Handlers, TypeOK
<1>3. FlagOK'     BY DEF FlagOK, TypeOK
<1>4. (finsp \in 0 .. MAXFINS)'  BY ControlAssumption DEF TypeOK
<1>5. (HandlerFits /\ DeferHolds /\ Saved)'
    BY DEF HandlerFits, DeferHolds, Saved, InEval, LineReset,
        TypeOK, PlaceOK, Places, FlagOK
<1>6. (ReadsAfresh /\ LineReset)'
    BY DEF ReadsAfresh, LineReset, HandlerFits, TypeOK, PlaceOK, FlagOK
<1> QED  BY <1>1, <1>2, <1>3, <1>4, <1>5, <1>6 DEF TypeOK

\* Compile keeps the invariant.
LEMMA CompileKeeps ==
  IInv /\ Compile => IInv'
<1> SUFFICES ASSUME IInv, Compile PROVE IInv'
    OBVIOUS
<1> USE DEF IInv, Compile
<1>1. PlaceOK'    BY DEF PlaceOK, Places, TypeOK
<1>2. HandlerOK'  BY DEF HandlerOK, Handlers, TypeOK
<1>3. FlagOK'     BY DEF FlagOK, TypeOK
<1>4. (finsp \in 0 .. MAXFINS)'  BY ControlAssumption DEF TypeOK
<1>5. (HandlerFits /\ DeferHolds /\ Saved)'
    BY DEF HandlerFits, DeferHolds, Saved, InEval, LineReset,
        TypeOK, PlaceOK, Places, FlagOK
<1>6. (ReadsAfresh /\ LineReset)'
    BY DEF ReadsAfresh, LineReset, HandlerFits, TypeOK, PlaceOK, FlagOK
<1> QED  BY <1>1, <1>2, <1>3, <1>4, <1>5, <1>6 DEF TypeOK

\* CompileError keeps the invariant.
LEMMA CompileErrorKeeps ==
  IInv /\ CompileError => IInv'
<1> SUFFICES ASSUME IInv, CompileError PROVE IInv'
    OBVIOUS
<1> USE DEF IInv, CompileError
<1>1. PlaceOK'    BY DEF PlaceOK, Places, TypeOK
<1>2. HandlerOK'  BY DEF HandlerOK, Handlers, TypeOK
<1>3. FlagOK'     BY DEF FlagOK, TypeOK
<1>4. (finsp \in 0 .. MAXFINS)'  BY ControlAssumption DEF TypeOK
<1>5. (HandlerFits /\ DeferHolds /\ Saved)'
    BY DEF HandlerFits, DeferHolds, Saved, InEval, LineReset,
        TypeOK, PlaceOK, Places, FlagOK
<1>6. (ReadsAfresh /\ LineReset)'
    BY DEF ReadsAfresh, LineReset, HandlerFits, TypeOK, PlaceOK, FlagOK
<1> QED  BY <1>1, <1>2, <1>3, <1>4, <1>5, <1>6 DEF TypeOK

\* Unwind keeps the invariant.
LEMMA UnwindKeeps ==
  IInv /\ Unwind => IInv'
<1> SUFFICES ASSUME IInv, Unwind PROVE IInv'
    OBVIOUS
<1> USE DEF IInv, Unwind
<1>1. PlaceOK'    BY DEF PlaceOK, Places, TypeOK
<1>2. HandlerOK'  BY DEF HandlerOK, Handlers, TypeOK
<1>3. FlagOK'     BY DEF FlagOK, TypeOK
<1>4. (finsp \in 0 .. MAXFINS)'  BY ControlAssumption DEF TypeOK
<1>5. (HandlerFits /\ DeferHolds /\ Saved)'
    BY DEF HandlerFits, DeferHolds, Saved, InEval, LineReset,
        TypeOK, PlaceOK, Places, FlagOK
<1>6. (ReadsAfresh /\ LineReset)'
    BY DEF ReadsAfresh, LineReset, HandlerFits, TypeOK, PlaceOK, FlagOK
<1> QED  BY <1>1, <1>2, <1>3, <1>4, <1>5, <1>6 DEF TypeOK

\* Leave keeps the invariant.
LEMMA LeaveKeeps ==
  IInv /\ Leave => IInv'
<1> SUFFICES ASSUME IInv, Leave PROVE IInv'
    OBVIOUS
<1> USE DEF IInv, Leave
<1>1. PlaceOK'    BY DEF PlaceOK, Places, TypeOK
<1>2. HandlerOK'  BY DEF HandlerOK, Handlers, TypeOK
<1>3. FlagOK'     BY DEF FlagOK, TypeOK
<1>4. (finsp \in 0 .. MAXFINS)'  BY ControlAssumption DEF TypeOK
<1>5. (HandlerFits /\ DeferHolds /\ Saved)'
    BY DEF HandlerFits, DeferHolds, Saved, InEval, LineReset,
        TypeOK, PlaceOK, Places, FlagOK
<1>6. (ReadsAfresh /\ LineReset)'
    BY DEF ReadsAfresh, LineReset, HandlerFits, TypeOK, PlaceOK, FlagOK
<1> QED  BY <1>1, <1>2, <1>3, <1>4, <1>5, <1>6 DEF TypeOK

\* Allocate keeps the invariant.
LEMMA AllocateKeeps ==
  IInv /\ Allocate => IInv'
<1> SUFFICES ASSUME IInv, Allocate PROVE IInv'
    OBVIOUS
<1> USE DEF IInv, Allocate
<1>1. PlaceOK'    BY DEF PlaceOK, Places, TypeOK
<1>2. HandlerOK'  BY DEF HandlerOK, Handlers, TypeOK
<1>3. FlagOK'     BY DEF FlagOK, TypeOK
<1>4. (finsp \in 0 .. MAXFINS)'  BY ControlAssumption DEF TypeOK
<1>5. (HandlerFits /\ DeferHolds /\ Saved)'
    BY DEF HandlerFits, DeferHolds, Saved, InEval, LineReset,
        TypeOK, PlaceOK, Places, FlagOK
<1>6. (ReadsAfresh /\ LineReset)'
    BY DEF ReadsAfresh, LineReset, HandlerFits, TypeOK, PlaceOK, FlagOK
<1> QED  BY <1>1, <1>2, <1>3, <1>4, <1>5, <1>6 DEF TypeOK

\* Error keeps the invariant.
LEMMA ErrorKeeps ==
  IInv /\ Error => IInv'
<1> SUFFICES ASSUME IInv, Error PROVE IInv'
    OBVIOUS
<1> USE DEF IInv, Error
<1>1. PlaceOK'    BY DEF PlaceOK, Places, TypeOK
<1>2. HandlerOK'  BY DEF HandlerOK, Handlers, TypeOK
<1>3. FlagOK'     BY DEF FlagOK, TypeOK
<1>4. (finsp \in 0 .. MAXFINS)'  BY ControlAssumption DEF TypeOK
<1>5. (HandlerFits /\ DeferHolds /\ Saved)'
    BY DEF HandlerFits, DeferHolds, Saved, InEval, LineReset,
        TypeOK, PlaceOK, Places, FlagOK
<1>6. (ReadsAfresh /\ LineReset)'
    BY DEF ReadsAfresh, LineReset, HandlerFits, TypeOK, PlaceOK, FlagOK
<1> QED  BY <1>1, <1>2, <1>3, <1>4, <1>5, <1>6 DEF TypeOK

\* c_include keeps the invariant.
LEMMA c_includeKeeps ==
  IInv /\ c_include => IInv'
<1> SUFFICES ASSUME IInv, c_include PROVE IInv'
    OBVIOUS
<1> USE DEF IInv, c_include
<1>1. PlaceOK'    BY DEF PlaceOK, Places, TypeOK
<1>2. HandlerOK'  BY DEF HandlerOK, Handlers, TypeOK
<1>3. FlagOK'     BY DEF FlagOK, TypeOK
<1>4. (finsp \in 0 .. MAXFINS)'  BY ControlAssumption DEF TypeOK
<1>5. (HandlerFits /\ DeferHolds /\ Saved)'
    BY DEF HandlerFits, DeferHolds, Saved, InEval, LineReset,
        TypeOK, PlaceOK, Places, FlagOK
<1>6. (ReadsAfresh /\ LineReset)'
    BY DEF ReadsAfresh, LineReset, HandlerFits, TypeOK, PlaceOK, FlagOK
<1> QED  BY <1>1, <1>2, <1>3, <1>4, <1>5, <1>6 DEF TypeOK

\* c_read keeps the invariant.
LEMMA c_readKeeps ==
  IInv /\ c_read => IInv'
<1> SUFFICES ASSUME IInv, c_read PROVE IInv'
    OBVIOUS
<1> USE DEF IInv, c_read
<1>1. PlaceOK'    BY DEF PlaceOK, Places, TypeOK
<1>2. HandlerOK'  BY DEF HandlerOK, Handlers, TypeOK
<1>3. FlagOK'     BY DEF FlagOK, TypeOK
<1>4. (finsp \in 0 .. MAXFINS)'  BY ControlAssumption DEF TypeOK
<1>5. (HandlerFits /\ DeferHolds /\ Saved)'
    BY DEF HandlerFits, DeferHolds, Saved, InEval, LineReset,
        TypeOK, PlaceOK, Places, FlagOK
<1>6. (ReadsAfresh /\ LineReset)'
    BY DEF ReadsAfresh, LineReset, HandlerFits, TypeOK, PlaceOK, FlagOK
<1> QED  BY <1>1, <1>2, <1>3, <1>4, <1>5, <1>6 DEF TypeOK

\* Busy keeps the invariant.
LEMMA BusyKeeps ==
  IInv /\ Busy => IInv'
<1> SUFFICES ASSUME IInv, Busy PROVE IInv'
    OBVIOUS
<1> USE DEF IInv, Busy
<1>1. PlaceOK'    BY DEF PlaceOK, Places, TypeOK
<1>2. HandlerOK'  BY DEF HandlerOK, Handlers, TypeOK
<1>3. FlagOK'     BY DEF FlagOK, TypeOK
<1>4. (finsp \in 0 .. MAXFINS)'  BY ControlAssumption DEF TypeOK
<1>5. (HandlerFits /\ DeferHolds /\ Saved)'
    BY DEF HandlerFits, DeferHolds, Saved, InEval, LineReset,
        TypeOK, PlaceOK, Places, FlagOK
<1>6. (ReadsAfresh /\ LineReset)'
    BY DEF ReadsAfresh, LineReset, HandlerFits, TypeOK, PlaceOK, FlagOK
<1> QED  BY <1>1, <1>2, <1>3, <1>4, <1>5, <1>6 DEF TypeOK

\* c_debugger keeps the invariant.
LEMMA c_debuggerKeeps ==
  IInv /\ c_debugger => IInv'
<1> SUFFICES ASSUME IInv, c_debugger PROVE IInv'
    OBVIOUS
<1> USE DEF IInv, c_debugger
<1>1. PlaceOK'    BY DEF PlaceOK, Places, TypeOK
<1>2. HandlerOK'  BY DEF HandlerOK, Handlers, TypeOK
<1>3. FlagOK'     BY DEF FlagOK, TypeOK
<1>4. (finsp \in 0 .. MAXFINS)'  BY ControlAssumption DEF TypeOK
<1>5. (HandlerFits /\ DeferHolds /\ Saved)'
    BY DEF HandlerFits, DeferHolds, Saved, InEval, LineReset,
        TypeOK, PlaceOK, Places, FlagOK
<1>6. (ReadsAfresh /\ LineReset)'
    BY DEF ReadsAfresh, LineReset, HandlerFits, TypeOK, PlaceOK, FlagOK
<1> QED  BY <1>1, <1>2, <1>3, <1>4, <1>5, <1>6 DEF TypeOK

\* c_quit keeps the invariant.
LEMMA c_quitKeeps ==
  IInv /\ c_quit => IInv'
<1> SUFFICES ASSUME IInv, c_quit PROVE IInv'
    OBVIOUS
<1> USE DEF IInv, c_quit
<1>1. PlaceOK'    BY DEF PlaceOK, Places, TypeOK
<1>2. HandlerOK'  BY DEF HandlerOK, Handlers, TypeOK
<1>3. FlagOK'     BY DEF FlagOK, TypeOK
<1>4. (finsp \in 0 .. MAXFINS)'  BY ControlAssumption DEF TypeOK
<1>5. (HandlerFits /\ DeferHolds /\ Saved)'
    BY DEF HandlerFits, DeferHolds, Saved, InEval, LineReset,
        TypeOK, PlaceOK, Places, FlagOK
<1>6. (ReadsAfresh /\ LineReset)'
    BY DEF ReadsAfresh, LineReset, HandlerFits, TypeOK, PlaceOK, FlagOK
<1> QED  BY <1>1, <1>2, <1>3, <1>4, <1>5, <1>6 DEF TypeOK

\* c_end keeps the invariant.
LEMMA c_endKeeps ==
  IInv /\ c_end => IInv'
<1> SUFFICES ASSUME IInv, c_end PROVE IInv'
    OBVIOUS
<1> USE DEF IInv, c_end
<1>1. PlaceOK'    BY DEF PlaceOK, Places, TypeOK
<1>2. HandlerOK'  BY DEF HandlerOK, Handlers, TypeOK
<1>3. FlagOK'     BY DEF FlagOK, TypeOK
<1>4. (finsp \in 0 .. MAXFINS)'  BY ControlAssumption DEF TypeOK
<1>5. (HandlerFits /\ DeferHolds /\ Saved)'
    BY DEF HandlerFits, DeferHolds, Saved, InEval, LineReset,
        TypeOK, PlaceOK, Places, FlagOK
<1>6. (ReadsAfresh /\ LineReset)'
    BY DEF ReadsAfresh, LineReset, HandlerFits, TypeOK, PlaceOK, FlagOK
<1> QED  BY <1>1, <1>2, <1>3, <1>4, <1>5, <1>6 DEF TypeOK

\* TakeBreak keeps the invariant.
LEMMA TakeBreakKeeps ==
  IInv /\ TakeBreak => IInv'
<1> SUFFICES ASSUME IInv, TakeBreak PROVE IInv'
    OBVIOUS
<1> USE DEF IInv, TakeBreak
<1>1. PlaceOK'    BY DEF PlaceOK, Places, TypeOK
<1>2. HandlerOK'  BY DEF HandlerOK, Handlers, TypeOK
<1>3. FlagOK'     BY DEF FlagOK, TypeOK
<1>4. (finsp \in 0 .. MAXFINS)'  BY ControlAssumption DEF TypeOK
<1>5. (HandlerFits /\ DeferHolds /\ Saved)'
    BY DEF HandlerFits, DeferHolds, Saved, InEval, LineReset,
        TypeOK, PlaceOK, Places, FlagOK
<1>6. (ReadsAfresh /\ LineReset)'
    BY DEF ReadsAfresh, LineReset, HandlerFits, TypeOK, PlaceOK, FlagOK
<1> QED  BY <1>1, <1>2, <1>3, <1>4, <1>5, <1>6 DEF TypeOK

\* EvalGC keeps the invariant.
LEMMA EvalGCKeeps ==
  IInv /\ EvalGC => IInv'
<1> SUFFICES ASSUME IInv, EvalGC PROVE IInv'
    OBVIOUS
<1> USE DEF IInv, EvalGC
<1>1. PlaceOK'    BY DEF PlaceOK, Places, TypeOK
<1>2. HandlerOK'  BY DEF HandlerOK, Handlers, TypeOK
<1>3. FlagOK'     BY DEF FlagOK, TypeOK
<1>4. (finsp \in 0 .. MAXFINS)'  BY ControlAssumption DEF TypeOK
<1>5. (HandlerFits /\ DeferHolds /\ Saved)'
    BY DEF HandlerFits, DeferHolds, Saved, InEval, LineReset,
        TypeOK, PlaceOK, Places, FlagOK
<1>6. (ReadsAfresh /\ LineReset)'
    BY DEF ReadsAfresh, LineReset, HandlerFits, TypeOK, PlaceOK, FlagOK
<1> QED  BY <1>1, <1>2, <1>3, <1>4, <1>5, <1>6 DEF TypeOK

\* BusyDone keeps the invariant.
LEMMA BusyDoneKeeps ==
  IInv /\ BusyDone => IInv'
<1> SUFFICES ASSUME IInv, BusyDone PROVE IInv'
    OBVIOUS
<1> USE DEF IInv, BusyDone
<1>1. PlaceOK'    BY DEF PlaceOK, Places, TypeOK
<1>2. HandlerOK'  BY DEF HandlerOK, Handlers, TypeOK
<1>3. FlagOK'     BY DEF FlagOK, TypeOK
<1>4. (finsp \in 0 .. MAXFINS)'  BY ControlAssumption DEF TypeOK
<1>5. (HandlerFits /\ DeferHolds /\ Saved)'
    BY DEF HandlerFits, DeferHolds, Saved, InEval, LineReset,
        TypeOK, PlaceOK, Places, FlagOK
<1>6. (ReadsAfresh /\ LineReset)'
    BY DEF ReadsAfresh, LineReset, HandlerFits, TypeOK, PlaceOK, FlagOK
<1> QED  BY <1>1, <1>2, <1>3, <1>4, <1>5, <1>6 DEF TypeOK

\* DebugCommand keeps the invariant.
LEMMA DebugCommandKeeps ==
  IInv /\ DebugCommand => IInv'
<1> SUFFICES ASSUME IInv, DebugCommand PROVE IInv'
    OBVIOUS
<1> USE DEF IInv, DebugCommand
<1>1. CASE at' = "eval" /\ brk' = oldbrk /\ UNCHANGED <<flags, finsp>>
  <2>1. PlaceOK'    BY <1>1 DEF PlaceOK, Places, TypeOK
  <2>2. HandlerOK'  BY <1>1 DEF HandlerOK, Handlers, TypeOK
  <2>3. FlagOK'     BY <1>1 DEF FlagOK, TypeOK
  <2>4. (finsp \in 0 .. MAXFINS)'  BY <1>1, ControlAssumption DEF TypeOK
  <2>5. (HandlerFits /\ DeferHolds /\ Saved)'
      BY <1>1 DEF HandlerFits, DeferHolds, Saved, InEval, LineReset,
          TypeOK, PlaceOK, Places, FlagOK
  <2>6. (ReadsAfresh /\ LineReset)'
      BY <1>1 DEF ReadsAfresh, LineReset, HandlerFits, TypeOK, PlaceOK, FlagOK
  <2> QED  BY <2>1, <2>2, <2>3, <2>4, <2>5, <2>6 DEF TypeOK
<1>2. CASE EvalErr(oldbrk) /\ UNCHANGED dbrk
  <2>1. PlaceOK'    BY <1>2 DEF PlaceOK, Places, TypeOK
  <2>2. HandlerOK'  BY <1>2 DEF HandlerOK, Handlers, TypeOK
  <2>3. FlagOK'     BY <1>2 DEF FlagOK, TypeOK
  <2>4. (finsp \in 0 .. MAXFINS)'  BY <1>2, ControlAssumption DEF TypeOK
  <2>5. (HandlerFits /\ DeferHolds /\ Saved)'
      BY <1>2 DEF HandlerFits, DeferHolds, Saved, InEval, LineReset,
          TypeOK, PlaceOK, Places, FlagOK
  <2>6. (ReadsAfresh /\ LineReset)'
      BY <1>2 DEF ReadsAfresh, LineReset, HandlerFits, TypeOK, PlaceOK, FlagOK
  <2> QED  BY <2>1, <2>2, <2>3, <2>4, <2>5, <2>6 DEF TypeOK
<1> QED
    BY <1>1, <1>2 DEF TypeOK, HandlerOK, Handlers, Saved, PlaceOK

\* So does the end of a collection, with a break that was deferred, with a heap
\* that stays full, and without either.
LEMMA EndGCKeeps ==
  IInv /\ EndGC => IInv'
<1> SUFFICES ASSUME IInv, EndGC PROVE IInv'
    OBVIOUS
<1> USE DEF IInv, EndGC
<1>1. CASE dbrk /\ gcoldbrk = "brkhand" /\ brkhand
  <2>1. PlaceOK'    BY <1>1 DEF PlaceOK, Places, TypeOK
  <2>2. HandlerOK'  BY <1>1 DEF HandlerOK, Handlers, TypeOK
  <2>3. FlagOK'     BY <1>1 DEF FlagOK, TypeOK
  <2>4. (finsp \in 0 .. MAXFINS)'  BY <1>1, ControlAssumption DEF TypeOK
  <2>5. (HandlerFits /\ DeferHolds /\ Saved)'
      BY <1>1 DEF HandlerFits, DeferHolds, Saved, InEval, LineReset,
          TypeOK, PlaceOK, Places, FlagOK
  <2>6. (ReadsAfresh /\ LineReset)'
      BY <1>1 DEF ReadsAfresh, LineReset, HandlerFits, TypeOK, PlaceOK, FlagOK
  <2> QED  BY <2>1, <2>2, <2>3, <2>4, <2>5, <2>6 DEF TypeOK
<1>2. CASE dbrk /\ gcoldbrk = "ebrkjmp" /\ ebrkjmp(ret)
  <2>1. PlaceOK'    BY <1>2 DEF PlaceOK, Places, TypeOK
  <2>2. HandlerOK'  BY <1>2 DEF HandlerOK, Handlers, TypeOK
  <2>3. FlagOK'     BY <1>2 DEF FlagOK, TypeOK
  <2>4. (finsp \in 0 .. MAXFINS)'  BY <1>2, ControlAssumption DEF TypeOK
  <2>5. (HandlerFits /\ DeferHolds /\ Saved)'
      BY <1>2 DEF HandlerFits, DeferHolds, Saved, InEval, LineReset,
          TypeOK, PlaceOK, Places, FlagOK
  <2>6. (ReadsAfresh /\ LineReset)'
      BY <1>2 DEF ReadsAfresh, LineReset, HandlerFits, TypeOK, PlaceOK, FlagOK
  <2> QED  BY <2>1, <2>2, <2>3, <2>4, <2>5, <2>6 DEF TypeOK
<1>3. CASE dbrk /\ gcoldbrk = "crbrkhand" /\ crbrkhand(ret)
  <2>1. PlaceOK'    BY <1>3 DEF PlaceOK, Places, TypeOK
  <2>2. HandlerOK'  BY <1>3 DEF HandlerOK, Handlers, TypeOK
  <2>3. FlagOK'     BY <1>3 DEF FlagOK, TypeOK
  <2>4. (finsp \in 0 .. MAXFINS)'  BY <1>3, ControlAssumption DEF TypeOK
  <2>5. (HandlerFits /\ DeferHolds /\ Saved)'
      BY <1>3 DEF HandlerFits, DeferHolds, Saved, InEval, LineReset,
          TypeOK, PlaceOK, Places, FlagOK
  <2>6. (ReadsAfresh /\ LineReset)'
      BY <1>3 DEF ReadsAfresh, LineReset, HandlerFits, TypeOK, PlaceOK, FlagOK
  <2> QED  BY <2>1, <2>2, <2>3, <2>4, <2>5, <2>6 DEF TypeOK
<1>4. CASE ret = "eval" /\ EvalErr(gcoldbrk) /\ UNCHANGED <<readdone, line>>
  <2>1. PlaceOK'    BY <1>4 DEF PlaceOK, Places, TypeOK
  <2>2. HandlerOK'  BY <1>4 DEF HandlerOK, Handlers, TypeOK
  <2>3. FlagOK'     BY <1>4 DEF FlagOK, TypeOK
  <2>4. (finsp \in 0 .. MAXFINS)'  BY <1>4, ControlAssumption DEF TypeOK
  <2>5. (HandlerFits /\ DeferHolds /\ Saved)'
      BY <1>4 DEF HandlerFits, DeferHolds, Saved, InEval, LineReset,
          TypeOK, PlaceOK, Places, FlagOK
  <2>6. (ReadsAfresh /\ LineReset)'
      BY <1>4 DEF ReadsAfresh, LineReset, HandlerFits, TypeOK, PlaceOK, FlagOK
  <2> QED  BY <2>1, <2>2, <2>3, <2>4, <2>5, <2>6 DEF TypeOK
<1>5. CASE (dbrk => gcoldbrk = "ebrkhand") /\ Collected
  <2>1. PlaceOK'    BY <1>5 DEF PlaceOK, Places, TypeOK
  <2>2. HandlerOK'  BY <1>5 DEF HandlerOK, Handlers, TypeOK
  <2>3. FlagOK'     BY <1>5 DEF FlagOK, TypeOK
  <2>4. (finsp \in 0 .. MAXFINS)'  BY <1>5, ControlAssumption DEF TypeOK
  <2>5. (HandlerFits /\ DeferHolds /\ Saved)'
      BY <1>5 DEF HandlerFits, DeferHolds, Saved, InEval, LineReset,
          TypeOK, PlaceOK, Places, FlagOK
  <2>6. (ReadsAfresh /\ LineReset)'
      BY <1>5 DEF ReadsAfresh, LineReset, HandlerFits, TypeOK, PlaceOK, FlagOK
  <2> QED  BY <2>1, <2>2, <2>3, <2>4, <2>5, <2>6 DEF TypeOK
<1> QED
    BY ZenonT(60), <1>1, <1>2, <1>3, <1>4, <1>5 DEF TypeOK, HandlerOK, Handlers, Saved, PlaceOK

\* CopyGivesUp keeps the invariant.
LEMMA CopyGivesUpKeeps ==
  IInv /\ CopyGivesUp => IInv'
<1> SUFFICES ASSUME IInv, CopyGivesUp PROVE IInv'
    OBVIOUS
<1> USE DEF IInv, CopyGivesUp
<1>1. PlaceOK'    BY DEF PlaceOK, Places, TypeOK
<1>2. HandlerOK'  BY DEF HandlerOK, Handlers, TypeOK
<1>3. FlagOK'     BY DEF FlagOK, TypeOK
<1>4. (finsp \in 0 .. MAXFINS)'  BY ControlAssumption DEF TypeOK
<1>5. (HandlerFits /\ DeferHolds /\ Saved)'
    BY DEF HandlerFits, DeferHolds, Saved, InEval, LineReset,
        TypeOK, PlaceOK, Places, FlagOK
<1>6. (ReadsAfresh /\ LineReset)'
    BY DEF ReadsAfresh, LineReset, HandlerFits, TypeOK, PlaceOK, FlagOK
<1> QED  BY <1>1, <1>2, <1>3, <1>4, <1>5, <1>6 DEF TypeOK

\* Exited keeps the invariant.
LEMMA ExitedKeeps ==
  IInv /\ Exited => IInv'
<1> SUFFICES ASSUME IInv, Exited PROVE IInv'
    OBVIOUS
<1> USE DEF IInv, Exited, vars
<1>1. PlaceOK'    BY DEF PlaceOK, Places, TypeOK
<1>2. HandlerOK'  BY DEF HandlerOK, Handlers, TypeOK
<1>3. FlagOK'     BY DEF FlagOK, TypeOK
<1>4. (finsp \in 0 .. MAXFINS)'  BY ControlAssumption DEF TypeOK
<1>5. (HandlerFits /\ DeferHolds /\ Saved)'
    BY DEF HandlerFits, DeferHolds, Saved, InEval, LineReset,
        TypeOK, PlaceOK, Places, FlagOK
<1>6. (ReadsAfresh /\ LineReset)'
    BY DEF ReadsAfresh, LineReset, HandlerFits, TypeOK, PlaceOK, FlagOK
<1> QED  BY <1>1, <1>2, <1>3, <1>4, <1>5, <1>6 DEF TypeOK

\* A step that changes nothing keeps it.
LEMMA StutterKeeps ==
  IInv /\ UNCHANGED vars => IInv'
<1> SUFFICES ASSUME IInv, UNCHANGED vars PROVE IInv'
    OBVIOUS
<1> USE DEF IInv, vars
<1>1. PlaceOK'    BY DEF PlaceOK, Places, TypeOK
<1>2. HandlerOK'  BY DEF HandlerOK, Handlers, TypeOK
<1>3. FlagOK'     BY DEF FlagOK, TypeOK
<1>4. (finsp \in 0 .. MAXFINS)'  BY ControlAssumption DEF TypeOK
<1>5. (HandlerFits /\ DeferHolds /\ Saved)'
    BY DEF HandlerFits, DeferHolds, Saved, InEval, LineReset,
        TypeOK, PlaceOK, Places, FlagOK
<1>6. (ReadsAfresh /\ LineReset)'
    BY DEF ReadsAfresh, LineReset, HandlerFits, TypeOK, PlaceOK, FlagOK
<1> QED  BY <1>1, <1>2, <1>3, <1>4, <1>5, <1>6 DEF TypeOK

\* c_defer keeps the invariant.
LEMMA c_deferKeeps ==
  ASSUME IInv, NEW b \in BOOLEAN, c_defer(b) PROVE IInv'
<1> USE DEF IInv, c_defer
<1>1. PlaceOK'    BY DEF PlaceOK, Places, TypeOK
<1>2. HandlerOK'  BY DEF HandlerOK, Handlers, TypeOK
<1>3. FlagOK'     BY DEF FlagOK, TypeOK
<1>4. (finsp \in 0 .. MAXFINS)'  BY ControlAssumption DEF TypeOK
<1>5. (HandlerFits /\ DeferHolds /\ Saved)'
    BY DEF HandlerFits, DeferHolds, Saved, InEval, LineReset,
        TypeOK, PlaceOK, Places, FlagOK
<1>6. (ReadsAfresh /\ LineReset)'
    BY DEF ReadsAfresh, LineReset, HandlerFits, TypeOK, PlaceOK, FlagOK
<1> QED  BY <1>1, <1>2, <1>3, <1>4, <1>5, <1>6 DEF TypeOK

\* SetErrorContinue keeps the invariant.
LEMMA SetErrorContinueKeeps ==
  ASSUME IInv, NEW b \in BOOLEAN, SetErrorContinue(b) PROVE IInv'
<1> USE DEF IInv, SetErrorContinue
<1>1. PlaceOK'    BY DEF PlaceOK, Places, TypeOK
<1>2. HandlerOK'  BY DEF HandlerOK, Handlers, TypeOK
<1>3. FlagOK'     BY DEF FlagOK, TypeOK
<1>4. (finsp \in 0 .. MAXFINS)'  BY ControlAssumption DEF TypeOK
<1>5. (HandlerFits /\ DeferHolds /\ Saved)'
    BY DEF HandlerFits, DeferHolds, Saved, InEval, LineReset,
        TypeOK, PlaceOK, Places, FlagOK
<1>6. (ReadsAfresh /\ LineReset)'
    BY DEF ReadsAfresh, LineReset, HandlerFits, TypeOK, PlaceOK, FlagOK
<1> QED  BY <1>1, <1>2, <1>3, <1>4, <1>5, <1>6 DEF TypeOK

\* Every step keeps the invariant.
LEMMA NextIInv == IInv /\ [Next]_vars => IInv'
<1> SUFFICES ASSUME IInv, [Next]_vars PROVE IInv'
    OBVIOUS
<1>1. CASE UNCHANGED vars
    BY <1>1, StutterKeeps
<1>2. CASE Next
    BY <1>2, BreakKeeps, StartLoopKeeps, PrintResultKeeps, StartReadKeeps, ReadPartKeeps,
       ReadErrKeeps, ReadBlankKeeps, ReadEOFKeeps, ReadKeeps, ReadEOTKeeps,
       ReadValueKeeps, CompileKeeps, CompileErrorKeeps, UnwindKeeps, LeaveKeeps,
       AllocateKeeps, ErrorKeeps, c_includeKeeps, c_readKeeps, BusyKeeps,
       c_debuggerKeeps, c_quitKeeps, c_endKeeps, TakeBreakKeeps, EvalGCKeeps,
       BusyDoneKeeps, DebugCommandKeeps, EndGCKeeps, CopyGivesUpKeeps, ExitedKeeps,
       StutterKeeps, c_deferKeeps, SetErrorContinueKeeps
    DEF Next, ReaderStep, Command, GCStep
<1> QED
    BY <1>1, <1>2

\* The inductive invariant, and the properties it implies.
THEOREM InductiveInvariant == Spec => []IInv
  BY InitIInv, NextIInv, PTL DEF Spec

\* Every variable keeps its type; include files nest no deeper than MAXFINS.
THEOREM TypeOKHolds == Spec => []TypeOK
  BY InductiveInvariant, PTL DEF IInv

\* The break handler that is hooked suits the function that is running,
\* whatever errors, breaks and continuations came before.
THEOREM HandlerFitsHolds == Spec => []HandlerFits
  BY InductiveInvariant, PTL DEF IInv

\* No way out of a read leaves half an expression to the next one.
THEOREM ReadsAfreshHolds == Spec => []ReadsAfresh
  BY InductiveInvariant, PTL DEF IInv

\* While breaks are deferred, none jumps out of the evaluator.
THEOREM DeferHoldsHolds == Spec => []DeferHolds
  BY InductiveInvariant, PTL DEF IInv

\* A break that comes during a collection takes effect when it ends, or is
\* noted.
THEOREM BreakOutlivesGCHolds == Spec => BreakOutlivesGC
<1>1. IInv /\ [Next]_vars =>
        [at = "gc" /\ dbrk /\ at' # "gc" => ebrk' \/ at' \in {"top", "unwind", "dead"}]_vars
  <2> SUFFICES ASSUME IInv, Next, at = "gc", dbrk, at' # "gc"
               PROVE  ebrk' \/ at' \in {"top", "unwind", "dead"}
      OBVIOUS
  <2>1. EndGC \/ CopyGivesUp \/ Break
      BY DEF Next, ReaderStep, Command, GCStep, StartLoop, PrintResult, StartRead, ReadPart, ReadErr,
         ReadBlank, ReadEOF, Read, ReadEOT, ReadValue, Compile, CompileError, Unwind, Leave,
         Allocate, Error, c_include, c_read, Busy, c_debugger, c_quit, c_end, TakeBreak, EvalGC,
         BusyDone, DebugCommand, Exited, c_defer, SetErrorContinue
  <2>2. CASE EndGC
      BY <2>2 DEF EndGC, IInv, TypeOK, HandlerOK, Handlers, Saved, PlaceOK
  <2>3. CASE CopyGivesUp
      BY <2>3 DEF CopyGivesUp
  <2>4. CASE Break
      BY <2>4 DEF Break, IInv, HandlerFits
  <2> QED
      BY <2>1, <2>2, <2>3, <2>4
<1> QED
    BY <1>1, InductiveInvariant, PTL DEF Spec, BreakOutlivesGC
=============================================================================
