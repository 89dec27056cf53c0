------------------------------ MODULE Control ------------------------------
(***************************************************************************)
(* The control of MakerLisp's read-eval-print loop: which break handler is *)
(* hooked where, what ^C does when it comes at any moment, how errors of   *)
(* the reader and of the evaluator leave through longjmp(), and what state *)
(* they leave the reader and the include files in.                         *)
(*                                                                         *)
(* A place is a C function that can be interrupted; the data it works on   *)
(* is reduced to what the error and break paths test.                      *)
(***************************************************************************)
EXTENDS Integers

CONSTANTS
  MAXFINS,   \* how deep include files nest
  ERRCONT    \* may programs set *error-continue* ?

ASSUME ControlAssumption == MAXFINS \in Nat /\ ERRCONT \in BOOLEAN

VARIABLES
  at,        \* where the program is
  ret,       \* where gc() goes back to
  brk,       \* the break handler that is hooked
  oldebrkh,  \* the one eval() will restore
  oldbrk,    \* the one c_read(), c_print() or c_ffcall() will restore
  gcoldbrk,  \* the one gc() will restore
  ebrk,      \* a break waits for evalgc()
  dontbrk,   \* (defer 't)
  dbrk,      \* a break came during the collection
  errcont,   \* *error-continue* holds a continuation
  finsp,     \* include files being read
  readdone,  \* the reader is between two expressions
  line,      \* line buffer: "empty", "part" of an expression, an error "message"
  err,       \* read restarted with an error message: exread()'s e < 0
  full,      \* timegc()
  done,      \* leave the loop
  contd      \* ghost: an error was continued under another handler than eval()'s

place    == <<at, ret>>
handlers == <<brk, oldebrkh, oldbrk, gcoldbrk>>
flags    == <<ebrk, dontbrk, dbrk>>
reader0  == <<readdone, line, err>>
reader   == <<finsp, reader0>>
vars     == <<place, handlers, flags, errcont, reader, full, done, contd>>

Reading  == {"read", "cread"}
Places   == Reading \cup
            {"top", "gc", "compile", "eval", "busy", "debug", "unwind", "leave", "print",
             "end", "dead"}
Handlers == {"SIG_DFL", "brkhand", "ebrkhand", "ebrkjmp", "crbrkhand", "deferbrk"}

\* by errors and breaks
fixed == <<ret, oldebrkh, oldbrk, gcoldbrk, errcont, err, done, contd>>

-----------------------------------------------------------------------------
(***************************************************************************)
(* evalerr(), with handler h hooked: a jump into eval(), which is yet to   *)
(* look for *error-continue* and to restore the handler.                   *)
(***************************************************************************)
EvalErr(h) ==
  /\ finsp' = 0 /\ ebrk' = FALSE /\ dontbrk' = FALSE
  /\ at' = "unwind" /\ brk' = h

brkhand ==
  /\ finsp' = 0 /\ readdone' = TRUE /\ line' = "empty"
  /\ at' = "top" /\ brk' = "brkhand"
  /\ UNCHANGED <<ebrk, dontbrk>>

ebrkhand(place0) ==
  /\ ebrk' = TRUE
  /\ at' = place0 /\ brk' = "ebrkhand"
  /\ UNCHANGED <<dontbrk, finsp, readdone, line>>

\* It jumps into eval(), and crbrkhand() into c_read(), which ends the read
\* with an error.  There is no telling what the jump does once that function
\* has been left.
Dead ==
  at' = "dead" /\ UNCHANGED <<brk, ebrk, dontbrk, finsp, readdone, line>>

ebrkjmp(place0) ==
  IF place0 # "top" THEN EvalErr("ebrkjmp") /\ UNCHANGED <<readdone, line>> ELSE Dead

crbrkhand(place0) ==
  IF place0 = "cread"
  THEN readdone' = TRUE /\ line' = "empty" /\ EvalErr("crbrkhand")
  ELSE Dead

\* A break, heard by handler h at a place.
Hear(h, place0) ==
  \/ h = "brkhand" /\ brkhand
  \/ h = "ebrkhand" /\ ebrkhand(place0)
  \/ h = "ebrkjmp" /\ ebrkjmp(place0)
  \/ h = "crbrkhand" /\ crbrkhand(place0)

\* ^C comes when it likes.  Before main() has hooked its first handler it
\* ends the process, as anything does that is never started: no step.
Break ==
  /\ at \notin {"end", "dead"}
  /\ IF brk = "deferbrk"
     THEN dbrk' = TRUE /\ UNCHANGED <<at, brk, ebrk, dontbrk, finsp, readdone, line>>
     ELSE Hear(brk, at) /\ UNCHANGED dbrk
  /\ UNCHANGED <<fixed, full>>

-----------------------------------------------------------------------------
\* main(), after SETJMP(replenv).
StartLoop ==
  /\ at = "top"
  /\ brk' = "brkhand" /\ err' = FALSE
  /\ at' = IF done THEN "end" ELSE "read"
  /\ UNCHANGED <<ret, oldebrkh, oldbrk, gcoldbrk, flags, errcont, finsp, readdone,
                 line, full, done, contd>>

\* print() of the result, and round the loop to read().
PrintResult ==
  /\ at = "print"
  /\ at' = "read" /\ err' = FALSE
  /\ UNCHANGED <<ret, handlers, flags, errcont, finsp, readdone, line, full, done, contd>>

-----------------------------------------------------------------------------
\* gc(): breaks are deferred around the collection.
BeginGC(from) ==
  /\ ret' = from /\ at' = "gc" /\ dbrk' = FALSE
  /\ gcoldbrk' = brk /\ brk' = "deferbrk"
  /\ UNCHANGED <<oldebrkh, oldbrk, ebrk, dontbrk, errcont, reader, full, done, contd>>

\* startread() marks the read as begun, evalgc() goes on.
Collected ==
  /\ at' = ret /\ brk' = gcoldbrk
  /\ readdone' = (ret = "eval")
  /\ ebrk' = (ebrk \/ dbrk)
  /\ UNCHANGED <<dontbrk, finsp, line>>

EndGC_ForgetBreak ==                     \* mutant: dbrk is not looked at
  /\ at = "gc"
  /\ full' \in BOOLEAN /\ dbrk' = FALSE /\ UNCHANGED fixed
  /\ at' = ret /\ brk' = gcoldbrk /\ readdone' = (ret = "eval")
  /\ UNCHANGED <<ebrk, dontbrk, finsp, line>>

\* The handler is back, and hears of a break that came meanwhile; ebrkhand()
\* only notes it.  evalgc() looks whether the collection has made room.
EndGC ==
  /\ at = "gc"
  /\ full' \in BOOLEAN /\ dbrk' = FALSE /\ UNCHANGED fixed
  /\ IF dbrk /\ gcoldbrk # "ebrkhand" THEN Hear(gcoldbrk, ret)
     ELSE IF ret = "eval" /\ full' THEN EvalErr(gcoldbrk) /\ UNCHANGED <<readdone, line>>
     ELSE Collected

\* copycell() out of memory: a new heap, a new evaluator, and to the top.
CopyGivesUp ==
  /\ at = "gc"
  /\ at' = "top"
  /\ ebrk' = FALSE /\ dontbrk' = FALSE /\ errcont' = FALSE /\ full' = FALSE
  /\ UNCHANGED <<ret, handlers, dbrk, reader, done, contd>>

-----------------------------------------------------------------------------
(***************************************************************************)
(* The reader: exread(), for the loop or for the primitive read.           *)
(***************************************************************************)
StartRead == at \in Reading /\ readdone /\ BeginGC(at)

reading == <<at, ret, handlers, flags, errcont, finsp, done, contd>>

\* Characters of an expression, and cells for it; a comment, a string.
ReadPart ==
  /\ at \in Reading /\ ~ readdone /\ line # "message"
  /\ line' = "part"
  /\ UNCHANGED <<reading, readdone, err, full>>

\* readerr(): the message takes the line's place and is read in its stead.
\* Incomplete or unexpected input; or no room, which memchk() finds out on
\* the message's own symbol too.
ReadErr ==
  /\ at \in Reading /\ ~ readdone
  /\ \/ line # "message" /\ full' \in {full, TRUE}
     \/ line = "message" /\ full' = TRUE
  /\ line' = "message" /\ err' = TRUE
  /\ UNCHANGED <<reading, readdone>>

\* A blank line: the read starts again.
ReadBlank ==
  /\ at \in Reading /\ ~ readdone /\ line = "empty"
  /\ readdone' = TRUE /\ err' = FALSE
  /\ UNCHANGED <<reading, line, full>>

\* End of an include file, which reads like a blank name; or of the input.
ReadEOF ==
  /\ at \in Reading /\ ~ readdone /\ line = "empty"
  /\ \/ /\ finsp > 0
        /\ finsp' = finsp - 1 /\ line' = "message"
        /\ UNCHANGED <<at, done>>
     \/ /\ finsp = 0
        /\ done' = TRUE /\ at' = "top"
        /\ UNCHANGED <<finsp, line>>
  /\ err' = FALSE
  /\ UNCHANGED <<ret, handlers, flags, errcont, readdone, full, contd>>

ExRead_LeaveLine ==                      \* mutant: no endread() after an error
  /\ ~ readdone /\ ~ full /\ line # "empty"
  /\ IF err /\ errcont THEN UNCHANGED <<readdone, line>>
     ELSE readdone' = TRUE /\ line' = "empty"

\* An expression is complete, and so is its line.
ExRead ==
  /\ ~ readdone /\ ~ full /\ line # "empty"
  /\ readdone' = TRUE /\ line' = "empty"

\* read(), then eval() up to cexpand().  The end of input symbol on the
\* terminal leaves instead; in a file it is an empty name.
Read ==
  /\ at = "read" /\ ExRead
  /\ oldebrkh' = brk /\ brk' = "ebrkhand"
  /\ at' = "compile"
  /\ finsp' \in {finsp} \cup (IF finsp > 0 THEN {finsp - 1} ELSE {})
  /\ UNCHANGED <<ret, oldbrk, gcoldbrk, flags, errcont, err, full, done, contd>>

ReadEOT ==
  /\ at = "read" /\ ExRead /\ finsp = 0 /\ ~ err
  /\ done' = TRUE /\ at' = "top"
  /\ UNCHANGED <<ret, handlers, flags, errcont, finsp, err, full, contd>>

\* The end of c_read(): an error message goes to the error's handler, if
\* there is one, anything else is the value.
ReadValue ==
  /\ at = "cread" /\ ExRead
  /\ IF err /\ errcont
     THEN EvalErr("crbrkhand") /\ UNCHANGED dbrk
     ELSE /\ at' = "eval" /\ brk' = oldbrk
          /\ UNCHANGED <<flags, finsp>>
  /\ UNCHANGED <<fixed, full>>

-----------------------------------------------------------------------------
(***************************************************************************)
(* The evaluator: eval() compiles the expression, then loops over commands.*)
(* An error of the first compilation is outside the loop: *error-continue* *)
(* does not apply to it.                                                   *)
(***************************************************************************)
Compile ==
  /\ at = "compile" /\ at' = "eval"
  /\ full' \in {full, TRUE}
  /\ UNCHANGED <<ret, handlers, flags, errcont, reader, done, contd>>

CompileError ==
  /\ at = "compile" /\ at' = "leave"
  /\ finsp' = 0 /\ ebrk' = FALSE /\ dontbrk' = FALSE
  /\ UNCHANGED <<ret, handlers, dbrk, errcont, reader0, full, done, contd>>

\* The jump of evalerr() arrives: the continuation in *error-continue* goes
\* on, under whatever handler is hooked, or else eval() returns the message.
Unwind ==
  /\ at = "unwind"
  /\ IF errcont THEN at' = "eval" /\ contd' = (contd \/ brk # "ebrkhand")
                ELSE at' = "leave" /\ contd' = contd
  /\ UNCHANGED <<ret, handlers, flags, errcont, reader, full, done>>

\* The end of eval(): only now is the handler of read and print back.
Leave ==
  /\ at = "leave" /\ at' = "print"
  /\ brk' = oldebrkh
  /\ UNCHANGED <<ret, oldebrkh, oldbrk, gcoldbrk, flags, errcont, reader, full, done, contd>>

Allocate ==
  /\ at = "eval" /\ full' = TRUE
  /\ UNCHANGED <<place, handlers, flags, errcont, reader, done, contd>>

\* A run-time error.
Error ==
  /\ at = "eval" /\ EvalErr(brk)
  /\ UNCHANGED <<fixed, dbrk, readdone, line, full>>

\* evalgc(): a break that has been noted, unless deferred; then the heap.
TakeBreak ==
  /\ at = "eval" /\ ebrk /\ ~ dontbrk
  /\ EvalErr(brk)
  /\ UNCHANGED <<fixed, dbrk, readdone, line, full>>

EvalGC == at = "eval" /\ ~ (ebrk /\ ~ dontbrk) /\ full /\ BeginGC("eval")

c_defer(b) ==
  /\ at = "eval" /\ dontbrk' = b
  /\ UNCHANGED <<place, handlers, ebrk, dbrk, errcont, reader, full, done, contd>>

SetErrorContinue(b) ==
  /\ at = "eval" /\ ERRCONT /\ errcont' = b
  /\ UNCHANGED <<place, handlers, flags, reader, full, done, contd>>

c_include ==
  /\ at = "eval" /\ finsp < MAXFINS
  /\ finsp' = finsp + 1
  /\ UNCHANGED <<place, handlers, flags, errcont, readdone, line, err, full, done, contd>>

\* c_read() up to exread().
c_read ==
  /\ at = "eval"
  /\ oldbrk' = brk
  /\ IF ebrk THEN EvalErr("crbrkhand") /\ UNCHANGED err
     ELSE /\ brk' = "crbrkhand" /\ at' = "cread" /\ err' = FALSE
          /\ UNCHANGED <<ebrk, dontbrk, finsp>>
  /\ UNCHANGED <<ret, oldebrkh, gcoldbrk, dbrk, errcont, readdone, line, full, done, contd>>

Busy_Always ==                           \* mutant: (defer 't) does not count
  /\ at = "eval"
  /\ oldbrk' = brk
  /\ IF ebrk THEN EvalErr("ebrkjmp")
     ELSE brk' = "ebrkjmp" /\ at' = "busy" /\ UNCHANGED <<ebrk, dontbrk, finsp>>
  /\ UNCHANGED <<ret, oldebrkh, gcoldbrk, dbrk, errcont, reader0, full, done, contd>>

\* c_print() and c_ffcall(): they may take long, so a break is immediate.
Busy ==
  /\ at = "eval"
  /\ IF dontbrk
     THEN at' = "busy" /\ UNCHANGED <<brk, oldbrk, ebrk, dontbrk, finsp>>
     ELSE /\ oldbrk' = brk
          /\ IF ebrk THEN EvalErr("ebrkjmp")
             ELSE /\ brk' = "ebrkjmp" /\ at' = "busy"
                  /\ UNCHANGED <<ebrk, dontbrk, finsp>>
  /\ UNCHANGED <<ret, oldebrkh, gcoldbrk, dbrk, errcont, reader0, full, done, contd>>

BusyDone_KeepHandler ==                  \* mutant: breaks stay immediate
  /\ at = "busy" /\ at' = "eval" /\ brk' = brk
  /\ UNCHANGED <<ret, oldebrkh, oldbrk, gcoldbrk, flags, errcont, reader, full, done, contd>>

BusyDone ==
  /\ at = "busy"
  /\ at' = "eval"
  /\ brk' = IF dontbrk THEN brk ELSE oldbrk
  /\ UNCHANGED <<ret, oldebrkh, oldbrk, gcoldbrk, flags, errcont, reader, full, done, contd>>

\* c_debugger() waits for a command, a break being immediate even after
\* (defer 't), and goes on or leaves.
c_debugger ==
  /\ at = "eval"
  /\ oldbrk' = brk
  /\ IF ebrk THEN EvalErr("ebrkjmp")
     ELSE brk' = "ebrkjmp" /\ at' = "debug" /\ UNCHANGED <<ebrk, dontbrk, finsp>>
  /\ UNCHANGED <<ret, oldebrkh, gcoldbrk, dbrk, errcont, reader0, full, done, contd>>

DebugCommand ==
  /\ at = "debug"
  /\ \/ at' = "eval" /\ brk' = oldbrk /\ UNCHANGED <<flags, finsp>>
     \/ EvalErr(oldbrk) /\ UNCHANGED dbrk
  /\ UNCHANGED <<fixed, reader0, full>>

c_quit ==
  /\ at = "eval"
  /\ done' = TRUE /\ at' = "top"
  /\ UNCHANGED <<ret, handlers, flags, errcont, reader, full, contd>>

c_end_NoCheck ==                         \* mutant: no evalgc() on the way out
  /\ at = "eval"
  /\ at' = "leave"
  /\ UNCHANGED <<ret, handlers, flags, errcont, reader, full, done, contd>>

\* c_end() of the last command, which runs evalgc() too.
c_end ==
  /\ at = "eval" /\ ~ (ebrk /\ ~ dontbrk) /\ ~ full
  /\ at' = "leave"
  /\ UNCHANGED <<ret, handlers, flags, errcont, reader, full, done, contd>>

-----------------------------------------------------------------------------
Init ==
  /\ at = "top" /\ ret = "eval"
  /\ brk = "SIG_DFL" /\ oldebrkh = "SIG_DFL" /\ oldbrk = "SIG_DFL" /\ gcoldbrk = "SIG_DFL"
  /\ ebrk = FALSE /\ dontbrk = FALSE /\ dbrk = FALSE
  /\ errcont = FALSE
  /\ finsp \in {0, 1} /\ finsp =< MAXFINS        \* the start-up file, if there is one
  /\ readdone = TRUE /\ line = "empty" /\ err = FALSE
  /\ full = FALSE /\ done = FALSE /\ contd = FALSE

Exited == at \in {"end", "dead"} /\ UNCHANGED vars

ReaderStep == StartRead \/ ReadPart \/ ReadErr \/ ReadBlank \/ ReadEOF
              \/ Read \/ ReadEOT \/ ReadValue
Command    == Allocate \/ Error \/ c_include \/ c_read \/ Busy \/ c_debugger \/ c_quit
              \/ c_end
              \/ (\E b \in BOOLEAN : c_defer(b) \/ SetErrorContinue(b))
GCStep     == EndGC \/ CopyGivesUp

Next ==
  \/ Break \/ StartLoop \/ PrintResult
  \/ ReaderStep
  \/ Compile \/ CompileError \/ Unwind \/ Leave
  \/ Command \/ TakeBreak \/ EvalGC \/ BusyDone \/ DebugCommand
  \/ GCStep
  \/ Exited

Spec == Init /\ [][Next]_vars

\* Commands follow each other, and every one that allocates, applies or
\* returns runs evalgc(); a collection ends; the message of an error is in
\* the line buffer and needs no input.
FairSpec ==
  /\ Spec
  /\ WF_vars(TakeBreak) /\ WF_vars(EvalGC) /\ WF_vars(GCStep)
  /\ WF_vars(line = "message" /\ ReaderStep)

-----------------------------------------------------------------------------
PlaceOK ==
  /\ at \in Places /\ ret \in Reading \cup {"eval"}
  /\ line \in {"empty", "part", "message"}
HandlerOK == \A h \in {brk, oldebrkh, oldbrk, gcoldbrk} : h \in Handlers
FlagOK ==
  /\ ebrk \in BOOLEAN /\ dontbrk \in BOOLEAN /\ dbrk \in BOOLEAN /\ errcont \in BOOLEAN
  /\ readdone \in BOOLEAN /\ err \in BOOLEAN
  /\ full \in BOOLEAN /\ done \in BOOLEAN /\ contd \in BOOLEAN
TypeOK == PlaceOK /\ HandlerOK /\ FlagOK /\ finsp \in 0 .. MAXFINS

\* Wherever an error or a break has come from, the loop reads and prints
\* under its own handler, the collector under the one that defers, and the
\* evaluator, unless it has continued an error of read or print, under the
\* one that only takes a note; read's own handler does not outlive the error
\* that ends a read.
HandlerFits ==
  /\ at \in {"read", "print"} => brk = "brkhand"
  /\ at = "gc" => brk = "deferbrk"
  /\ at = "compile" => brk = "ebrkhand"
  /\ at = "eval" => brk = "ebrkhand" \/ contd
  /\ at = "cread" => brk = "crbrkhand"
  /\ brk = "crbrkhand" => at \in {"cread", "unwind", "leave", "dead"} \/ contd \/ done

\* Every read starts between two expressions, on an empty line and with a
\* collection: no way out of a read leaves half of it to the next one.
ReadsAfresh ==
  at \notin Reading \cup {"gc", "dead"} => (readdone /\ line = "empty") \/ done

\* A break that comes during a collection is not forgotten when it ends: it
\* is noted, or has had its effect.
BreakOutlivesGC ==
  [][at = "gc" /\ dbrk /\ at' # "gc" => ebrk' \/ at' \in {"top", "unwind", "dead"}]_vars

\* What (defer 't) is for: until (defer ()) no break jumps out of the
\* evaluator, be it printing or in a foreign function; only a read is left.
DeferHolds == (dontbrk /\ at \in {"eval", "busy"}) => brk = "ebrkhand" \/ contd

\* Every break the evaluator has noted is taken, unless breaks are deferred or
\* the program quits.
BreakTaken == (ebrk /\ at = "eval") ~> (~ ebrk \/ dontbrk \/ done)

\* A break handler jumps to a function that is still active, except in the
\* last moment of the program.
NoDeadJump == at = "dead" => done

\* A message that was put in the line buffer to be read is read.
MessageRead == (at = "read" /\ line = "message") ~> line # "message"
=============================================================================
