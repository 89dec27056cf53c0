# MakerLisp in TLA+

MakerLisp is a Lisp for a business-card sized eZ80 computer that also builds for
Linux, Windows and the Mac.  Its core is one C file, `src/src/lisp/lisp.c`: a
reader, a compiler to the commands of an SECD-like machine, the machine, and a
copying collector with a fast path of its own, the *corral*.  Around it lie the
board's programs: FatFs and an SD card driver, the BIOS half of CP/M, an
interrupt-driven UART, the firmware of a PIC that makes a USB keyboard look like
a serial one, and a VGA terminal.

This directory holds TLA+ modules for the parts in which order, addresses and
interruption decide what happens, TLC configurations that check them on small
instances, and proofs, checked by TLAPS, for every instance.

## 1. The system's parts

### Heap and collector (`lisp.c:110-680`, `700-790`)

State: `heap[HALLOCSZ]`, two halves of `heapsize` bytes and a margin
(`GUARDPAGE`); `heapstart`, `heapbase`, `heapend`, `heaplim`, `other`, `hp`; the
corral `topbase .. topend` at the bottom, with the flag `topchg`; the roots
`topenv`, `tval`, `S`, `E`, `C`, `D`, `v`, `history`.

Operations: `mkpair()` and its kin allocate at `hp`; `timegc()` asks whether
`hp` has passed `heaplim`; `gc()` runs `newheap()`, `copytop()`, and
`copyroot()` for every root; `expheap()` is the Cheney scan.  When the top
environment has been copied into the low half it becomes the corral, and two
smaller halves start after it.  As long as nothing in it is assigned to
(`TOPCHG`), a collection does not look at it.  `copycell()` gives up when it
reaches the margin at the end of the array: `init_data()`, `init_eval()`, and
back to the prompt.

Hard: the corral is kept, given up and built again over several collections in
alternating directions, while the halves change their size; every assignment
has to report to `topchg`; cells are shared and cyclic; the reader's buffers live
in the idle half.  Correct when: no address outside the array or inside the
corral is written, no live cell is written over before it has been copied, a
program cannot tell that it was collected.

### Symbol table (`lisp.c:247-370`, `580-600`, `748`)

State: the list `T` of every symbol, and `mapsym[]`, two slots for each even hash
value.  `mksymb()` looks into slot `h`, then slot `h + 1`, then into `T`, and
makes the symbol when it is in none; it does not look further when slot `h` is
empty, and not at all during a collection.  `copytop()` cuts `T` at the first
symbol of the corral and clears the slots of what it dropped, or empties both.
Correct when a name has one symbol, since `eq` compares addresses.

### Read-eval-print loop, breaks and errors (`lisp.c:880-1040`, `2300-2540`, `5300-5790`, `platform.c`)

State: the C stack with its `setjmp()` environments, the break handler that is
hooked, and its copies in `eval()`, `gc()`, `c_read()`, `c_print()`; the flags
`ebrk`, `dontbrk`, `dbrk`; `*error-continue*`; the include stack; `readdone` and the line
buffer.  `^C` arrives at any moment and runs one of five handlers.  Errors
leave by `longjmp()`.  Correct when each place runs under a handler that fits
it, a noted break is neither lost nor taken while it is deferred, a read starts afresh
whatever ended the one before, and no jump leads into a function that has been left.

### Reader, line editor and printer (`lisp.c:795-1970`, `2189-2395`)

State: the line buffer `LNBUF` in the idle half (`lblen`, and `lbri`, how much of
it has been read), what `incomment()` knows of the characters before that place
(`escaped`, `quoted`, `ignore`), `notblank`, and the recursion of `read1()`.
Operations: `mygetc()` takes a character from the buffer or from the terminal or
file; `myungetc()` puts one back; `readm()`, `readv()`, `readp()`, `readn()` and
`reads()` are tried in turn, each putting back what is not for it, `readn()` a
whole token; DEL takes the last character away and reads the whole line again, EOT gives
it up; `readerr()` writes an error into the buffer, as an expression, and reads that.
Hard: comments are left out *below* all this, so the state of quotes, escapes and
comments is done and undone character by character.  Correct when what is read is
what the text says, an error reads without another one, nothing of one expression is
read into the next, and what is printed reads back.

### Compiler and machine (`lisp.c:2540-3990`)

`exprcmnd()`, `eload()`, `cload()`, `mload()` compile an expression to a list of
commands when it is first reached: the cell that held `C_LOADC` and the expression is
patched with the commands (`c_loadc()`), a macro's call site with those of its
expansion (`c_load()`).  State: `S`, `E`, `C`, `D`, `v` and every patched cell.
`c_apply()` turns cells of the stack into the environment without allocating,
`c_end()` puts the value on top of what waited, a continuation holds the same cells.
Hard: commands hold what the *first* execution saw; cells are changed that
something else may hold.  Correct when a program has the values that an evaluator
gives it that compiles nothing, and looks at the memory often enough for the
collector's margin.

### Debugger, history, primitives, autoload

Sequential; what they share with the collector and the break handlers is the
part of them that is modelled.

### SD card and files (`src/src/mlmhw`, `src/src/fatfs`, `src/src/libc/stdio`)

`disk_status()` trusts the card for two seconds after it last looked; `read_sdcard()`
and `write_sdcard()` speak SPI; `stdio.c` is a thin layer on FatFs.  State: the card
in its slot, `dstat`, the timer `TMR0`; FatFs's volume (`fs_type`, `id`), its one window
(`win`, `winsect`, `wflag`), the count of free clusters (`free_clst`, `last_clst`,
`fsi_flag`); the open files (`FIL`); the card's FAT, directory, FSInfo and data.
Operations: `f_open()`, `f_write()`, `f_sync()`, `f_close()`, `f_unlink()`, by way of
`find_volume()`, `move_window()`, `create_chain()`, `remove_chain()`, `sync_fs()`.
Hard: a card that is exchanged while it is trusted, or between a check and the access
it allows; power that fails between two sectors that belong together; transfers that
fail.  Correct when the card never has a chain that is damaged or belongs to two
files, an entry never counts bytes of another file, and what `fclose()` has reported
stays.

### CP/M (`src/src/cpm`)

`disks.c` maps disk images in files; it mounts and opens them again when the card
has changed.  State: `imageFileOpen[]`, `imageFile[]`, `disk_`.  Operations: `selectDisk()`,
`readSector()`, `writeSector()`.  Correct when nothing meant for one card is written to
another, no card is read by way of another's directory, CP/M reads what it wrote,
and a card that stays in can be used.  The BDOS, CCP and register glue are assembler.

### Console: UART, USB keyboard, terminal (`src/src/zilog`, `src/src/usbkey`, `src/src/vga`)

Three processors on one ring.  The eZ80's receive interrupt (a patch of Zilog's
library) takes XON, XOFF and ^C out of what comes and queues the rest (`FIFO`); the
program writes in a loop that waits while it is on hold.  The terminal's main loop
sends XOFF when its buffer fills or it beeps, XON when the buffer has emptied, and
forwards inquiries (`ENQ`): to the keyboard controller, which passes the one on and answers
the other.  That controller is a state machine in
its main loop, over Microchip's USB framework, and a timer interrupt, 120 times
a second, that starts reads and sends the key that repeats; both write to the
eZ80, byte by byte, and share `keydown`, `downcnt` and `rptdelay`.
Correct when no key comes apart, only a key that is held repeats, terminal and
eZ80 agree about who holds, and a hold ends.

### Others

The BDOS, the Lisp libraries on the SD card image, Microchip's USB framework, the video
drivers, and `src/lisp.c`, an earlier interpreter.

### How the parts interact

Everything in the interpreter meets in the heap: the reader and the machine
allocate, `evalgc()` and `read()` call `gc()`, assignments set `topchg`, the
reader's buffers are addressed relative to `other`, which `gc()` moves, and
`mksymb()` is called by the reader, by primitives and by `copycell()` itself.
Break handlers interrupt all of it; the collector hooks one that defers.
Errors of the reader, the machine and the collector all end in `longjmp()`s to
the loop.  Files of the interpreter (`fopen()`, include files) and of CP/M go by way of one
FatFs; the characters that the reader reads and the printer prints go round the console's ring.

## 2. The modules

| module | what it is | code |
|---|---|---|
| `SemiSpace` | the heap's layout: where the collector may write | `newheap`, `copytop`, `copycell`, `gc`, `init_data` |
| `SemiSpace_proofs` | its theorems | |
| `Store` | what a program may rely on: objects and operations, no heap | |
| `Collector` | cells, forwarding, the corral; implements `Store` | `copycell`, `copyroot`, `expheap`, `copytop`, `gc`, assignments |
| `MCCollector` | a view of its states for TLC | |
| `Collector_proofs` | its theorems, among them that it implements `Store` | |
| `SymTab` | table and quick map | `mksymb`, `copytop`, `copycell`, `init_data` |
| `MCSymTab` | four names, one hash function | |
| `SymTab_proofs` | its theorems | |
| `Control` | places, handlers, errors, breaks | `main`, `read`, `eval`, `evalerr`, `evalgc`, `gc`, `c_read`, `c_print`, ... |
| `Control_proofs` | its theorems | |
| `Reader` | characters to expressions and back, and what a text says | `mygetc` to `exread`, `readerr`, `escsprt`, `print1` |
| `MCReader` | the texts | |
| `Reader_proofs` | its theorems | |
| `Evaluator` | what an expression means: nothing compiled, nothing shared | |
| `Machine` | compiler and commands, compared with `Evaluator` | `exprcmnd`, `eload`, `c_apply`, `c_loadc`, `c_load`, ... |
| `MCMachine` | the programs | |
| `Disk` | the card, the timer, what a driver call may come back with | `diskio.c`, `mlmhw.c` |
| `CpmDisks` | mounts, open images and the window; extends `Disk` | `disks.c`, `ff.c` |
| `CpmDisks_proofs` | its theorems | |
| `Volume` | files written, closed and removed, with crashes and failed transfers | `stdio.c`, `ff.c` |
| `MCVolume` | symmetry of the names | |
| `Volume_proofs` | its theorems: window, entries and promises, then the FAT | |
| `Uart` | the eZ80's side of the line | `patch_zds2_ez80_5.3.0.diff` |
| `Keyboard` | main loop and timer interrupt; extends `Uart` | `app_host_hid_keyboard.c` |
| `Console` | with the terminal: the ring; extends `Keyboard` | `terminal.spin`, `uart1.c` |
| `MCConsole` | keys, what they send, reports | |
| `Console_proofs` | theorems about the three | |

Operators defined just before the one they resemble, and marked as mutants, are
plausible mistakes: with the mistake in place of the original, the property that
is meant to catch it is violated.

### SemiSpace

The variables are the C variables of the same names.  Cells are only sizes.
`Allocate` is any command between two checks of `timegc()`, `ErrorPath` what
`evalerr()` or `readerr()` allocate when there is no room.  `StartGC` is
`newheap()` and the head of `copytop()` (keep the corral, or give it up and perhaps
its place as well), `CopyCell(n)` one call of `copycell()`, `CopyGivesUp` the one that finds
itself in the margin, `TopCopied` the tail of `copytop()`, `FinishGC` the rest.
Ghosts record how much the collection may still copy and where it copies from.

### Collector and Store

Addresses are `1 .. 2 * HALF`.  A cell has a `car` and a `cdr` and, as a ghost,
the identity of the object it represents.  Atoms are pairs that refer to nothing.  A continuation
and the pair of `D` that holds it are one cell (`Conts`): the stack that was saved, and the rest of `D`.
The registers are `topenv`, `S`, `D` and `v`; the last stands for locals, and for `E` and `C`,
which a program that saves them in a continuation pushes on the stack first.

The program's actions are the pieces that the machine's commands are made of.  `Cons`, `Push`, `Load` and `Pop`
make and read cells.  Three commands write into cells without a word to `topchg`: `SetTop` is the
`TOP(S) = v` of `c_add()` and the other primitives, `Bind` is the surgery of `c_apply()`, which makes a cell of the stack an association pair,
and `End` that of `c_end()`, which makes the saved stack the cdr of the top one (`CDR(S) = s`).  `BindRest` gives what is left of
the stack to a rest parameter.  `Assign` is all that say `TOPCHG`.  `EvalC` saves the stack in a continuation
on `D`, `MakeCC` makes `D` a value, `Continue` makes such a value `D` again, `Error` empties the registers as
`eval()` does.  Ghosts record the continuations that were returned through (`left`), whether one of them was returned through again
(`reused`), and whether the top environment has ever led to one of them (`stored`).

Collections proceed cell by cell, in the order of
`gc()`'s roots.  `Store` has the same operations on objects and nothing else;
`ImplementsStore` says that `Collector`, seen through the identities that the
registers reach, is a `Store`: every step of a collection is a stutter.

### SymTab

A symbol is its name and the region it lies in: one of the halves, the corral, or
`stale` memory left over from an exhausted collection.  `mapsym` has its two
slots per bucket.  `held` stands for all that the registers lead to.  A
collection copies symbols in any order the graph may bring them up in.

### Control

A *place* (`at`) is a C function that can be interrupted; `Break` may happen in
any of them and does what the hooked handler does there.  A jump into a function
that has been left leads to the place `dead`.  The reader is three values of the line
buffer, the heap is a flag (`full`), the include stack its depth.

### Disk and CpmDisks

`Disk` has the variables and the functions of `diskio.c`.  `Transfer(ok)` is one
sector read or written, with its outcome: a card answers when it is in the slot
and has been initialized since it was put in (`live`).  That is the property of
SD cards all of it rests on.  `Pull`, `Insert` and `TimerEnds` may happen before
any access.  A behaviour may have cards that now and then do not answer (`flaky`).

`CpmDisks` takes one step per access to the card; `pc` names the access that
comes next.  `CheckStatus(c)` begins any of the three calls, `CheckInit` follows
when the card is gone, `ImagesOpened` when the images have been opened again; `FindMounted`, `FindUnmounted` and `FindBoot` are
`find_volume()`, run for `f_mount()` and again for every `f_open()`; `OpenImage` is
one `f_open()`, of two per image (the root, then `/etc`); `Seek` and `Access` are the
`validate()` of `f_lseek()` and of `f_read()` or `f_write()`, after which the FAT may be
needed, then the sector.  A file that is not open keeps its old contents in the code;
the module resets them (`Closed`), since nothing reads them before the next `f_open()`.
A sector is one of the card's, of 512 bytes: CP/M's sectors of 128 bytes are parts of
it, copied out of the window and into it.  Ghosts: what CP/M has written since
the mount (`told`), the card a file was found on, and whether a card came in
while the images were being opened (`late`).

### Volume

What a sector says is in `fat`, `dir` and `data`; what the *card* says is in `cfat`,
`cdir` and `cdata`.  The two differ where the window holds a sector that has not been written
(`win`, `dirty`).  A call (`OpenNew`, `OpenOld`, `Fputc`, `Fclose`, `Remove`) puts a
sequence of instructions into `todo`, each of which moves the window at most once: the
order of the sequence is the order in which the code calls `move_window()`, and
between any two of them `Crash` may leave the card as it is (power, or a card pulled out,
and a new mount, with the count of free clusters from FSInfo), and `WriteFails`,
`ReadFails` and `InfoFails` may end the call, with the file's `err` set where the code sets it.
`LookAt`, `PutFat`, `FreeFat`, `Alloc`, `PutEntry`, `PutByte`, `Sync`, `Info` are the pieces of
`get_fat()`, `put_fat()`, `remove_chain()`, `create_chain()`, the entry's stores and
`sync_fs()`.  A cluster's contents are whose bytes they are (`gen`, a number for every
file made) and how many; ghosts record what `fclose()` has promised (`safe`) and whether a
mount found too small a count in FSInfo (`stale`).

### Uart, Keyboard, Console

`Uart` has the receive interrupt (`Receive`), the program that reads (`Getch`) and the one
that writes (`StartWrite`, `Put`, `Wrote`).  `Keyboard` takes one step per state of the main
loop, per byte sent (`SendByte`), and per byte of the interrupt (`TimerByte`), which runs to its end
before the loop goes on; a byte sent is received in the same step.  `Process` looks at the
keys of a report one by one; `Import` and `NRSendStr` are its loops, the latter with
`keydown` saved and cleared.  `Plug` is the user: keys, and the cable, at any moment.
`Console` adds the terminal's two conditions (`FlowControl`), its buffer, and the queue in the
controller; a byte dropped anywhere is recorded in `ez.lost`.

### Evaluator and Machine

`Evaluator` gives every program its values by structural recursion, with
continuations as sequences of frames.  `Machine` has one action per command; a list
of commands is a sequence, a cell that is patched a *site* with its expression and, once
loaded, its commands.  The pairs made on `S`, in environments and in the frames of `D` are
cells with addresses, since `c_apply()`, `c_end()` and continuations share them.
`Faithful` compares the values; `ChecksInTime` counts commands between two `evalgc()`s.

### Reader

`line` is the buffer with what `incomment()` keeps, `pc` what the next character is for (the C
function and the place in it), `stk` the recursion, `got` the tokens of the expression so far.
`Getc` is `mygetc()` with `incomment()`; each of `Skip` to `Extra` is what is done with the next
character in one place.  `Again` takes a character that is in the buffer, `Type` a new one,
`Erase`, `Kill` and `Eot` are the editing keys, `Eof` the end of a file.  The reference is `Says`: one pass over the
text from left to right.  `Text` is the printer.  An expression is the sequence of its tokens.

## 3. What TLC checks

| run | instance | states | what it shows |
|---|---|---|---|
| `semispace` | halves of 25 bytes, margin 5, cells to 4 | 227,849 | no write outside the array or into the corral, and none over what is still to be copied but by the collections that are named below; the environment is corralled again |
| `collector` | 2 objects and a continuation, 3 cells between collections | 100,223 | programs that make, apply and assign, and programs that apply and continue, run as in `Store`; no step of a collection is visible; collections end |
| `collector_graph` | 3 objects and a continuation, 4 cells; programs that assign and continue | 1,616,108 | the corral is closed, and unchanged while it counts as unchanged; one copy per object |
| `symtab` | 4 names, 3 of them in one bucket | 864,252 | one symbol per name; a name reads back as the symbol in use; nothing leaks |
| `control` | includes nest twice, `*error-continue*` may be set | 17,214 | handlers fit, reads start afresh, deferring holds, breaks survive collections and are taken |
| `reader` | texts of 4 characters, 3 more in a string and after a dot; 11 characters | 1,002,610 | what is read is what the text says; errors read; what is printed reads back |
| `reader_comment` | after a string that ends in an escaped backslash | | **violated** `ReadsRightAlways` |
| `machine` | 9 families of programs | 45,605 | compiled programs have the values of evaluated ones; the memory is looked at in time |
| `machine_splice` | macros within `(list ... )` | | **violated** `Agrees` |
| `cpm_disks` | 2 cards, 2 images of one sector | 1,110,838 | cards do not mix; CP/M reads back; a card that stays in can be used |
| `files` | 2 files, 2 clusters of 2 bytes, 1 crash, 1 failure | 2,066,689 | the card's chains are sound, bytes are a file's own, closed files stay, a card is not full early |
| `console` | 2 keys, a buffer of 2, queues of 1 and 3 | 824,496 | keys come whole, only held keys repeat, both sides agree about the hold, and it ends |

### Properties with exceptions

Some properties hold but for cases in which the code does something else, and name
the cases; without the exception TLC finds them.

* `ClobberHasCause` has two, which the module names.  `Stale`: a collection into the low half that gives up its corral copies
  more than the half was sized for and, since `copycell()` looks only for the end of the
  array, overwrites what it has not copied yet.  `Padded`: when a collection has ended with `hp` above `heaplim` (`starved`),
  the next one has no room to spare; if it builds a corral and `copytop()` rounds the end of that up to `HEAPBMOD`, what
  follows is copied as many bytes too high.  This needs an alignment: `HEAPBMOD` is 16 on Linux (`linux/platform.h:17`) and 1
  on the eZ80 (`eZ80/platform.h:24`), where `Stale` is the only case (`ClobberOnlyWhenStale`, proved under `HEAPBMOD = 1`).  The run has
  `HEAPBMOD = 1` and so never meets `Padded`; TLC finds it with `HEAPBMOD = 2`, `HEAPHALF = 100`, `GUARDPAGE = 20`,
  `MaxAlloc = 13` and cells of 1 and 19 bytes.
* The properties of `Collector` are about programs that are `Tame`, and say nothing of a program once it has ceased to be.  Once a continuation
  was returned through, the stack it holds is the one in use, where values are written without `TOPCHG`.  If the top environment leads to
  the continuation then (`stored`), the corral may contain that stack and is changed without a mark; if the continuation is returned through
  twice (`reused`), the cells it holds may meanwhile have been bound by `c_apply()`, and be part of an environment.  Without `Tame`,
  TLC finds a counterexample to `ChangesMarked` in the instance of `collector_graph`: a continuation is assigned to a variable, returned through
  and corralled, and the next value is written to the corral.  With the exception of `stored` alone that instance has
  no counterexample, since `Bind` and `Assign` and continuations together need more cells.  A
  program that stores a continuation, collects and returns through it twice prints
  garbage on the Linux build.
* `ReadsBack` of `SymTab`: `init_data()` empties the table after an exhausted collection, but
  not the quick map.  `NoTwins` holds until then (`oom = 0`).
* `HandlerFits`: after a break in `(read)`, which `c_read()` reports with its handler still
  hooked, a second one before `eval()` has returned jumps into a frame that has been left (`NoDeadJump`).
  So does one after an error of read that a program continued through `*error-continue*`.
  `MessageRead` is false as well: an expression that does not fit in the heap ends in an error
  message that does not fit either, forever; the Linux build hangs on a quoted list of 30,000 elements.
* `ReadsBack` of `CpmDisks` says nothing of the card: `writeSector()` ignores the type of the write,
  and a directory sector, which CP/M marks for immediate writing, stays in the window until
  the next access moves it.  `Settles` excepts cards that now and then do not answer
  (one failed transfer leaves an image unusable) and one that is put in while
  `openImageFiles()` is at work (the images before it stay closed).
* `Faithful` excepts five things that lists made at the first execution do not foresee: a
  frame returned to twice with values that wait (`reused`), a macro that
  expands to what takes all the values there are (`splice`), an object applied that is
  bound as an argument, within a macro's expansion (`fixed`), a macro that takes a name from where
  it is used, in two places (`moved`), and an internal definition of a name that had another meaning
  before (`shadow`).  `ChecksInTime` excepts a list that a macro's expansion has made longer (`long`), and allows as many
  commands as a macro has arguments, since `mload()` quotes them in one list without counting.
* `ReadsRight` excepts a comment after a symbol with no space or bracket in between (`glued`: the
  token, to which a `'` may belong, is put back over the comment), and a quote right after an escaped backslash (`trap`).
  `Reprints` excepts the symbol `"."`, which `escsprt()` prints bare, and says nothing of
  `print`, whose last symbol of a dotted list is printed without quotes.
* `RepeatsHeld` excepts a keyboard detached with a key down (`stuck`): the next one repeats the
  key of the last one until its first report (`RepeatsPressed`).  `Agree` and `Flows` except
  bytes that were dropped (`lost`): the receive interrupt drops XON when its FIFO is full, and the
  controller's queue counts as empty when it is full; `Flows` also a keyboard that is not there.

### Findings

* `reader_comment`: `myungetc()` takes any backslash before its place for an escape, also one
  that is escaped.  After `"a\\"` the comments that follow are read as code.
* `machine_splice`: `c_load()` puts a macro's expansion in front of the commands that follow; with
  `(define m (macro (a) (list (quote list) 1 a)))`, `(list (m x) 1)` gives `((1 4 1))` instead of `((1 4) 1)`.

### Bounds, and why they are enough

*SemiSpace.*  The real sizes are 1280 cells of margin, hundreds of thousands of bytes
of heap, vectors up to 1024 elements; what matters is their order, which `MarginAssumption` states
and the instance meets with equality where it can: `MaxAlloc + MaxErr + 3 *
HEAPBMOD = GUARDPAGE`, `5 * GUARDPAGE = HEAPHALF`.  `HEAPBMOD = 1` leaves the rounding by halves
(corrals of odd size); wider alignments, and with them `Padded`, are covered by the proofs.  In this
instance corrals of every size up to half of the heap, several generations of
corrals, and collections that run into the margin occur.

*Collector.*  `LIMIT` bounds the cells a program makes before it collects, `Objects`
the objects alive at once.  In `collector`, two objects are enough for corrals of one and of two
cells, references in and out of them, cycles, and a stack; the third is a continuation, with a stack to save and one to return
to.  `Kinds` says what programs do: assign, or use continuations.  `collector_graph` has both at once, and one object more, which makes
graphs in which one cell is reached from two others, a continuation in the environment, and one that is returned
through from there; its programs do not apply, which with the rest has too many states.  `CONSTRAINT Tame` stops where
the properties do.  The proofs are about programs of every kind.  `VIEW View` leaves out what cells nothing leads to contain: no action reads
them before `MkPair` or `CopyCell` has overwritten them, so that states with the same view
have the same steps and the view loses no behaviour, and every step of a
collection changes the view, so that fairness means the same.

*SymTab.*  Three names share the bucket of the true value, so its two slots
overflow and the search of `T` is needed; one is alone in its own.  Two of the
three are interchangeable (`Alike`).  After
one collection ran out of memory a second one is not started (`oom < 2`): it
may read cells that were written over, of which the module says nothing.

*Control.*  `MAXFINS` is 64 in the code; two levels make "in a file", "in a file
in a file" and "no further" different.

*Reader.*  Texts begin with nothing, with an open string in a list, or with a list and a dot on a line
of its own, and go on for up to four characters of eleven (or with `\;'`, which readn() takes for one token), one for each class that the
reader tells apart, in any order, with any of them erased again.  Four are enough for a quote, an escape, a
comment and an end of line to meet in every order, in a list and out of it.

*Machine.*  Each family of programs crosses what is evaluated with the places it can
stand in, and runs what it defines twice, since the second run is the one that uses the
patched lists.  `MAXINLINE = 3` (20 in the code) makes small programs reach the limit.

*CpmDisks.*  Two cards make an exchange, two images an exchange between the opening of one and of the
other; a third card or image meets nobody that these do not.  One sector per image and the
volume's own sectors already compete for the window.

*Volume.*  Three entries of the FAT per sector and four in all put the two clusters into
different sectors of the FAT, so that a crash can fall between their writes; two files compete
for them; two bytes per cluster make a file of three bytes need both; one crash and one failure fall
anywhere, in either order.

*Console.*  One key sends two bytes, so that something can come between them, the other ^C;
reports with none, one or all of the keys down, caps lock and a modifier; queues
and marks are the smallest ones in which "full", "above", "below" and "empty" differ.

### Fairness

`SemiSpace`: `WF(StartGC)`, because the loop collects before each expression it reads
and every command that allocates checks; `WF(GCStep)`, because a collection that
has begun runs to its end: breaks are deferred.  `Collector`: weak fairness of the collection's
steps for the same reason, none for the program.  `Control`: weak fairness of `TakeBreak` and
`EvalGC` (commands follow each other, each runs `evalgc()`; a loop runs the same
command again), of the end of a collection, and of the reader while an error
message is in the line buffer, which needs no input.  `CpmDisks`: weak fairness of the program's steps (CP/M goes on calling, and every
call returns, since nothing in it waits) and of the timer.  `Console`: weak fairness of
the terminal's loop, of the timer and of the controller's steps, which run for ever; strong
fairness of `NoReport` and of `Relay`: an interrupt transfer ends without data unless a key was
pressed since the last one, and 120 of them are read every second, so that again and again the loop finds
itself connected and looks at what the terminal has sent.  No fairness of the program, which may never
read.  `Reader`, `Machine` and `Volume` have safety only.  Nothing is assumed of the
user, neither input nor breaks, nor a card taken out or put in.

## 4. What TLAPS proves

All theorems hold for every value of the constants under the named assumptions
of the modules; the proofs are `<module>_proofs.tla`.

*SemiSpace* (assumptions `SizesAssumption`, `MarginAssumption`).  `InBounds`,
`HalvesFillHeap`, `CorralIsApart`, `KeptCopyFits`, `TempBuffersIdle` and
`ClobberHasCause` follow from one inductive invariant.  None of them is inductive: where `hp` may be
depends on which phase the collection is in (`Modes`), how the halves lie around
the corral (`Placed`), how far the copy and the cells it copies from reach (`Reached`),
that the part in use and the corral together never exceed a half (`Roomy`), the fact
that makes a kept corral's collection fit, and how much of that a new corral's padding takes (`Tight`).
`ClobberOnlyWhenStaleHolds` is the same without `Padded`, for `HEAPBMOD = 1`.

*Collector* (assumption `CollectorAssumption`: any number of objects, any size of heap, programs of any kinds).
Three instructions write to cells without `TOPCHG`, all of them to the one on top of the stack.
That the corral, the copies and the store survive this needs that no cell of the stack is one the top environment leads to
(`TopApart`), and that is not a property of the heap but of what programs do with stack and continuations.  The
invariant, `Good`, therefore has two parts, which hold together as long as the program is tame.

`StackInv` is about owners.  The stack in use is a chain of cells, and so is the one that each continuation holds; a cell is
in one chain only, and none of a chain is referred to from elsewhere, but for the continuations that were returned through: what those hold
is the stack in use, or was, and nothing is claimed of it.  `Tame` says that no such continuation
is led to by the top environment or returned through again, so that what the other instructions meet is a chain with one
owner.  Hence `TopStaysApart`.

`Inv` is about the heap and does not mention the stack.  What matters in it while the program runs is `CorralIsEnv`: a
corral that counts as unchanged is exactly what the top environment leads to.  So a cell that is apart from the
environment is not in it, and `NoDangling`, `CorralClosed`, `OneCopy`, the types, the action properties `ChangesMarked` and
`Invisible` and the refinement follow.

The part of `Inv` for a collection (`Moving`) remembers the cells `A` that were reached when it
began: each is where it was and unchanged, and has at most one copy, whose fields are the old ones if the
copy lies above `sp` and forwarded ones if below.  There is room (`Room`)
since the copies have the identities of different cells of `A`.  `EveryTwin` says that
what is reached in between are cells of `A` and copies of them, and all of `A` is
represented; hence no step shows.  Reachability is defined by recursion on sets that
grow; `Leads` shows that it is the least set that is closed and has the roots, all the proofs need.

`CollectorImplementsStore`: tame programs run as they would in `Store`, where there is
nothing to collect.  A `Picture` relates cells to fields of objects; `Becoming` says that a step that leaves a picture
of `g` behind is one that becomes `g` in the store, and each instruction has a lemma that gives its `g`.
Steps of a collection are stutters because the fields of the objects can be told from what is seen (`SeenTellsAll`).

*SymTab* (assumption `HashAssumption`: any function from names to buckets).  `NoTwins`,
`MapInTable`, `CorralIsOldest`, `ReadsBack` and the types follow from `TableInvariant`.
The strengthening that matters is `FirstTaken`: the first slot of the bucket of
every symbol in the table is taken, by a symbol of the corral if that one is in the corral.  It is
why `mksymb()` need not search when slot `h` is empty, and why clearing
the slots of the dropped symbols does not hide a corralled one.  `NoLeak`, an action
property, needs one more invariant, `Owned`: while a collection runs, each symbol that is in the
table is the corral's, or something leads to it.

*Control* (assumption `ControlAssumption`).  `TypeOK`, `HandlerFits`, `ReadsAfresh`, `DeferHolds`
and the action property `BreakOutlivesGC` follow from an invariant that adds what the saved
handlers are (`Saved`) and which places a line of text may survive (`LineReset`).

*CpmDisks* (assumptions `CardsAssumption`, `DisksAssumption`: any cards, images, sectors).  `ReadsBack`,
`OwnDirectory` and the types, and the action properties `OnlyWhatWasWritten` and
`MountLasts`, follow from an invariant with three more parts.  `Trusted`: a card that
answers is the one that is mounted, because it must have been initialized since
it came in, and that is done only with nothing mounted (`Mounted`).  `Window`: what is in the window is on the
card, or is dirty and what CP/M wrote.

*Volume* (assumption `VolumeAssumption`: any names, clusters, sizes, and any number of
failures and crashes).  `WindowOnly` and `Durable` follow from `IInv`.  `Durable` speaks of the card at
every moment, hence of what the rest of a call will do to it: `TodoOK` says what may be left of a call.
Either it is an `fclose()`, in one of four stages (`Closing`), which know whether entry and
window have been written; or it is `Plain`: no entry in it breaks a promise, and FSInfo
comes only after a `sync`, because `sync_fs()` would otherwise take the window for itself
(`Harmless`).  `Kept` says of entry, card and open file that each is no less than what was promised.

The second half of the proofs has the rest: `TypeOK`, `ChainsSound`, `OwnData` and `NotFullEarly` follow from `CInv`, which is `IInv`
and `Chains`.  The FAT is a linked list in an array, and the properties walk along it; the
invariant names what the walk yields instead.  There is a sequence of clusters for every file, and no cluster
is in two of them (`Chained`).  Memory's FAT follows each to its end (`InMemory`); the card's FAT follows
it at least as far as the entry on the card counts bytes, and the data up to there are the
file's (`OnCard`); an open file's position is in a cluster of its own (`InFiles`).  During a call this holds of the card only
because of what is still to be written and in which order, which `Plan` says: the clusters a call is freeing belong to
no entry any more, a cluster it is adding has its own end of chain before another one points to it.
`NotFullEarly` needs the count as well: unless FSInfo was out of date, it is no less than the number of free clusters (`Counted`).
`NthFollows` ties the walk, a recursive function, to the sequences.

*Console* (assumptions `UartAssumption`, `KeyboardAssumption`, `ConsoleAssumption`: any keys, strings,
queues, marks and delays; keys send no byte with bit 7).  `Whole` holds because
`NRSendStr()` clears `keydown` while it sends, and the interrupt sends nothing without one.
`RepeatsHeld` is carried through the loop over the old report, the new one, and the keys yet to be
looked at.  `Agree` is about the last flow control byte on its way; the proof replaces the
`CHOOSE` in it by a relation (`Says`), whose lemmas say what adding a byte at one end and taking one
from the other does.

*Reader* (assumption `TypedAssumption`: ^D is a key, not a character; texts are of any length, over any
other characters).  `ReadsRight` and `ErrorsRead` follow from `Inv`, `Reprints` from `Inv` and `TokensFit`.  The reference, `Says`, is a fold over the
text; the program reads, puts back and reads again, and an erased character makes it begin anew.  The invariant
compares both at one place, the one before `lbri` (`Ref(b, p)`: what the first `p` characters say).
`Scan` is about `incomment()`: `quoted` and `ignore` are what the text says there, and a backslash that counts as an
escape is one, or one that does no harm.  `mygetc()` keeps it (`Forward`).  `myungetc()` does not, since it takes
any backslash before its place for an escape.  What it keeps, character by character, is `Weak`, which forgets
what is escaped; where a token begins nothing is, and the next character is one to which it makes no difference,
so that `Scan` holds again (`WeakScan`).  The exceptions are where this fails: a comment that begins in what is put back
(`glued`), and a quote whose state is not undone (`trap`).
`Parser` says of each place in `read1()` and the functions it
calls what has been read (`got`, `stk`, `tok`) in terms of the same `Ref`, and each place has a lemma (`SkipGood` to `ExtraGood`).
What erasing needs is that the shorter text began the same way.  ^D is the special case:
on an empty line it is a character (`EotRead`), or it is lost in what `incomment()` finds before the buffer (`Skewed`).
For `ErrorsRead`, `Writes(x, v, z)` says that the characters `x`, within a string, write `v`; the escapes of `errsym()`
compose (`WritesErrSym`), so that the line that `readerr()` leaves says one quoted symbol, has neither of the exceptions, and
has no place before its end at which one of the reader's errors can be found (`ErrText`, `ErrSound`).  Hence the second error
that would end the program (`err = 2`) never comes, and the line is enough.

`TokensFit` says what kind of tokens can have been read without an error, with the exceptions of `ReadsRight` too:
they open and close lists, vectors and dotted pairs as `stk` does (`Balanced`: a history of open lists, one step per token,
quotes being lists), and no symbol has a ^D in it.  For such tokens `Text` says what they are, for lists of any depth:
`EscSPrtSays` for a symbol, with or without quotes around it; `OpenReads`, `DotReads` and `CloseReads` for the others; and, token by
token, `Tells`: a line that begins with this text says these tokens, of which the last may still lack its end (`Has`).
A dot followed by a space is what makes a dotted pair; this is why a symbol `"."`, printed bare, is excepted.

Not run and only proved: `HalvesFillHeap`, `KeptCopyFits`, `TempBuffersIdle`, `ClobberOnlyWhenStale`, `MapInTable`,
`CorralIsOldest`, `MountLasts`.

Only model-checked: the liveness properties (`Recorralled`, `BreakTaken`,
`GCEnds`, `Settles`, `Flows`), which need fairness, and everything about `Machine` and its evaluator, which
are recursive.

## 5. What is not modelled

Most of the repository's lines are other people's: of a hundred thousand, some 61,000 are
Microchip's USB framework and board support, 15,600 the tables of `ffunicode.c`, and much of the rest exFAT, long names
and formatting in `ff.c`, Digital Research's BDOS and CCP, and two generations of the interpreter.  The models are
of MakerLisp's own code and of the paths through FatFs that it uses.

Of the interpreter: arithmetic, strings and vectors are sequential code without a state
that others see; their effect on the heap is `Allocate`, `Assign` and `Load`.  Autoload and the
reload after `forget` search files and redefine names one at a time.  Numbers, character
codes, control characters, unquoting, the limits of lines and symbols and the recall of
earlier lines are left out of `Reader`; the debugger's commands, the floating point handler,
`longjmp()`s of foreign functions and memory errors of C out of all.  A type is reduced to "pair" in
`Collector`, since vectors and closures are copied the same way, and to "symbol" in `SymTab`.

Of the files: reading, directories within directories, long names, FAT12 and exFAT, formatting, and
a file that is open twice, which the configuration leaves to the program.  Of the SD card: the SPI
commands below `read_sdcard()`.  Of the console: the commands that load keys and firmware,
escape sequences, drawing, the second UART, which has the same code.

Seams between modules: `SymTab` assumes that `mksymb()` is not left between
its two assignments, which an immediate break can do; `SemiSpace` does not
know what cells contain, and `Collector` not how many fit; `Machine` makes cells and never
collects them; `Control` knows of a line only whether it is empty, which `Reader` refines without breaks.

## 6. What is left

1. The composition of `SymTab` and `Control` for a break in `mksymb()`.
2. Numbers in `Reader`: `readn()` against `print1()`, with the conversions of both.
3. A condition on a program's text, a Lisp program that stores continuations only in locals say, which implies `Tame`.
4. Reading in `Volume`: a file read while another one is written, through one window.
