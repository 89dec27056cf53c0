------------------------------- MODULE Reader -------------------------------
(***************************************************************************)
(* The reader: characters, typed or from a file, to an expression.  What   *)
(* has come is kept in a line buffer, for as long as the expression is not *)
(* complete: characters are put back into it, and when one is erased the   *)
(* whole of it is read again.  Comments are left out below everything else,*)
(* in mygetc(), which therefore has to know what is quoted and escaped,    *)
(* forwards and backwards.                                                 *)
(*                                                                         *)
(* An expression is the sequence of its tokens.  Not here: numbers and     *)
(* character codes, the limits of a line and of a symbol, control          *)
(* characters (^A), unquoting, and the recall of earlier lines.            *)
(***************************************************************************)
EXTENDS Integers, SequencesExt

CONSTANTS
  Typed,   \* characters that are typed
  Texts    \* bound: how texts begin, and how many more characters they have

\* ^D is a key, not a character of the text.
ASSUME TypedAssumption == "eot" \notin Typed

VARIABLES
  line,       \* the buffer: LNBUF, lbri, escaped, quoted, ignore, notblank
  pc,         \* what the next character is for
  stk,        \* what the expression is in: "(" "[" "'" "."
  tok, q, e,  \* TBUF1; is it in quotes, is it after a backslash
  got,        \* the tokens of the expression
  err, shown, \* readerr(): how often, and what the message is to be
  text,       \* ghost: what was typed and not erased
  odd         \* ghost: which exceptions of ReadsRight were in it

parser  == <<pc, stk, tok, q, e, got>>
problem == <<err, shown>>
ghosts  == <<text, odd>>
vars    == <<line, parser, problem, ghosts>>

NONE == 0
\* Tokens.
Sym(s)  == <<"sym">> \o s
Mark(c) == <<c>>

IsSpace(c)   == c \in {" ", "nl"}
IsComment(c) == c = ";"
IsTokSep(c)  == IsSpace(c) \/ c \in {"eot", "(", ")", "[", "]"}
IsRdMac(c)   == c = "'"

\* An escaped character (reads()).
Escaped(c) == IF c = "n" THEN "nl" ELSE c

-----------------------------------------------------------------------------
(* The line buffer. *)
EmptyLine == [buf |-> <<>>, ri |-> 0, esc |-> NONE, quoted |-> FALSE, ignore |-> FALSE,
              notblank |-> FALSE]

\* incomment(): the state of comments after the character before lbri.
InComment(l) ==
  LET i   == l.ri
      c   == l.buf[i]
      esc == IF l.esc # NONE /\ i - l.esc > 1 THEN NONE ELSE l.esc
  IN
  [l EXCEPT !.esc    = IF c = "bs" /\ ~l.ignore /\ esc = NONE THEN i ELSE esc,
            !.quoted = IF c = "quo" /\ ~l.ignore /\ esc = NONE THEN ~@ ELSE @,
            !.ignore = IF @ THEN ~(c = "nl" /\ ~l.quoted /\ esc = NONE)
                       ELSE IsComment(c) /\ ~l.quoted /\ esc = NONE]

\* myungetc()
Unget_NoQuote(l, c) ==               \* mutant: the quotes are not undone
  IF l.ri = 0 THEN [l EXCEPT !.buf = <<c>> \o @]
  ELSE
  LET i   == l.ri
      esc == IF l.esc = i THEN NONE
             ELSE IF l.esc = NONE /\ i > 1 /\ l.buf[i - 1] = "bs" THEN i - 1
             ELSE l.esc
  IN
  [l EXCEPT !.ri = @ - 1, !.esc = esc, !.buf[i] = c]
Unget(l, c) ==
  IF l.ri = 0 THEN [l EXCEPT !.buf = <<c>> \o @]
  ELSE
  LET i   == l.ri
      esc == IF l.esc = i THEN NONE
             ELSE IF l.esc = NONE /\ i > 1 /\ l.buf[i - 1] = "bs" THEN i - 1
             ELSE l.esc
  IN
  [l EXCEPT !.ri     = @ - 1,
            !.esc    = esc,
            !.quoted = IF l.buf[i] = "quo" /\ (esc = NONE \/ i - esc > 1) THEN ~@ ELSE @,
            !.buf[i] = c]

\* A token, from its last character to its first.
UngetAll(l, s) ==
  LET back[i \in 0..Len(s)] == IF i = 0 THEN l ELSE Unget(back[i - 1], s[Len(s) + 1 - i])
  IN  back[Len(s)]

Buffered == line.ri < Len(line.buf)
Reading  == pc \notin {"return", "extra", "done"}

\* Begin again (readjmp()).
Restart == /\ pc' = "skip" /\ stk' = <<>> /\ got' = <<>>
           /\ tok' = <<>> /\ q' = FALSE /\ e' = FALSE

-----------------------------------------------------------------------------
(* readerr(): an error is read instead, as a quoted symbol; errsym(). *)

Literal_Once(c) ==                   \* mutant: what is escaped is not escaped twice
  CASE c = "nl" -> <<"bs", "^", "J">>
    [] c \in {"bs", "quo"} -> <<"bs", c>>
    [] OTHER -> <<c>>
Literal(c) == CASE c = "nl" -> <<"bs", "^", "J">>
                [] c \in {"bs", "quo"} -> <<"bs", "bs", "bs", c>>
                [] OTHER -> <<c>>
ErrSym(s) == IF s = <<>> THEN <<>>
             ELSE <<"bs", "quo">> \o FlattenSeq([i \in DOMAIN s |-> Literal(s[i])])
                  \o <<"bs", "quo">>

\* What the user is to see of it.
Visible(c) == CASE c = "nl" -> <<"^", "J">>
                [] c \in {"bs", "quo"} -> <<"bs", c>>
                [] OTHER -> <<c>>
Shown(s) == IF s = <<>> THEN <<>>
            ELSE <<"quo">> \o FlattenSeq([i \in DOMAIN s |-> Visible(s[i])]) \o <<"quo">>

ReadErr(msg, s) ==
  /\ line' = [EmptyLine EXCEPT !.buf = <<"'", "quo">> \o msg \o ErrSym(s) \o <<"quo", "nl">>]
  /\ err' = IF err = 0 THEN 1 ELSE 2
  /\ shown' = msg \o Shown(s)
  /\ Restart
Error(s) == ReadErr(<<"?">>, s)

-----------------------------------------------------------------------------
(***************************************************************************)
(* What a text says, in one pass from left to right.                       *)
(***************************************************************************)
Start == [toks |-> <<>>, cur |-> <<>>, in |-> FALSE, lit |-> TRUE, q |-> FALSE, e |-> FALSE,
          glue |-> FALSE, com |-> FALSE, open |-> <<>>, twice |-> FALSE, odd |-> {}]

\* Where the quotes begin that end with the next whole expression.
Outside(open) ==
  CHOOSE n \in 0..Len(open) : /\ n = 0 \/ open[n] # "'"
                              /\ \A i \in (n + 1)..Len(open) : open[i] = "'"
Whole(s, toks) ==
  LET n == Outside(s.open) IN
  [s EXCEPT !.toks = @ \o toks \o [i \in 1..(Len(s.open) - n) |-> Mark(")")],
            !.open = SubSeq(@, 1, n)]

\* A symbol ends, if there was one: it may be the dot of a list.
EndSymbol(s, space) ==
  LET t == [s EXCEPT !.cur = <<>>, !.in = FALSE, !.lit = TRUE] IN
  IF ~s.in THEN s
  ELSE IF /\ s.cur = <<".">> /\ s.lit /\ space
          /\ s.open # <<>> /\ Last(s.open) = "(" /\ Last(s.toks) # Mark("(")
  THEN [t EXCEPT !.toks = Append(@, Mark(".")), !.open = Append(@, ".")]
  ELSE Whole(t, <<Sym(s.cur)>>)

\* Nothing after the dot is the empty symbol.
Missing(s) == IF s.toks # <<>> /\ Last(s.toks) = Mark(".") THEN Whole(s, <<Sym(<<>>)>>) ELSE s
EndList(s, c) ==
  IF s.open = <<>> THEN s
  ELSE Whole([s EXCEPT !.toks = Append(@, Mark(c)),
                       !.open = SubSeq(@, 1, Len(@) - (IF Last(@) = "." THEN 2 ELSE 1))], <<>>)

\* A character of a symbol; c where it is neither in a string, a comment, nor escaped.
Char(s, d) == [s EXCEPT !.cur = Append(@, d), !.in = TRUE, !.e = FALSE, !.glue = TRUE,
                        !.twice = FALSE]
Plain(s, c) ==
  LET t == [EndSymbol(s, IsSpace(c)) EXCEPT !.twice = FALSE, !.glue = FALSE] IN
  CASE c = ";"            -> [s EXCEPT !.com = TRUE, !.odd = @ \cup {x \in {"glued"} : s.glue}]
    [] IsSpace(c)         -> t
    [] c \in {"(", "["}   -> [t EXCEPT !.toks = Append(@, Mark(c)), !.open = Append(@, c)]
    [] c \in {")", "]"}   -> EndList(Missing(t), c)
    [] c = "'"            -> [t EXCEPT !.toks = @ \o <<Mark("("), Sym(<<"quote">>)>>,
                                       !.open = Append(@, c), !.glue = s.glue]
    [] c = "eot"          -> [s EXCEPT !.toks = <<Sym(<<c>>)>>]
    [] OTHER              -> Char(s, c)

Says1(s, c) ==
  IF s.com THEN IF c = "nl" THEN EndSymbol([s EXCEPT !.com = FALSE, !.glue = FALSE], TRUE) ELSE s
  ELSE IF s.e THEN [Char(s, Escaped(c)) EXCEPT !.twice = c = "bs"]
  ELSE IF c = "bs" THEN [s EXCEPT !.in = TRUE, !.glue = TRUE, !.lit = FALSE, !.e = TRUE,
                                  !.twice = FALSE]
  ELSE IF c = "quo" THEN [s EXCEPT !.in = TRUE, !.glue = TRUE, !.lit = FALSE, !.q = ~@,
                                   !.twice = FALSE,
                                   !.odd = @ \cup {x \in {"trap"} : s.twice}]
  ELSE IF s.q THEN Char(s, c)
  ELSE Plain(s, c)

Says(t) ==
  LET says[i \in 0..Len(t)] == IF i = 0 THEN Start ELSE Says1(says[i - 1], t[i])
  IN  says[Len(t)]

-----------------------------------------------------------------------------
(* The printer: print1() with l # 0, and escsprt() for its symbols. *)

Escape_NoSlash(c) ==                 \* mutant: a backslash is not escaped
  CASE c = "nl" -> <<"bs", "n">>
    [] c = "eot" -> <<"^", "D">>
    [] c = "quo" -> <<"bs", c>>
    [] OTHER -> <<c>>
Escape(c) == CASE c = "nl" -> <<"bs", "n">>
               [] c = "eot" -> <<"^", "D">>
               [] c \in {"bs", "quo"} -> <<"bs", c>>
               [] OTHER -> <<c>>
EscSPrt(s) ==
  LET t == FlattenSeq([i \in DOMAIN s |-> Escape(s[i])])
      needed == \/ s = <<>>
                \/ \E i \in DOMAIN s : \/ s[i] \in {"bs", "quo"}
                                       \/ IsTokSep(s[i]) \/ IsRdMac(s[i]) \/ IsComment(s[i])
  IN
  IF needed THEN <<"quo">> \o t \o <<"quo">> ELSE t

Opens(t)  == t \in {Mark("("), Mark("[")}
Closes(t) == t \in {Mark(")"), Mark("]")}
IsSym(t)  == Head(t) = "sym"

\* The text of tokens.
Text(toks) ==
  FlattenSeq([i \in DOMAIN toks |->
    LET t == toks[i] IN
    (IF i > 1 /\ ~Opens(toks[i - 1]) /\ ~Closes(t) THEN <<" ">> ELSE <<>>)
      \o (IF IsSym(t) THEN EscSPrt(Tail(t)) ELSE t)])

-----------------------------------------------------------------------------
(***************************************************************************)
(* What is done with the next character c, when the line is l: read1(),    *)
(* readm(), readv() and readp(), readn(), reads(), exread().               *)
(***************************************************************************)
At(p) == pc = p
Goto(l, p) == line' = l /\ pc' = p
Fine == UNCHANGED problem
Rest == UNCHANGED <<stk, tok, q, e, got>> /\ Fine

\* read1(): skip white space
Skip(c, l) ==
  /\ At("skip") /\ Rest
  /\ IF IsSpace(c) THEN Goto(l, "skip") ELSE Goto(Unget(l, c), "macro")

\* readm()
Macro(c, l) ==
  /\ At("macro") /\ Rest
  /\ IF IsRdMac(c) THEN Goto(l, "macro2") ELSE Goto(Unget(l, c), "vector")
Macro2(c, l) ==
  /\ At("macro2")
  /\ IF IsSpace(c) \/ c \in {")", "]"} THEN Error(<<"'">>)
     ELSE /\ Goto(Unget(l, c), "skip")
          /\ stk' = Append(stk, "'")
          /\ got' = got \o <<Mark("("), Sym(<<"quote">>)>>
          /\ UNCHANGED <<tok, q, e>> /\ Fine

\* readv() and readp(): a list or not
Open(c, l, where, oc, next) ==
  /\ At(where)
  /\ IF c = oc THEN /\ Goto(l, "elem")
                    /\ stk' = Append(stk, oc) /\ got' = Append(got, Mark(oc))
     ELSE Goto(Unget(l, c), next) /\ UNCHANGED <<stk, got>>
  /\ UNCHANGED <<tok, q, e>> /\ Fine
Vector(c, l) == Open(c, l, "vector", "[", "pair")
Pair(c, l)   == Open(c, l, "pair", "(", "token")

\* readp(): the end of a list, or its next element ...
Elem(c, l) ==
  /\ At("elem")
  /\ IF IsSpace(c) THEN Goto(l, "elem") /\ Rest
     ELSE IF c \notin {")", "]"} THEN Goto(Unget(l, c), "skip") /\ Rest
     ELSE IF (c = "]") # (Last(stk) = "[") THEN Error(<<c>>)
     ELSE /\ Goto(l, "return")
          /\ stk' = Front(stk) /\ got' = Append(got, Mark(c))
          /\ UNCHANGED <<tok, q, e>> /\ Fine
\* ... and ". "
Dot(c, l) ==
  /\ At("dot") /\ Rest
  /\ IF IsSpace(c) THEN Goto(l, "dot")
     ELSE IF c = "." THEN Goto(l, "dot2")
     ELSE Goto(Unget(l, c), "elem")
Dot2(c, l) ==
  /\ At("dot2")
  /\ IF IsSpace(c)
     THEN Goto(Unget(l, c), "skip") /\ stk' = Append(stk, ".") /\ got' = Append(got, Mark("."))
     ELSE Goto(Unget(Unget(l, c), "."), "elem") /\ UNCHANGED <<stk, got>>
  /\ UNCHANGED <<tok, q, e>> /\ Fine
Close(c, l) ==
  /\ At("close")
  /\ IF IsSpace(c) THEN Goto(l, "close") /\ Rest
     ELSE IF c # ")" THEN Error(<<>>)
     ELSE /\ Goto(l, "return")
          /\ stk' = Front(Front(stk)) /\ got' = Append(got, Mark(c))
          /\ UNCHANGED <<tok, q, e>> /\ Fine

\* readn() takes a token and, since it is no number, puts it back.
Token(c, l) ==
  /\ At("token")
  /\ IF IsTokSep(c) THEN Goto(UngetAll(Unget(l, c), tok), "symbol") /\ tok' = <<>>
     ELSE Goto(l, "token") /\ tok' = Append(tok, c)
  /\ UNCHANGED <<stk, q, e, got>> /\ Fine

\* reads()
Symbol(c, l) ==
  /\ At("symbol")
  /\ IF ~e /\ c = "bs" THEN Goto(l, "symbol") /\ e' = TRUE /\ UNCHANGED <<stk, tok, q, got, problem>>
     ELSE IF ~e /\ c = "quo" THEN Goto(l, "symbol") /\ q' = ~q /\ UNCHANGED <<stk, tok, e, got, problem>>
     ELSE IF ~e /\ ~q /\ IsRdMac(c) THEN Error(<<c>>)
     ELSE IF ~e /\ ~q /\ IsTokSep(c)
     THEN /\ Goto(IF c = "eot" THEN l ELSE Unget(l, c), "return")
          /\ got' = Append(got, Sym(IF c = "eot" THEN Append(tok, c) ELSE tok))
          /\ tok' = <<>>
          /\ UNCHANGED <<stk, q, e>> /\ Fine
     ELSE /\ Goto(l, "symbol")
          /\ tok' = Append(tok, IF e THEN Escaped(c) ELSE c) /\ e' = FALSE
          /\ UNCHANGED <<stk, q, got>> /\ Fine

\* exread(): something extra?
Extra(c, l) ==
  /\ At("extra")
  /\ IF IsSpace(c) THEN Goto(l, "extra") /\ Rest
     ELSE LET u == Unget(l, c) IN Error(SubSeq(u.buf, u.ri + 1, Len(u.buf)))

Take(c, l) ==
  \/ Skip(c, l) \/ Macro(c, l) \/ Macro2(c, l) \/ Vector(c, l) \/ Pair(c, l) \/ Elem(c, l)
  \/ Dot(c, l) \/ Dot2(c, l) \/ Close(c, l) \/ Token(c, l) \/ Symbol(c, l) \/ Extra(c, l)

-----------------------------------------------------------------------------
(***************************************************************************)
(* mygetc(): a character, of the line buffer or a new one (echoedit()).    *)
(***************************************************************************)
\* The text is now t.
Now(t) == /\ text' = t
          /\ odd' = IF t = <<>> THEN {} ELSE odd \cup Says(t).odd

EndRead == line' = EmptyLine /\ Restart /\ Fine

\* With the character in the buffer, before lbri.
Getc(l) ==
  LET n == InComment(l)
      c == l.buf[l.ri]
  IN
  \/ n.ignore /\ line' = n /\ UNCHANGED <<parser, problem>>
  \/ ~n.ignore /\ IsSpace(c) /\ ~n.notblank /\ EndRead        \* a blank line
  \/ ~n.ignore /\ (n.notblank \/ ~IsSpace(c)) /\ Take(c, [n EXCEPT !.notblank = TRUE])

Again == /\ Buffered /\ (Reading \/ At("extra"))
         /\ Getc([line EXCEPT !.ri = @ + 1])
         /\ Now(IF line' = EmptyLine THEN <<>> ELSE text)

Bounded(t) == \E x \in Texts : \/ IsPrefix(t, x.start)
                               \/ IsPrefix(x.start, t) /\ Len(t) <= Len(x.start) + x.more

Type(c) ==
  /\ Reading /\ ~Buffered /\ Bounded(Append(text, c))
  /\ Getc([line EXCEPT !.buf = Append(@, c), !.ri = Len(line.buf) + 1])
  /\ Now(IF line' = EmptyLine THEN <<>> ELSE Append(text, c))

\* BS and DEL: the line is read again, without its last character.
Erase ==
  /\ Reading /\ ~Buffered
  /\ Restart /\ Fine
  /\ IF line.buf = <<>> THEN line' = EmptyLine /\ Now(<<>>)
     ELSE line' = [EmptyLine EXCEPT !.buf = Front(line.buf)] /\ Now(Front(text))

\* EOT: the line is given up; when it is empty the character is read, and
\* incomment() looks at the one before the buffer, whatever that is.
Kill ==
  /\ Reading /\ ~Buffered /\ line.buf # <<>>
  /\ EndRead /\ Now(<<>>)
Eot ==
  /\ At("skip") /\ line.buf = <<>>
  /\ \/ line' = [line EXCEPT !.ignore = TRUE] /\ UNCHANGED <<parser, problem, ghosts>>
     \/ \E quoted \in {line.quoted, ~line.quoted} :
          /\ ~line.ignore
          /\ Skip("eot", [line EXCEPT !.quoted = quoted, !.notblank = TRUE])
          /\ Now(Append(text, "eot"))

\* The end of a file.
Eof ==
  /\ Reading /\ ~Buffered
  /\ IF line.buf = <<>> THEN ReadErr(<<>>, <<>>) ELSE Error(<<>>)
  /\ UNCHANGED ghosts

-----------------------------------------------------------------------------
\* read1() returns to whatever called it.
Return ==
  /\ At("return")
  /\ IF stk = <<>> THEN pc' = "extra" /\ UNCHANGED <<stk, got>>
     ELSE IF Last(stk) = "'" THEN /\ stk' = Front(stk) /\ got' = Append(got, Mark(")"))
                                  /\ UNCHANGED pc
     ELSE /\ pc' = CASE Last(stk) = "(" -> "dot" [] Last(stk) = "[" -> "elem"
                     [] Last(stk) = "." -> "close"
          /\ UNCHANGED <<stk, got>>
  /\ UNCHANGED <<line, tok, q, e, problem, ghosts>>

\* exread() returns, and the next one begins.
Finish == /\ At("extra") /\ ~Buffered
          /\ pc' = "done"
          /\ UNCHANGED <<line, stk, tok, q, e, got, problem, ghosts>>
StartRead == /\ At("done")
             /\ line' = EmptyLine /\ Restart
             /\ err' = 0 /\ shown' = <<>> /\ Now(<<>>)

Init == /\ line = EmptyLine
        /\ pc = "skip" /\ stk = <<>> /\ got = <<>> /\ tok = <<>> /\ q = FALSE /\ e = FALSE
        /\ err = 0 /\ shown = <<>> /\ text = <<>> /\ odd = {}

Next == \/ Again \/ (\E c \in Typed : Type(c)) \/ Erase \/ Kill \/ Eot \/ Eof
        \/ Return \/ Finish \/ StartRead

Spec == Init /\ [][Next]_vars

-----------------------------------------------------------------------------
\* An expression is read as it stands, however it was typed and edited, unless
\* a comment follows a symbol without a space, or a quote an escaped backslash.
ReadsRight ==
  (pc = "done" /\ err = 0 /\ odd = {}) => got = Says(text).toks

\* Not even a quote after an escaped backslash is an exception: when a token is
\* put back myungetc() does not undo what such a quote did, and comments are
\* read as code from then on.
ReadsRightAlways ==
  (pc = "done" /\ err = 0 /\ odd \subseteq {"trap"}) => got = Says(text).toks

\* What escsprt() and print1() print says what was read, except for the symbol ".",
\* the end of input, and a list after a dot, which is printed without it.
Reprints ==
  (/\ pc = "done" /\ err = 0
   /\ \A i \in DOMAIN got : got[i] \notin {Sym(<<".">>), Sym(<<"eot">>)}
   /\ \A i \in DOMAIN got \ {1} : ~(got[i - 1] = Mark(".") /\ got[i] = Mark("(")))
  => Says(Append(Text(got), "nl")).toks = got

\* The text that readerr() and errsym() leave in the line buffer is an expression
\* without an error that needs no more input, and shows what it is about.
ErrorsRead ==
  /\ err # 2
  /\ (err = 1 /\ pc = "done") => got = <<Mark("("), Sym(<<"quote">>), Sym(shown), Mark(")")>>
  /\ (err = 1 /\ Reading) => Buffered

=============================================================================
