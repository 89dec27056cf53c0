------------------------------- MODULE Machine -------------------------------
(***************************************************************************)
(* The compiler and the virtual machine of lisp.c, lines 2540-3990.        *)
(*                                                                         *)
(* An expression becomes a list of commands when it is first reached: a    *)
(* cell that held C_LOADC and the expression is patched with the commands  *)
(* (c_loadc), and a macro's call site with the commands of its expansion   *)
(* (c_load).  The commands hold what the search of the environment gave:   *)
(* an address, or a level and an index.  The values of an application wait *)
(* on S, whose cells c_apply makes into the new environment, and which a   *)
(* continuation holds as well.                                             *)
(*                                                                         *)
(* A site is a cell that is patched; a list of commands is a sequence, and *)
(* the commands of a patched macro site replace the list from there on.    *)
(* C_GET00, C_GET10 and C_GET20 are C_GETL with small numbers.             *)
(*                                                                         *)
(* Not here: collections (SemiSpace, Collector), breaks and handlers of    *)
(* errors (Control), autoload, malformed forms, setq of several pairs, and *)
(* eval's second argument.                                                 *)
(***************************************************************************)
EXTENDS Evaluator

CONSTANTS Programs,   \* sequences of expressions, read and evaluated in turn
          MAXINLINE   \* commands in a list before a subexpression gets its own

VARIABLES prog,   \* the program
          patch,  \* *don't-patch* is not set
          cell,   \* the pairs made on S, in environments, and the frames of D
          level,  \* levels of the environment: bindings, and the level outside
          site,   \* patched cells: the expression, and the commands or Unloaded
          S, E, C, D,
          out,    \* the values of the expressions that were read
          busy,   \* eval() runs
          since,  \* commands since the last evalgc()
          back,   \* frames of D that were returned to
          ghost   \* what has come about that a compiled list does not foresee

mem  == <<cell, level>>
regs == <<S, E, C, D>>
vars == <<prog, patch, cell, level, site, S, E, C, D, out, busy, since, back, ghost>>

TOP      == 1          \* topenv
MARK     == 0          \* the binding (unval . unval) after the arguments
Unloaded == <<>>
Wild     == <<"wild">> \* an address that is none was followed

-----------------------------------------------------------------------------
(* A list that is made at run time is a chain of cells. *)

Cell(i) == <<"cell", i>>

RECURSIVE Chain(_)
Chain(s) == IF s[1] # "cell" THEN <<>> ELSE <<s[2]>> \o Chain(cell[s[2]].d)

Stack   == Chain(S)
TopOfS  == cell[S[2]].a

\* listlen(S) follows S to its end, which is () unless S was written over.
Proper == S = Nil \/ (Stack # <<>> /\ cell[Stack[Len(Stack)]].d = Nil)

RECURSIVE Datum(_)
Datum(v) ==
  IF v[1] = "cell"
  THEN LET ch == Chain(v) IN List([i \in 1..Len(ch) |-> Datum(cell[ch[i]].a)])
  ELSE v

-----------------------------------------------------------------------------
(* esearch(): the binding of x, its level and index, and what istop() and  *)
(* internal() say of it.                                                   *)

RECURSIVE Up(_, _)
Up(e, l) == IF l = 0 THEN e ELSE Up(level[e].up, l - 1)

\* The place of x's binding on a level, or 0.
At(e, x) ==
  LET b  == level[e].b
      is == {i \in 1..Len(b) : b[i] # MARK /\ cell[b[i]].a = Sym(x)}
  IN  IF is = {} THEN 0 ELSE CHOOSE i \in is : \A j \in is : i <= j

\* How many levels out from e x is bound, or -1.
RECURSIVE Depth(_, _, _)
Depth(e, x, l) == IF e = 0 THEN -1
                  ELSE IF At(e, x) # 0 THEN l ELSE Depth(level[e].up, x, l + 1)

esearch(x) ==
  LET l == Depth(E, x, 0) IN
  IF l < 0 THEN [is |-> IF IsPrim(x) THEN "prim" ELSE "none"]
  ELSE LET e == Up(E, l)
           i == At(e, x)
       IN  [is |-> "bound", b |-> level[e].b[i], lev |-> l, idx |-> i,
            value |-> cell[level[e].b[i]].d, top |-> e = TOP,
            internal |-> e = TOP \/ \E j \in 1..(i - 1) : level[e].b[j] = MARK]

-----------------------------------------------------------------------------
(* The compiler.  k has the commands so far, which are extended in front,  *)
(* the sites, and whether there was an error.                              *)

Emit(k, cmd) == [k EXCEPT !.c = <<cmd>> \o @]
Bad(k)       == [k EXCEPT !.ok = FALSE]
Site(x, c)   == [x |-> x, c |-> c, e |-> 0]
NewSite(k)   == Len(k.site) + 1
AddSite(k, s) == [k EXCEPT !.site = Append(@, s)]

\* cload() and evaljmp(): a list of its own for a subexpression.
EvalJmp(k, x) ==
  Emit(AddSite(k, Site(x, Unloaded)),
       <<IF k.c = <<>> THEN "JUMPC" ELSE "EVALC", NewSite(k)>>)

ISMACRO(v) == v[1] = "mac"
IsApply(x) == IsList(x) /\ IsSym(x[2][1]) /\ x[2][1][2] \notin Forms
Args(x)    == SubSeq(x[2], 2, Len(x[2]))

\* What eload() compiles in line: atoms, quotes, small progns, primitives of
\* a fixed number of arguments, and macros that are no argument.
Inlined(x) ==
  \/ ~IsList(x)
  \/ IsForm(x, "quote")
  \/ IsForm(x, "progn") /\ Len(x[2]) <= 2
  \/ /\ IsApply(x)
     /\ LET b == esearch(x[2][1][2]) IN
        \/ b.is = "prim" /\ Narg[x[2][1][2]] >= 0
        \/ b.is = "bound" /\ ISMACRO(b.value) /\ b.internal

\* The commands of a list up to the first one that checks for a collection.
Checks == {"EVALC", "JUMPC", "SELECT"}
Unchecked(c) ==
  LET is == {i \in 1..Len(c) : c[i][1] \in Checks} IN
  IF is = {} THEN Len(c) ELSE CHOOSE i \in is : \A j \in is : i <= j
HasRoom_Always(c) == Unchecked(c) >= 0
HasRoom(c) == Unchecked(c) <= MAXINLINE - 1

\* scae(): the sum of two constants.
Folded(k) ==
  LET c == k.c IN
  IF /\ Len(c) >= 3 /\ c[3] = <<"PRIM", "_add">>
     /\ \A i \in 1..2 : c[i][1] = "QUOTE" /\ c[i][2][1] = "int"
  THEN [k EXCEPT !.c = <<<<"QUOTE", Num(c[1][2][2] + c[2][2][2])>>>> \o SubSeq(c, 4, Len(c))]
  ELSE k

\* mload(): a site whose expansion replaces it, and the transformation.
Mload(k, m, args) ==
  LET n == Len(args)
      f == [i \in 1..n |-> <<"QUOTE", args[n + 1 - i]>>]
             \o <<<<"QUOTE", m>>, <<"APPLY">>>>
      t == AddSite(k, Site(Nil, f))
  IN  Emit(AddSite(t, [x |-> Nil, c |-> Unloaded, e |-> 0, t |-> NewSite(k), rest |-> k.c]),
           <<"JUMPM", NewSite(t)>>)

\* A reference to a name: how its value is fetched or set.
Ref(k, what, b, x) ==
  IF b.top THEN Emit(k, <<what \o "B", b.b>>)
  ELSE IF b.internal THEN Emit(k, <<what \o "D", x, b.lev>>)
  ELSE Emit(k, <<what \o "L", b.idx, b.lev>>)

\* The expressions of a progn, the last one first.
EvalJmps(k, xs) ==
  LET n == Len(xs)
      Jmp(i) == <<IF i = n /\ k.c = <<>> THEN "JUMPC" ELSE "EVALC", NewSite(k) + n - i>>
  IN  [k EXCEPT !.c = [i \in 1..n |-> Jmp(i)] \o @,
                !.site = @ \o [i \in 1..n |-> Site(xs[n + 1 - i], Unloaded)]]

\* exprcmnd(), up to the subexpressions it loads: what is emitted first (k),
\* what is loaded in turn in front of it (loads), and the last command (then).
\* f is the operator's name, b what the search for name found.
PlanOf(k, x, f, name, b) ==
  LET a(i) == x[2][i + 1]
      n    == Len(x[2]) - 1
      Do(kk, xs, cmds) == [k |-> kk, loads |-> xs, then |-> cmds]
  IN
  CASE IsSym(x) ->
         IF b.is = "prim" THEN Do(Emit(k, <<"QUOTE", <<"prim", name>>>>), <<>>, <<>>)
         ELSE IF b.is = "none" \/ b.value = Unval THEN Do(Bad(k), <<>>, <<>>)
         ELSE Do(Ref(k, "GET", b, name), <<>>, <<>>)
    [] ~IsSym(x) /\ ~IsList(x) -> Do(Emit(k, <<"QUOTE", x>>), <<>>, <<>>)
    [] f = "call/cc" -> Do(Emit(k, <<"APPLY">>), <<a(1)>>, <<<<"MAKECC">>>>)
    [] f = "define"  ->
         Do(IF n = 1 THEN Emit(k, <<"QUOTE", a(1)>>)
            ELSE EvalJmp(Emit(k, <<"DEFINE", a(1)[2]>>), a(2)),
            <<>>, <<<<"DEFINE", a(1)[2]>>>>)
    [] f = "if"      ->
         LET no  == AddSite(k, Site(IF n = 2 THEN Nil ELSE a(3), Unloaded))
             yes == AddSite(no, Site(a(2), Unloaded))
         IN  Do(Emit(yes, <<"SELECT", NewSite(no), NewSite(k)>>), <<a(1)>>, <<>>)
    [] f \in {"lambda", "macro"} ->
         Do(Emit(AddSite(k, Site(a(2), Unloaded)),
                 <<IF f = "lambda" THEN "LAMBDA" ELSE "MACRO", a(1), NewSite(k)>>), <<>>, <<>>)
    [] f = "slambda" -> Do(Emit(k, <<"SLAMBDA", a(1), a(2)>>), <<>>, <<>>)
    [] f = "progn"   -> IF n = 1 THEN Do(k, <<a(1)>>, <<>>)
                        ELSE Do(EvalJmps(k, Args(x)), <<>>, <<>>)
    [] f = "quote"   -> Do(Emit(k, <<"QUOTE", a(1)>>), <<>>, <<>>)
    [] f = "setq"    -> IF b.is = "bound" THEN Do(Ref(k, "SET", b, name), <<a(2)>>, <<>>)
                        ELSE Do(Bad(k), <<>>, <<>>)
    [] IsApply(x) /\ b.is = "prim" ->
         IF Narg[f] >= 0 /\ Narg[f] # n THEN Do(Bad(k), <<>>, <<>>)
         ELSE Do(Emit(k, <<"PRIM", f>>), Args(x), <<>>)
    [] IsApply(x) /\ b.is = "bound" /\ ISMACRO(b.value) ->
         Do(Mload(k, b.value, Args(x)), <<>>, <<>>)
    [] OTHER -> Do(Emit(k, <<"APPLY">>), x[2], <<>>)

Operator(x)  == IF IsList(x) /\ IsSym(x[2][1]) THEN x[2][1][2] ELSE ""
NameIn(x, f) == IF IsSym(x) THEN x[2] ELSE IF f = "setq" THEN x[2][2][2] ELSE f
Looked(name) == IF name = "" THEN [is |-> "none"] ELSE esearch(name)
Plan(k, x) == PlanOf(k, x, Operator(x), NameIn(x, Operator(x)), Looked(NameIn(x, Operator(x))))

Finish(x, p, k) ==
  IF ~k.ok THEN k
  ELSE IF IsForm(x, "_add") THEN Folded(k) ELSE [k EXCEPT !.c = p.then \o @]

\* eload(), one expression after the other.
RECURSIVE Eloads(_, _)
Carry(x, p) == Finish(x, p, Eloads(p.k, p.loads))
Exprcmnd(k, x) == Carry(x, Plan(k, x))
Eload(k, x) == IF Inlined(x) /\ HasRoom(k.c) THEN Exprcmnd(k, x) ELSE EvalJmp(k, x)
Eloads(k, xs) == IF xs = <<>> \/ ~k.ok THEN k ELSE Eloads(Eload(k, Head(xs)), Tail(xs))

Cexpand(x) == Exprcmnd([c |-> <<>>, site |-> site, ok |-> TRUE], x)

\* np of exprcmnd(): an object applied that is bound as an argument.
AppliesArgument_Never(x) == FALSE
AppliesArgument(x) ==
  IsApply(x) /\ LET b == esearch(x[2][1][2]) IN b.is = "bound" /\ ~b.internal

-----------------------------------------------------------------------------
(***************************************************************************)
(* The virtual machine.  Each command is an action; the ones that call     *)
(* evalgc() reset since.                                                   *)
(***************************************************************************)

Is(op) == busy /\ C # <<>> /\ Head(C)[1] = op
Arg(i) == Head(C)[i + 1]

Counted == since' = since + 1
Checked == since' = 0

\* evalerr() ends the program (Control has what happens then); so does an
\* address that is none.
Stop(o) ==
  /\ out' = Append(out, o)
  /\ S' = Nil /\ E' = TOP /\ C' = <<>> /\ D' = <<>> /\ busy' = FALSE
  /\ Counted
  /\ UNCHANGED <<mem, site, back, ghost>>

\* PUSH(S, v)
Push(v) ==
  /\ cell' = Append(cell, [a |-> v, d |-> S])
  /\ S' = Cell(Len(cell) + 1)
  /\ C' = Tail(C)
  /\ Counted
  /\ UNCHANGED <<level, site, E, D, out, busy, back, ghost>>

\* POP(S, v) and TOP(S) need a pair.
HasTop == S[1] = "cell"
Rest   == cell[S[2]].d

\* What is at a site: its commands, or the command to make them.
Code(i) == IF site[i].c = Unloaded THEN <<<<"LOADC", i>>>> ELSE site[i].c

\* mkcont(): a frame is a cell too.
Frame(c) == [id |-> Len(cell) + 1, s |-> S, e |-> E, c |-> c]
Blank == [a |-> Nil, d |-> Nil]

c_quote  == Is("QUOTE")  /\ Push(Arg(1))
c_getb   == Is("GETB")   /\ Push(cell[Arg(1)].d)
c_lambda == Is("LAMBDA") /\ Push(<<"clo", Arg(1), Arg(2), E>>)
c_macro  == Is("MACRO")  /\ Push(<<"mac", Arg(1), Arg(2)>>)
c_makecc == Is("MAKECC") /\ Push(<<"cont", D>>)

\* The index and the level of C_GETL and C_SETL, which the compiler found.
Indexed ==
  LET e == Up(E, Arg(2)) IN
  IF e = 0 \/ Arg(1) > Len(level[e].b) THEN MARK
  ELSE level[e].b[Arg(1)]

c_getl ==
  /\ Is("GETL")
  /\ IF Indexed = MARK THEN Stop(Wild) ELSE Push(cell[Indexed].d)

\* The binding that C_GETD and C_SETD find on their level, or none.
Searched ==
  LET e == Up(E, Arg(2)) IN
  IF e = 0 \/ At(e, Arg(1)) = 0 THEN MARK ELSE level[e].b[At(e, Arg(1))]

c_getd ==
  /\ Is("GETD")
  /\ LET b == Searched IN
     IF b = MARK \/ cell[b].d = Unval THEN Stop(Error) ELSE Push(cell[b].d)

\* Assign TOP(S), which stays, to binding b; or there is none.
Set(b, none) ==
  IF ~HasTop THEN Stop(Wild)
  ELSE IF b = MARK THEN Stop(none)
  ELSE /\ cell' = [cell EXCEPT ![b].d = TopOfS]
       /\ C' = Tail(C)
       /\ Counted
       /\ UNCHANGED <<level, site, S, E, D, out, busy, back, ghost>>

c_setb == Is("SETB") /\ Set(Arg(1), Wild)
c_setl == Is("SETL") /\ Set(Indexed, Wild)
c_setd == Is("SETD") /\ Set(Searched, Error)

c_slambda ==
  /\ Is("SLAMBDA")
  /\ site' = Append(site, Site(Arg(2), Unloaded))
  /\ cell' = Append(cell, [a |-> <<"clo", Arg(1), Len(site) + 1, E>>, d |-> S])
  /\ S' = Cell(Len(cell) + 1)
  /\ C' = Tail(C)
  /\ Counted
  /\ UNCHANGED <<level, E, D, out, busy, back, ghost>>

-----------------------------------------------------------------------------
(* Control: subexpressions, branches, continuations. *)

c_evalc ==
  /\ Is("EVALC")
  /\ D' = <<Frame(Tail(C))>> \o D
  /\ C' = Code(Arg(1))
  /\ S' = Nil
  /\ cell' = Append(cell, Blank)
  /\ Checked
  /\ UNCHANGED <<level, site, E, out, busy, back, ghost>>

c_jumpc ==
  /\ Is("JUMPC")
  /\ C' = Code(Arg(1))
  /\ S' = Nil
  /\ Checked
  /\ UNCHANGED <<mem, site, E, D, out, busy, back, ghost>>

c_select ==
  /\ Is("SELECT")
  /\ IF ~HasTop THEN Stop(Wild)
     ELSE /\ C' = Code(IF TopOfS = Nil THEN Arg(2) ELSE Arg(1))
          /\ S' = Rest
          /\ Checked
          /\ UNCHANGED <<mem, site, E, D, out, busy, back, ghost>>

c_continue ==
  /\ Is("CONTINUE")
  /\ IF ~HasTop \/ Rest # Nil THEN Stop(Error)
     ELSE /\ D' = Arg(1)
          /\ C' = Tail(C)
          /\ Counted
          /\ UNCHANGED <<mem, site, S, E, out, busy, back, ghost>>

\* The end of a list: the value goes on top of what waited, or eval() returns
\* it to the reader.
c_end ==
  /\ busy /\ C = <<>>
  /\ IF ~HasTop THEN Stop(Wild)
     ELSE IF D # <<>>
     THEN LET k == Head(D) IN
          /\ cell' = [cell EXCEPT ![S[2]].d = k.s]
          /\ E' = k.e /\ C' = k.c /\ D' = Tail(D)
          /\ back' = back \cup {k.id}
          /\ ghost' = IF k.id \in back /\ k.s # Nil THEN ghost \cup {"reused"} ELSE ghost
          /\ Checked
          /\ UNCHANGED <<level, site, S, out, busy>>
     ELSE /\ out' = Append(out, Datum(TopOfS))
          /\ S' = Rest
          /\ busy' = FALSE
          /\ Checked
          /\ UNCHANGED <<mem, site, E, C, D, back, ghost>>

-----------------------------------------------------------------------------
(* c_define(): the binding is made first, by eappend() behind a mark that  *)
(* sets it apart from the arguments; the value comes with the second       *)
(* C_DEFINE.                                                               *)

eappend(x) ==
  LET b == level[E].b
      m == E = TOP \/ \E i \in 1..Len(b) : b[i] = MARK
  IN  b \o (IF m THEN <<>> ELSE <<MARK>>) \o <<Len(cell) + 1>>

c_define ==
  /\ Is("DEFINE")
  /\ LET x   == Arg(1)
         new == At(E, x) = 0
         b   == IF new THEN Len(cell) + 1 ELSE level[E].b[At(E, x)]
         cs  == IF new THEN Append(cell, [a |-> Sym(x), d |-> Unval]) ELSE cell
     IN
     IF E = TOP /\ IsPrim(x) THEN Stop(Error)
     ELSE IF S # Nil /\ ~HasTop THEN Stop(Wild)
     ELSE /\ level' = IF new THEN [level EXCEPT ![E].b = eappend(x)] ELSE level
          /\ cell' = IF S = Nil THEN cs ELSE [cs EXCEPT ![b].d = TopOfS]
          /\ ghost' = IF new /\ esearch(x).is # "none" THEN ghost \cup {"shadow"} ELSE ghost
          /\ C' = Tail(C)
          /\ Counted
          /\ UNCHANGED <<site, S, E, D, out, busy, back>>

-----------------------------------------------------------------------------
(* c_apply(): the cells of the values become the bindings of a new level,  *)
(* last parameter first.                                                   *)

Surgery(ps, st) ==
  [i \in 1..Len(cell) |->
     LET is == {j \in 1..Len(Req(ps)) : st[j] = i} IN
     IF is = {} THEN cell[i]
     ELSE LET j == CHOOSE j \in is : TRUE
          IN  [a |-> Sym(Req(ps)[j]), d |-> cell[i].a]]

\* A macro is compiled where it was first used; used elsewhere, the names that
\* it takes from there may be something else.
RECURSIVE Names(_)
Names(x) == IF IsSym(x) THEN {x[2]}
            ELSE IF IsList(x) THEN UNION {Names(x[2][i]) : i \in 1..Len(x[2])}
            ELSE {}

Where(e, x) ==
  LET l == Depth(e, x, 0) IN
  IF l < 0 THEN <<-1>>
  ELSE IF Up(e, l) = TOP THEN <<TOP, At(TOP, x)>> ELSE <<l, At(Up(e, l), x), TOP>>

Elsewhere(ps, m) ==
  /\ site[m].e # 0
  /\ \E x \in Names(site[m].x) \ Params(ps) :
       Where(level[site[m].e].up, x) # Where(E, x)

ApplyBody(ps, body, up, f) ==
  LET n  == Len(Req(ps))
      st == Chain(Rest)
      after == IF n = 0 THEN Rest ELSE cell[st[n]].d
      args  == [i \in 1..n |-> st[n + 1 - i]]
      cs == Surgery(ps, st)
  IN
  IF Len(st) < n
  THEN Stop(IF (IF st = <<>> THEN Rest ELSE cell[st[Len(st)]].d) = Nil THEN Error ELSE Wild)
  ELSE IF after # Nil /\ ~HasRest(ps) THEN Stop(Error)
  ELSE /\ cell' = IF HasRest(ps) THEN Append(cs, [a |-> Sym(ps[3]), d |-> after]) ELSE cs
       /\ level' = Append(level, [b |-> IF HasRest(ps) THEN <<Len(cell) + 1>> \o args ELSE args,
                                  up |-> up])
       /\ E' = Len(level) + 1
       /\ S' = Nil
       /\ C' = Code(body)
       /\ ghost' = IF f = "mac" /\ Elsewhere(ps, body) THEN ghost \cup {"moved"} ELSE ghost
       /\ Checked
       /\ UNCHANGED <<site, D, out, busy, back>>

\* A primitive or a continuation: its commands, and no look at the memory.
ApplyCommands(c) ==
  /\ C' = c
  /\ S' = Rest
  /\ Counted
  /\ UNCHANGED <<mem, site, E, D, out, busy, back, ghost>>

PrimCommands(op) ==
  (IF Narg[op] < 0 THEN <<>> ELSE <<<<"ARGC", Narg[op]>>>>) \o <<<<"PRIM", op>>>>

c_apply ==
  /\ Is("APPLY")
  /\ IF ~HasTop THEN Stop(Wild)
     ELSE LET f == TopOfS IN
          CASE f[1] = "clo"  -> ApplyBody(f[2], f[3], f[4], "clo")
            [] f[1] = "mac"  -> ApplyBody(f[2], f[3], E, "mac")
            [] f[1] = "prim" -> ApplyCommands(PrimCommands(f[2]))
            [] f[1] = "cont" -> ApplyCommands(<<<<"CONTINUE", f[2]>>>>)
            [] OTHER         -> Stop(Error)

c_argc ==
  /\ Is("ARGC")
  /\ IF ~Proper THEN Stop(Wild)
     ELSE IF Len(Stack) # Arg(1) THEN Stop(Error)
     ELSE C' = Tail(C) /\ Counted /\ UNCHANGED <<mem, site, S, E, D, out, busy, back, ghost>>

-----------------------------------------------------------------------------
(* Primitives work on S: the cell of the last operand takes the result. *)

Replace(s, v) ==
  /\ cell' = [cell EXCEPT ![s[2]].a = v]
  /\ S' = s
  /\ C' = Tail(C)
  /\ Counted
  /\ UNCHANGED <<level, site, E, D, out, busy, back, ghost>>

c_add ==
  /\ Is("PRIM") /\ Arg(1) = "_add"
  /\ IF ~HasTop THEN Stop(Wild)
     ELSE IF Rest[1] # "cell" THEN Stop(Wild)
     ELSE LET v == Apply2("_add", <<TopOfS, cell[Rest[2]].a>>) IN
          IF v = Error THEN Stop(Error) ELSE Replace(Rest, v)

c_not ==
  /\ Is("PRIM") /\ Arg(1) = "not"
  /\ IF HasTop THEN Replace(S, Apply2("not", <<TopOfS>>)) ELSE Stop(Wild)

c_list ==
  /\ Is("PRIM") /\ Arg(1) = "list"
  /\ cell' = Append(cell, [a |-> S, d |-> Nil])
  /\ S' = Cell(Len(cell) + 1)
  /\ C' = Tail(C)
  /\ Counted
  /\ UNCHANGED <<level, site, E, D, out, busy, back, ghost>>

\* Commands made from an expression, or an error.
Become(k, sites, g) ==
  IF ~k.ok THEN Stop(Error)
  ELSE /\ C' = k.c
       /\ site' = sites
       /\ ghost' = ghost \cup g
       /\ Checked
       /\ UNCHANGED <<mem, E, D, out, busy, back>>

c_eval ==
  /\ Is("PRIM") /\ Arg(1) = "eval"
  /\ IF ~Proper THEN Stop(Wild)
     ELSE IF Len(Stack) # 1 THEN Stop(Error)
     ELSE \E k \in {Cexpand(Datum(TopOfS))} :
          /\ k.ok => S' = Rest
          /\ Become(k, k.site, {})

-----------------------------------------------------------------------------
(* Loading: an expression is compiled where it stands, once. *)

c_loadc ==
  /\ Is("LOADC")
  /\ \E m \in {Arg(1)} : \E k \in {Cexpand(site[m].x)} :
     LET patched == patch /\ ~AppliesArgument(site[m].x) IN
     /\ Become(k, IF patched THEN [k.site EXCEPT ![m].c = k.c, ![m].e = E] ELSE k.site, {})
     /\ k.ok => S' = S

\* A macro's call site: transform the expression, or run what came of it.
c_jumpm ==
  /\ Is("JUMPM")
  /\ LET m == Arg(1) IN
     C' = IF site[m].c = Unloaded THEN <<<<"EVALC", site[m].t>>, <<"LOAD", m>>>> ELSE site[m].c
  /\ since' = IF site[Arg(1)].c = Unloaded THEN since + 1 ELSE since
  /\ UNCHANGED <<mem, site, S, E, D, out, busy, back, ghost>>

\* The commands that c_load() knows to take what follows for theirs, and those
\* that do.
Last   == {"APPLY", "SELECT", "JUMPC"}
Greedy(cmd) == (cmd[1] = "PRIM" /\ Narg[cmd[2]] < 0) \/ cmd[1] = "DEFINE"

\* The sites of macros within c come before rest as well.
Before(sites, c, rest) ==
  LET ms == {c[i][2] : i \in {i \in 1..Len(c) : c[i][1] = "JUMPM"}} IN
  [i \in 1..Len(sites) |->
     IF i \in ms THEN [sites[i] EXCEPT !.rest = @ \o rest] ELSE sites[i]]

c_load ==
  /\ Is("LOAD")
  /\ IF ~HasTop THEN Stop(Wild)
     ELSE
     \E m \in {Arg(1)}, x \in {Datum(TopOfS)} : \E k \in {Cexpand(x)} :
     LET rest == site[m].rest
         wrap == rest # <<>> /\ \E i \in 1..Len(k.c) : k.c[i][1] \in Last
         kk   == IF wrap THEN [k EXCEPT !.c = <<<<"EVALC", NewSite(k)>>>> \o rest,
                                        !.site = Append(@, Site(x, k.c))]
                 ELSE [k EXCEPT !.c = @ \o rest, !.site = Before(@, k.c, rest)]
         g    == (IF rest # <<>> /\ ~wrap /\ \E i \in 1..Len(k.c) : Greedy(k.c[i])
                  THEN {"splice"} ELSE {})
                 \cup (IF patch /\ AppliesArgument(x) THEN {"fixed"} ELSE {})
                 \cup (IF patch /\ Unchecked(kk.c) > MAXINLINE THEN {"long"} ELSE {})
     IN
     /\ Become(kk, IF patch THEN [kk.site EXCEPT ![m].c = kk.c] ELSE kk.site, g)
     /\ k.ok => S' = Rest

-----------------------------------------------------------------------------
(* read() and eval(): the next expression, under the top continuation. *)

Read ==
  /\ ~busy /\ Len(out) < Len(prog)
  /\ \A i \in 1..Len(out) : out[i] \notin {Error, Wild}
  /\ \E k \in {Cexpand(prog[Len(out) + 1])} :
     IF ~k.ok THEN Stop(Error)
     ELSE /\ D' = <<Frame(C)>> \o D
          /\ C' = k.c /\ site' = k.site
          /\ cell' = Append(cell, Blank)
          /\ busy' = TRUE
          /\ Counted
          /\ UNCHANGED <<level, S, E, out, back, ghost>>

Init ==
  /\ prog \in Programs /\ patch \in BOOLEAN
  /\ cell = <<>> /\ level = <<[b |-> <<>>, up |-> 0]>> /\ site = <<>>
  /\ S = Nil /\ E = TOP /\ C = <<>> /\ D = <<>>
  /\ out = <<>> /\ busy = FALSE /\ since = 0 /\ back = {} /\ ghost = {}

Done == /\ ~busy
        /\ \/ Len(out) = Len(prog)
           \/ \E i \in 1..Len(out) : out[i] \in {Error, Wild}

Command ==
  \/ c_quote \/ c_getb \/ c_getl \/ c_getd \/ c_setb \/ c_setl \/ c_setd
  \/ c_lambda \/ c_slambda \/ c_macro \/ c_makecc \/ c_continue
  \/ c_evalc \/ c_jumpc \/ c_select \/ c_end \/ c_define
  \/ c_apply \/ c_argc \/ c_add \/ c_not \/ c_list \/ c_eval
  \/ c_loadc \/ c_jumpm \/ c_load

Next == (Read \/ Command) /\ UNCHANGED <<prog, patch>>

Spec == Init /\ [][Next]_vars

-----------------------------------------------------------------------------
\* The values of two programs, closures and continuations by their kind only.
RECURSIVE Shown(_)
Shown(v) == IF v[1] = "list" THEN List([i \in 1..Len(v[2]) |-> Shown(v[2][i])])
            ELSE IF v[1] \in {"clo", "mac", "cont"} THEN <<v[1]>> ELSE v
ShownAll(vs) == [i \in 1..Len(vs) |-> Shown(vs[i])]

\* A program that was compiled as it ran has the values that evaluation gives
\* it, whether *don't-patch* is set or not - unless something came about that
\* compiled lists do not foresee: a frame returned to twice with values that
\* wait (reused), a macro that expands to what takes all the values there are
\* (splice), to an application of an argument (fixed), or that is used in two
\* places with different bindings (moved), or an internal definition of a name
\* that had another meaning (shadow).  exprcmnd(), c_loadc(), c_load().
Faithful == Done /\ ghost \subseteq {"long"} => ShownAll(out) = ShownAll(Meaning(prog))

\* What the collector's margin rests on (GUARDPAGE, lisp.c:141): between two
\* looks at the memory there are no more commands than a list holds in line, or
\* than the arguments of some macro, which mload() quotes without a limit, and a
\* few - unless a macro's expansion has made a patched list longer (long),
\* which c_load() does not count.
Transforms == {Len(site[site[i].t].c) : i \in {i \in DOMAIN site : "t" \in DOMAIN site[i]}}
ChecksInTime == "long" \notin ghost => \E n \in Transforms \cup {MAXINLINE + 2} : since <= n

\* The same without the exceptions: "the Scheme evaluation model", README.md.
Agrees == Done => ShownAll(out) = ShownAll(Meaning(prog))
=============================================================================
