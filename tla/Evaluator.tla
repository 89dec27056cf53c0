------------------------------ MODULE Evaluator ------------------------------
(***************************************************************************)
(* What an expression means, with nothing compiled and nothing shared: the *)
(* Scheme model of evaluation with MakerLisp's special forms.  Names are   *)
(* looked up when they are used, argument lists are values, a continuation *)
(* is a sequence of frames that nobody changes.  Module Machine, the       *)
(* compiler and the virtual machine of lisp.c, is compared with it.        *)
(*                                                                         *)
(* An expression is a symbol, an integer or a list of expressions; so is a *)
(* datum.  Other values are closures, macros, primitives and reified       *)
(* continuations.                                                          *)
(***************************************************************************)
EXTENDS Integers, Sequences

Sym(x)  == <<"sym", x>>
Num(n)  == <<"int", n>>
List(s) == <<"list", s>>
Nil     == List(<<>>)
Unval   == <<"unval">>              \* the value of a name without one
True    == Sym("t")

IsSym(v)  == v[1] = "sym"
IsList(v) == v[1] = "list" /\ v # Nil

\* Parameters: a list of names, or names and one for the rest of the values.
Dot(s, x) == <<"dot", s, x>>
Req(ps)   == ps[2]
HasRest(ps) == ps[1] = "dot"
Params(ps) == {Req(ps)[i] : i \in 1..Len(Req(ps))} \cup (IF HasRest(ps) THEN {ps[3]} ELSE {})

\* ISFORM, lisp.c:2491
Forms == {"call/cc", "define", "if", "lambda", "macro", "progn", "quote",
          "setq", "slambda"}
IsForm(x, f) == IsList(x) /\ x[2][1] = Sym(f)

\* The primitives modelled, of pftbl, with their numbers of arguments.
Narg == [_add |-> 2, not |-> 1, list |-> -1, eval |-> -1]
IsPrim(x) == x \in DOMAIN Narg

\* A primitive applied to all its values, or an error.
Error == <<"error">>
PrimFits(op, vs) == Narg[op] < 0 \/ Narg[op] = Len(vs)
Apply2(op, vs) ==
  CASE op = "_add" -> IF vs[1][1] = "int" /\ vs[2][1] = "int"
                      THEN Num(vs[1][2] + vs[2][2]) ELSE Error
    [] op = "not"  -> IF vs[1] = Nil THEN True ELSE Nil
    [] op = "list" -> List(vs)

-----------------------------------------------------------------------------
(***************************************************************************)
(* A step takes a configuration to the next one: eval evaluates x in       *)
(* environment e, ret gives v to the first frame of k.  lev holds the      *)
(* environment's levels, each with its names and the level outside it.     *)
(***************************************************************************)
LOCAL Tl(s) == SubSeq(s, 2, Len(s))

RECURSIVE Find(_, _, _)
Find(lev, e, x) == IF e = 0 \/ x \in DOMAIN lev[e].b THEN e ELSE Find(lev, lev[e].up, x)

\* The value of a name: bound, a primitive's, or none.
ValueOf(lev, e, x) ==
  LET l == Find(lev, e, x) IN
  IF l # 0 THEN lev[l].b[x] ELSE IF IsPrim(x) THEN <<"prim", x>> ELSE Unval

With(b, x, v) == [y \in DOMAIN b \cup {x} |-> IF y = x THEN v ELSE b[y]]

Eval(c, x, e, k) == [c EXCEPT !.mode = "eval", !.x = x, !.e = e, !.k = k]
Ret(c, v, k)     == [c EXCEPT !.mode = "ret", !.x = v, !.k = k]
Fail(c)          == [c EXCEPT !.mode = "done", !.x = Error]

\* Bind the values to the parameters at a new level, and evaluate the body.
Enter(c, ps, body, up, vs, k) ==
  LET n == Len(Req(ps)) IN
  IF Len(vs) < n \/ (Len(vs) > n /\ ~HasRest(ps)) THEN Fail(c)
  ELSE LET b == [x \in Params(ps) |->
                   IF \E i \in 1..n : Req(ps)[i] = x
                   THEN vs[CHOOSE i \in 1..n : Req(ps)[i] = x]
                   ELSE List(SubSeq(vs, n + 1, Len(vs)))]
       IN  Eval([c EXCEPT !.lev = Append(@, [b |-> b, up |-> up])],
                body, Len(c.lev) + 1, k)

\* Apply f to values in an application that stands in environment e.
Applied(c, f, vs, e, k) ==
  CASE f[1] = "clo"  -> Enter(c, f[2], f[3], f[4], vs, k)
    [] f[1] = "mac"  -> Enter(c, f[2], f[3], e, vs, k)
    [] f[1] = "cont" -> IF Len(vs) = 1 THEN Ret(c, vs[1], f[2]) ELSE Fail(c)
    [] f[1] = "prim" /\ PrimFits(f[2], vs) ->
         IF f[2] = "eval"
         THEN IF Len(vs) = 1 THEN Eval(c, vs[1], e, k) ELSE Fail(c)
         ELSE LET v == Apply2(f[2], vs) IN IF v = Error THEN Fail(c) ELSE Ret(c, v, k)
    [] OTHER -> Fail(c)

\* Operands from right to left, then the operator.
Operands(c, xs, e, k) ==
  Eval(c, xs[Len(xs)], e, <<[f |-> "args", vs |-> <<>>, xs |-> SubSeq(xs, 1, Len(xs) - 1),
                             e |-> e]>> \o k)

StepEval(c) ==
  LET x == c.x  e == c.e  k == c.k
      a(i) == x[2][i + 1]
      n == Len(x[2]) - 1
      Frame(f, xs) == <<[f |-> f, vs |-> <<>>, xs |-> xs, e |-> e]>> \o k
  IN
  CASE IsSym(x) -> LET v == ValueOf(c.lev, e, x[2]) IN
                   IF v = Unval THEN Fail(c) ELSE Ret(c, v, k)
    [] ~IsSym(x) /\ ~IsList(x) -> Ret(c, x, k)
    [] IsForm(x, "quote")   -> Ret(c, a(1), k)
    [] IsForm(x, "if")      -> Eval(c, a(1), e, Frame("if", <<a(2), IF n = 3 THEN a(3) ELSE Nil>>))
    [] IsForm(x, "progn")   -> Eval(c, a(1), e, IF n = 1 THEN k ELSE Frame("progn", Tl(Tl(x[2]))))
    [] IsForm(x, "lambda") \/ IsForm(x, "slambda") -> Ret(c, <<"clo", a(1), a(2), e>>, k)
    [] IsForm(x, "macro")   -> Ret(c, <<"mac", a(1), a(2)>>, k)
    [] IsForm(x, "define")  ->
         LET name == a(1)[2]
             b    == c.lev[e].b
             d    == IF name \in DOMAIN b THEN c
                     ELSE [c EXCEPT !.lev[e].b = With(b, name, Unval)]
         IN  IF e = 1 /\ IsPrim(name) THEN Fail(c)
             ELSE IF n = 1 THEN Ret(d, a(1), k) ELSE Eval(d, a(2), e, Frame("setq", <<a(1)>>))
    [] IsForm(x, "setq")    -> IF Find(c.lev, e, a(1)[2]) = 0 THEN Fail(c)
                               ELSE Eval(c, a(2), e, Frame("setq", <<a(1)>>))
    [] IsForm(x, "call/cc") -> Eval(c, a(1), e, Frame("call/cc", <<>>))
    [] OTHER ->
         LET f == x[2][1]
             v == IF IsSym(f) THEN ValueOf(c.lev, e, f[2]) ELSE Unval
         IN  IF v[1] = "mac"
             THEN Enter(c, v[2], v[3], e, Tl(x[2]), Frame("expand", <<>>))
             ELSE Operands(c, x[2], e, k)

StepRet(c) ==
  LET v == c.x  f == c.k[1]  k == Tl(c.k) IN
  CASE f.f = "if"      -> Eval(c, f.xs[IF v = Nil THEN 2 ELSE 1], f.e, k)
    [] f.f = "progn"   -> Eval(c, f.xs[1], f.e,
                               IF Len(f.xs) = 1 THEN k ELSE <<[f EXCEPT !.xs = Tl(@)]>> \o k)
    [] f.f = "expand"  -> Eval(c, v, f.e, k)
    [] f.f = "call/cc" -> Applied(c, v, <<<<"cont", k>>>>, f.e, k)
    [] f.f = "setq"    ->
         LET l == Find(c.lev, f.e, f.xs[1][2]) IN
         Ret([c EXCEPT !.lev[l].b[f.xs[1][2]] = v], v, k)
    [] f.f = "args"    ->
         IF f.xs # <<>>
         THEN Eval(c, f.xs[Len(f.xs)], f.e,
                   <<[f EXCEPT !.vs = <<v>> \o @, !.xs = SubSeq(@, 1, Len(@) - 1)]>> \o k)
         ELSE Applied(c, v, f.vs, f.e, k)

RECURSIVE Run(_, _)
Run(c, fuel) ==
  IF c.mode = "done" \/ fuel = 0 THEN c
  ELSE IF c.mode = "ret" /\ c.k = <<>> THEN [c EXCEPT !.mode = "done"]
  ELSE Run(IF c.mode = "eval" THEN StepEval(c) ELSE StepRet(c), fuel - 1)

\* The values of a program's expressions, one after the other in one top
\* environment, up to the first error.
RECURSIVE Values(_, _)
Values(prog, lev) ==
  IF prog = <<>> THEN <<>>
  ELSE LET c == Run([mode |-> "eval", x |-> prog[1], e |-> 1, k |-> <<>>, lev |-> lev], 200)
       IN  IF c.x = Error THEN <<Error>> ELSE <<c.x>> \o Values(Tl(prog), c.lev)

TopLevel == <<[b |-> [x \in {} |-> Unval], up |-> 0]>>
Meaning(prog) == Values(prog, TopLevel)
=============================================================================
