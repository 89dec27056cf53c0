------------------------------ MODULE MCMachine ------------------------------
(* Programs for Machine: each family crosses an expression with the places  *)
(* where it can stand, and runs what it defines more than once.             *)
EXTENDS Machine

A(f, xs)  == List(<<Sym(f)>> \o xs)      \* (f x ...)
Q(x)      == A("quote", <<x>>)
Fn(ps, x) == A("lambda", <<List(ps), x>>)
Mac(ps, x) == A("macro", <<List(ps), x>>)
Def(x, v) == A("define", <<Sym(x), v>>)
Setq(x, v) == A("setq", <<Sym(x), v>>)
Do(x, y)  == A("progn", <<x, y>>)
If(x)     == A("if", <<x, Num(1), Num(2)>>)
x1 == Sym("x")  y1 == Sym("y")  z1 == Sym("z")

\* The places of an expression: alone, first or last of a primitive of two or
\* of any number of arguments, of a function, before other expressions, tested.
In(e) == {e, A("_add", <<e, Num(1)>>), A("_add", <<Num(1), e>>),
          A("list", <<e, Num(1)>>), A("list", <<Num(1), e>>), A("g", <<e, Num(1)>>),
          If(e), Do(e, Num(2)), A("not", <<e>>)}
G == Def("g", A("lambda", <<Dot(<<"a">>, "b"), A("list", <<Sym("b"), Sym("a")>>)>>))

\* Functions, closures, assignments and internal definitions.
Bodies == {x1, A("eval", <<x1>>), Setq("x", A("_add", <<x1, Num(1)>>)), Setq("n", x1),
           Do(Def("y", x1), A("list", <<x1, y1>>)),
           Do(A("define", <<y1>>), Do(Setq("y", x1), y1)),
           List(<<Fn(<<"y">>, A("list", <<x1, y1, Sym("n")>>)), Num(3)>>),
           List(<<Fn(<<"y">>, Do(Setq("x", y1), x1)), Num(3)>>),
           List(<<A("slambda", <<List(<<"y">>), A("_add", <<x1, y1>>)>>), Num(3)>>),
           Fn(<<"y">>, x1)}
Functions == {<<G, Def("n", Num(0)), Def("f", Fn(<<"x">>, b)), A("f", <<Num(4)>>), A("f", <<Num(5)>>)>> :
                b \in UNION {In(e) : e \in Bodies}}

\* Internal definitions in one branch, of names that may be bound outside.
Internal == {<<Def("z", Num(0)),
               Def("f", Fn(<<"x">>, Do(List(<<Sym("if"), x1, Def(n, Num(7)), Num(0)>>), b))),
               A("f", <<Nil>>), A("f", <<Num(4)>>)>> :
               n \in {"x", "y", "z"}, b \in {x1, z1, A("list", <<x1, z1>>)}}

\* Macros: what they expand to, in the places an expression can have.
Texts == {Sym("a"), A("list", <<Q(Sym("_add")), Num(1), Sym("a")>>),
          A("list", <<Q(Sym("list")), Num(1), Sym("a")>>),
          A("list", <<Q(Sym("if")), Sym("a"), Num(1), Num(2)>>),
          A("list", <<Q(Sym("g")), Sym("a")>>),
          A("list", <<Q(Sym("id")), Sym("a")>>),
          A("list", <<Q(Sym("progn")), Num(0), Sym("a")>>),
          A("list", <<Q(Sym("define")), Q(y1), Sym("a")>>),
          A("list", <<Q(Sym("setq")), Q(x1), Num(3)>>)}
MacrosIn(bs) == {<<G, Def("id", Mac(<<"b">>, Sym("b"))), Def("m", Mac(<<"a">>, t)),
             Def("f", Fn(<<"x">>, b)), A("f", <<Num(4)>>), A("f", <<Num(5)>>)>> :
             t \in Texts, b \in bs}
Macros == MacrosIn(In(A("m", <<x1>>)))

\* A macro that takes a name from where it is used, in two places.
Caller(n) == Fn(<<n>>, A("m", <<>>))
Nested == Fn(<<"x">>, List(<<Fn(<<"y">>, A("m", <<>>)), Num(2)>>))
Dynamic == {<<Def("x", Num(0)), Def("m", Mac(<<>>, x1)), Def("u", u), Def("v", v),
              A("u", <<Num(4)>>), A("v", <<Num(5)>>)>> :
              u \in {Caller("x"), Caller("y"), Nested}, v \in {Caller("x"), Caller("y"), Nested}}

\* What is bound as an argument and applied.
Applied3 == {Sym("eval"), Fn(<<"y">>, A("_add", <<y1, Num(1)>>)), Mac(<<"y">>, y1)}
Arguments == {<<G, Def("m", Mac(<<>>, Q(A("p", <<Num(4)>>)))), Def("f", Fn(<<"p">>, b)),
                A("f", <<u>>), A("f", <<v>>)>> :
                u \in Applied3, v \in Applied3,
                b \in In(A("p", <<Num(4)>>)) \cup {A("m", <<>>)}}

\* Continuations: left early, and returned to once or twice.
Early == A("call/cc", <<Fn(<<"k">>, A("list", <<Num(7), A("k", <<x1>>)>>))>>)
Kept  == A("call/cc", <<Fn(<<"k">>, Do(Setq("r", Sym("k")), x1))>>)
Escapes == {<<G, Def("f", Fn(<<"x">>, b)), A("f", <<Num(4)>>), A("f", <<Num(5)>>)>> :
              b \in In(Early)}
Returns == {<<G, Def("r", Num(0)), Def("f", Fn(<<"x">>, b)), A("f", <<Num(4)>>),
              A("r", <<Num(5)>>), A("r", <<Num(6)>>)>> : b \in In(Kept)}

\* Primitives within primitives, deeper than a list holds, and macros there.
RECURSIVE Nots(_, _)
Nots(n, x) == IF n = 0 THEN x ELSE A("not", <<Nots(n - 1, x)>>)
RECURSIVE Sums(_)
Sums(n) == IF n = 0 THEN x1 ELSE A("_add", <<Sums(n - 1), A("_add", <<x1, Num(n)>>)>>)
Deep == {<<Def("m", Mac(<<"a">>, A("list", <<Q(Sym("not")), A("list", <<Q(Sym("not")), Sym("a")>>)>>))),
           Def("f", Fn(<<"x">>, b)), A("f", <<Num(4)>>), A("f", <<Num(5)>>)>> :
           b \in {Nots(n, x1) : n \in 1..6} \cup {Sums(n) : n \in 1..3}
                 \cup {Nots(n, A("m", <<x1>>)) : n \in 0..4}
                 \cup {A("m", <<A("m", <<x1>>)>>)}}

\* A macro of more arguments than a list holds.
Wide == {<<Def("m", Mac(<<"a", "b", "c", "d", "e">>, Sym("d"))),
           Def("f", Fn(<<"x">>, Nots(n, A("m", <<x1, Num(1), Num(2), x1, Num(3)>>)))),
           A("f", <<Num(4)>>), A("f", <<Num(5)>>)>> : n \in 0..4}

MCPrograms == Deep \cup Wide \cup Functions \cup Internal \cup Macros \cup Dynamic \cup Arguments
              \cup Escapes \cup Returns
MCSplice   == MacrosIn({A("list", <<A("m", <<x1>>), Num(1)>>)})
=============================================================================
