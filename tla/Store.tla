------------------------------- MODULE Store -------------------------------
(***************************************************************************)
(* What MakerLisp programs may rely on: the operations of the program on   *)
(* objects that refer to objects, with no trace of a heap, an address or a *)
(* collector.  An object that nothing leads to is forgotten at once, and   *)
(* another one may come to have its identity.                              *)
(***************************************************************************)
CONSTANTS
  Objects,    \* identities of Lisp objects, finitely many
  Conts,      \* those of continuations
  NIL         \* the empty list, not one of them

Fields == {"car", "cdr"}
Values == Objects \cup {NIL}

VARIABLES
  reg,        \* what the registers topenv, S, D and v hold
  obj         \* the fields of the objects in use

Free == [car |-> NIL, cdr |-> NIL]

\* The objects that the objects of roots lead to, through fields g.
Reachable(roots, g) ==
  LET closure[A \in SUBSET Objects] ==
        LET B == A \cup ({g[p][f] : p \in A, f \in Fields} \ {NIL})
        IN  IF B = A THEN A ELSE closure[B]
  IN  closure[roots \ {NIL}]

InUse == Reachable({reg.topenv, reg.S, reg.D, reg.v}, obj)

\* The registers and the fields become these; what is out of use is forgotten.
Become(r, g) ==
  LET kept == Reachable({r.topenv, r.S, r.D, r.v}, g)
  IN  reg' = r /\ obj' = [o \in Objects |-> IF o \in kept THEN g[o] ELSE Free]

\* What an instruction may work on.
Operands == {reg.topenv, reg.v, NIL}
            \cup (IF reg.S = NIL THEN {} ELSE {obj[reg.S].car})
Parts(x) == IF x = NIL \/ x \in Conts THEN {} ELSE {obj[x].car, obj[x].cdr}

-----------------------------------------------------------------------------
Init ==
  \E o \in Objects \ Conts :
    /\ reg = [topenv |-> o, S |-> NIL, D |-> NIL, v |-> NIL]
    /\ obj = [p \in Objects |-> Free]

Cons(o, x, y) ==
  Become([reg EXCEPT !.v = o], [obj EXCEPT ![o] = [car |-> x, cdr |-> y]])

Push(o) ==
  Become([reg EXCEPT !.S = o],
         [obj EXCEPT ![o] = [car |-> reg.v, cdr |-> reg.S]])

Load(x) == Become([reg EXCEPT !.v = x], obj)

Pop ==
  /\ reg.S # NIL
  /\ Become([reg EXCEPT !.v = obj[reg.S].car, !.S = obj[reg.S].cdr], obj)

SetTop == reg.S # NIL /\ Become(reg, [obj EXCEPT ![reg.S].car = reg.v])

Bind(x) ==
  /\ reg.S # NIL
  /\ Become([reg EXCEPT !.v = reg.S, !.S = obj[reg.S].cdr],
            [obj EXCEPT ![reg.S] = [car |-> x, cdr |-> @.car]])

BindRest(o, x) ==
  Become([reg EXCEPT !.v = o, !.S = NIL], [obj EXCEPT ![o] = [car |-> x, cdr |-> reg.S]])

EvalC(o) ==
  Become([reg EXCEPT !.D = o, !.S = NIL],
         [obj EXCEPT ![o] = [car |-> reg.S, cdr |-> reg.D]])

End ==
  /\ reg.D # NIL /\ reg.S # NIL
  /\ Become([reg EXCEPT !.D = obj[reg.D].cdr],
            [obj EXCEPT ![reg.S].cdr = obj[reg.D].car])

Continue(x) ==
  /\ x \in Conts \cup {NIL}
  /\ reg.S # NIL /\ obj[reg.S].cdr = NIL
  /\ Become([reg EXCEPT !.D = x], obj)

Error ==
  \/ Become([reg EXCEPT !.S = NIL], obj)
  \/ Become([reg EXCEPT !.S = NIL, !.D = NIL, !.v = NIL], obj)

Assign(o, f, x) == o \notin Conts /\ Become(reg, [obj EXCEPT ![o][f] = x])

Next ==
  \/ \E o \in (Objects \ Conts) \ InUse :
       \/ Push(o)
       \/ \E x \in Operands : BindRest(o, x)
       \/ \E x, y \in Operands : Cons(o, x, y)
  \/ \E o \in Conts \ InUse : EvalC(o)
  \/ \E x \in Operands \cup UNION {Parts(o) : o \in Operands} : Load(x)
  \/ Load(reg.D)
  \/ Pop \/ SetTop \/ End \/ Error
  \/ \E x \in Operands : Bind(x) \/ Continue(x)
  \/ \E o \in Operands \ {NIL}, f \in Fields, x \in Operands : Assign(o, f, x)

Spec == Init /\ [][Next]_<<reg, obj>>
=============================================================================
