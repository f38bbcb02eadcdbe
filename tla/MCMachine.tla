------------------------------ MODULE MCMachine ------------------------------
(***************************************************************************)
(* Programs for Machine: operands that leave the expression around them in *)
(* different ways, in the places where the generator treats them           *)
(* differently, inside a function and at top level.                        *)
(***************************************************************************)
EXTENDS Machine

n(v) == Literal(v)
x == Symbol("x")
put1(e) == Invoke(Symbol("put"), <<e>>)
call(f, as) == Invoke(Symbol(f), as)
jump(k, as) == Jump(Symbol(k), as)

\* throw jumps to its argument; twice calls put and itself; late has escape
\* called from C, which jumps out of it to the continuation left in cell.
Library == <<
    Storage("cell", <<n(0)>>),
    Function("throw", <<"k", "v">>, jump("k", <<Symbol("v")>>)),
    Function("twice", <<"v">>, If(Symbol("v"), call("subtract", <<
        put1(Symbol("v")), call("twice", <<call("subtract", <<Symbol("v"), n(1)>>)>>)>>), n(0))),
    Function("escape", <<>>, Jump(call("get", <<Symbol("cell")>>), <<put1(n(8))>>)),
    Function("late", <<"k">>, call("subtract", <<
        call("set", <<Symbol("cell"), Symbol("k")>>), call("callback", <<Symbol("escape")>>)>>)) >>

\* Operands that are evaluated to their end, and operands that are left by a
\* jump to the continuation of a with: from where it is, from a function it
\* calls, in one of two branches, from a callback, or out of a loop.
Plain == {n(3), put1(n(4)), call("twice", <<n(2)>>),
          call("callback", <<Function("h", <<>>, put1(n(2)))>>)}
Leaving == {
    With("k", jump("k", <<n(5)>>)),
    With("k", call("throw", <<Symbol("k"), put1(n(6))>>)),
    With("k", If(x, call("throw", <<Symbol("k"), n(7)>>), n(0))),
    With("k", call("late", <<Symbol("k")>>)),
    With("r", Jump(Continuation("loop", <<"i">>,
        If(put1(Symbol("i")), jump("loop", <<call("subtract", <<Symbol("i"), n(1)>>)>>),
                              jump("r", <<n(9)>>))), <<n(2)>>)) }
Operands == Plain \union Leaving

\* Expressions that contain two operands.
Contexts(a, b) == {
    call("subtract", <<a, b>>),
    put1(call("subtract", <<put1(a), Constrain(put1(b))>>)),
    If(a, b, n(0)),
    call("get", <<Storage("s", <<a, b>>)>>),
    With("k", put1(If(x, jump("k", <<call("subtract", <<a, b>>)>>), n(1)))),
    With("k", put1(call("subtract", <<If(x, a, jump("k", <<n(1)>>)), b>>))),
    With("r", Jump(Continuation("c", <<"u", "v">>,
        jump("r", <<call("subtract", <<Symbol("u"), Symbol("v")>>)>>)), <<a, b>>)),
    call("put8", <<a, n(11), b, n(12), n(13), n(14), put1(n(15)), n(16)>>) }

\* Expressions with an operand in the place of the function.
ReferenceContext(a, b) == Invoke(If(a, Symbol("put"), Symbol("get")), <<b>>)

InFunctionBody(e) == Library \o <<Function("f", <<"x">>, put1(e)), call("f", <<n(1)>>)>>
AtTopLevel(e) ==
    Library \o <<put1(With("j", Jump(Continuation("c", <<"x">>, jump("j", <<e>>)), <<n(1)>>)))>>

Expressions_ == UNION {Contexts(a, b) : a, b \in Operands}
                  \union {ReferenceContext(a, b) : a \in Plain, b \in Operands}

AllPrograms == {InFunctionBody(e) : e \in Expressions_} \union {AtTopLevel(e) : e \in Expressions_}

\* The function is found by an expression that a called function jumps back into.
ReferencePrograms ==
    {InFunctionBody(ReferenceContext(With("k", call("throw", <<Symbol("k"), n(6)>>)), n(3)))}
=============================================================================
