------------------------------ MODULE Semantics ------------------------------
(***************************************************************************)
(* What the language promises of a program, independently of registers,    *)
(* frames and instructions (README.md, "Expressions"): the reference the   *)
(* generated code is compared with.  An expression is evaluated in an      *)
(* activation of the function around it, 0 outside functions, and in a     *)
(* context, the stack of what remains to be done with its value.           *)
(*                                                                         *)
(* A value is a tuple with a tag: <<"int", n>>, <<"fun", p>> for the       *)
(* function at p, <<"ext", n>> for a function of another object, and       *)
(* <<"cont", p, a>> and <<"storage", p, a>> for the continuation or        *)
(* storage of expression p in activation a.  The order of evaluation,      *)
(* unspecified by the language, is that of the generator: arguments from   *)
(* left to right, then the reference.                                      *)
(***************************************************************************)
EXTENDS Analysis

Number(n) == <<"int", n>>

\* What is seen of a value passed to the outside: a number, or only that it
\* is an address.
Address == -2000
Observe(v) == IF v[1] = "int" THEN v[2] ELSE Address

\* The activation that holds the storage of a binding of the expression at p,
\* for code running in activation a.
InFunction(p, nodes) == \E n \in 1 .. (Len(p) - 1) : nodes[SubSeq(p, 1, n)].type = "function"
Home(p, a, nodes) == IF InFunction(p, nodes) THEN a ELSE 0

\* The activations whose functions have not returned.
Live(s) == {0, s.act} \union {s.context[i].act : i \in DOMAIN s.context}

-----------------------------------------------------------------------------
(* A state of the evaluation: to evaluate the expression at s.path, or to   *)
(* give s.value to the context.                                             *)

Evaluate(s, p)  == [s EXCEPT !.mode = "evaluate", !.path = p]
Give(s, v)      == [s EXCEPT !.mode = "give", !.value = v]
Push(s, frame)  == [s EXCEPT !.context = Append(@, frame)]
Misused(s)   == [s EXCEPT !.mode = "undefined"]

\* A frame of the context: what is done with the value, for the expression at
\* p in activation a, with the values evaluated before it.
Todo(what, p, a, done) == [what |-> what, path |-> p, act |-> a, done |-> done]

\* store holds the words of a storage expression and the parameters.
StoreAll(s, a, p, values) ==
    [s EXCEPT !.store =
        [k \in DOMAIN @ \union {<<a, p, i>> : i \in DOMAIN values} |->
            IF k[1] = a /\ k[2] = p /\ k[3] \in DOMAIN values THEN values[k[3]] ELSE @[k]]]

SymbolValue(s, b, nodes) ==
    LET a == IF nodes[b[1]].type = "function" THEN s.act ELSE Home(b[1], s.act, nodes)
    IN  IF b[2] # Ref THEN s.store[<<a, b[1], b[2]>>]
        ELSE CASE nodes[b[1]].type = "function" -> <<"fun", b[1]>>
               [] nodes[b[1]].type = "storage" -> <<"storage", b[1], a>>
               [] OTHER -> <<"cont", b[1], a>>

\* Remember the context of the with or continuation at p.
Capture(s, p, nodes) ==
    [s EXCEPT !.captured =
        [k \in DOMAIN @ \union {<<Home(p, s.act, nodes), p>>} |->
            IF k = <<Home(p, s.act, nodes), p>> THEN s.context ELSE @[k]]]

\* The operands of a jump or invoke: the arguments, then the reference.
Operand(t, p, i) == IF i <= Len(t.arguments) THEN Append(p, i + 1) ELSE Append(p, 1)

StepEvaluate(s, g) ==
    LET p == s.path
        t == g.nodes[p]
    IN  CASE t.type = "literal"   -> Give(s, Number(t.value))
          [] t.type = "symbol"    ->
               IF IsUndefined(g.bind[p]) THEN Give(s, <<"ext", g.bind[p][1][2]>>)
               ELSE Give(s, SymbolValue(s, g.bind[p], g.nodes))
          [] t.type = "function"  -> Give(s, <<"fun", p>>)
          [] t.type = "constrain" -> Evaluate(s, Append(p, 1))
          [] t.type = "if" ->
               Evaluate(Push(s, Todo("if", p, s.act, <<>>)), Append(p, 1))
          [] t.type = "storage" ->
               IF t.arguments = <<>> THEN Give(s, <<"storage", p, Home(p, s.act, g.nodes)>>)
               ELSE Evaluate(Push(s, Todo("storage", p, s.act, <<>>)), Append(p, 1))
          [] t.type = "with" -> Evaluate(Capture(s, p, g.nodes), Append(p, 1))
          [] t.type = "continuation" ->
               Give(Capture(s, p, g.nodes), <<"cont", p, Home(p, s.act, g.nodes)>>)
          [] t.type \in {"jump", "invoke"} ->
               Evaluate(Push(s, Todo("operands", p, s.act, <<>>)), Operand(t, p, 1))

\* A function of another object file is called.
CallExternal(s, name, args) ==
    CASE name = "subtract" -> Give(s, Number(args[1][2] - args[2][2]))
      [] name = "get" -> Give(s, s.store[<<args[1][3], args[1][2], 1>>])
      [] name = "set" -> Give(StoreAll(s, args[1][3], args[1][2], <<args[2]>>), Number(0))
      [] OTHER -> Give([s EXCEPT !.log = Append(@, <<name, [i \in DOMAIN args |-> Observe(args[i])]>>)],
                       args[1])

\* The function f is called with args; callback calls the function it is given.
Apply(s, f, args, g) ==
    CASE f[1] = "ext" /\ f[2] # "callback" -> CallExternal(s, f[2], args)
      [] f[1] = "ext" /\ f[2] = "callback" ->
           [s EXCEPT !.mode = "apply", !.value = args[1], !.args = <<>>]
      [] f[1] = "fun" /\ Len(args) = Len(g.nodes[f[2]].parameters) ->
           LET new == s.acts + 1
               in  == [Push(s, Todo("return", f[2], s.act, <<>>)) EXCEPT !.act = new, !.acts = new]
           IN  Evaluate(StoreAll(in, new, f[2], args), Append(f[2], 1))
      [] OTHER -> Misused(s)

\* The continuation k is jumped to: its context replaces the present one.
Continue(s, k, args, g) ==
    IF k[1] # "cont" \/ k[3] \notin Live(s) \/ Len(args) # Len(g.nodes[k[2]].parameters)
    THEN Misused(s)
    ELSE LET there == [s EXCEPT !.context = s.captured[<<k[3], k[2]>>], !.act = k[3]]
         IN  IF g.nodes[k[2]].type = "with" THEN Give(there, args[1])
             ELSE Evaluate(Push(StoreAll(there, k[3], k[2], args),
                                Todo("never", k[2], k[3], <<>>)), Append(k[2], 1))

StepGive(s, g) ==
    LET top  == s.context[Len(s.context)]
        rest == [s EXCEPT !.context = SubSeq(@, 1, Len(@) - 1), !.act = top.act]
        t    == g.nodes[top.path]
        done == Append(top.done, s.value)
        Another(i) == Evaluate(Push(rest, [top EXCEPT !.done = done]), i)
    IN  CASE top.what = "if" ->
               Evaluate(rest, Append(top.path, IF s.value[1] = "int" /\ s.value[2] = 0 THEN 3 ELSE 2))
          [] top.what = "storage" ->
               LET home  == Home(top.path, top.act, g.nodes)
                   saved == StoreAll(rest, home, top.path, done)
               IN  IF Len(done) < Len(t.arguments)
                   THEN [Another(Append(top.path, Len(done) + 1)) EXCEPT !.store = saved.store]
                   ELSE Give(saved, <<"storage", top.path, home>>)
          [] top.what = "return" -> Give(rest, s.value)
          [] top.what = "operands" /\ Len(done) <= Len(t.arguments) ->
               Another(Operand(t, top.path, Len(done) + 1))
          [] top.what = "operands" /\ Len(done) > Len(t.arguments) ->
               LET args == SubSeq(done, 1, Len(t.arguments))
               IN  IF t.type = "jump" THEN Continue(rest, s.value, args, g)
                   ELSE Apply(rest, s.value, args, g)
          \* the body of a continuation has been evaluated to its end
          [] top.what = "never" -> Misused(s)

Step(s, exprs, g) ==
    CASE s.mode = "evaluate" -> StepEvaluate(s, g)
      [] s.mode = "apply" -> Apply(s, s.value, s.args, g)
      [] s.mode = "give" /\ s.context # <<>> -> StepGive(s, g)
      [] s.mode = "give" /\ s.context = <<>> ->
           \* an expression at top level is done
           IF s.top = Len(exprs) THEN [s EXCEPT !.mode = "done"]
           ELSE Evaluate([s EXCEPT !.top = @ + 1], <<s.top + 1>>)
      [] OTHER -> s

Start(exprs) ==
    [mode |-> "evaluate", path |-> <<1>>, value |-> Number(0), args |-> <<>>, top |-> 1,
     act |-> 0, acts |-> 0, context |-> <<>>, captured |-> << >>, store |-> << >>, log |-> <<>>]

\* Evaluate at most fuel steps: the end is "done", "undefined" or none.
RECURSIVE Steps(_, _, _, _)
Steps(s, exprs, g, fuel) ==
    IF s.mode \in {"done", "undefined"} \/ fuel = 0 THEN s
    ELSE Steps(Step(s, exprs, g), exprs, g, fuel - 1)
=============================================================================
