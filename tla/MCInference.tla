---------------------------- MODULE MCInference ----------------------------
(***************************************************************************)
(* Type inference on the examples of the README and on small programs,     *)
(* with the bindings and dependencies that the passes of Analysis find.    *)
(***************************************************************************)
EXTENDS Inference, Analysis

-----------------------------------------------------------------------------
(* What infer_types is given.  make_literal, make_symbol and the like give  *)
(* every expression and every binding symbol a variable for a signature;    *)
(* the macro of a constrain gives it another fragment.                      *)

\* A constrain and the fragment its macro returns, as a tree.
Constrained(e, s) == [type |-> "constrain", expression |-> e, signature |-> s]
T(t)  == [kind |-> "token", name |-> t]
V(n)  == [kind |-> "var", name |-> n]
L(ts) == [kind |-> "list", elems |-> ts]

\* The fragment for a tree, with one variable for each name.
RECURSIVE Plant(_, _)
Plant(acc, t) ==
    LET n   == Len(acc.heap) + 1
        all == FoldLeft(LAMBDA a, s : LET r == Plant(a, s)
                                      IN  [r EXCEPT !.elems = Append(a.elems, r.made)],
                        [acc EXCEPT !.elems = <<>>], t.elems)
    IN  CASE t.kind = "var" /\ t.name \in DOMAIN acc.vars -> [acc EXCEPT !.made = acc.vars[t.name]]
          [] t.kind = "var" /\ t.name \notin DOMAIN acc.vars ->
               [acc EXCEPT !.heap = Append(@, Var(n)), !.made = n, !.vars = (t.name :> n) @@ @]
          [] t.kind = "token" -> [acc EXCEPT !.heap = Append(@, Token(t.name)), !.made = n]
          [] t.kind = "list" ->
               [all EXCEPT !.heap = Append(@, List(all.elems)), !.made = Len(all.heap) + 1]

\* The place of the symbol with this binding.
SymbolOf(b) == Append(b[1], IF b[2] = Ref THEN 0 ELSE -b[2])

\* The places of the reference and the parameters of an expression.
SymbolsOf(p, t) ==
    IF t.type \in {"function", "continuation", "with", "storage"}
    THEN {Append(p, 0)} \union
         (IF t.type = "storage" THEN {} ELSE {Append(p, -k) : k \in DOMAIN t.parameters})
    ELSE {}

\* What a program is linked to; compile_files collects expressions by prepending.
Program(p, exprs) ==
    [exprs |-> [i \in DOMAIN p |-> <<i>>], program |-> p, deps |-> Dependencies(exprs),
     terms |-> Nodes(exprs), binding |-> Bindings(exprs)]

\* With the storage of undefined symbols, and the references of storages.
WithNodes(g) ==
    [nodes |-> [q \in DOMAIN g.deps |->
                   CASE q \in DOMAIN g.terms -> g.terms[q]
                     [] q[1] = 0 -> Storage(q[2], <<>>)
                     [] OTHER -> Symbol(g.terms[Front(q)].name)]] @@ g

\* With a variable for the signature of everything, at these places.
WithVariables(g, places) ==
    [bind |-> [q \in {r \in DOMAIN g.nodes : g.nodes[r].type = "symbol"} |->
                  IF q \in DOMAIN g.terms THEN SymbolOf(g.binding[q]) ELSE q],
     heap |-> [i \in DOMAIN places |-> Var(i)],
     signature |-> [q \in Range(places) |-> CHOOSE i \in DOMAIN places : places[i] = q]] @@ g

Places(g) ==
    FoldSet(LAMBDA q, s : Append(s, q), <<>>,
            UNION {{q} \union SymbolsOf(q, g.nodes[q]) : q \in DOMAIN g.nodes})

\* With the signatures that macros have given.
Planted(g, q) ==
    LET r == Plant([heap |-> g.heap, vars |-> << >>, elems |-> <<>>, made |-> 0],
                   g.nodes[q].signature)
    IN  [g EXCEPT !.heap = r.heap, !.signature[q] = r.made]

WithSignatures(g) ==
    FoldSet(LAMBDA q, acc : Planted(acc, q), g,
            {q \in DOMAIN g.nodes : g.nodes[q].type = "constrain"
                                     /\ "signature" \in DOMAIN g.nodes[q]})

Signed(g) == WithSignatures(WithVariables(g, Places(g)))

Input(p) == Signed(WithNodes(Program(p, Reverse(p))))

-----------------------------------------------------------------------------
(* The examples of src/README.md, 897 to 978, and what it says of them.     *)

hello == T("hello")
world == T("world")
sig   == T("sig")
Call0(n) == Invoke(Symbol(n), <<>>)

Passing ==
    { << Constrained(Literal(1), hello) >>,
      << Constrained(Storage("somestorage", <<Literal(1)>>), hello) >>,
      << Constrained(Symbol("id"), L(<<T("function"), L(<<V("a")>>), V("a")>>)),
         Function("id", <<"x">>, Symbol("x")),
         Invoke(Symbol("id"), <<Constrained(Literal(1), hello)>>),
         Invoke(Symbol("id"), <<Constrained(Literal(1), world)>>) >> }

Failing ==
    { << Constrained(Symbol("someid"), hello), Constrained(Symbol("someid"), world) >>,
      << If(Literal(1), Constrained(Symbol("consequent"), hello),
            Constrained(Symbol("alternate"), world)) >>,
      << Constrained(Function("f", <<"a">>, Symbol("a")),
                     L(<<T("function"), L(<<sig, sig>>), sig>>)) >>,
      << Constrained(Continuation("k", <<"a">>, Symbol("a")),
                     L(<<T("continuation"), L(<<sig, sig>>), sig>>)) >>,
      << With("cont", Jump(Symbol("cont"), <<Symbol("a"), Symbol("b")>>)) >> }

\* Bodies of a function f with a parameter x beside a function g.
Bodies(f, g) ==
    { Literal(0),
      Symbol("x"),
      Symbol(g),
      Call0(g),
      Invoke(Symbol(g), <<Symbol("x")>>),
      Invoke(Symbol(g), <<Symbol(f)>>),
      Invoke(Symbol("x"), <<Symbol("x")>>),
      Invoke(Symbol("x"), <<Call0(g)>>),
      If(Symbol("x"), Call0(g), Symbol(f)),
      Invoke(Symbol(g), <<Constrained(Symbol("x"), hello)>>),
      Constrained(Invoke(Symbol(g), <<Literal(0)>>), world),
      With("k", Jump(Symbol("k"), <<Invoke(Symbol(g), <<Symbol("k")>>)>>)),
      Jump(Continuation("k", <<"y">>, Jump(Symbol("k"), <<Call0(g)>>)), <<Symbol("x")>>),
      Storage("s", <<Symbol("x"), Symbol("s")>>),
      Function("h", <<>>, Invoke(Symbol(f), <<Symbol("h"), Call0("external")>>)) }

TwoFunctions ==
    { << Function("f", <<"x">>, a), Function("g", ps, b) >> :
        a \in Bodies("f", "g"), b \in Bodies("g", "f"), ps \in {<<>>, <<"x">>} }

Examples == {Input(p) : p \in Passing \union Failing \union TwoFunctions}

\* h calls g with an argument, g calls f, and f calls both without one.
CircleOfThree ==
    << Function("h", <<>>, Invoke(Symbol("g"), <<Literal(0)>>)),
       Function("g", <<>>, Call0("f")),
       Function("f", <<>>, If(Call0("h"), Call0("g"), Literal(0))) >>

CircleInputs == {Input(CircleOfThree)}

-----------------------------------------------------------------------------
(* When infer_types begins with the first component, the components that    *)
(* construct_sccs has made are the strongly connected ones, nothing is      *)
(* missing, and each comes after those it depends on: expressions outside   *)
(* of them are not looked at, and scoped_signature copies the signature of  *)
(* an expression of another component, which must be inferred by then.      *)
PartitionIntoSccs == (Finished /\ component = 1 /\ at = 1) => Partitioned

(* The verdict on the examples of the README is the one it states.          *)
AsDocumented ==
    /\ Accepted => input.program \notin Failing
    /\ Rejected => input.program \notin Passing

\* What a fragment stands for, as a value.
RECURSIVE Value(_)
Value(f) ==
    LET d == evaluate(heap, f)
    IN  CASE heap[d].kind = "var"   -> [variable |-> d, token |-> "", elems |-> <<>>]
          [] heap[d].kind = "token" -> [variable |-> 0, token |-> heap[d].name, elems |-> <<>>]
          [] heap[d].kind = "list"  ->
               [variable |-> 0, token |-> "",
                elems |-> [i \in DOMAIN heap[d].elems |-> Value(heap[d].elems[i])]]

(* The equations of all components hold at the end: a variable that is      *)
(* bound for a later component never undoes what an earlier one relied on.  *)
AllSolved == Accepted => \A e \in asked : Value(e[1]) = Value(e[2])

(* A call that inference has looked at and let pass is made with as many    *)
(* arguments as the function, continuation or with that its reference names *)
(* has parameters.                                                          *)
CallsMatch ==
    Accepted =>
        \A p \in UNION {Range(sccs[i]) : i \in DOMAIN sccs} :
            LET t == input.nodes[p]
            IN  t.type \in {"invoke", "jump"} /\ t.reference.type = "symbol" =>
                LET b == input.binding[ReferencePath(p)]
                IN  b[2] = Ref /\ ~IsUndefined(b) =>
                    LET target == input.nodes[b[1]]
                    IN  target.type \in {"function", "continuation", "with"} =>
                        Len(t.arguments) = Len(target.parameters)

(* construct_sccs ends although dependencies go in circles, and unify       *)
(* returns from every equation although it follows variables that it        *)
(* assigns itself.                                                          *)
RecursionsEnd == <>Finished /\ (todo # <<>> ~> todo = <<>> \/ failed)
=============================================================================
