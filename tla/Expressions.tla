---------------------------- MODULE Expressions ----------------------------
(***************************************************************************)
(* The expressions the compiler works on once meta-expressions have been   *)
(* expanded (bootstrap/expressions.c) and the two traversals of            *)
(* bootstrap/analysis.c.                                                   *)
(*                                                                         *)
(* A program is a sequence of terms.  The code identifies an expression by *)
(* its address; here it is identified by its path: <<i>> is the i-th       *)
(* expression of the program and Append(p, j) the j-th sub-expression of   *)
(* the one at p.  A binding_aug is identified by the expression and the    *)
(* place in it that it is the augmentation of: <<p, Ref>> for the          *)
(* reference, <<p, k>> for the k-th parameter, <<p, Temp>> for the         *)
(* temporary storage of a jump or invoke.                                  *)
(***************************************************************************)
EXTENDS Integers, Sequences, SequencesExt, TLC

\* The function whose graph is a set of pairs.
AsFunction(pairs) == FoldSet(LAMBDA x, f : (x[1] :> x[2]) @@ f, << >>, pairs)

\* Part(1) \o ... \o Part(n).
Concatenate(n, Part(_)) ==
    LET upto[i \in 0 .. n] == IF i = 0 THEN <<>> ELSE upto[i - 1] \o Part(i)
    IN  upto[n]

Literal(v)      == [type |-> "literal", value |-> v]
Symbol(n)       == [type |-> "symbol", name |-> n]
If(c, t, e)     == [type |-> "if", condition |-> c, consequent |-> t, alternate |-> e]
Invoke(r, as)   == [type |-> "invoke", reference |-> r, arguments |-> as]
Jump(r, as)     == [type |-> "jump", reference |-> r, arguments |-> as]
Storage(n, as)  == [type |-> "storage", name |-> n, arguments |-> as]
Constrain(e)    == [type |-> "constrain", expression |-> e]
Function(n, ps, e) ==
    [type |-> "function", name |-> n, parameters |-> ps, expression |-> e]
Continuation(n, ps, e) ==
    [type |-> "continuation", name |-> n, parameters |-> ps, expression |-> e]

\* The parameter of a with has no name, so that no symbol refers to it.
NoName == ""
With(n, e) ==
    [type |-> "with", name |-> n, parameters |-> <<NoName>>, expression |-> e]

Ref  == 0
Temp == -1

-----------------------------------------------------------------------------
\* The sub-expressions that visit_expressions goes into, in its order.
Subs(t) ==
    CASE t.type = "if" -> <<t.condition, t.consequent, t.alternate>>
      [] t.type \in {"function", "continuation", "with", "constrain"} -> <<t.expression>>
      [] t.type \in {"jump", "invoke"} -> <<t.reference>> \o t.arguments
      [] t.type = "storage" -> t.arguments
      [] OTHER -> <<>>

\* Where the reference and the arguments of a jump or invoke are among them.
ReferencePath(p)    == Append(p, 1)
ArgumentPath(t, p, i) == Append(p, IF t.type = "storage" THEN i ELSE i + 1)

\* The order in which visit_expressions calls its visitor.
RECURSIVE visit_expressions(_, _)
visit_expressions(t, p) ==
    Concatenate(Len(Subs(t)), LAMBDA j : visit_expressions(Subs(t)[j], Append(p, j)))
        \o << <<p, t>> >>

\* All expressions of a program, in that order: pairs of a path and a term.
Visited(exprs) == Concatenate(Len(exprs), LAMBDA i : visit_expressions(exprs[i], <<i>>))

\* The program as a function from paths to terms.
RECURSIVE NodesOf(_, _)
NodesOf(t, p) ==
    {<<p, t>>} \union UNION {NodesOf(Subs(t)[j], Append(p, j)) : j \in DOMAIN Subs(t)}

Nodes(exprs) == AsFunction(UNION {NodesOf(exprs[i], <<i>>) : i \in DOMAIN exprs})
=============================================================================
