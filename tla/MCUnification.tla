--------------------------- MODULE MCUnification ---------------------------
(***************************************************************************)
(* Unification of variables, tokens and two lists, and the meanings that   *)
(* give their variables one of a few trees.                                *)
(***************************************************************************)
EXTENDS Unifiers, FiniteSets

\* Fragments 1 to 3 are variables, or 3 is a token; 4 is a token, and 5 and 6
\* are lists.
Variables == 1 .. 3

MCProblems ==
    { [heap |-> <<Var(1), Var(2), third, Token("a"), List(l), List(m)>>,
       equations |-> <<e, <<5, 6>> >>] :
        l \in {<<>>} \union ((1 .. 3) \X (1 .. 4)),
        m \in {<<>>, <<5>>} \union ({1, 2, 4, 5} \X (1 .. 5)),
        third \in {Var(3), Token("b")},
        e \in {p \in {1, 2, 3, 5, 6} \X {1, 2, 3, 5, 6} : p[1] # p[2]} }

\* Some trees.
Ground ==
    LET a    == Token("a")
    IN  {a, List(<<>>), List(<<a>>), List(<<a, a>>), List(<<a, List(<<a, a>>)>>)}

RECURSIVE MCDepth(_)
MCDepth(t) ==
    IF t.kind = "token" THEN 0
    ELSE LET depths == {MCDepth(t.elems[i]) : i \in DOMAIN t.elems}
         IN  CHOOSE d \in 0 .. 10 : /\ \A e \in depths : e < d
                                    /\ d = 0 \/ d - 1 \in depths

\* What the fragments of a heap stand for when the unbound variables stand for
\* the trees that s gives them.
Value(h, s) ==
    LET value[d \in 0 .. Len(h), g \in DOMAIN h] ==
            CASE d = 0 -> Token("...")
              [] d > 0 /\ h[g].kind = "var" ->
                   IF h[g].val = g THEN s[g] ELSE value[d - 1, h[g].val]
              [] d > 0 /\ h[g].kind = "token" -> Token(h[g].name)
              [] d > 0 /\ h[g].kind = "list"  ->
                   List([i \in DOMAIN h[g].elems |-> value[d - 1, h[g].elems[i]]])
    IN  [g \in DOMAIN h |-> value[Len(h), g]]

MCMeanings(h) ==
    LET unbound == {v \in Variables : h[v] = Var(v)}
    IN  {Value(h, s) : s \in [unbound -> Ground]}
=============================================================================
