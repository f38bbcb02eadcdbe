----------------------------- MODULE Inference -----------------------------
(***************************************************************************)
(* infer_types of bootstrap/analysis.c: the search for components (Sccs),  *)
(* then component by component and expression by expression the equations  *)
(* of an expression, which Unification solves on one heap of fragments.    *)
(*                                                                         *)
(* An expression is identified by its path, as in Expressions; the symbol  *)
(* that is the reference of the expression at p is at Append(p, 0), its    *)
(* k-th parameter at Append(p, -k).                                        *)
(***************************************************************************)
EXTENDS Sccs, SequencesExt

\* The Inputs of Sccs have also the expressions (nodes), what their symbols are
\* bound to (bind), the fragments there are beforehand (heap) and the
\* signatures among them (signature).

VARIABLES heap, todo, occurs, failed, asked, seen,       \* those of Unification
          signature,   \* expression -> its signature
          component,   \* the index in sccs of the component infer_types is at
          at           \* the place in it of the expression it is at

all_vars == <<vars, heap, todo, occurs, failed, asked, seen, signature, component, at>>

Unification == INSTANCE Unification WITH Problems <- {}

Var(v)      == Unification!Var(v)
Token(t)    == Unification!Token(t)
List(elems) == Unification!List(elems)

InferenceInit ==
    /\ Init
    /\ Unification!Start([heap |-> input.heap, equations |-> <<>>])
    /\ signature = input.signature
    /\ component = 1
    /\ at = 1

-----------------------------------------------------------------------------
(* The functions of lexer.c that make fragments of fragments: what they     *)
(* return is made, on the heap as they leave it.                            *)

Made(h, f) == [heap |-> h, made |-> f]
New(h, n)  == Made(Append(h, n), Len(h) + 1)

RECURSIVE evaluate(_, _)
evaluate(h, val) ==
    IF h[val].kind = "var" /\ h[val].val # val THEN evaluate(h, h[val].val) ELSE val

RECURSIVE recursive_evaluate(_, _)
recursive_evaluate(h, fragment) ==
    LET d    == evaluate(h, fragment)
        all  == FoldLeft(LAMBDA acc, t :
                            LET r == recursive_evaluate(acc.heap, t)
                            IN  [heap |-> r.heap, elems |-> Append(acc.elems, r.made)],
                         [heap |-> h, elems |-> <<>>], h[d].elems)
    IN  IF h[d].kind = "list" THEN New(all.heap, List(all.elems)) ELSE Made(h, d)

\* acc holds the heap and the variables copied so far, with their copies.
RECURSIVE copy_fragment(_, _)
copy_fragment(acc, l) ==
    LET n    == Len(acc.heap) + 1
        node == acc.heap[l]
        all  == FoldLeft(LAMBDA a, s :
                            LET r == copy_fragment(a, s)
                            IN  [r EXCEPT !.elems = Append(a.elems, r.made)],
                         [acc EXCEPT !.elems = <<>>], node.elems)
    IN  CASE node.kind = "var" /\ l \in DOMAIN acc.new_vars ->
               [acc EXCEPT !.made = acc.new_vars[l]]
          [] node.kind = "var" /\ l \notin DOMAIN acc.new_vars ->
               [acc EXCEPT !.heap = Append(@, Var(n)), !.made = n,
                           !.new_vars = (l :> n) @@ @]
          [] node.kind = "token" ->
               [acc EXCEPT !.heap = Append(@, node), !.made = n]
          [] node.kind = "list" ->
               [all EXCEPT !.heap = Append(@, List(all.elems)), !.made = Len(all.heap) + 1]

-----------------------------------------------------------------------------
\* Mutant: an expression of another component shares its signature.
scoped_signature_shared(h, e) == Made(h, signature[e])

scc == sccs[component]

\* The signature itself within the component, a copy outside.
scoped_signature(h, e) ==
    IF Contains(scc, e) THEN Made(h, signature[e])
    ELSE copy_fragment([heap |-> h, new_vars |-> << >>, elems |-> <<>>, made |-> 0],
                       signature[e])

\* The sub-expressions an equation takes the signature of by scoped_signature.
Scoped(t, p) ==
    CASE t.type \in {"invoke", "jump"} -> {Append(p, j) : j \in 1 .. (Len(t.arguments) + 1)}
      [] t.type = "if"                 -> {Append(p, 2), Append(p, 3)}
      [] OTHER                         -> {}

\* A heap with those signatures, and where they are.
ScopedSignatures(t, p) ==
    FoldSet(LAMBDA e, acc : LET s == scoped_signature(acc.heap, e)
                            IN  [heap |-> s.heap, of |-> (e :> s.made) @@ acc.of],
            [heap |-> heap, of |-> << >>], Scoped(t, p))

\* The fragment (token (params) last...).
TypeOf(h, token, params, last) ==
    LET h1 == Append(h, Token(token))
        h2 == Append(h1, List(params))
    IN  New(h2, List(<<Len(h1), Len(h2)>> \o last))

\* The equations of the expression t at p, in the order in which they are
\* unified (they are prepended), on a heap with the fragments made for them.
Equations(t, p) ==
    LET own     == signature[p]
        ref     == signature[Append(p, 0)]
        body    == signature[Append(p, 1)]
        params  == [k \in DOMAIN t.parameters |-> signature[Append(p, -k)]]
        scoped  == ScopedSignatures(t, p)
        args    == [k \in DOMAIN t.arguments |-> scoped.of[Append(p, k + 1)]]
        On(type, eqs(_)) == [heap |-> type.heap, equations |-> eqs(type.made)]
    IN  CASE t.type = "function" ->
               On(TypeOf(heap, "function", params, <<body>>),
                  LAMBDA type : << <<own, ref>>, <<own, type>> >>)
          [] t.type = "continuation" ->
               On(TypeOf(heap, "continuation", params, <<>>),
                  LAMBDA type : << <<own, ref>>, <<own, type>> >>)
          [] t.type = "constrain" -> [heap |-> heap, equations |-> << <<own, body>> >>]
          [] t.type = "invoke" ->
               On(TypeOf(scoped.heap, "function", args, <<own>>),
                  LAMBDA type : << <<scoped.of[Append(p, 1)], type>> >>)
          [] t.type = "jump" ->
               On(TypeOf(scoped.heap, "continuation", args, <<>>),
                  LAMBDA type : << <<scoped.of[Append(p, 1)], type>> >>)
          [] t.type = "with" ->
               On(TypeOf(heap, "continuation", <<own>>, <<>>),
                  LAMBDA type : << <<own, body>>, <<ref, type>> >>)
          [] t.type = "if" ->
               LET consequent == scoped.of[Append(p, 2)]
                   alternate  == scoped.of[Append(p, 3)]
               IN  [heap |-> scoped.heap,
                    equations |-> << <<own, consequent>>, <<consequent, alternate>> >>]
          [] t.type = "symbol" ->
               [heap |-> heap, equations |-> << <<own, signature[input.bind[p]]>> >>]
          [] t.type \in {"literal", "storage"} -> [heap |-> heap, equations |-> <<>>]

-----------------------------------------------------------------------------
SearchStep ==
    /\ Step
    /\ UNCHANGED <<heap, todo, occurs, failed, asked, seen, signature, component, at>>

\* infer_types has the components and is between two calls of unify.
Inferring == Finished /\ component <= Len(sccs) /\ todo = <<>> /\ ~failed

\* The equations of the next expression of the component.
Generate ==
    /\ Inferring
    /\ at <= Len(scc)
    /\ LET p == scc[at]
           g == Equations(input.nodes[p], p)
       IN  /\ heap' = g.heap
           /\ todo' = g.equations
           /\ asked' = asked \union {g.equations[i] : i \in DOMAIN g.equations}
    /\ at' = at + 1
    /\ UNCHANGED <<vars, occurs, failed, seen, signature, component>>

\* One step of unify; when it fails, throw_unification leaves infer_types.
Unify ==
    /\ Unification!UnifyStep
    /\ UNCHANGED <<vars, signature, component, at>>

\* Mutant: the signatures are left as they are.
SignaturesOfNone == [heap |-> heap, signature |-> signature]

\* The signatures of the component with all variables replaced by their values.
SignaturesOf ==
    FoldLeft(LAMBDA acc, e : LET r == recursive_evaluate(acc.heap, acc.signature[e])
                             IN  [heap |-> r.heap,
                                  signature |-> [acc.signature EXCEPT ![e] = r.made]],
             [heap |-> heap, signature |-> signature], scc)

\* The equations of the whole component are solved.
FinishComponent ==
    /\ Inferring
    /\ at > Len(scc)
    /\ heap' = SignaturesOf.heap
    /\ signature' = SignaturesOf.signature
    /\ component' = component + 1
    /\ at' = 1
    /\ UNCHANGED <<vars, todo, occurs, failed, asked, seen>>

InferenceStep == SearchStep \/ Generate \/ Unify \/ FinishComponent

Accepted == Finished /\ component > Len(sccs)
Rejected == failed

InferenceNext == InferenceStep \/ ((Accepted \/ Rejected) /\ UNCHANGED all_vars)

\* The recursions of construct_sccs and unify go on for as long as they can.
InferenceSpec == /\ InferenceInit /\ [][InferenceNext]_all_vars
                 /\ WF_all_vars(SearchStep) /\ WF_all_vars(Unify)
=============================================================================
