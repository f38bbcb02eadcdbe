------------------------------ MODULE Unifiers ------------------------------
(***************************************************************************)
(* What the answers of Unification mean.  A fragment with variables stands *)
(* for many trees; a meaning gives every fragment of the heap one of them. *)
(* Trees are written like fragments, with trees in place of the addresses  *)
(* of elements.                                                            *)
(***************************************************************************)
EXTENDS Unification

CONSTANTS Meanings(_),   \* meanings to consider for a heap
          Depth(_)       \* the height of a tree

\* The meaning m agrees with the fragments: a variable means what its value
\* means, and a tree is higher than its parts.
Respects(m) ==
    \A f \in DOMAIN heap :
        /\ Depth(m[f]) \in Nat
        /\ is_var(f) => m[f] = m[heap[f].val]
        /\ is_token(f) => m[f] = Token(heap[f].name)
        /\ heap[f].kind = "list" =>
             /\ m[f] = List([i \in DOMAIN heap[f].elems |-> m[heap[f].elems[i]]])
             /\ \A i \in DOMAIN heap[f].elems : Depth(m[heap[f].elems[i]]) < Depth(m[f])

\* The two sides of every equation mean the same.
Equates(m) == \A p \in asked : m[p[1]] = m[p[2]]

Solves(m) == Equates(m) /\ Respects(m)

(* A unifier: once unify has returned true, every meaning that the          *)
(* fragments can have with the values assigned to variables (analysis.c:303) *)
(* makes all equations true, those of the first call and of all calls that  *)
(* it led to.                                                               *)
MakesEqual == Unified => \A m \in Meanings(heap) : Respects(m) => Equates(m)

(* The most general one: what solves the equations still does so after each *)
(* step, so nothing is assigned without need, and unify returns false       *)
(* (analysis.c:306, 323, 334) only when there is no solution.  The          *)
(* signatures that infer_types computes are as general as can be.           *)
MostGeneral ==
    [][\A m \in Meanings(heap) : Solves(m) => Solves(m)' /\ ~failed']_<<heap, asked, failed>>
=============================================================================
