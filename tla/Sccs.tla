-------------------------------- MODULE Sccs --------------------------------
(***************************************************************************)
(* construct_sccs of bootstrap/analysis.c, the depth-first search by which *)
(* infer_types partitions the expressions into components, as a machine    *)
(* whose calls stack holds the activations of the recursive function.      *)
(*                                                                         *)
(* lowlink is zero before the first visit, an upper bound of the depth of  *)
(* the component's root during the search, and UINT_MAX (the unsigned -1   *)
(* of the code) once the expression is in a component.                     *)
(***************************************************************************)
EXTENDS Integers, Sequences, FiniteSets

CONSTANTS Inputs,    \* what infer_types may be given: records of the list
                     \* exprs and the lists deps of dependencies
          UINT_MAX   \* larger than any depth of the search

\* Expressions are finitely many, and what is depended on is one of them.
ASSUME InputsAssumption ==
    \A g \in Inputs :
        /\ IsFiniteSet(DOMAIN g.deps)
        /\ g.deps \in [DOMAIN g.deps -> Seq(DOMAIN g.deps)]
        /\ g.exprs \in Seq(DOMAIN g.deps)

ASSUME DepthAssumption ==
    UINT_MAX \in Nat /\ \A g \in Inputs : Cardinality(DOMAIN g.deps) < UINT_MAX

VARIABLES input,     \* the program, fixed
          next,      \* the index of the next expression of exprs to start from
          calls,     \* the activations of construct_sccs, the innermost last
          lowlink,   \* expression -> lowlink
          stack,     \* expressions visited and in no component, the newest last
          sccs       \* the components, the newest last

vars == <<input, next, calls, lowlink, stack, sccs>>

Elements(s) == {s[i] : i \in DOMAIN s}

deps == input.deps
Exprs == DOMAIN deps

\* An activation: its argument s and preorder, the height of the stack on
\* entry, and the dependency the loop is at.
Call(s, preorder) == [s |-> s, preorder |-> preorder, marker |-> Len(stack), i |-> 1]

Init == /\ input \in Inputs
        /\ next = 1
        /\ calls = <<>>
        /\ lowlink = [e \in DOMAIN input.deps |-> 0]
        /\ stack = <<>>
        /\ sccs = <<>>

\* The body of construct_sccs up to its loop; nothing happens for an
\* expression that was visited before.
Enter(s, preorder) ==
    IF lowlink[s] = 0
    THEN /\ lowlink' = [lowlink EXCEPT ![s] = preorder]
         /\ calls' = Append(calls, Call(s, preorder))
    ELSE UNCHANGED <<lowlink, calls>>

\* infer_types calls construct_sccs on the next expression.
Start ==
    /\ calls = <<>>
    /\ next <= Len(input.exprs)
    /\ Enter(input.exprs[next], 1)
    /\ next' = next + 1
    /\ UNCHANGED <<input, stack, sccs>>

top == calls[Len(calls)]

\* The dependency the loop of the innermost activation is at.
InLoop     == calls # <<>> /\ top.i <= Len(deps[top.s])
dependency == deps[top.s][top.i]

\* The loop calls construct_sccs on an expression not visited before.
Descend ==
    /\ InLoop
    /\ lowlink[dependency] = 0
    /\ Enter(dependency, top.preorder + 1)
    /\ UNCHANGED <<input, next, stack, sccs>>

\* Mutant: links that point back are not followed.
CompareNone ==
    /\ InLoop
    /\ lowlink[dependency] # 0
    /\ calls' = [calls EXCEPT ![Len(calls)].i = @ + 1]
    /\ UNCHANGED <<input, next, lowlink, stack, sccs>>

\* The call has returned: the loop takes over a smaller lowlink.
Compare ==
    /\ InLoop
    /\ lowlink[dependency] # 0
    /\ lowlink' = [lowlink EXCEPT ![top.s] =
                      IF lowlink[dependency] < @ THEN lowlink[dependency] ELSE @]
    /\ calls' = [calls EXCEPT ![Len(calls)].i = @ + 1]
    /\ UNCHANGED <<input, next, stack, sccs>>

\* What s has pushed onto the stack since its activation began, s included.
Pushed == Append(SubSeq(stack, top.marker + 1, Len(stack)), top.s)

\* Mutant: the expressions of a component are not marked.
MarkNone(scc) == lowlink

\* The lowlinks once the expressions of a component are marked.
Mark(scc) == [e \in Exprs |-> IF e \in Elements(scc) THEN UINT_MAX ELSE lowlink[e]]

\* The stack without the component.
Unstack == SubSeq(stack, 1, top.marker)

\* The loop is over: s goes onto the stack and, when it is the root of a
\* component, all that was pushed since its activation began comes off as one.
Leave ==
    /\ calls # <<>>
    /\ ~InLoop
    /\ \/ /\ lowlink[top.s] = top.preorder
          /\ lowlink' = Mark(Pushed)
          /\ stack' = Unstack
          /\ sccs' = Append(sccs, Pushed)
       \/ /\ lowlink[top.s] # top.preorder
          /\ stack' = Append(stack, top.s)
          /\ UNCHANGED <<lowlink, sccs>>
    /\ calls' = SubSeq(calls, 1, Len(calls) - 1)
    /\ UNCHANGED <<input, next>>

Step == Start \/ Descend \/ Compare \/ Leave

Finished == calls = <<>> /\ next > Len(input.exprs)

Next == Step \/ (Finished /\ UNCHANGED vars)

Spec == Init /\ [][Next]_vars /\ WF_vars(Step)

-----------------------------------------------------------------------------
\* The expressions of the components so far, and those still being searched.
Placed == UNION {Elements(sccs[i]) : i \in DOMAIN sccs}
Active == {calls[i].s : i \in DOMAIN calls}

\* Every variable has its type.
TypeOK ==
    /\ next \in 1 .. (Len(input.exprs) + 1)
    /\ calls \in Seq([s : Exprs, preorder : Nat, marker : Nat, i : Nat])
    /\ lowlink \in [Exprs -> 0 .. UINT_MAX]
    /\ stack \in Seq(Exprs)
    /\ sccs \in Seq(Seq(Exprs))

(* An expression is in one place only: waiting in an activation, on the     *)
(* stack, or in exactly one component, and its lowlink tells which.  Type   *)
(* inference would otherwise generate the equations of an expression twice  *)
(* or, with the stale marker of a deeper activation, lose them.             *)
OnePlaceEach ==
    /\ \A i, j \in DOMAIN stack : stack[i] = stack[j] => i = j
    /\ \A i, j \in DOMAIN calls : calls[i].s = calls[j].s => i = j
    /\ \A i, j \in DOMAIN sccs :
         \A a \in DOMAIN sccs[i], b \in DOMAIN sccs[j] :
            sccs[i][a] = sccs[j][b] => <<i, a>> = <<j, b>>
    /\ Elements(stack) \intersect Active = {}
    /\ Placed = {e \in Exprs : lowlink[e] = UINT_MAX}
    /\ Elements(stack) \union Active = {e \in Exprs : lowlink[e] \in 1 .. (UINT_MAX - 1)}

\* The expressions that can be reached from e in up to n steps in a graph d.
ReachedIn(d, e) ==
    LET after[n \in 0 .. Cardinality(DOMAIN d)] ==
            IF n = 0 THEN {e}
            ELSE LET before == after[n - 1]
                 IN  before \union UNION {Elements(d[x]) : x \in before}
    IN  after

\* The expressions the search can reach from one of them, itself included.
Reachable(e) == ReachedIn(deps, e)[Cardinality(Exprs)]

\* The expressions of a component depend on one another.
Connected == \A i \in DOMAIN sccs :
                \A e \in Elements(sccs[i]) : Elements(sccs[i]) \subseteq Reachable(e)

\* Everything that the program depends on is in a component, and nothing else.
AllPlaced == Finished => /\ stack = <<>>
                         /\ Placed = UNION {Reachable(e) : e \in Elements(input.exprs)}

(* What the search guarantees on every graph: no expression is lost or      *)
(* met twice, and only expressions that depend on one another come to share *)
(* a component, within which infer_types gives a function one signature for *)
(* all its uses (analysis.c:339).                                           *)
SearchSound == OnePlaceEach /\ Connected /\ AllPlaced

\* The strongly connected component of an expression.
Component(e) == {x \in Reachable(e) : e \in Reachable(x)}

\* Everything that the program depends on is in a component, the components
\* are the strongly connected ones, and each comes after those it depends on.
Partitioned ==
    /\ stack = <<>>
    /\ Placed = UNION {Reachable(e) : e \in Elements(input.exprs)}
    /\ \A i \in DOMAIN sccs :
          \A e \in Elements(sccs[i]) :
             /\ Elements(sccs[i]) = Component(e)
             /\ \A d \in Elements(deps[e]) : \E j \in 1 .. i : d \in Elements(sccs[j])
=============================================================================
