---------------------------- MODULE Unification ----------------------------
(***************************************************************************)
(* unify of bootstrap/analysis.c on the fragments of bootstrap/lexer.c.    *)
(*                                                                         *)
(* The fragments in memory are the sequence heap; a fragment is named by   *)
(* its index.  A variable is the one mutable cell: its val is itself until *)
(* set_val makes it another fragment.  A list holds the fragments that are *)
(* its elements, and a token is told from others by its characters, name.  *)
(*                                                                         *)
(* The calls of unify that are still to be made are the stack todo, so     *)
(* that one turn of the loop in evaluate, one comparison and one           *)
(* assignment are a step each, and a fragment that contained itself would  *)
(* keep the machine busy for ever, as it would the program.                *)
(***************************************************************************)
EXTENDS Naturals, Sequences

CONSTANT Problems   \* records of a heap and the equations to solve on it

VARIABLES heap,     \* the fragments
          todo,     \* the pairs of fragments unify is still to be called on
          occurs,   \* the occurs check that is under way, or NoCheck
          failed,   \* unify has returned false
          asked,    \* history: every pair unify was called on
          seen      \* history: what this occurs check has been through

fragments == <<heap, todo, occurs, failed, asked, seen>>

Var(v)      == [kind |-> "var", val |-> v]
Token(t)    == [kind |-> "token", name |-> t]
List(elems) == [kind |-> "list", elems |-> elems]

is_var(f)   == heap[f].kind = "var"
is_token(f) == heap[f].kind = "token"

\* The test of the loop of evaluate: the fragment is a variable with a value.
Bound(f)    == is_var(f) /\ heap[f].val # f

Elems(s)    == {s[i] : i \in DOMAIN s}

Zip(s, t)   == [i \in DOMAIN s |-> <<s[i], t[i]>>]

\* No occurs check is under way.
NoCheck == [var |-> 0, val |-> 0, rest |-> <<>>]

Checking == occurs # NoCheck

AcyclicHeap(h) ==
    \A S \in SUBSET DOMAIN h :
        S = {} \/ \E f \in S :
            CASE h[f].kind = "var"   -> h[f].val = f \/ h[f].val \notin S
              [] h[f].kind = "list"  -> Elems(h[f].elems) \intersect S = {}
              [] h[f].kind = "token" -> TRUE

Node(n) ==
    [kind : {"var"}, val : 1 .. n] \union [kind : {"token"}, name : STRING]
        \union [kind : {"list"}, elems : Seq(1 .. n)]

\* Fragments are well-formed and acyclic when unification starts, and the
\* equations are between fragments.
ASSUME ProblemAssumption ==
    \A p \in Problems :
        /\ p.heap \in Seq(Node(Len(p.heap)))
        /\ AcyclicHeap(p.heap)
        /\ p.equations \in Seq((DOMAIN p.heap) \X (DOMAIN p.heap))

Start(p) ==
    /\ heap = p.heap
    /\ todo = p.equations
    /\ occurs = NoCheck
    /\ failed = FALSE
    /\ asked = Elems(p.equations)
    /\ seen = {}

Init == \E p \in Problems : Start(p)

-----------------------------------------------------------------------------
\* The call at the top of the stack: the arguments as evaluate has them so far.
Unifying == todo # <<>> /\ ~failed /\ ~Checking

xl == Head(todo)[1]
yl == Head(todo)[2]

\* Goes on with other calls instead of the topmost.
Continue(calls) ==
    /\ todo' = calls \o Tail(todo)
    /\ asked' = asked \union Elems(calls)

\* The topmost call, and with it every call below, returns false.
Fail ==
    /\ failed' = TRUE
    /\ UNCHANGED <<todo, asked>>

\* Mutant: the loop stays where it is.
EvaluateStuck ==
    /\ Unifying
    /\ Bound(xl) \/ Bound(yl)
    /\ Continue(<< <<xl, yl>> >>)
    /\ UNCHANGED <<heap, occurs, failed, seen>>

\* A turn of the loop of evaluate on one of the arguments.
EvaluateArgument ==
    /\ Unifying
    /\ \/ Bound(xl) /\ Continue(<< <<heap[xl].val, yl>> >>)
       \/ ~Bound(xl) /\ Bound(yl) /\ Continue(<< <<xl, heap[yl].val>> >>)
    /\ UNCHANGED <<heap, occurs, failed, seen>>

Evaluated == Unifying /\ ~Bound(xl) /\ ~Bound(yl)

\* Both are the same variable.
SameVariable ==
    /\ Evaluated
    /\ is_var(xl) /\ xl = yl
    /\ Continue(<<>>)
    /\ UNCHANGED <<heap, occurs, failed, seen>>

\* unify_var calls occurs_in.
unify_var(var, val) ==
    /\ occurs' = [var |-> var, val |-> val, rest |-> <<val>>]
    /\ seen' = {}
    /\ UNCHANGED <<heap, todo, failed, asked>>

OneVariable ==
    /\ Evaluated
    /\ \/ is_var(xl) /\ xl # yl /\ unify_var(xl, yl)
       \/ ~is_var(xl) /\ is_var(yl) /\ unify_var(yl, xl)

\* Mutant: fragments are compared by address.
SameAddress == xl = yl

\* Neither is a variable, and they are equal tokens or lists of one length.
SameShape ==
    IF is_token(xl) \/ is_token(yl)
    THEN is_token(xl) /\ is_token(yl) /\ heap[xl].name = heap[yl].name
    ELSE Len(heap[xl].elems) = Len(heap[yl].elems)

\* Mutant: only the first elements are unified.
PairsFirst == IF is_token(xl) \/ heap[xl].elems = <<>> THEN <<>>
              ELSE << <<heap[xl].elems[1], heap[yl].elems[1]>> >>

\* What unify is called on for two fragments of the same shape.
Pairs == IF is_token(xl) THEN <<>> ELSE Zip(heap[xl].elems, heap[yl].elems)

NoVariable ==
    /\ Evaluated
    /\ ~is_var(xl) /\ ~is_var(yl)
    /\ \/ SameShape /\ Continue(Pairs) /\ UNCHANGED failed
       \/ ~SameShape /\ Fail
    /\ UNCHANGED <<heap, occurs, seen>>

-----------------------------------------------------------------------------
\* The fragment that occurs_in is to look at next.
eval == Head(occurs.rest)

\* Mutant: a variable stands for itself even when it has a value.
ContentsShallow == IF heap[eval].kind = "list" THEN heap[eval].elems ELSE <<>>

\* Where the search goes on from there: a turn of the loop of evaluate, or the
\* loop over a list.
Contents == CASE heap[eval].kind = "list" -> heap[eval].elems
              [] Bound(eval)              -> <<heap[eval].val>>
              [] OTHER                 -> <<>>

\* occurs_in looks at one more fragment and is not at the variable.
OccursStep ==
    /\ Checking /\ ~failed
    /\ occurs.rest # <<>>
    /\ eval # occurs.var
    /\ occurs' = [occurs EXCEPT !.rest = Contents \o Tail(@)]
    /\ seen' = seen \union {eval}
    /\ UNCHANGED <<heap, todo, failed, asked>>

\* The variable occurs in what it was to be made equal to.
Occurs ==
    /\ Checking /\ ~failed
    /\ occurs.rest # <<>>
    /\ eval = occurs.var
    /\ Fail
    /\ UNCHANGED <<heap, occurs, seen>>

\* Mutant: the value is not stored.
set_val_none(var, val) == heap

set_val(var, val) == [heap EXCEPT ![var].val = val]

\* The variable does not occur: set_val, and unify returns.
Assign ==
    /\ Checking /\ ~failed
    /\ occurs.rest = <<>>
    /\ heap' = set_val(occurs.var, occurs.val)
    /\ occurs' = NoCheck
    /\ Continue(<<>>)
    /\ UNCHANGED <<failed, seen>>

UnifyStep ==
    \/ EvaluateArgument \/ SameVariable \/ OneVariable \/ NoVariable
    \/ OccursStep \/ Occurs \/ Assign

Unified == todo = <<>> /\ ~failed

Next == UnifyStep \/ ((Unified \/ failed) /\ UNCHANGED fragments)

Spec == Init /\ [][Next]_fragments /\ WF_fragments(UnifyStep)

-----------------------------------------------------------------------------
\* Every variable has its type.
TypeOK ==
    /\ heap \in Seq(Node(Len(heap)))
    /\ todo \in Seq((DOMAIN heap) \X (DOMAIN heap))
    /\ occurs = NoCheck \/ occurs \in [var : DOMAIN heap, val : DOMAIN heap,
                                       rest : Seq(DOMAIN heap)]
    /\ failed \in BOOLEAN
    /\ asked \subseteq (DOMAIN heap) \X (DOMAIN heap)
    /\ seen \subseteq DOMAIN heap

(* No fragment is part of itself, through the values of variables and the   *)
(* elements of lists: recursive_evaluate, copy_fragment and print_fragment  *)
(* follow both without a limit.  The occurs check has to see through        *)
(* variables that were bound before.                                        *)
Acyclic == AcyclicHeap(heap)

(* Every pair that unify was called on is still to be looked at or is       *)
(* settled: one side's value and the other side were unified in turn, or    *)
(* both are the same variable or token, or lists all elements of which were *)
(* unified.  Later assignments never undo this, and once nothing is left to *)
(* do the two sides of every equation stand for the same fragment.          *)
Settled(a, b) ==
    \/ a = b
    \/ Bound(a) /\ (heap[a].val = b \/ <<heap[a].val, b>> \in asked)
    \/ Bound(b) /\ (heap[b].val = a \/ <<a, heap[b].val>> \in asked)
    \/ is_token(a) /\ is_token(b) /\ heap[a].name = heap[b].name
    \/ /\ heap[a].kind = "list" /\ heap[b].kind = "list"
       /\ Len(heap[a].elems) = Len(heap[b].elems)
       /\ Elems(Zip(heap[a].elems, heap[b].elems)) \subseteq asked

AllSettled == \A p \in asked : Settled(p[1], p[2]) \/ p \in Elems(todo)

\* Unification ends, with an answer.
Terminates == <>(Unified \/ failed)
=============================================================================
