------------------------- MODULE UnificationProofs -------------------------
(***************************************************************************)
(* Unification is correct on every heap of acyclic fragments and for all   *)
(* equations: it builds no cyclic fragment, and a unifier that it finds is *)
(* a most general one.                                                     *)
(***************************************************************************)
EXTENDS Unifiers, Induction, TLAPS

\* The fragments that a fragment leads to in one step of evaluate or of the
\* loop over a list.
Parts(h, f) ==
    IF h[f].kind = "list" THEN Elems(h[f].elems)
    ELSE IF h[f].kind = "var" /\ h[f].val # f THEN {h[f].val} ELSE {}

\* What holds while occurs_in is at work: it runs for the topmost call, both
\* arguments of which are evaluated, and what has been seen is closed under
\* parts but for what is still to be looked at.
CheckInv ==
    Checking =>
        /\ todo # <<>>
        /\ Head(todo) \in {<<occurs.var, occurs.val>>, <<occurs.val, occurs.var>>}
        /\ heap[occurs.var] = Var(occurs.var)
        /\ occurs.val # occurs.var
        /\ ~Bound(occurs.val)
        /\ occurs.val \in seen \union Elems(occurs.rest)
        /\ occurs.var \notin seen
        /\ \A f \in seen : Parts(heap, f) \subseteq seen \union Elems(occurs.rest)

TodoAsked == Elems(todo) \subseteq asked

-----------------------------------------------------------------------------
(* Sequences.                                                               *)

\* The elements of two sequences joined.
LEMMA ElemsConcat ==
    ASSUME NEW S, NEW s \in Seq(S), NEW t \in Seq(S)
    PROVE  /\ s \o t \in Seq(S)
           /\ Elems(s \o t) = Elems(s) \union Elems(t)
<1>1. s \o t \in Seq(S) /\ Len(s \o t) = Len(s) + Len(t)
  OBVIOUS
<1>2. \A i \in DOMAIN (s \o t) : (s \o t)[i] \in Elems(s) \union Elems(t)
  BY <1>1 DEF Elems
<1>3. \A i \in DOMAIN s : s[i] = (s \o t)[i] /\ i \in DOMAIN (s \o t)
  BY <1>1
<1>4. \A i \in DOMAIN t : t[i] = (s \o t)[Len(s) + i] /\ Len(s) + i \in DOMAIN (s \o t)
  BY <1>1
<1>5. Elems(s) \union Elems(t) \subseteq Elems(s \o t)
  BY <1>3, <1>4 DEF Elems
<1>6. QED
  BY <1>1, <1>2, <1>5 DEF Elems

\* The first element of a sequence and the others.
LEMMA ElemsHeadTail ==
    ASSUME NEW S, NEW s \in Seq(S), s # <<>>
    PROVE  /\ Head(s) \in S
           /\ Tail(s) \in Seq(S)
           /\ Elems(s) = {Head(s)} \union Elems(Tail(s))
<1>1. /\ Len(s) > 0 /\ Head(s) = s[1] /\ Head(s) \in S
      /\ Tail(s) \in Seq(S) /\ Len(Tail(s)) = Len(s) - 1
  OBVIOUS
<1>2. \A i \in 1 .. (Len(s) - 1) : Tail(s)[i] = s[i + 1]
  BY <1>1
<1>3. \A i \in DOMAIN s : s[i] \in {Head(s)} \union Elems(Tail(s))
  <2> SUFFICES ASSUME NEW i \in DOMAIN s, i # 1
               PROVE  s[i] \in Elems(Tail(s))
    BY <1>1
  <2>1. i - 1 \in DOMAIN Tail(s) /\ Tail(s)[i - 1] = s[i]
    BY <1>1, <1>2
  <2>2. QED BY <2>1 DEF Elems
<1>4. \A i \in DOMAIN Tail(s) : Tail(s)[i] \in Elems(s)
  BY <1>1, <1>2 DEF Elems
<1>5. Head(s) \in Elems(s)
  BY <1>1 DEF Elems
<1>6. QED
  BY <1>1, <1>3, <1>4, <1>5 DEF Elems

\* Short sequences.
LEMMA ElemsShort ==
    /\ Elems(<<>>) = {}
    /\ \A a : Elems(<<a>>) = {a}
BY DEF Elems

\* The elements of a sequence over a set.
LEMMA ElemsIn ==
    ASSUME NEW S, NEW s \in Seq(S)
    PROVE  Elems(s) \subseteq S
BY DEF Elems

-----------------------------------------------------------------------------
(* Types.                                                                   *)

\* A fragment has the fields of its kind, and they lead to fragments.
LEMMA NodeType ==
    ASSUME NEW h, h \in Seq(Node(Len(h))), NEW f \in DOMAIN h
    PROVE  /\ h[f].kind \in {"var", "token", "list"}
           /\ h[f].kind = "var" => h[f].val \in DOMAIN h /\ h[f] = Var(h[f].val)
           /\ h[f].kind = "list" => h[f].elems \in Seq(DOMAIN h)
           /\ DOMAIN h = 1 .. Len(h) /\ Len(h) \in Nat
<1>1. DOMAIN h = 1 .. Len(h) /\ Len(h) \in Nat /\ h[f] \in Node(Len(h))
  OBVIOUS
<1>2. CASE h[f] \in [kind : {"var"}, val : 1 .. Len(h)]
  BY <1>1, <1>2 DEF Var
<1>3. CASE h[f] \in [kind : {"token"}, name : STRING]
  BY <1>1, <1>3
<1>4. CASE h[f] \in [kind : {"list"}, elems : Seq(1 .. Len(h))]
  BY <1>1, <1>4
<1>5. QED
  BY <1>1, <1>2, <1>3, <1>4 DEF Node

\* The same on the heap, with the parts of a fragment.
LEMMA HeapType ==
    ASSUME TypeOK, NEW f \in DOMAIN heap
    PROVE  /\ heap[f].kind \in {"var", "token", "list"}
           /\ heap[f].kind = "var" => heap[f].val \in DOMAIN heap /\ heap[f] = Var(heap[f].val)
           /\ heap[f].kind = "list" => heap[f].elems \in Seq(DOMAIN heap)
           /\ Parts(heap, f) \subseteq DOMAIN heap
<1>1. heap \in Seq(Node(Len(heap)))
  BY DEF TypeOK
<1>2. /\ heap[f].kind \in {"var", "token", "list"}
      /\ heap[f].kind = "var" => heap[f].val \in DOMAIN heap /\ heap[f] = Var(heap[f].val)
      /\ heap[f].kind = "list" => heap[f].elems \in Seq(DOMAIN heap)
  BY <1>1, NodeType
<1>3. heap[f].kind = "list" => Elems(heap[f].elems) \subseteq DOMAIN heap
  BY <1>2, ElemsIn
<1>4. QED
  BY <1>2, <1>3 DEF Parts

-----------------------------------------------------------------------------
(* The inductive invariant.                                                 *)

IInv == TypeOK /\ CheckInv /\ TodoAsked /\ Acyclic /\ AllSettled

\* The call at the top of the stack is on fragments, and was asked.
LEMMA TopType ==
    ASSUME TypeOK, TodoAsked, todo # <<>>
    PROVE  /\ xl \in DOMAIN heap /\ yl \in DOMAIN heap
           /\ Head(todo) = <<xl, yl>>
           /\ <<xl, yl>> \in asked
           /\ Tail(todo) \in Seq((DOMAIN heap) \X (DOMAIN heap))
           /\ Elems(todo) = {<<xl, yl>>} \union Elems(Tail(todo))
<1>1. todo \in Seq((DOMAIN heap) \X (DOMAIN heap))
  BY DEF TypeOK
<1>2. /\ Head(todo) \in (DOMAIN heap) \X (DOMAIN heap)
      /\ Tail(todo) \in Seq((DOMAIN heap) \X (DOMAIN heap))
      /\ Elems(todo) = {Head(todo)} \union Elems(Tail(todo))
  BY <1>1, ElemsHeadTail
<1>3. Head(todo) = <<xl, yl>> /\ xl \in DOMAIN heap /\ yl \in DOMAIN heap
  BY <1>2 DEF xl, yl
<1>4. QED
  BY <1>2, <1>3 DEF TodoAsked

\* What is settled stays so when a step only gives an unbound variable a value.
LEMMA SettledKept ==
    ASSUME NEW a \in DOMAIN heap, NEW b \in DOMAIN heap, Settled(a, b),
           \A f \in DOMAIN heap : heap'[f] = heap[f] \/ heap[f] = Var(f),
           asked \subseteq asked'
    PROVE  Settled(a, b)'
<1>1. \A f \in DOMAIN heap : Bound(f) \/ ~is_var(f) => heap'[f] = heap[f]
  BY DEF Bound, is_var, Var
<1>2. CASE a = b
  BY <1>2 DEF Settled
<1>3. CASE Bound(a) /\ (heap[a].val = b \/ <<heap[a].val, b>> \in asked)
  BY <1>1, <1>3 DEF Settled, Bound, is_var
<1>4. CASE Bound(b) /\ (heap[b].val = a \/ <<a, heap[b].val>> \in asked)
  BY <1>1, <1>4 DEF Settled, Bound, is_var
<1>5. CASE is_token(a) /\ is_token(b) /\ heap[a].name = heap[b].name
  <2>1. heap'[a] = heap[a] /\ heap'[b] = heap[b]
    BY <1>1, <1>5 DEF is_token, is_var
  <2>2. QED BY <1>5, <2>1 DEF Settled, is_token
<1>6. CASE /\ heap[a].kind = "list" /\ heap[b].kind = "list"
           /\ Len(heap[a].elems) = Len(heap[b].elems)
           /\ Elems(Zip(heap[a].elems, heap[b].elems)) \subseteq asked
  <2>1. heap'[a] = heap[a] /\ heap'[b] = heap[b]
    BY <1>1, <1>6 DEF is_var
  <2>2. Elems(Zip(heap'[a].elems, heap'[b].elems)) \subseteq asked'
    BY <1>6, <2>1
  <2>3. QED BY <1>6, <2>1, <2>2 DEF Settled
<1>7. QED
  BY <1>2, <1>3, <1>4, <1>5, <1>6 DEF Settled

\* The topmost call is done with, or gives way to other calls that settle it.
LEMMA ContinueInv ==
    ASSUME TypeOK, TodoAsked, AllSettled, todo # <<>>,
           NEW calls \in Seq((DOMAIN heap) \X (DOMAIN heap)), Continue(calls),
           DOMAIN heap' = DOMAIN heap,
           \A f \in DOMAIN heap : heap'[f] = heap[f] \/ heap[f] = Var(f),
           NEW a, NEW b, Head(todo) = <<a, b>>, Settled(a, b)'
    PROVE  /\ todo' \in Seq((DOMAIN heap') \X (DOMAIN heap'))
           /\ asked' \subseteq (DOMAIN heap') \X (DOMAIN heap')
           /\ TodoAsked'
           /\ AllSettled'
<1>1. /\ Tail(todo) \in Seq((DOMAIN heap) \X (DOMAIN heap))
      /\ Elems(todo) = {<<a, b>>} \union Elems(Tail(todo))
      /\ <<xl, yl>> = <<a, b>>
  BY TopType
<1>2. /\ todo' \in Seq((DOMAIN heap) \X (DOMAIN heap))
      /\ Elems(todo') = Elems(calls) \union Elems(Tail(todo))
  <2> DEFINE D == (DOMAIN heap) \X (DOMAIN heap)
             rest == Tail(todo)
  <2>1. calls \in Seq(D) /\ rest \in Seq(D) /\ todo' = calls \o rest
    BY <1>1 DEF Continue
  <2> HIDE DEF D, rest
  <2>2. calls \o rest \in Seq(D) /\ Elems(calls \o rest) = Elems(calls) \union Elems(rest)
    BY <2>1, ElemsConcat
  <2>3. QED
    BY <2>1, <2>2 DEF D, rest
<1>3. asked' = asked \union Elems(calls)
  BY DEF Continue
<1>4. Elems(calls) \subseteq (DOMAIN heap) \X (DOMAIN heap)
  BY ElemsIn
<1>5. asked' \subseteq (DOMAIN heap) \X (DOMAIN heap)
  BY <1>3, <1>4 DEF TypeOK
<1>6. Elems(todo') \subseteq asked'
  BY <1>1, <1>2, <1>3 DEF TodoAsked
<1>7. ASSUME NEW p \in asked'
      PROVE  Settled(p[1], p[2])' \/ p \in Elems(todo')
  <2>1. CASE p \in Elems(todo')
    BY <2>1
  <2>2. CASE p = <<a, b>>
    BY <2>2
  <2>3. CASE p \in asked /\ p \notin Elems(todo)
    <3>1. Settled(p[1], p[2])
      BY <2>3 DEF AllSettled
    <3>2. p[1] \in DOMAIN heap /\ p[2] \in DOMAIN heap
      BY <2>3 DEF TypeOK
    <3>3. QED
      BY <3>1, <3>2, <1>3, SettledKept
  <2>4. QED
    BY <1>1, <1>2, <1>3, <2>1, <2>2, <2>3
<1>8. AllSettled'
  BY <1>7 DEF AllSettled
<1>9. QED
  BY <1>2, <1>5, <1>6, <1>8 DEF TodoAsked

-----------------------------------------------------------------------------
(* The actions.                                                             *)

\* The invariant holds when unify is called.
LEMMA InitInv == Init => IInv
<1> SUFFICES ASSUME NEW p \in Problems, Start(p)
             PROVE  IInv
  BY DEF Init
<1>1. TypeOK
  <2>1. Elems(p.equations) \subseteq (DOMAIN p.heap) \X (DOMAIN p.heap)
    BY ProblemAssumption, ElemsIn
  <2>2. QED
    BY <2>1, ProblemAssumption DEF TypeOK, Start
<1>2. CheckInv
  BY DEF CheckInv, Start, Checking
<1>3. TodoAsked /\ AllSettled
  BY DEF TodoAsked, AllSettled, Start
<1>4. Acyclic
  BY ProblemAssumption DEF Acyclic, Start
<1>5. QED
  BY <1>1, <1>2, <1>3, <1>4 DEF IInv

\* Calls of unify that leave the heap alone.
LEMMA ContinueKeeps ==
    ASSUME IInv, Unifying, heap' = heap, occurs' = occurs, failed' = failed, seen' = seen,
           NEW calls \in Seq((DOMAIN heap) \X (DOMAIN heap)), Continue(calls),
           NEW a, NEW b, Head(todo) = <<a, b>>, Settled(a, b)'
    PROVE  IInv'
<1> USE DEF IInv
<1>1. todo # <<>> /\ ~Checking
  BY DEF Unifying
<1>2. /\ todo' \in Seq((DOMAIN heap') \X (DOMAIN heap'))
      /\ asked' \subseteq (DOMAIN heap') \X (DOMAIN heap')
      /\ TodoAsked'
      /\ AllSettled'
  BY <1>1, ContinueInv
<1>3. TypeOK'
  BY <1>2 DEF TypeOK
<1>4. CheckInv'
  BY <1>1 DEF CheckInv, Checking
<1>5. Acyclic'
  BY DEF Acyclic
<1>6. QED
  BY <1>2, <1>3, <1>4, <1>5

\* evaluate follows the value of a variable.
LEMMA EvaluateArgumentInv == IInv /\ EvaluateArgument => IInv'
<1> SUFFICES ASSUME IInv, EvaluateArgument
             PROVE  IInv'
  OBVIOUS
<1>1. /\ heap' = heap /\ occurs' = occurs /\ failed' = failed /\ seen' = seen
      /\ Unifying /\ todo # <<>>
  BY DEF EvaluateArgument, Unifying
<1>2. PICK a \in DOMAIN heap, b \in DOMAIN heap : a = xl /\ b = yl /\ Head(todo) = <<a, b>>
  BY <1>1, TopType DEF IInv
<1>3. CASE Bound(xl) /\ Continue(<< <<heap[xl].val, yl>> >>)
  <2>1. heap[a].val \in DOMAIN heap
    BY <1>2, <1>3, HeapType DEF Bound, is_var, IInv
  <2>2. << <<heap[a].val, b>> >> \in Seq((DOMAIN heap) \X (DOMAIN heap))
    BY <1>2, <2>1
  <2>3. <<heap[a].val, b>> \in asked'
    BY <1>2, <1>3, ElemsShort DEF Continue
  <2>4. Settled(a, b)'
    BY <1>1, <1>2, <1>3, <2>3 DEF Settled, Bound, is_var
  <2>5. QED
    BY <1>1, <1>2, <1>3, <2>2, <2>4, ContinueKeeps
<1>4. CASE Bound(yl) /\ Continue(<< <<xl, heap[yl].val>> >>)
  <2>1. heap[b].val \in DOMAIN heap
    BY <1>2, <1>4, HeapType DEF Bound, is_var, IInv
  <2>2. << <<a, heap[b].val>> >> \in Seq((DOMAIN heap) \X (DOMAIN heap))
    BY <1>2, <2>1
  <2>3. <<a, heap[b].val>> \in asked'
    BY <1>2, <1>4, ElemsShort DEF Continue
  <2>4. Settled(a, b)'
    BY <1>1, <1>2, <1>4, <2>3 DEF Settled, Bound, is_var
  <2>5. QED
    BY <1>1, <1>2, <1>4, <2>2, <2>4, ContinueKeeps
<1>5. QED
  BY <1>3, <1>4 DEF EvaluateArgument

\* Both sides are the same variable.
LEMMA SameVariableInv == IInv /\ SameVariable => IInv'
<1> SUFFICES ASSUME IInv, SameVariable
             PROVE  IInv'
  OBVIOUS
<1>1. /\ heap' = heap /\ occurs' = occurs /\ failed' = failed /\ seen' = seen
      /\ Unifying /\ todo # <<>>
  BY DEF SameVariable, Evaluated, Unifying
<1>2. PICK a, b : a = xl /\ b = yl /\ Head(todo) = <<a, b>>
  BY <1>1, TopType DEF IInv
<1>3. Settled(a, b)'
  BY <1>2 DEF SameVariable, Settled
<1>4. <<>> \in Seq((DOMAIN heap) \X (DOMAIN heap))
  OBVIOUS
<1>5. QED
  BY <1>1, <1>2, <1>3, <1>4, ContinueKeeps DEF SameVariable

\* unify_var is given an unbound variable and another evaluated fragment.
LEMMA UnifyVarInv ==
    ASSUME IInv, Unifying, NEW var \in DOMAIN heap, NEW val \in DOMAIN heap,
           Head(todo) \in {<<var, val>>, <<val, var>>},
           is_var(var), ~Bound(var), ~Bound(val), val # var, unify_var(var, val)
    PROVE  IInv'
<1>1. /\ heap' = heap /\ todo' = todo /\ failed' = failed /\ asked' = asked
      /\ seen' = {} /\ occurs' = [var |-> var, val |-> val, rest |-> <<val>>]
  BY DEF unify_var
<1>2. TypeOK'
  <2>1. occurs' \in [var : DOMAIN heap, val : DOMAIN heap, rest : Seq(DOMAIN heap)]
    BY <1>1
  <2>2. QED
    BY <1>1, <2>1 DEF TypeOK, IInv
<1>3. CheckInv'
  <2>1. heap[var] = Var(var)
    BY HeapType DEF IInv, is_var, Bound
  <2>2. occurs'.rest = <<val>> /\ Elems(occurs'.rest) = {val}
    BY <1>1, ElemsShort
  <2>3. todo # <<>>
    BY DEF Unifying
  <2>4. ~Bound(val)'
    BY <1>1 DEF Bound, is_var
  <2>5. QED
    BY <1>1, <2>1, <2>2, <2>3, <2>4 DEF CheckInv
<1>4. TodoAsked' /\ Acyclic' /\ AllSettled'
  BY <1>1 DEF IInv, TodoAsked, Acyclic, AllSettled, Settled, Bound, is_var, is_token
<1>5. QED
  BY <1>2, <1>3, <1>4 DEF IInv

\* One side is a variable: the occurs check begins.
LEMMA OneVariableInv == IInv /\ OneVariable => IInv'
<1> SUFFICES ASSUME IInv, OneVariable
             PROVE  IInv'
  OBVIOUS
<1>1. Unifying /\ todo # <<>> /\ ~Bound(xl) /\ ~Bound(yl)
  BY DEF OneVariable, Evaluated, Unifying
<1>2. xl \in DOMAIN heap /\ yl \in DOMAIN heap /\ Head(todo) = <<xl, yl>>
  BY <1>1, TopType DEF IInv
<1>3. CASE is_var(xl) /\ xl # yl /\ unify_var(xl, yl)
  BY <1>1, <1>2, <1>3, UnifyVarInv
<1>4. CASE ~is_var(xl) /\ is_var(yl) /\ unify_var(yl, xl)
  BY <1>1, <1>2, <1>4, UnifyVarInv
<1>5. QED
  BY <1>3, <1>4 DEF OneVariable

\* unify returns false.
LEMMA FailInv ==
    ASSUME IInv, Fail, heap' = heap, occurs' = occurs, seen' = seen
    PROVE  IInv'
BY DEF Fail, IInv, TypeOK, CheckInv, TodoAsked, Acyclic, AllSettled, Settled, Bound,
       Checking, is_var, is_token

\* Neither side is a variable: their parts are unified, or nothing can be.
LEMMA NoVariableInv == IInv /\ NoVariable => IInv'
<1> SUFFICES ASSUME IInv, NoVariable
             PROVE  IInv'
  OBVIOUS
<1>1. /\ heap' = heap /\ occurs' = occurs /\ seen' = seen
      /\ Unifying /\ todo # <<>> /\ ~is_var(xl) /\ ~is_var(yl)
  BY DEF NoVariable, Evaluated, Unifying
<1>2. PICK a \in DOMAIN heap, b \in DOMAIN heap : a = xl /\ b = yl /\ Head(todo) = <<a, b>>
  BY <1>1, TopType DEF IInv
<1>3. CASE ~SameShape /\ Fail
  BY <1>1, <1>3, FailInv
<1>4. CASE SameShape /\ Continue(Pairs) /\ UNCHANGED failed
  <2>1. CASE is_token(a)
    <3>1. Pairs = <<>> /\ is_token(b) /\ heap[a].name = heap[b].name
      BY <1>2, <1>4, <2>1 DEF Pairs, SameShape
    <3>2. Settled(a, b)'
      BY <1>1, <2>1, <3>1 DEF Settled, is_token
    <3>3. <<>> \in Seq((DOMAIN heap) \X (DOMAIN heap))
      OBVIOUS
    <3>4. QED
      BY <1>1, <1>2, <1>4, <3>1, <3>2, <3>3, ContinueKeeps
  <2>2. CASE ~is_token(a)
    <3>1. ~is_token(b) /\ Len(heap[a].elems) = Len(heap[b].elems)
      BY <1>2, <1>4, <2>2 DEF SameShape
    <3>2. heap[a].kind = "list" /\ heap[b].kind = "list"
      BY <1>1, <1>2, <2>2, <3>1, HeapType DEF IInv, is_var, is_token
    <3>3. heap[a].elems \in Seq(DOMAIN heap) /\ heap[b].elems \in Seq(DOMAIN heap)
      BY <3>2, HeapType DEF IInv
    <3>4. Pairs = Zip(heap[a].elems, heap[b].elems)
      BY <1>2, <2>2 DEF Pairs
    <3>5. Zip(heap[a].elems, heap[b].elems) \in Seq((DOMAIN heap) \X (DOMAIN heap))
      BY <3>1, <3>3 DEF Zip
    <3>6. Elems(Zip(heap[a].elems, heap[b].elems)) \subseteq asked'
      BY <1>4, <3>4 DEF Continue
    <3>7. Settled(a, b)'
      BY <1>1, <3>1, <3>2, <3>6 DEF Settled
    <3>8. QED
      BY <1>1, <1>2, <1>4, <3>4, <3>5, <3>7, ContinueKeeps
  <2>3. QED
    BY <2>1, <2>2
<1>5. QED
  BY <1>3, <1>4 DEF NoVariable

\* The fragments that OccursStep goes on with.
LEMMA ContentsType ==
    ASSUME IInv, NEW f \in DOMAIN heap, f = eval
    PROVE  /\ Contents \in Seq(DOMAIN heap)
           /\ Elems(Contents) = Parts(heap, f)
<1>1. CASE heap[f].kind = "list"
  <2>1. Contents = heap[f].elems
    BY <1>1 DEF Contents, Bound, is_var
  <2>2. QED
    BY <1>1, <2>1, HeapType DEF IInv, Parts
<1>2. CASE Bound(f)
  <2>1. Contents = <<heap[f].val>>
    BY <1>2 DEF Contents, Bound, is_var
  <2>2. QED
    BY <1>2, <2>1, HeapType, ElemsShort DEF IInv, Parts, Bound, is_var
<1>3. CASE heap[f].kind # "list" /\ ~Bound(f)
  <2>1. Contents = <<>>
    BY <1>3 DEF Contents
  <2>2. QED
    BY <1>3, <2>1, ElemsShort DEF Parts, Bound, is_var
<1>4. QED
  BY <1>1, <1>2, <1>3

\* occurs_in goes on to the next fragment.
LEMMA OccursStepInv == IInv /\ OccursStep => IInv'
<1> SUFFICES ASSUME IInv, OccursStep
             PROVE  IInv'
  OBVIOUS
<1> USE DEF IInv
<1>1. /\ heap' = heap /\ todo' = todo /\ failed' = failed /\ asked' = asked
      /\ Checking /\ occurs.rest # <<>> /\ eval # occurs.var
      /\ seen' = seen \union {eval}
      /\ occurs' = [occurs EXCEPT !.rest = Contents \o Tail(@)]
  BY DEF OccursStep
<1>2. occurs \in [var : DOMAIN heap, val : DOMAIN heap, rest : Seq(DOMAIN heap)]
  BY <1>1 DEF TypeOK, Checking
<1>3. /\ eval \in DOMAIN heap
      /\ Tail(occurs.rest) \in Seq(DOMAIN heap)
      /\ Elems(occurs.rest) = {eval} \union Elems(Tail(occurs.rest))
  BY <1>1, <1>2, ElemsHeadTail DEF eval
<1>4. Contents \in Seq(DOMAIN heap) /\ Elems(Contents) = Parts(heap, eval)
  BY <1>3, ContentsType
<1>5. /\ Contents \o Tail(occurs.rest) \in Seq(DOMAIN heap)
      /\ Elems(Contents \o Tail(occurs.rest)) =
            Parts(heap, eval) \union Elems(Tail(occurs.rest))
  BY <1>3, <1>4, ElemsConcat
<1>6. /\ occurs'.var = occurs.var /\ occurs'.val = occurs.val
      /\ occurs'.rest = Contents \o Tail(occurs.rest)
      /\ occurs' \in [var : DOMAIN heap, val : DOMAIN heap, rest : Seq(DOMAIN heap)]
  BY <1>1, <1>2, <1>5
<1>7. TypeOK'
  BY <1>1, <1>3, <1>6 DEF TypeOK
<1>8. seen' \union Elems(occurs'.rest) =
         seen \union Elems(occurs.rest) \union Parts(heap, eval)
  BY <1>1, <1>3, <1>5, <1>6
<1>9. CheckInv'
  <2>1. \A f \in seen' : Parts(heap, f) \subseteq seen' \union Elems(occurs'.rest)
    BY <1>1, <1>8 DEF CheckInv
  <2>2. occurs.var \notin seen'
    BY <1>1 DEF CheckInv
  <2>3. occurs.val \in seen' \union Elems(occurs'.rest)
    BY <1>1, <1>8 DEF CheckInv
  <2>4. ~Bound(occurs.val) /\ heap[occurs.var] = Var(occurs.var) /\ occurs.val # occurs.var
    BY <1>1 DEF CheckInv
  <2>5. ~Bound(occurs.val)'
    BY <1>1, <1>6, <2>4 DEF Bound, is_var
  <2>6. QED
    BY <1>1, <1>6, <2>1, <2>2, <2>3, <2>4, <2>5 DEF CheckInv
<1>10. TodoAsked' /\ Acyclic' /\ AllSettled'
  BY <1>1 DEF TodoAsked, Acyclic, AllSettled, Settled, Bound, is_var, is_token
<1>11. QED
  BY <1>7, <1>9, <1>10

\* Acyclicity in terms of parts: every set of fragments has a member that leads
\* to none of them.
LEMMA AcyclicParts ==
    ASSUME NEW h, h \in Seq(Node(Len(h)))
    PROVE  AcyclicHeap(h) <=>
             \A S \in SUBSET DOMAIN h :
                 S = {} \/ \E f \in S : Parts(h, f) \intersect S = {}
<1> DEFINE Sink(S, f) ==
             CASE h[f].kind = "var"   -> h[f].val = f \/ h[f].val \notin S
               [] h[f].kind = "list"  -> Elems(h[f].elems) \intersect S = {}
               [] h[f].kind = "token" -> TRUE
           PartsSink(S, f) == Parts(h, f) \intersect S = {}
<1>1. ASSUME NEW S \in SUBSET DOMAIN h, NEW f \in S
      PROVE  Sink(S, f) <=> PartsSink(S, f)
  <2>1. h[f].kind \in {"var", "token", "list"}
    BY NodeType
  <2>2. CASE h[f].kind = "var"
    BY <2>2 DEF Parts
  <2>3. CASE h[f].kind = "token"
    BY <2>3 DEF Parts
  <2>4. CASE h[f].kind = "list"
    BY <2>4 DEF Parts
  <2>5. QED
    BY <2>1, <2>2, <2>3, <2>4
<1>2. AcyclicHeap(h) <=> \A S \in SUBSET DOMAIN h : S = {} \/ \E f \in S : Sink(S, f)
  BY Zenon DEF AcyclicHeap
<1> HIDE DEF Sink, PartsSink
<1>3. (\A S \in SUBSET DOMAIN h : S = {} \/ \E f \in S : Sink(S, f)) <=>
      (\A S \in SUBSET DOMAIN h : S = {} \/ \E f \in S : PartsSink(S, f))
  BY <1>1, Zenon
<1>4. QED
  BY <1>2, <1>3, Zenon DEF PartsSink

\* A variable may be given a value when what that value leads to is within a set
\* that is closed under parts and does not have the variable in it.
LEMMA AcyclicAssign ==
    ASSUME NEW h, h \in Seq(Node(Len(h))), AcyclicHeap(h),
           NEW g, g \in Seq(Node(Len(g))), DOMAIN g = DOMAIN h,
           NEW var \in DOMAIN h, NEW val \in DOMAIN h, NEW closed \in SUBSET DOMAIN h,
           g[var] = Var(val), \A f \in DOMAIN h \ {var} : g[f] = h[f],
           val \in closed, var \notin closed,
           \A f \in closed : Parts(h, f) \subseteq closed
    PROVE  AcyclicHeap(g)
<1> SUFFICES ASSUME NEW S \in SUBSET DOMAIN h, S # {}
             PROVE  \E f \in S : Parts(g, f) \intersect S = {}
  BY AcyclicParts
<1>1. \A T \in SUBSET DOMAIN h : T = {} \/ \E f \in T : Parts(h, f) \intersect T = {}
  BY AcyclicParts
<1>2. \A f \in DOMAIN h \ {var} : Parts(g, f) = Parts(h, f)
  BY DEF Parts
<1>3. Parts(g, var) = {val}
  BY DEF Parts, Var
<1>4. CASE var \notin S
  BY <1>1, <1>2, <1>4
<1>5. CASE var \in S /\ val \notin S
  BY <1>3, <1>5
<1>6. CASE val \in S
  <2>1. PICK f \in S \intersect closed : Parts(h, f) \intersect (S \intersect closed) = {}
    BY <1>1, <1>6
  <2>2. Parts(h, f) \intersect S = {}
    BY <2>1
  <2>3. QED
    BY <1>2, <2>1, <2>2
<1>7. QED
  BY <1>4, <1>5, <1>6

\* The variable gets its value once the occurs check has not found it.
LEMMA AssignInv == IInv /\ Assign => IInv'
<1> SUFFICES ASSUME IInv, Assign
             PROVE  IInv'
  OBVIOUS
<1> USE DEF IInv
<1>1. /\ Checking /\ occurs.rest = <<>> /\ occurs' = NoCheck /\ Continue(<<>>)
      /\ heap' = [heap EXCEPT ![occurs.var].val = occurs.val]
      /\ failed' = failed /\ seen' = seen
  BY DEF Assign, set_val
<1>2. PICK var \in DOMAIN heap, val \in DOMAIN heap : var = occurs.var /\ val = occurs.val
  BY <1>1 DEF TypeOK, Checking
<1>3. /\ todo # <<>> /\ Head(todo) \in {<<var, val>>, <<val, var>>}
      /\ heap[var] = Var(var) /\ val # var
      /\ val \in seen /\ var \notin seen
      /\ \A f \in seen : Parts(heap, f) \subseteq seen
  BY <1>1, <1>2, ElemsShort DEF CheckInv
<1>4. /\ DOMAIN heap' = DOMAIN heap /\ Len(heap') = Len(heap)
      /\ heap'[var] = Var(val)
      /\ \A f \in DOMAIN heap \ {var} : heap'[f] = heap[f]
  BY <1>1, <1>2, <1>3 DEF Var, TypeOK
<1>5. heap' \in Seq(Node(Len(heap')))
  <2>1. Var(val) \in Node(Len(heap))
    BY DEF Var, Node, TypeOK
  <2>2. QED
    BY <1>1, <1>2, <1>4, <2>1 DEF TypeOK
<1>6. Acyclic'
  BY <1>3, <1>4, <1>5, AcyclicAssign DEF Acyclic, TypeOK
<1>7. Settled(var, val)' /\ Settled(val, var)'
  BY <1>3, <1>4 DEF Settled, Bound, is_var, Var
<1>8. /\ todo' \in Seq((DOMAIN heap') \X (DOMAIN heap'))
      /\ asked' \subseteq (DOMAIN heap') \X (DOMAIN heap')
      /\ TodoAsked'
      /\ AllSettled'
  <2>1. <<>> \in Seq((DOMAIN heap) \X (DOMAIN heap))
    OBVIOUS
  <2>2. \A f \in DOMAIN heap : heap'[f] = heap[f] \/ heap[f] = Var(f)
    BY <1>3, <1>4
  <2>3. QED
    BY <1>1, <1>3, <1>4, <1>7, <2>1, <2>2, ContinueInv
<1>9. TypeOK'
  BY <1>1, <1>4, <1>5, <1>8 DEF TypeOK
<1>10. CheckInv'
  BY <1>1 DEF CheckInv, Checking
<1>11. QED
  BY <1>6, <1>8, <1>9, <1>10

\* Every step keeps the invariant.
LEMMA NextInv == IInv /\ [Next]_fragments => IInv'
<1> SUFFICES ASSUME IInv, [Next]_fragments
             PROVE  IInv'
  OBVIOUS
<1>1. CASE EvaluateArgument
  BY <1>1, EvaluateArgumentInv
<1>2. CASE SameVariable
  BY <1>2, SameVariableInv
<1>3. CASE OneVariable
  BY <1>3, OneVariableInv
<1>4. CASE NoVariable
  BY <1>4, NoVariableInv
<1>5. CASE OccursStep
  BY <1>5, OccursStepInv
<1>6. CASE Occurs
  BY <1>6, FailInv DEF Occurs
<1>7. CASE Assign
  BY <1>7, AssignInv
<1>8. CASE UNCHANGED fragments
  BY <1>8 DEF fragments, IInv, TypeOK, CheckInv, TodoAsked, Acyclic, AllSettled, Settled,
              Bound, Checking, is_var, is_token
<1>9. QED
  BY <1>1, <1>2, <1>3, <1>4, <1>5, <1>6, <1>7, <1>8 DEF Next, UnifyStep

-----------------------------------------------------------------------------
(* Theorems.                                                                *)

\* The inductive invariant holds: variables have their types, the occurs check
\* misses nothing, and every equation is settled or still to be looked at.
THEOREM SpecIInv == Spec => []IInv
BY InitInv, NextInv, PTL DEF Spec

\* No assignment of unify_var builds a fragment that is part of itself, so
\* recursive_evaluate, copy_fragment and print_fragment end.
THEOREM NoCyclicFragment == Spec => []Acyclic
<1>1. IInv => Acyclic
  BY DEF IInv
<1>2. QED
  BY <1>1, SpecIInv, PTL

-----------------------------------------------------------------------------
(* A most general unifier.                                                  *)

\* What occurs_in has still to look at is the value itself or means a tree
\* that is a proper part of what the value means.
DepthInv ==
    Checking =>
        \A m : Solves(m) =>
            \A x \in Elems(occurs.rest) :
                x = occurs.val \/ Depth(m[x]) < Depth(m[occurs.val])

\* A list in the heap means the list of what its elements mean.
LEMMA RespectsList ==
    ASSUME NEW m, Respects(m), NEW a \in DOMAIN heap, NEW b \in DOMAIN heap,
           heap[a].kind = "list", heap[b].kind = "list"
    PROVE  m[a] = m[b] <=>
             /\ DOMAIN heap[a].elems = DOMAIN heap[b].elems
             /\ \A i \in DOMAIN heap[a].elems : m[heap[a].elems[i]] = m[heap[b].elems[i]]
<1> DEFINE s == [i \in DOMAIN heap[a].elems |-> m[heap[a].elems[i]]]
           t == [i \in DOMAIN heap[b].elems |-> m[heap[b].elems[i]]]
<1>1. m[a] = List(s) /\ m[b] = List(t)
  BY DEF Respects
<1>2. List(s) = List(t) <=> s = t
  <2> HIDE DEF s, t
  <2> QED BY DEF List
<1>3. s = t <=> /\ DOMAIN heap[a].elems = DOMAIN heap[b].elems
               /\ \A i \in DOMAIN heap[a].elems : m[heap[a].elems[i]] = m[heap[b].elems[i]]
  <2>1. ASSUME s = t
        PROVE  /\ DOMAIN heap[a].elems = DOMAIN heap[b].elems
               /\ \A i \in DOMAIN heap[a].elems : m[heap[a].elems[i]] = m[heap[b].elems[i]]
    <3>1. DOMAIN s = DOMAIN t /\ \A i \in DOMAIN s : s[i] = t[i]
      BY <2>1
    <3>2. QED BY <3>1
  <2>2. QED BY <2>1
<1>4. QED
  BY <1>1, <1>2, <1>3

\* Two equal meanings are of fragments of the same shape.
LEMMA RespectsShape ==
    ASSUME TypeOK, NEW m, Respects(m), xl \in DOMAIN heap, yl \in DOMAIN heap,
           ~is_var(xl), ~is_var(yl), m[xl] = m[yl]
    PROVE  SameShape
<1>1. PICK a \in DOMAIN heap, b \in DOMAIN heap : a = xl /\ b = yl
  OBVIOUS
<1>2. heap[a].kind \in {"token", "list"} /\ heap[b].kind \in {"token", "list"}
  BY <1>1, HeapType DEF is_var
<1>3. /\ is_token(a) => m[a] = Token(heap[a].name)
      /\ is_token(b) => m[b] = Token(heap[b].name)
  BY DEF Respects
<1>4. ASSUME NEW f \in DOMAIN heap, heap[f].kind = "list"
      PROVE  m[f].kind = "list"
  <2> DEFINE s == [i \in DOMAIN heap[f].elems |-> m[heap[f].elems[i]]]
  <2>1. m[f] = List(s)
    BY <1>4 DEF Respects
  <2> HIDE DEF s
  <2>2. QED
    BY <2>1 DEF List
<1>5. is_token(a) <=> is_token(b)
  BY <1>1, <1>2, <1>3, <1>4 DEF Token, is_token
<1>6. CASE is_token(a)
  BY <1>1, <1>3, <1>5, <1>6 DEF SameShape, Token
<1>7. CASE heap[a].kind = "list" /\ heap[b].kind = "list"
  <2>1. DOMAIN heap[a].elems = DOMAIN heap[b].elems
    BY <1>1, <1>7, RespectsList
  <2>2. heap[a].elems \in Seq(DOMAIN heap) /\ heap[b].elems \in Seq(DOMAIN heap)
    BY <1>7, HeapType
  <2>3. Len(heap[a].elems) = Len(heap[b].elems)
    BY <2>1, <2>2
  <2>4. QED
    BY <1>1, <1>7, <2>3 DEF SameShape, is_token
<1>8. QED
  BY <1>2, <1>5, <1>6, <1>7 DEF is_token

\* The solutions depend on the heap and the equations only.
LEMMA SolvesSame ==
    ASSUME heap' = heap, asked' = asked
    PROVE  \A m : Solves(m)' <=> Solves(m)
BY DEF Solves, Respects, Equates, is_var, is_token

\* Nothing is being checked at first.
LEMMA DepthInit == Init => DepthInv
BY DEF Init, Start, DepthInv, Checking

\* Whatever leaves the equations, the heap and the occurs check alone.
LEMMA DepthSame ==
    ASSUME DepthInv, heap' = heap, asked' = asked, occurs' = occurs
    PROVE  DepthInv'
BY SolvesSame DEF DepthInv, Checking

\* What occurs_in goes on to is within the value of the variable.
LEMMA DepthStep == IInv /\ DepthInv /\ OccursStep => DepthInv'
<1> SUFFICES ASSUME IInv, DepthInv, OccursStep
             PROVE  DepthInv'
  OBVIOUS
<1>1. /\ heap' = heap /\ asked' = asked /\ Checking /\ occurs.rest # <<>>
      /\ occurs' = [occurs EXCEPT !.rest = Contents \o Tail(@)]
  BY DEF OccursStep
<1>2. occurs \in [var : DOMAIN heap, val : DOMAIN heap, rest : Seq(DOMAIN heap)]
  BY <1>1 DEF IInv, TypeOK, Checking
<1>3. /\ eval \in DOMAIN heap
      /\ Tail(occurs.rest) \in Seq(DOMAIN heap)
      /\ Elems(occurs.rest) = {eval} \union Elems(Tail(occurs.rest))
  BY <1>1, <1>2, ElemsHeadTail DEF eval
<1>4. Contents \in Seq(DOMAIN heap) /\ Elems(Contents) = Parts(heap, eval)
  BY <1>3, ContentsType
<1>5. /\ occurs'.val = occurs.val
      /\ Elems(occurs'.rest) = Parts(heap, eval) \union Elems(Tail(occurs.rest))
  <2>1. Elems(Contents \o Tail(occurs.rest)) = Parts(heap, eval) \union Elems(Tail(occurs.rest))
    BY <1>3, <1>4, ElemsConcat
  <2>2. occurs'.val = occurs.val /\ occurs'.rest = Contents \o Tail(occurs.rest)
    BY <1>1, <1>2
  <2>3. QED
    BY <2>1, <2>2
<1>6. ASSUME NEW m, Solves(m), NEW x \in Parts(heap, eval)
      PROVE  Depth(m[x]) < Depth(m[occurs.val])
  <2>1. PICK f \in DOMAIN heap : f = eval
    BY <1>3
  <2>2. /\ x \in DOMAIN heap
        /\ Depth(m[x]) \in Nat /\ Depth(m[f]) \in Nat /\ Depth(m[occurs.val]) \in Nat
    BY <1>2, <1>6, <2>1, HeapType DEF Solves, Respects, IInv
  <2>3. f = occurs.val \/ Depth(m[f]) < Depth(m[occurs.val])
    BY <1>1, <1>3, <1>6, <2>1 DEF DepthInv
  <2>4. CASE heap[f].kind = "list"
    <3>1. PICK i \in DOMAIN heap[f].elems : x = heap[f].elems[i]
      BY <1>6, <2>1, <2>4 DEF Parts, Elems
    <3>2. Depth(m[x]) < Depth(m[f])
      BY <1>6, <2>4, <3>1 DEF Solves, Respects
    <3>3. QED
      BY <2>2, <2>3, <3>2
  <2>5. CASE Bound(f)
    <3>1. f # occurs.val
      BY <1>1, <2>5 DEF IInv, CheckInv
    <3>2. x = heap[f].val
      BY <1>6, <2>1, <2>5 DEF Parts, Bound, is_var
    <3>3. m[x] = m[f]
      BY <1>6, <2>5, <3>2 DEF Solves, Respects, Bound
    <3>4. QED
      BY <2>3, <3>1, <3>3
  <2>6. QED
    BY <1>6, <2>1, <2>4, <2>5 DEF Parts, Bound, is_var
<1>7. \A m : Solves(m)' <=> Solves(m)
  BY <1>1, SolvesSame
<1>8. ASSUME NEW m, Solves(m), NEW x \in Elems(occurs'.rest)
      PROVE  x = occurs.val \/ Depth(m[x]) < Depth(m[occurs.val])
  BY <1>1, <1>3, <1>5, <1>6, <1>8 DEF DepthInv
<1>9. QED
  BY <1>5, <1>7, <1>8 DEF DepthInv

\* Every step keeps what is known of the occurs check.
LEMMA DepthNext == IInv /\ DepthInv /\ [Next]_fragments => DepthInv'
<1> SUFFICES ASSUME IInv, DepthInv, [Next]_fragments
             PROVE  DepthInv'
  OBVIOUS
<1>1. CASE EvaluateArgument \/ SameVariable \/ NoVariable
  <2>1. ~Checking /\ occurs' = occurs
    BY <1>1 DEF EvaluateArgument, SameVariable, NoVariable, Evaluated, Unifying
  <2>2. QED
    BY <2>1 DEF DepthInv, Checking
<1>2. CASE OneVariable
  <2>1. occurs'.rest = <<occurs'.val>>
    BY <1>2 DEF OneVariable, unify_var
  <2>2. Elems(occurs'.rest) = {occurs'.val}
    BY <2>1, ElemsShort
  <2>3. QED
    BY <2>2 DEF DepthInv
<1>3. CASE OccursStep
  BY <1>3, DepthStep
<1>4. CASE Occurs
  BY <1>4, DepthSame DEF Occurs, Fail
<1>5. CASE Assign
  BY <1>5 DEF Assign, DepthInv, Checking
<1>6. CASE UNCHANGED fragments
  BY <1>6, DepthSame DEF fragments
<1>7. QED
  BY <1>1, <1>2, <1>3, <1>4, <1>5, <1>6 DEF Next, UnifyStep

\* Other calls are made instead of the topmost on an unchanged heap, and a
\* solution makes their arguments equal.
LEMMA SolvesContinue ==
    ASSUME NEW m, Solves(m), heap' = heap, NEW calls, Continue(calls),
           \A p \in Elems(calls) : m[p[1]] = m[p[2]]
    PROVE  Solves(m)'
<1>1. Respects(m)'
  BY DEF Solves, Respects, is_var, is_token
<1>2. Equates(m)'
  BY DEF Solves, Equates, Continue
<1>3. QED
  BY <1>1, <1>2 DEF Solves

\* One step of unify keeps every solution, and fails only if there is none.
LEMMA StepMostGeneral ==
    ASSUME IInv, DepthInv, UnifyStep, NEW m, Solves(m)
    PROVE  Solves(m)' /\ ~failed'
<1>1. ~failed
  BY DEF UnifyStep, EvaluateArgument, SameVariable, OneVariable, NoVariable, OccursStep,
         Occurs, Assign, Evaluated, Unifying
<1>2. ASSUME Unifying
      PROVE  xl \in DOMAIN heap /\ yl \in DOMAIN heap /\ m[xl] = m[yl]
  <2>1. xl \in DOMAIN heap /\ yl \in DOMAIN heap /\ <<xl, yl>> \in asked
    BY <1>2, TopType DEF IInv, Unifying
  <2>2. QED
    BY <2>1 DEF Solves, Equates
<1>3. CASE EvaluateArgument
  <2>1. heap' = heap /\ failed' = failed /\ Unifying
    BY <1>3 DEF EvaluateArgument
  <2>2. CASE Bound(xl) /\ Continue(<< <<heap[xl].val, yl>> >>)
    <3>1. m[xl] = m[heap[xl].val]
      BY <1>2, <2>1, <2>2 DEF Solves, Respects, Bound
    <3>2. \A p \in Elems(<< <<heap[xl].val, yl>> >>) : m[p[1]] = m[p[2]]
      BY <1>2, <2>1, <3>1, ElemsShort
    <3>3. QED
      BY <1>1, <2>1, <2>2, <3>2, SolvesContinue
  <2>3. CASE Bound(yl) /\ Continue(<< <<xl, heap[yl].val>> >>)
    <3>1. m[yl] = m[heap[yl].val]
      BY <1>2, <2>1, <2>3 DEF Solves, Respects, Bound
    <3>2. \A p \in Elems(<< <<xl, heap[yl].val>> >>) : m[p[1]] = m[p[2]]
      BY <1>2, <2>1, <3>1, ElemsShort
    <3>3. QED
      BY <1>1, <2>1, <2>3, <3>2, SolvesContinue
  <2>4. QED
    BY <1>3, <2>2, <2>3 DEF EvaluateArgument
<1>4. CASE SameVariable
  <2>1. heap' = heap /\ failed' = failed /\ Continue(<<>>)
    BY <1>4 DEF SameVariable
  <2>2. QED
    BY <1>1, <2>1, ElemsShort, SolvesContinue
<1>5. CASE OneVariable
  BY <1>1, <1>5, SolvesSame DEF OneVariable, unify_var
<1>6. CASE NoVariable
  <2>1. heap' = heap /\ Unifying /\ ~is_var(xl) /\ ~is_var(yl)
    BY <1>6 DEF NoVariable, Evaluated
  <2>2. SameShape
    BY <1>2, <2>1, RespectsShape DEF IInv, Solves
  <2>3. failed' = failed /\ Continue(Pairs)
    BY <1>6, <2>2 DEF NoVariable
  <2>4. CASE is_token(xl)
    <3>1. Pairs = <<>>
      BY <2>4 DEF Pairs
    <3>2. QED
      BY <1>1, <2>1, <2>3, <3>1, ElemsShort, SolvesContinue
  <2>5. CASE ~is_token(xl)
    <3>1. PICK a \in DOMAIN heap, b \in DOMAIN heap : a = xl /\ b = yl
      BY <1>2, <2>1
    <3>2. heap[a].kind = "list" /\ heap[b].kind = "list"
      BY <2>1, <2>2, <2>5, <3>1, HeapType DEF IInv, is_var, is_token, SameShape
    <3>3. \A i \in DOMAIN heap[a].elems : m[heap[a].elems[i]] = m[heap[b].elems[i]]
      BY <1>2, <2>1, <3>1, <3>2, RespectsList DEF Solves
    <3>4. Pairs = Zip(heap[a].elems, heap[b].elems)
      BY <2>5, <3>1 DEF Pairs
    <3>5. \A p \in Elems(Pairs) : m[p[1]] = m[p[2]]
      BY <3>3, <3>4 DEF Zip, Elems
    <3>6. QED
      BY <1>1, <2>1, <2>3, <3>5, SolvesContinue
  <2>6. QED
    BY <2>4, <2>5
<1>7. CASE OccursStep
  BY <1>1, <1>7, SolvesSame DEF OccursStep
<1>8. ASSUME Checking
      PROVE  /\ occurs.var \in DOMAIN heap /\ occurs.val \in DOMAIN heap
             /\ m[occurs.var] = m[occurs.val]
  <2>1. occurs \in [var : DOMAIN heap, val : DOMAIN heap, rest : Seq(DOMAIN heap)]
    BY <1>8 DEF IInv, TypeOK, Checking
  <2>2. <<occurs.var, occurs.val>> \in asked \/ <<occurs.val, occurs.var>> \in asked
    BY <1>8, TopType DEF IInv, CheckInv
  <2>3. QED
    BY <2>1, <2>2 DEF Solves, Equates
<1>9. CASE Occurs
  <2>1. Checking /\ occurs.rest # <<>> /\ eval = occurs.var
    BY <1>9 DEF Occurs
  <2>2. occurs.rest \in Seq(DOMAIN heap)
    BY <2>1 DEF IInv, TypeOK, Checking
  <2>3. occurs.var \in Elems(occurs.rest)
    BY <2>1, <2>2, ElemsHeadTail DEF eval
  <2>4. Depth(m[occurs.var]) < Depth(m[occurs.val])
    BY <2>1, <2>3 DEF DepthInv, IInv, CheckInv
  <2>5. Depth(m[occurs.var]) \in Nat
    BY <1>8, <2>1 DEF Solves, Respects
  <2>6. QED
    BY <1>8, <2>1, <2>4, <2>5
<1>10. CASE Assign
  <2>1. /\ Checking /\ failed' = failed /\ Continue(<<>>)
        /\ heap' = [heap EXCEPT ![occurs.var].val = occurs.val]
        /\ heap[occurs.var] = Var(occurs.var)
    BY <1>10 DEF Assign, set_val, IInv, CheckInv
  <2>2. /\ DOMAIN heap' = DOMAIN heap
        /\ heap'[occurs.var] = Var(occurs.val)
        /\ \A f \in DOMAIN heap \ {occurs.var} : heap'[f] = heap[f]
    BY <1>8, <2>1 DEF Var
  <2>3. Equates(m)'
    BY <2>1, ElemsShort DEF Solves, Equates, Continue
  <2>4. ASSUME NEW f \in DOMAIN heap
        PROVE  /\ Depth(m[f]) \in Nat
               /\ heap'[f].kind = "var" => m[f] = m[heap'[f].val]
               /\ heap'[f].kind = "token" => m[f] = Token(heap'[f].name)
               /\ heap'[f].kind = "list" =>
                    /\ m[f] = List([i \in DOMAIN heap'[f].elems |-> m[heap'[f].elems[i]]])
                    /\ \A i \in DOMAIN heap'[f].elems :
                          Depth(m[heap'[f].elems[i]]) < Depth(m[f])
    <3>1. CASE f = occurs.var
      BY <1>8, <2>1, <2>2, <3>1 DEF Var, Solves, Respects
    <3>2. CASE f # occurs.var
      <4>1. heap'[f] = heap[f]
        BY <2>2, <3>2
      <4>2. QED
        BY <4>1 DEF Solves, Respects, is_var, is_token
    <3>3. QED
      BY <3>1, <3>2
  <2>5. Respects(m)'
    BY <2>2, <2>4 DEF Respects, is_var, is_token
  <2>6. QED
    BY <1>1, <2>1, <2>3, <2>5 DEF Solves
<1>11. QED
  BY <1>3, <1>4, <1>5, <1>6, <1>7, <1>9, <1>10 DEF UnifyStep

\* When all equations are settled, every meaning of the fragments makes them
\* true.  Among the equations that a meaning made false, take those with the
\* lowest trees, of these one whose left side, and of these one whose right
\* side leads to no other: it is not settled.
LEMMA SettledEqual ==
    ASSUME IInv, todo = <<>>, NEW m, Respects(m)
    PROVE  Equates(m)
<1> DEFINE D == DOMAIN heap
           Wrong == {p \in asked : m[p[1]] # m[p[2]]}
           Sum(p) == Depth(m[p[1]]) + Depth(m[p[2]])
           Sums == {Sum(p) : p \in Wrong}
<1> SUFFICES ASSUME Wrong # {}
             PROVE  FALSE
  BY DEF Equates
<1>1. /\ asked \subseteq D \X D
      /\ \A p \in asked : p[1] \in D /\ p[2] \in D /\ p = <<p[1], p[2]>>
      /\ \A f \in D : Depth(m[f]) \in Nat
  <2>1. asked \subseteq D \X D
    BY DEF IInv, TypeOK
  <2>2. \A p \in D \X D : p[1] \in D /\ p[2] \in D /\ p = <<p[1], p[2]>>
    OBVIOUS
  <2>3. \A f \in D : Depth(m[f]) \in Nat
    BY DEF Respects
  <2>4. QED
    BY <2>1, <2>2, <2>3
<1>2. PICK n \in Sums : \A k \in Sums : n <= k
  <2>1. Sums \in SUBSET Nat /\ Sums # {}
    BY <1>1
  <2>2. QED
    BY <2>1, Least
<1> DEFINE Lowest == {p \in Wrong : Sum(p) = n}
           Lefts == {a \in D : \E b \in D : <<a, b>> \in Lowest}
<1>3. \A S \in SUBSET D : S = {} \/ \E f \in S : Parts(heap, f) \intersect S = {}
  BY AcyclicParts DEF IInv, TypeOK, Acyclic
<1>4. PICK a \in Lefts : Parts(heap, a) \intersect Lefts = {}
  <2>1. Lefts # {}
    BY <1>1, <1>2
  <2>2. QED
    BY <1>3, <2>1
<1> DEFINE Rights == {b \in D : <<a, b>> \in Lowest}
<1>5. PICK b \in Rights : Parts(heap, b) \intersect Rights = {}
  BY <1>3, <1>4
<1>6. /\ a \in D /\ b \in D /\ <<a, b>> \in asked
      /\ m[a] # m[b] /\ Depth(m[a]) + Depth(m[b]) = n
  BY <1>4, <1>5
<1>7. Settled(a, b)
  <2>1. Elems(todo) = {}
    BY ElemsShort
  <2>2. QED
    BY <1>6, <2>1 DEF IInv, AllSettled
<1>8. CASE Bound(a) /\ (heap[a].val = b \/ <<heap[a].val, b>> \in asked)
  <2>1. m[heap[a].val] = m[a] /\ heap[a].val \in Parts(heap, a)
    BY <1>6, <1>8 DEF Respects, Bound, is_var, Parts
  <2>2. <<heap[a].val, b>> \in asked
    BY <1>6, <1>8, <2>1
  <2>3. heap[a].val \in Lefts
    BY <1>1, <1>6, <2>1, <2>2
  <2>4. QED
    BY <1>4, <2>1, <2>3
<1>9. CASE Bound(b) /\ (heap[b].val = a \/ <<a, heap[b].val>> \in asked)
  <2>1. m[heap[b].val] = m[b] /\ heap[b].val \in Parts(heap, b)
    BY <1>6, <1>9 DEF Respects, Bound, is_var, Parts
  <2>2. <<a, heap[b].val>> \in asked
    BY <1>6, <1>9, <2>1
  <2>3. heap[b].val \in Rights
    BY <1>1, <1>6, <2>1, <2>2
  <2>4. QED
    BY <1>5, <2>1, <2>3
<1>10. CASE is_token(a) /\ is_token(b) /\ heap[a].name = heap[b].name
  BY <1>6, <1>10 DEF Respects
<1>11. CASE /\ heap[a].kind = "list" /\ heap[b].kind = "list"
            /\ Len(heap[a].elems) = Len(heap[b].elems)
            /\ Elems(Zip(heap[a].elems, heap[b].elems)) \subseteq asked
  <2>1. heap[a].elems \in Seq(D) /\ heap[b].elems \in Seq(D)
    BY <1>6, <1>11, HeapType DEF IInv
  <2>2. DOMAIN heap[a].elems = DOMAIN heap[b].elems
    BY <1>11, <2>1
  <2>3. ASSUME NEW i \in DOMAIN heap[a].elems
        PROVE  m[heap[a].elems[i]] = m[heap[b].elems[i]]
    <3> DEFINE c == heap[a].elems[i]
               d == heap[b].elems[i]
    <3>1. c \in D /\ d \in D
      BY <2>1, <2>2, <2>3
    <3>2. <<c, d>> \in asked
      BY <1>11, <2>3 DEF Zip, Elems
    <3>3. Depth(m[c]) < Depth(m[a]) /\ Depth(m[d]) < Depth(m[b])
      BY <1>6, <1>11, <2>2, <2>3 DEF Respects
    <3>4. Depth(m[c]) + Depth(m[d]) < n
      <4>1. /\ Depth(m[c]) \in Nat /\ Depth(m[d]) \in Nat
            /\ Depth(m[a]) \in Nat /\ Depth(m[b]) \in Nat
        BY <1>1, <1>6, <3>1
      <4> HIDE DEF c, d
      <4>2. QED
        BY <1>6, <3>3, <4>1
    <3>5. CASE m[c] # m[d]
      <4>1. <<c, d>> \in Wrong
        BY <3>2, <3>5
      <4>2. Sum(<<c, d>>) \in Sums /\ Sum(<<c, d>>) = Depth(m[c]) + Depth(m[d])
        BY <4>1
      <4> HIDE DEF c, d, Sum, Sums
      <4>3. n <= Depth(m[c]) + Depth(m[d])
        BY <1>2, <4>2
      <4>4. n \in Nat /\ Depth(m[c]) + Depth(m[d]) \in Nat
        BY <1>1, <1>6, <3>1
      <4>5. QED
        BY <3>4, <4>3, <4>4
    <3>6. QED
      BY <3>5
  <2>4. QED
    BY <1>6, <1>11, <2>2, <2>3, RespectsList
<1>12. QED
  BY <1>6, <1>7, <1>8, <1>9, <1>10, <1>11 DEF Settled

\* unify is right when it returns true: with the values it has assigned to
\* variables the two sides of every equation always stand for the same tree.
THEOREM FindsUnifier == Spec => []MakesEqual
<1>1. IInv => MakesEqual
  BY SettledEqual DEF MakesEqual, Unified
<1>2. QED
  BY <1>1, SpecIInv, PTL

\* unify assigns nothing that is not true of every solution, and it returns
\* false only when there is no solution.
THEOREM FindsMostGeneral == Spec => MostGeneral
<1>1. IInv /\ DepthInv /\ [Next]_fragments
        => [\A m \in Meanings(heap) : Solves(m) => Solves(m)' /\ ~failed']_<<heap, asked, failed>>
  <2> SUFFICES ASSUME IInv, DepthInv, UnifyStep, NEW m \in Meanings(heap), Solves(m)
               PROVE  Solves(m)' /\ ~failed'
    BY DEF Next, fragments
  <2> QED
    BY StepMostGeneral
<1>2. IInv /\ DepthInv /\ [Next]_fragments => IInv' /\ DepthInv'
  BY NextInv, DepthNext
<1>3. Init => IInv /\ DepthInv
  BY InitInv, DepthInit
<1>4. QED
  BY <1>1, <1>2, <1>3, PTL DEF Spec, MostGeneral
=============================================================================
