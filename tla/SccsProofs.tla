----------------------------- MODULE SccsProofs -----------------------------
(***************************************************************************)
(* What construct_sccs guarantees on every graph of dependencies: the      *)
(* search meets every expression once, and components are connected.       *)
(***************************************************************************)
EXTENDS Sccs, Induction, FiniteSetTheorems, TLAPS

-----------------------------------------------------------------------------
(* Reachability.                                                            *)

\* Dependencies as a graph.
IsGraph(d) == IsFiniteSet(DOMAIN d) /\ d \in [DOMAIN d -> Seq(DOMAIN d)]

\* A set with all that its members depend on.
Grown(d, S) == S \union UNION {Elements(d[x]) : x \in S}

ClosedIn(d, S) == S \subseteq DOMAIN d /\ \A x \in S : Elements(d[x]) \subseteq S

\* The recursive definition of ReachedIn defines a function.
LEMMA ReachedInDef ==
    ASSUME NEW d, IsFiniteSet(DOMAIN d), NEW e
    PROVE  LET N == Cardinality(DOMAIN d)
           IN  ReachedIn(d, e) =
                 [n \in 0 .. N |-> IF n = 0 THEN {e} ELSE Grown(d, ReachedIn(d, e)[n - 1])]
<1> DEFINE N == Cardinality(DOMAIN d)
           Is(f, k) == f = [n \in 0 .. k |-> IF n = 0 THEN {e} ELSE Grown(d, f[n - 1])]
           T == {k \in Nat : \E f : Is(f, k)}
<1>1. 0 \in T
  <2>1. Is([n \in 0 .. 0 |-> {e}], 0)
    OBVIOUS
  <2>2. QED BY <2>1
<1>2. ASSUME NEW k \in T
      PROVE  k + 1 \in T
  <2>1. PICK f : Is(f, k)
    OBVIOUS
  <2> DEFINE g == [n \in 0 .. (k + 1) |-> IF n = k + 1 THEN Grown(d, f[k]) ELSE f[n]]
  <2>2. k \in Nat /\ \A n \in 0 .. k : f[n] = IF n = 0 THEN {e} ELSE Grown(d, f[n - 1])
    BY <2>1
  <2>3. ASSUME NEW n \in 0 .. (k + 1)
        PROVE  g[n] = IF n = 0 THEN {e} ELSE Grown(d, g[n - 1])
    <3>1. CASE n = k + 1
      <4>1. g[n] = Grown(d, f[k]) /\ g[n - 1] = f[k] /\ n # 0
        BY <2>2, <3>1
      <4>2. QED BY <4>1
    <3>2. CASE n \in 0 .. k /\ n # 0
      <4>1. g[n] = f[n] /\ g[n - 1] = f[n - 1]
        BY <2>2, <3>2
      <4>2. QED BY <2>2, <3>2, <4>1
    <3>3. CASE n = 0
      BY <2>2, <3>3
    <3>4. QED
      BY <2>2, <3>1, <3>2, <3>3
  <2>4. Is(g, k + 1)
    <3> HIDE DEF g
    <3>1. g = [n \in 0 .. (k + 1) |-> g[n]]
      BY DEF g
    <3>2. QED
      BY <2>3, <3>1
  <2>5. QED
    <3> HIDE DEF Is, g
    <3> QED BY <2>2, <2>4
<1>3. T = Nat
  <2> HIDE DEF T
  <2>1. T \in SUBSET Nat
    BY DEF T
  <2>2. QED
    BY <1>1, <1>2, <2>1, InductionSet
<1>4. N \in Nat
  BY FS_CardinalityType
<1>5. \E f : Is(f, N)
  BY <1>3, <1>4
<1>6. ReachedIn(d, e) = CHOOSE f : Is(f, N)
  BY DEF ReachedIn, Grown
<1>7. Is(ReachedIn(d, e), N)
  <2> HIDE DEF Is
  <2> QED BY <1>5, <1>6
<1>8. QED
  BY <1>7

\* The values of ReachedIn, one after the other.
LEMMA ReachedSteps ==
    ASSUME NEW d, IsGraph(d), NEW e
    PROVE  /\ Cardinality(DOMAIN d) \in Nat
           /\ ReachedIn(d, e)[0] = {e}
           /\ \A n \in 0 .. (Cardinality(DOMAIN d) - 1) :
                 ReachedIn(d, e)[n + 1] = Grown(d, ReachedIn(d, e)[n])
<1> DEFINE N == Cardinality(DOMAIN d)
           r == ReachedIn(d, e)
<1>1. N \in Nat
  BY FS_CardinalityType DEF IsGraph
<1>2. r = [n \in 0 .. N |-> IF n = 0 THEN {e} ELSE Grown(d, r[n - 1])]
  BY ReachedInDef DEF IsGraph
<1> HIDE DEF r
<1>3. \A n \in 0 .. N : r[n] = IF n = 0 THEN {e} ELSE Grown(d, r[n - 1])
  BY <1>2
<1>4. ASSUME NEW n \in 0 .. (N - 1)
      PROVE  r[n + 1] = Grown(d, r[n])
  <2>1. n + 1 \in 0 .. N /\ n + 1 # 0 /\ (n + 1) - 1 = n
    BY <1>1
  <2>2. QED
    BY <1>3, <2>1
<1>5. QED
  BY <1>1, <1>3, <1>4 DEF r

\* What is reached is within every closed set that has the start in it.
LEMMA ReachedWithin ==
    ASSUME NEW d, IsGraph(d), NEW e, NEW C, ClosedIn(d, C), e \in C
    PROVE  \A n \in 0 .. Cardinality(DOMAIN d) : ReachedIn(d, e)[n] \subseteq C
<1> DEFINE N == Cardinality(DOMAIN d)
           r == ReachedIn(d, e)
           T == {n \in Nat : n <= N => r[n] \subseteq C}
<1>1. N \in Nat /\ r[0] = {e} /\ \A n \in 0 .. (N - 1) : r[n + 1] = Grown(d, r[n])
  BY ReachedSteps
<1> HIDE DEF N, r
<1>2. 0 \in T
  BY <1>1
<1>3. ASSUME NEW n \in T
      PROVE  n + 1 \in T
  <2> SUFFICES ASSUME n + 1 <= N
               PROVE  r[n + 1] \subseteq C
    OBVIOUS
  <2>1. n \in 0 .. (N - 1) /\ r[n] \subseteq C
    BY <1>1
  <2>2. r[n + 1] = Grown(d, r[n])
    BY <1>1, <2>1
  <2>3. QED
    BY <2>1, <2>2 DEF Grown, ClosedIn
<1>4. T = Nat
  <2>1. T \in SUBSET Nat
    OBVIOUS
  <2> HIDE DEF T
  <2>2. QED
    BY <1>2, <1>3, <2>1, InductionSet
<1>5. QED
  BY <1>1, <1>4 DEF N, r

\* The expressions of a graph are a closed set.
LEMMA DomainClosed ==
    ASSUME NEW d, IsGraph(d)
    PROVE  ClosedIn(d, DOMAIN d)
BY DEF IsGraph, ClosedIn, Elements

\* As long as it is not closed, what is reached grows: it cannot grow more often
\* than there are expressions.
LEMMA ReachedClosed ==
    ASSUME NEW d, IsGraph(d), NEW e \in DOMAIN d
    PROVE  /\ ClosedIn(d, ReachedIn(d, e)[Cardinality(DOMAIN d)])
           /\ e \in ReachedIn(d, e)[Cardinality(DOMAIN d)]
<1> DEFINE N == Cardinality(DOMAIN d)
           r == ReachedIn(d, e)
           T == {n \in Nat : n <= N =>
                    /\ e \in r[n]
                    /\ ClosedIn(d, r[n]) \/ Cardinality(r[n]) >= n + 1}
<1>1. N \in Nat /\ r[0] = {e} /\ \A n \in 0 .. (N - 1) : r[n + 1] = Grown(d, r[n])
  BY ReachedSteps
<1>2. \A n \in 0 .. N : r[n] \subseteq DOMAIN d
  BY ReachedWithin, DomainClosed
<1>3. \A n \in 0 .. N : IsFiniteSet(r[n]) /\ Cardinality(r[n]) \in Nat /\ Cardinality(r[n]) <= N
  BY <1>2, FS_Subset, FS_CardinalityType DEF IsGraph
<1> HIDE DEF r
<1>4. 0 \in T
  <2>1. e \in r[0] /\ Cardinality(r[0]) = 1
    BY <1>1, FS_Singleton
  <2>2. Cardinality(r[0]) >= 0 + 1
    BY <2>1
  <2> HIDE DEF N
  <2>3. QED
    BY <2>1, <2>2
<1>5. ASSUME NEW n \in T
      PROVE  n + 1 \in T
  <2> SUFFICES ASSUME n + 1 <= N
               PROVE  /\ e \in r[n + 1]
                      /\ ClosedIn(d, r[n + 1]) \/ Cardinality(r[n + 1]) >= (n + 1) + 1
    OBVIOUS
  <2> HIDE DEF N
  <2>1. n \in 0 .. (N - 1) /\ n \in 0 .. N /\ n + 1 \in 0 .. N /\ n \in Nat
    BY <1>1
  <2>2. /\ e \in r[n]
        /\ ClosedIn(d, r[n]) \/ Cardinality(r[n]) >= n + 1
    BY <1>1, <2>1
  <2>3. r[n + 1] = Grown(d, r[n])
    BY <1>1, <2>1
  <2>4. e \in r[n + 1] /\ r[n] \subseteq r[n + 1]
    BY <2>2, <2>3 DEF Grown
  <2>5. CASE ClosedIn(d, r[n])
    <3>1. r[n + 1] = r[n]
      BY <2>3, <2>5 DEF Grown, ClosedIn
    <3>2. QED
      BY <2>4, <2>5, <3>1
  <2>6. CASE ~ClosedIn(d, r[n])
    <3>1. r[n + 1] # r[n]
      BY <1>2, <2>1, <2>3, <2>6 DEF Grown, ClosedIn
    <3>2. /\ Cardinality(r[n]) <= Cardinality(r[n + 1])
          /\ Cardinality(r[n]) # Cardinality(r[n + 1])
      BY <1>3, <2>1, <2>4, <3>1, FS_Subset
    <3>3. QED
      BY <1>3, <2>1, <2>2, <2>4, <2>6, <3>2
  <2>7. QED
    BY <2>5, <2>6
<1>6. T = Nat
  <2>1. T \in SUBSET Nat
    OBVIOUS
  <2> HIDE DEF T
  <2>2. QED
    BY <1>4, <1>5, <2>1, InductionSet
<1>7. e \in r[N] /\ (ClosedIn(d, r[N]) \/ Cardinality(r[N]) >= N + 1)
  BY <1>1, <1>6
<1>8. Cardinality(r[N]) \in Nat /\ Cardinality(r[N]) <= N
  BY <1>1, <1>3
<1>9. QED
  BY <1>1, <1>7, <1>8 DEF r

\* Reaches in terms of the specification's operator.
LEMMA ReachableFacts ==
    ASSUME IsGraph(deps)
    PROVE  /\ \A e \in Exprs : e \in Reachable(e) /\ ClosedIn(deps, Reachable(e))
           /\ \A e \in Exprs : \A C : ClosedIn(deps, C) /\ e \in C => Reachable(e) \subseteq C
<1>1. ASSUME NEW e \in Exprs
      PROVE  e \in Reachable(e) /\ ClosedIn(deps, Reachable(e))
  BY ReachedClosed DEF Reachable, Exprs
<1>2. ASSUME NEW e \in Exprs, NEW C, ClosedIn(deps, C), e \in C
      PROVE  Reachable(e) \subseteq C
  <2>1. Cardinality(DOMAIN deps) \in 0 .. Cardinality(DOMAIN deps)
    BY ReachedSteps
  <2>2. QED
    BY <1>2, <2>1, ReachedWithin DEF Reachable, Exprs
<1>3. QED
  BY <1>1, <1>2

\* Reachability is transitive, and dependencies are reachable.
LEMMA ReachableTransitive ==
    ASSUME IsGraph(deps), NEW a \in Exprs, NEW b \in Reachable(a)
    PROVE  /\ b \in Exprs
           /\ Reachable(b) \subseteq Reachable(a)
           /\ Elements(deps[b]) \subseteq Reachable(a)
<1>1. ClosedIn(deps, Reachable(a))
  BY ReachableFacts
<1>2. b \in Exprs /\ Elements(deps[b]) \subseteq Reachable(a)
  BY <1>1 DEF ClosedIn, Exprs
<1>3. QED
  BY <1>1, <1>2, ReachableFacts

-----------------------------------------------------------------------------
(* The inductive invariant.                                                 *)

Visited == {e \in Exprs : lowlink[e] # 0}

\* The activations: each is one deeper than the one before, and what it is for
\* can be reached from all before.  No lowlink exceeds the depth.
CallsInv ==
    /\ \A k \in DOMAIN calls :
          /\ calls[k].preorder = k
          /\ calls[k].marker <= Len(stack)
          /\ calls[k].i \in 1 .. (Len(deps[calls[k].s]) + 1)
          /\ lowlink[calls[k].s] \in 1 .. k
    /\ \A j, k \in DOMAIN calls :
          j <= k => calls[j].marker <= calls[k].marker /\ calls[k].s \in Reachable(calls[j].s)

\* An expression on the stack can be reached from all activations that it was
\* pushed under, and leads to one of them that is no deeper than its lowlink
\* says, even if the lowlink was that of an activation that is over.
StackInv ==
    \A p \in DOMAIN stack :
        /\ \A k \in DOMAIN calls : calls[k].marker < p => stack[p] \in Reachable(calls[k].s)
        /\ \E k \in DOMAIN calls : /\ k <= lowlink[stack[p]]
                                  /\ calls[k].marker < p
                                  /\ calls[k].s \in Reachable(stack[p])

\* So does an expression that is being searched.
ActiveInv ==
    \A j \in DOMAIN calls :
        \E k \in DOMAIN calls : k <= lowlink[calls[j].s] /\ calls[k].s \in Reachable(calls[j].s)

\* What a loop has been through has been visited.
VisitedInv ==
    /\ \A e \in Visited \ Active : Elements(deps[e]) \subseteq Visited
    /\ \A k \in DOMAIN calls : \A n \in 1 .. (calls[k].i - 1) : deps[calls[k].s][n] \in Visited

\* What has been visited can be reached from the program.
OriginInv ==
    /\ Visited \subseteq UNION {Reachable(e) : e \in Elements(input.exprs)}
    /\ \A n \in 1 .. (next - 1) : input.exprs[n] \in Visited

IInv == /\ input \in Inputs
        /\ TypeOK
        /\ OnePlaceEach
        /\ CallsInv
        /\ StackInv
        /\ ActiveInv
        /\ VisitedInv
        /\ OriginInv
        /\ Connected

\* The assumptions on inputs, for the one at hand.
LEMMA InputFacts ==
    ASSUME input \in Inputs
    PROVE  /\ IsGraph(deps)
           /\ deps \in [Exprs -> Seq(Exprs)]
           /\ input.exprs \in Seq(Exprs)
           /\ Cardinality(Exprs) \in Nat /\ Cardinality(Exprs) < UINT_MAX /\ UINT_MAX \in Nat
<1>1. /\ IsFiniteSet(DOMAIN input.deps)
      /\ input.deps \in [DOMAIN input.deps -> Seq(DOMAIN input.deps)]
      /\ input.exprs \in Seq(DOMAIN input.deps)
  BY InputsAssumption
<1>2. UINT_MAX \in Nat /\ Cardinality(DOMAIN input.deps) < UINT_MAX
  BY DepthAssumption
<1>3. Cardinality(DOMAIN input.deps) \in Nat
  BY <1>1, FS_CardinalityType
<1>4. QED
  BY <1>1, <1>2, <1>3 DEF IsGraph, deps, Exprs

\* Reachability does not change during the search.
LEMMA SameGraph ==
    ASSUME input' = input
    PROVE  deps' = deps /\ Exprs' = Exprs /\ \A e : Reachable(e)' = Reachable(e)
BY DEF deps, Exprs, Reachable

\* The invariant holds before the search.
LEMMA InitIInv == Init => IInv
<1> SUFFICES ASSUME Init
             PROVE  IInv
  OBVIOUS
<1>1. /\ input \in Inputs /\ next = 1 /\ calls = <<>> /\ stack = <<>> /\ sccs = <<>>
      /\ lowlink = [e \in Exprs |-> 0]
  BY DEF Init, Exprs, deps
<1>2. input.exprs \in Seq(Exprs) /\ UINT_MAX \in Nat /\ UINT_MAX > 0
  BY <1>1, InputFacts
<1>3. TypeOK
  <2>1. next \in 1 .. (Len(input.exprs) + 1)
    BY <1>1, <1>2
  <2>2. lowlink \in [Exprs -> 0 .. UINT_MAX]
    BY <1>1, <1>2
  <2>3. QED
    BY <1>1, <2>1, <2>2 DEF TypeOK
<1>4. OnePlaceEach
  <2>1. Elements(stack) = {} /\ Active = {} /\ Placed = {}
    BY <1>1 DEF Elements, Active, Placed
  <2>2. \A e \in Exprs : lowlink[e] = 0
    BY <1>1
  <2>3. QED
    BY <1>1, <1>2, <2>1, <2>2 DEF OnePlaceEach
<1>5. Visited = {}
  BY <1>1 DEF Visited
<1>6. CallsInv /\ StackInv /\ ActiveInv /\ Connected
  BY <1>1 DEF CallsInv, StackInv, ActiveInv, Connected
<1>7. VisitedInv /\ OriginInv
  BY <1>1, <1>5 DEF VisitedInv, OriginInv
<1>8. QED
  BY <1>1, <1>3, <1>4, <1>6, <1>7 DEF IInv

\* What TypeOK says of the elements of sequences.
LEMMA ElementTypes ==
    ASSUME IInv
    PROVE  /\ Len(calls) \in Nat /\ DOMAIN calls = 1 .. Len(calls)
           /\ \A k \in DOMAIN calls : /\ calls[k].s \in Exprs
                                      /\ calls[k].preorder \in Nat
                                      /\ calls[k].marker \in Nat
                                      /\ calls[k].i \in Nat
           /\ Len(stack) \in Nat /\ DOMAIN stack = 1 .. Len(stack)
           /\ \A p \in DOMAIN stack : stack[p] \in Exprs
           /\ \A e \in Exprs : lowlink[e] \in 0 .. UINT_MAX
           /\ \A e \in Exprs : Len(deps[e]) \in Nat /\ DOMAIN deps[e] = 1 .. Len(deps[e])
           /\ \A e \in Exprs : \A n \in DOMAIN deps[e] : deps[e][n] \in Exprs
<1> DEFINE C == [s : Exprs, preorder : Nat, marker : Nat, i : Nat]
<1>1. calls \in Seq(C) /\ stack \in Seq(Exprs) /\ lowlink \in [Exprs -> 0 .. UINT_MAX]
  BY DEF IInv, TypeOK
<1>2. \A c \in C : c.s \in Exprs /\ c.preorder \in Nat /\ c.marker \in Nat /\ c.i \in Nat
  OBVIOUS
<1>3. \A e \in Exprs : deps[e] \in Seq(Exprs)
  BY InputFacts DEF IInv
<1> HIDE DEF C
<1>4. \A k \in DOMAIN calls : calls[k] \in C
  BY <1>1
<1>5. QED
  BY <1>1, <1>2, <1>3, <1>4

\* The innermost activation.
LEMMA TopFacts ==
    ASSUME IInv, calls # <<>>
    PROVE  /\ Len(calls) \in Nat \ {0} /\ Len(calls) \in DOMAIN calls
           /\ top = calls[Len(calls)] /\ top.s \in Exprs /\ top.s \in Active
           /\ top.preorder = Len(calls)
           /\ top.marker \in Nat /\ top.marker <= Len(stack)
           /\ top.i \in 1 .. (Len(deps[top.s]) + 1)
           /\ lowlink[top.s] \in 1 .. Len(calls)
<1>1. Len(calls) \in Nat \ {0} /\ Len(calls) \in DOMAIN calls
  <2>1. Len(calls) # 0
    BY DEF IInv, TypeOK
  <2>2. QED
    BY <2>1, ElementTypes
<1>2. top = calls[Len(calls)]
  BY DEF top
<1>3. top.s \in Exprs /\ top.s \in Active /\ top.marker \in Nat
  BY <1>1, <1>2, ElementTypes DEF Active
<1>4. /\ top.preorder = Len(calls) /\ top.marker <= Len(stack)
      /\ top.i \in 1 .. (Len(deps[top.s]) + 1)
      /\ lowlink[top.s] \in 1 .. Len(calls)
  BY <1>1, <1>2 DEF IInv, CallsInv
<1>5. QED
  BY <1>1, <1>2, <1>3, <1>4

\* The search is never deeper than there are expressions.
LEMMA DepthBound ==
    ASSUME IInv, NEW s \in Exprs, lowlink[s] = 0
    PROVE  /\ s \notin Active /\ s \notin Elements(stack) /\ s \notin Placed
           /\ Len(calls) + 1 < UINT_MAX
<1> DEFINE n == Len(calls)
           f == [k \in 1 .. (n + 1) |-> IF k = n + 1 THEN s ELSE calls[k].s]
<1>1. s \notin Active /\ s \notin Elements(stack) /\ s \notin Placed
  <2>1. 0 \notin 1 .. (UINT_MAX - 1) /\ 0 # UINT_MAX
    BY InputFacts DEF IInv
  <2>2. QED
    BY <2>1 DEF IInv, OnePlaceEach
<1>2. n \in Nat /\ DOMAIN calls = 1 .. n /\ \A k \in 1 .. n : calls[k].s \in Exprs
  BY ElementTypes
<1> HIDE DEF n
<1>3. f \in [1 .. (n + 1) -> Exprs]
  BY <1>2
<1>4. ASSUME NEW x \in 1 .. (n + 1), NEW y \in 1 .. (n + 1), f[x] = f[y]
      PROVE  x = y
  <2>1. \A i, j \in 1 .. n : calls[i].s = calls[j].s => i = j
    BY <1>2 DEF IInv, OnePlaceEach
  <2>2. \A i \in 1 .. n : calls[i].s # s
    BY <1>1, <1>2 DEF Active
  <2>3. QED
    BY <1>2, <1>4, <2>1, <2>2
<1>5. IsFiniteSet(1 .. (n + 1)) /\ Cardinality(1 .. (n + 1)) = n + 1
  BY <1>2, FS_Interval
<1>6. IsFiniteSet(Exprs) /\ Cardinality(Exprs) \in Nat /\ Cardinality(Exprs) < UINT_MAX /\ UINT_MAX \in Nat
  BY InputFacts DEF IInv, IsGraph, Exprs
<1>7. ~(Cardinality(Exprs) < n + 1)
  <2> DEFINE S == 1 .. (n + 1)
  <2>1. /\ f \in [S -> Exprs] /\ IsFiniteSet(S) /\ IsFiniteSet(Exprs) /\ Cardinality(S) = n + 1
        /\ \A x, y \in S : f[x] = f[y] => x = y
    BY <1>3, <1>4, <1>5, <1>6
  <2> HIDE DEF f, S
  <2>2. SUFFICES ASSUME Cardinality(Exprs) < Cardinality(S)
                 PROVE  FALSE
    BY <2>1
  <2>3. \E x, y \in S : x # y /\ f[x] = f[y]
    BY <2>1, <2>2, FS_PigeonHole
  <2>4. QED
    BY <2>1, <2>3
<1>8. n + 1 < UINT_MAX
  BY <1>2, <1>6, <1>7
<1>9. QED
  BY <1>1, <1>8 DEF n

\* The beginning of an activation of construct_sccs keeps the invariant.
LEMMA EnterInv ==
    ASSUME IInv, NEW s \in Exprs, lowlink[s] = 0,
           Enter(s, Len(calls) + 1),
           \A k \in DOMAIN calls : s \in Reachable(calls[k].s),
           s \in UNION {Reachable(e) : e \in Elements(input.exprs)},
           UNCHANGED <<input, stack, sccs>>,
           next' \in 1 .. (Len(input.exprs) + 1),
           \A n \in 1 .. (next' - 1) : input.exprs[n] \in Visited \union {s}
    PROVE  IInv'
<1> DEFINE n == Len(calls)
           c == Call(s, n + 1)
<1>1. lowlink' = [lowlink EXCEPT ![s] = n + 1] /\ calls' = Append(calls, c)
  BY DEF Enter
<1>2. /\ s \notin Active /\ s \notin Elements(stack) /\ s \notin Placed
      /\ n + 1 < UINT_MAX
  BY DepthBound
<1>3. /\ n \in Nat /\ DOMAIN calls = 1 .. n
      /\ \A k \in DOMAIN calls : calls[k].s \in Exprs /\ calls[k].marker \in Nat /\ calls[k].i \in Nat
      /\ Len(stack) \in Nat /\ DOMAIN stack = 1 .. Len(stack)
      /\ \A p \in DOMAIN stack : stack[p] \in Exprs
  BY ElementTypes
<1>4. /\ deps' = deps /\ Exprs' = Exprs /\ \A e : Reachable(e)' = Reachable(e)
      /\ input' = input /\ stack' = stack /\ sccs' = sccs
  BY SameGraph
<1>5. /\ IsGraph(deps) /\ deps \in [Exprs -> Seq(Exprs)]
      /\ UINT_MAX \in Nat
  BY InputFacts DEF IInv
<1>6. /\ lowlink \in [Exprs -> 0 .. UINT_MAX]
      /\ calls \in Seq([s : Exprs, preorder : Nat, marker : Nat, i : Nat])
  BY DEF IInv, TypeOK
<1>7. /\ c \in [s : Exprs, preorder : Nat, marker : Nat, i : Nat]
      /\ c.s = s /\ c.preorder = n + 1 /\ c.marker = Len(stack) /\ c.i = 1
  BY <1>3 DEF Call
<1>len. n \in Nat
  BY <1>3
<1> HIDE DEF n, c
<1>range. /\ n + 1 \in 1 .. (n + 1) /\ n + 1 <= n + 1
          /\ 1 .. (n + 1) = (1 .. n) \union {n + 1}
          /\ \A k \in 1 .. n : k \in 1 .. (n + 1)
          /\ \A k \in 1 .. (n + 1) : k \in 1 .. n \/ k = n + 1
  BY <1>len
<1>8. /\ calls' \in Seq([s : Exprs, preorder : Nat, marker : Nat, i : Nat])
      /\ DOMAIN calls' = 1 .. (n + 1)
      /\ \A k \in 1 .. n : calls'[k] = calls[k]
      /\ calls'[n + 1] = c
  <2> DEFINE C == [s : Exprs, preorder : Nat, marker : Nat, i : Nat]
  <2>1. calls \in Seq(C) /\ c \in C
    BY <1>6, <1>7
  <2> HIDE DEF C
  <2>2. /\ calls' \in Seq(C) /\ DOMAIN calls' = 1 .. (n + 1)
        /\ \A k \in 1 .. n : calls'[k] = calls[k]
        /\ calls'[n + 1] = c
    BY <1>1, <2>1 DEF n
  <2>3. QED
    BY <2>2 DEF C
<1>9. /\ lowlink' \in [Exprs -> 0 .. UINT_MAX] /\ lowlink'[s] = n + 1
      /\ \A e \in Exprs : e # s => lowlink'[e] = lowlink[e]
  BY <1>1, <1>2, <1>3, <1>5, <1>6
<1>10. Active' = Active \union {s}
  <2>1. \A k \in 1 .. n : calls'[k].s = calls[k].s
    BY <1>8
  <2>2. calls'[n + 1].s = s
    BY <1>7, <1>8
  <2>3. Active' = {calls'[k].s : k \in (1 .. n) \union {n + 1}}
    BY <1>range, <1>8 DEF Active
  <2>4. Active = {calls[k].s : k \in 1 .. n}
    BY <1>3 DEF Active
  <2>5. QED
    BY <2>1, <2>2, <2>3, <2>4
<1>11. Visited' = Visited \union {s}
  BY <1>3, <1>4, <1>9 DEF Visited
<1>12. input' \in Inputs
  BY <1>4 DEF IInv
<1>13. TypeOK'
  BY <1>4, <1>8, <1>9 DEF IInv, TypeOK
<1>14. OnePlaceEach'
  <2>1. Placed' = Placed /\ Elements(stack)' = Elements(stack)
    BY <1>4 DEF Placed, Elements
  <2>2. /\ \A i, j \in DOMAIN stack : stack[i] = stack[j] => i = j
        /\ \A i, j \in DOMAIN calls : calls[i].s = calls[j].s => i = j
        /\ Elements(stack) \intersect Active = {}
        /\ Placed = {e \in Exprs : lowlink[e] = UINT_MAX}
        /\ Elements(stack) \union Active = {e \in Exprs : lowlink[e] \in 1 .. (UINT_MAX - 1)}
    BY DEF IInv, OnePlaceEach
  <2>3. ASSUME NEW i \in DOMAIN calls', NEW j \in DOMAIN calls', calls'[i].s = calls'[j].s
        PROVE  i = j
    <3>1. \A k \in 1 .. n : calls'[k].s = calls[k].s /\ calls[k].s # s
      BY <1>2, <1>3, <1>8 DEF Active
    <3>2. calls'[n + 1].s = s
      BY <1>7, <1>8
    <3>3. \A k \in DOMAIN calls' : k \in DOMAIN calls \/ k = n + 1
      BY <1>range, <1>3, <1>8
    <3>4. QED
      BY <1>3, <2>2, <2>3, <3>1, <3>2, <3>3
  <2>4. Placed = {e \in Exprs : lowlink'[e] = UINT_MAX}
    BY <1>2, <1>3, <1>5, <1>9, <2>2
  <2>5. n + 1 \in 1 .. (UINT_MAX - 1)
    BY <1>2, <1>3, <1>5
  <2>6. Elements(stack) \union Active' = {e \in Exprs : lowlink'[e] \in 1 .. (UINT_MAX - 1)}
    BY <1>9, <1>10, <2>2, <2>5
  <2>7. Elements(stack) \intersect Active' = {}
    BY <1>2, <1>10, <2>2
  <2>8. \A i, j \in DOMAIN sccs :
          \A a \in DOMAIN sccs[i], b \in DOMAIN sccs[j] : sccs[i][a] = sccs[j][b] => <<i, a>> = <<j, b>>
    BY DEF IInv, OnePlaceEach
  <2>9. QED
    BY <1>4, <2>1, <2>2, <2>3, <2>4, <2>6, <2>7, <2>8 DEF OnePlaceEach
<1>15. CallsInv'
  <2>1. ASSUME NEW k \in 1 .. n
        PROVE  /\ calls'[k].preorder = k
               /\ calls'[k].marker <= Len(stack)
               /\ calls'[k].i \in 1 .. (Len(deps[calls'[k].s]) + 1)
               /\ lowlink'[calls'[k].s] \in 1 .. k
    <3>1. calls[k].s # s /\ calls[k].s \in Exprs
      BY <1>2, <1>3 DEF Active
    <3>2. QED
      BY <1>3, <1>8, <1>9, <3>1 DEF IInv, CallsInv
  <2>2. /\ c.preorder = n + 1
        /\ c.marker <= Len(stack)
        /\ c.i \in 1 .. (Len(deps[c.s]) + 1)
        /\ lowlink'[c.s] \in 1 .. (n + 1)
    <3>1. Len(deps[s]) \in Nat
      BY <1>5
    <3>2. QED
      BY <1>3, <1>7, <1>9, <3>1
  <2>3. ASSUME NEW j \in 1 .. (n + 1), NEW k \in 1 .. (n + 1), j <= k
        PROVE  calls'[j].marker <= calls'[k].marker /\ calls'[k].s \in Reachable(calls'[j].s)
    <3>1. CASE k \in 1 .. n
      <4>1. j \in 1 .. n
        BY <1>3, <2>3, <3>1
      <4>2. QED
        BY <1>3, <1>8, <2>3, <3>1, <4>1 DEF IInv, CallsInv
    <3>2. CASE k = n + 1 /\ j \in 1 .. n
      BY <1>3, <1>7, <1>8, <2>1, <3>2
    <3>3. CASE k = n + 1 /\ j = n + 1
      <4>1. s \in Reachable(s)
        BY <1>5, ReachableFacts
      <4>2. QED
        BY <1>3, <1>7, <1>8, <3>3, <4>1
    <3>4. QED
      BY <1>range, <3>1, <3>2, <3>3
  <2>4. QED
    BY <1>range, <1>4, <1>8, <2>1, <2>2, <2>3 DEF CallsInv
<1>16. StackInv'
  <2>1. ASSUME NEW p \in DOMAIN stack
        PROVE  /\ \A k \in 1 .. (n + 1) : calls'[k].marker < p => stack[p] \in Reachable(calls'[k].s)
               /\ \E k \in 1 .. (n + 1) : /\ k <= lowlink'[stack[p]]
                                          /\ calls'[k].marker < p
                                          /\ calls'[k].s \in Reachable(stack[p])
    <3>1. ~(calls'[n + 1].marker < p)
      BY <1>3, <1>7, <1>8
    <3>2. \A k \in 1 .. n : calls'[k].marker < p => stack[p] \in Reachable(calls'[k].s)
      BY <1>3, <1>8 DEF IInv, StackInv
    <3>3. stack[p] \in Exprs /\ stack[p] # s
      BY <1>2, <1>3 DEF Elements
    <3>4. lowlink'[stack[p]] = lowlink[stack[p]]
      BY <1>9, <3>3
    <3>5. PICK k \in 1 .. n : /\ k <= lowlink[stack[p]]
                              /\ calls[k].marker < p
                              /\ calls[k].s \in Reachable(stack[p])
      BY <1>3 DEF IInv, StackInv
    <3>6. k \in 1 .. (n + 1) /\ calls'[k] = calls[k]
      BY <1>range, <1>8
    <3>7. QED
      BY <1>range, <3>1, <3>2, <3>4, <3>5, <3>6
  <2>2. QED
    BY <1>4, <1>8, <2>1 DEF StackInv
<1>17. ActiveInv'
  <2>1. ASSUME NEW j \in 1 .. (n + 1)
        PROVE  \E k \in 1 .. (n + 1) : k <= lowlink'[calls'[j].s] /\ calls'[k].s \in Reachable(calls'[j].s)
    <3>1. CASE j = n + 1
      <4>1. s \in Reachable(s)
        BY <1>5, ReachableFacts
      <4>2. calls'[n + 1].s = s /\ n + 1 \in 1 .. (n + 1) /\ n + 1 <= n + 1
        BY <1>range, <1>7, <1>8
      <4>3. QED
        BY <1>9, <3>1, <4>1, <4>2
    <3>2. CASE j \in 1 .. n
      <4>1. calls[j].s # s /\ calls[j].s \in Exprs /\ calls'[j] = calls[j]
        BY <1>2, <1>3, <1>8, <3>2 DEF Active
      <4>2. PICK k \in 1 .. n : k <= lowlink[calls[j].s] /\ calls[k].s \in Reachable(calls[j].s)
        BY <1>3, <3>2 DEF IInv, ActiveInv
      <4>3. k \in 1 .. (n + 1) /\ calls'[k] = calls[k] /\ lowlink'[calls[j].s] = lowlink[calls[j].s]
        BY <1>range, <1>8, <1>9, <4>1
      <4>4. QED
        BY <4>1, <4>2, <4>3
    <3>3. QED
      BY <1>range, <3>1, <3>2
  <2>2. QED
    BY <1>4, <1>8, <2>1 DEF ActiveInv
<1>18. VisitedInv'
  <2>1. ASSUME NEW e \in Visited' \ Active'
        PROVE  Elements(deps[e]) \subseteq Visited'
    BY <1>10, <1>11, <2>1 DEF IInv, VisitedInv
  <2>2. ASSUME NEW k \in 1 .. n, NEW l \in 1 .. (calls'[k].i - 1)
        PROVE  deps[calls'[k].s][l] \in Visited'
    BY <1>3, <1>8, <1>11 DEF IInv, VisitedInv
  <2>3. \A l \in 1 .. (calls'[n + 1].i - 1) : FALSE
    BY <1>7, <1>8
  <2>4. \A e : Elements(deps[e])' = Elements(deps[e])
    BY <1>4 DEF Elements
  <2>5. QED
    BY <1>range, <1>4, <1>8, <2>1, <2>2, <2>3, <2>4 DEF VisitedInv
<1>19. OriginInv'
  <2>1. (UNION {Reachable(e) : e \in Elements(input.exprs)})'
           = UNION {Reachable(e) : e \in Elements(input.exprs)}
    BY <1>4 DEF Elements
  <2>2. QED
    BY <1>4, <1>11, <2>1 DEF IInv, OriginInv
<1>20. Connected'
  BY <1>4 DEF IInv, Connected, Elements
<1>21. QED
  BY <1>12, <1>13, <1>14, <1>15, <1>16, <1>17, <1>18, <1>19, <1>20 DEF IInv

\* infer_types calls construct_sccs on the next expression.
LEMMA StartInv ==
    ASSUME IInv, Start
    PROVE  IInv'
<1> DEFINE s == input.exprs[next]
<1>1. /\ calls = <<>> /\ next <= Len(input.exprs) /\ Enter(s, 1) /\ next' = next + 1
      /\ input' = input /\ stack' = stack /\ sccs' = sccs
  BY DEF Start
<1>2. input.exprs \in Seq(Exprs) /\ next \in 1 .. (Len(input.exprs) + 1) /\ IsGraph(deps)
  BY InputFacts DEF IInv, TypeOK
<1>3. /\ next \in Nat /\ next \in 1 .. Len(input.exprs) /\ next' \in 1 .. (Len(input.exprs) + 1)
      /\ \A n \in 1 .. (next' - 1) : n \in 1 .. (next - 1) \/ n = next
  BY <1>1, <1>2
<1>4. s \in Exprs /\ s \in Elements(input.exprs)
  BY <1>2, <1>3 DEF Elements
<1> HIDE DEF s
<1>5. \A n \in 1 .. (next' - 1) : input.exprs[n] \in Visited \union {s}
  BY <1>3 DEF IInv, OriginInv, s
<1>6. CASE lowlink[s] = 0
  <2>1. s \in UNION {Reachable(e) : e \in Elements(input.exprs)}
    BY <1>2, <1>4, ReachableFacts
  <2>2. Len(calls) + 1 = 1 /\ DOMAIN calls = {}
    BY <1>1
  <2>3. QED
    BY <1>1, <1>3, <1>4, <1>5, <1>6, <2>1, <2>2, EnterInv
<1>7. CASE lowlink[s] # 0
  <2>1. lowlink' = lowlink /\ calls' = calls
    BY <1>1, <1>7 DEF Enter
  <2>2. deps' = deps /\ Exprs' = Exprs /\ \A e : Reachable(e)' = Reachable(e)
    BY <1>1, SameGraph
  <2>3. s \in Visited
    BY <1>4, <1>7 DEF Visited
  <2>4. TypeOK'
    BY <1>1, <1>3, <2>1, <2>2 DEF IInv, TypeOK
  <2>5. OnePlaceEach'
    BY <1>1, <2>1, <2>2 DEF IInv, OnePlaceEach, Placed, Active, Elements
  <2>6. CallsInv' /\ StackInv' /\ ActiveInv'
    BY <1>1, <2>1, <2>2 DEF IInv, CallsInv, StackInv, ActiveInv
  <2>7. Visited' = Visited
    BY <2>1, <2>2 DEF Visited
  <2>8. VisitedInv' /\ Connected'
    BY <1>1, <2>1, <2>2, <2>7 DEF IInv, VisitedInv, Connected, Active, Elements
  <2>9. OriginInv'
    BY <1>1, <1>5, <2>2, <2>3, <2>7 DEF IInv, OriginInv, Elements
  <2>10. input' \in Inputs
    BY <1>1 DEF IInv
  <2>11. QED
    BY <2>4, <2>5, <2>6, <2>8, <2>9, <2>10 DEF IInv
<1>8. QED
  BY <1>6, <1>7

\* What the loop of the innermost activation is at.
LEMMA DependencyFacts ==
    ASSUME IInv, InLoop
    PROVE  /\ calls # <<>> /\ top.i \in DOMAIN deps[top.s]
           /\ dependency \in Exprs
           /\ dependency \in Elements(deps[top.s])
           /\ dependency \in Reachable(top.s)
           /\ \A k \in DOMAIN calls : dependency \in Reachable(calls[k].s)
<1>1. calls # <<>> /\ top.i <= Len(deps[top.s])
  BY DEF InLoop
<1>2. /\ Len(calls) \in DOMAIN calls /\ Len(calls) \in Nat
      /\ top = calls[Len(calls)] /\ top.s \in Exprs
      /\ top.i \in 1 .. (Len(deps[top.s]) + 1)
  BY <1>1, TopFacts
<1>3. /\ Len(deps[top.s]) \in Nat /\ DOMAIN deps[top.s] = 1 .. Len(deps[top.s])
      /\ \A n \in DOMAIN deps[top.s] : deps[top.s][n] \in Exprs
  BY <1>2, ElementTypes
<1>4. top.i \in DOMAIN deps[top.s]
  BY <1>1, <1>2, <1>3
<1>5. dependency \in Exprs /\ dependency \in Elements(deps[top.s])
  BY <1>3, <1>4 DEF dependency, Elements
<1>6. IsGraph(deps)
  BY InputFacts DEF IInv
<1>7. ASSUME NEW a \in Exprs, top.s \in Reachable(a)
      PROVE  dependency \in Reachable(a)
  BY <1>5, <1>6, <1>7, ReachableTransitive
<1>8. top.s \in Reachable(top.s)
  BY <1>2, <1>6, ReachableFacts
<1>9. \A k \in DOMAIN calls : top.s \in Reachable(calls[k].s) /\ calls[k].s \in Exprs
  <2>1. \A k \in DOMAIN calls : k <= Len(calls)
    BY ElementTypes
  <2>2. QED
    BY <1>2, <2>1, ElementTypes DEF IInv, CallsInv
<1>10. QED
  BY <1>1, <1>2, <1>4, <1>5, <1>7, <1>8, <1>9

\* The loop calls construct_sccs on an expression not visited before.
LEMMA DescendInv ==
    ASSUME IInv, Descend
    PROVE  IInv'
<1>1. /\ InLoop /\ lowlink[dependency] = 0 /\ Enter(dependency, top.preorder + 1)
      /\ input' = input /\ next' = next /\ stack' = stack /\ sccs' = sccs
  BY DEF Descend
<1>2. /\ calls # <<>> /\ dependency \in Exprs /\ dependency \in Reachable(top.s)
      /\ \A k \in DOMAIN calls : dependency \in Reachable(calls[k].s)
  BY <1>1, DependencyFacts
<1>3. top.preorder = Len(calls) /\ top.s \in Exprs /\ top.s \in Visited
  BY <1>2, TopFacts DEF Visited
<1>4. IsGraph(deps) /\ input.exprs \in Seq(Exprs)
  BY InputFacts DEF IInv
<1>5. PICK e \in Elements(input.exprs) : top.s \in Reachable(e)
  BY <1>3 DEF IInv, OriginInv
<1>6. e \in Exprs
  BY <1>4 DEF Elements
<1>7. dependency \in Reachable(e)
  BY <1>2, <1>4, <1>5, <1>6, ReachableTransitive
<1>8. dependency \in UNION {Reachable(x) : x \in Elements(input.exprs)}
  BY <1>7
<1>9. next' \in 1 .. (Len(input.exprs) + 1) /\ \A n \in 1 .. (next' - 1) : input.exprs[n] \in Visited
  BY <1>1 DEF IInv, TypeOK, OriginInv
<1>10. Enter(dependency, Len(calls) + 1)
  BY <1>1, <1>3
<1>11. QED
  BY <1>1, <1>2, <1>8, <1>9, <1>10, EnterInv

\* An expression in no component yet leads to an activation no deeper than its
\* lowlink says.
LEMMA LeadsBack ==
    ASSUME IInv, NEW x \in Exprs, lowlink[x] \in 1 .. (UINT_MAX - 1)
    PROVE  \E k \in DOMAIN calls : k <= lowlink[x] /\ calls[k].s \in Reachable(x)
<1>1. x \in Elements(stack) \/ x \in Active
  BY DEF IInv, OnePlaceEach
<1>2. CASE x \in Elements(stack)
  BY <1>2 DEF IInv, StackInv, Elements
<1>3. CASE x \in Active
  BY <1>3 DEF IInv, ActiveInv, Active
<1>4. QED
  BY <1>1, <1>2, <1>3

\* The loop takes over the lowlink of a dependency.
LEMMA CompareInv ==
    ASSUME IInv, Compare
    PROVE  IInv'
<1> DEFINE n == Len(calls)
           s == top.s
           x == dependency
<1>1. /\ InLoop /\ lowlink[x] # 0
      /\ lowlink' = [lowlink EXCEPT ![s] = IF lowlink[x] < @ THEN lowlink[x] ELSE @]
      /\ calls' = [calls EXCEPT ![n].i = @ + 1]
      /\ input' = input /\ next' = next /\ stack' = stack /\ sccs' = sccs
  BY DEF Compare
<1>2. /\ calls # <<>> /\ calls[n].i \in DOMAIN deps[s]
      /\ x = deps[s][calls[n].i] /\ x \in Exprs /\ x \in Reachable(s)
  BY <1>1, DependencyFacts DEF dependency, top
<1>3. /\ n \in Nat \ {0} /\ n \in DOMAIN calls /\ s = calls[n].s /\ s \in Exprs /\ s \in Active
      /\ lowlink[s] \in 1 .. n
  BY <1>2, TopFacts DEF top
<1>4. /\ DOMAIN calls = 1 .. n
      /\ \A k \in DOMAIN calls : calls[k].s \in Exprs /\ calls[k].marker \in Nat /\ calls[k].i \in Nat
      /\ DOMAIN stack = 1 .. Len(stack) /\ Len(stack) \in Nat
      /\ \A p \in DOMAIN stack : stack[p] \in Exprs
      /\ \A e \in Exprs : lowlink[e] \in 0 .. UINT_MAX
      /\ Len(deps[s]) \in Nat /\ DOMAIN deps[s] = 1 .. Len(deps[s])
  BY <1>3, ElementTypes
<1>5. deps' = deps /\ Exprs' = Exprs /\ \A e : Reachable(e)' = Reachable(e)
  BY <1>1, SameGraph
<1>6. IsGraph(deps) /\ UINT_MAX \in Nat
  BY InputFacts DEF IInv
<1> HIDE DEF n, s, x
<1>7. /\ calls' \in Seq([s : Exprs, preorder : Nat, marker : Nat, i : Nat])
      /\ DOMAIN calls' = DOMAIN calls
      /\ \A k \in DOMAIN calls : /\ calls'[k].s = calls[k].s
                                 /\ calls'[k].marker = calls[k].marker
                                 /\ calls'[k].preorder = calls[k].preorder
                                 /\ k # n => calls'[k].i = calls[k].i
      /\ calls'[n].i = calls[n].i + 1
  <2> DEFINE C == [s : Exprs, preorder : Nat, marker : Nat, i : Nat]
             c == [calls[n] EXCEPT !.i = @ + 1]
  <2>1. calls \in Seq(C)
    BY DEF IInv, TypeOK
  <2>2. calls[n] \in C
    <3> HIDE DEF C
    <3> QED BY <1>3, <2>1
  <2>3. /\ c \in C /\ c.s = calls[n].s /\ c.marker = calls[n].marker
        /\ c.preorder = calls[n].preorder /\ c.i = calls[n].i + 1
    BY <2>2
  <2>4. calls' = [calls EXCEPT ![n] = c]
    BY <1>1
  <2> HIDE DEF C, c
  <2>5. calls' \in Seq(C) /\ DOMAIN calls' = DOMAIN calls
    BY <1>3, <2>1, <2>3, <2>4
  <2>6. \A k \in DOMAIN calls : calls'[k] = IF k = n THEN c ELSE calls[k]
    BY <2>1, <2>4
  <2>7. QED
    BY <1>3, <2>3, <2>5, <2>6 DEF C
<1>8. /\ lowlink' \in [Exprs -> 0 .. UINT_MAX]
      /\ \A e \in Exprs : e # s => lowlink'[e] = lowlink[e]
      /\ \/ lowlink'[s] = lowlink[s]
         \/ lowlink'[s] = lowlink[x] /\ lowlink[x] < lowlink[s]
  <2>1. lowlink \in [Exprs -> 0 .. UINT_MAX]
    BY DEF IInv, TypeOK
  <2>2. QED
    BY <1>1, <1>2, <1>3, <2>1
<1>9. lowlink'[s] \in 1 .. n /\ lowlink'[s] <= lowlink[s]
      /\ lowlink'[s] \in 1 .. (UINT_MAX - 1) /\ lowlink[s] \in 1 .. (UINT_MAX - 1)
  <2>1. lowlink[s] \in 1 .. (UINT_MAX - 1)
    BY <1>3 DEF IInv, OnePlaceEach
  <2>2. lowlink[x] \in Nat /\ lowlink[x] # 0
    BY <1>1, <1>2, <1>4, <1>6
  <2>3. QED
    BY <1>3, <1>6, <1>8, <2>1, <2>2
<1>loop. /\ calls[n].i \in Nat /\ calls[n].i \in 1 .. Len(deps[s])
         /\ calls'[n].i \in 1 .. (Len(deps[s]) + 1)
         /\ \A l \in 1 .. (calls'[n].i - 1) : l \in 1 .. (calls[n].i - 1) \/ l = calls[n].i
  <2>1. Len(deps[s]) \in Nat /\ calls[n].i \in 1 .. Len(deps[s]) /\ calls'[n].i = calls[n].i + 1
    BY <1>2, <1>4, <1>7
  <2>2. QED
    BY <2>1
<1>10. Active' = Active
  BY <1>7 DEF Active
<1>11. Visited' = Visited
  BY <1>3, <1>5, <1>8, <1>9 DEF Visited
<1>12. input' \in Inputs
  BY <1>1 DEF IInv
<1>13. TypeOK'
  BY <1>1, <1>5, <1>7, <1>8 DEF IInv, TypeOK
<1>14. OnePlaceEach'
  <2>1. Placed' = Placed /\ Elements(stack)' = Elements(stack)
    BY <1>1 DEF Placed, Elements
  <2>2. {e \in Exprs : lowlink'[e] = UINT_MAX} = {e \in Exprs : lowlink[e] = UINT_MAX}
    BY <1>6, <1>8, <1>9
  <2>3. {e \in Exprs : lowlink'[e] \in 1 .. (UINT_MAX - 1)}
           = {e \in Exprs : lowlink[e] \in 1 .. (UINT_MAX - 1)}
    BY <1>8, <1>9
  <2>4. stack' = stack /\ sccs' = sccs /\ Exprs' = Exprs
    BY <1>1, <1>5
  <2>5. \A i, j \in DOMAIN stack' : stack'[i] = stack'[j] => i = j
    BY <2>4 DEF IInv, OnePlaceEach
  <2>6. \A i, j \in DOMAIN calls' : calls'[i].s = calls'[j].s => i = j
    BY <1>7 DEF IInv, OnePlaceEach
  <2>7. \A i, j \in DOMAIN sccs' : \A a \in DOMAIN sccs'[i], b \in DOMAIN sccs'[j] :
           sccs'[i][a] = sccs'[j][b] => <<i, a>> = <<j, b>>
    <3>1. \A i, j \in DOMAIN sccs : \A a \in DOMAIN sccs[i], b \in DOMAIN sccs[j] :
             sccs[i][a] = sccs[j][b] => <<i, a>> = <<j, b>>
      BY DEF IInv, OnePlaceEach
    <3>2. QED
      BY <2>4, <3>1
  <2>8. /\ (Elements(stack) \cap Active)' = {}
        /\ Placed' = {e \in Exprs : lowlink'[e] = UINT_MAX}
        /\ (Elements(stack) \cup Active)'
             = {e \in Exprs : lowlink'[e] \in 1 .. (UINT_MAX - 1)}
    BY <1>10, <2>1, <2>2, <2>3 DEF IInv, OnePlaceEach
  <2>9. QED
    BY <2>4, <2>5, <2>6, <2>7, <2>8, Zenon DEF OnePlaceEach
<1>15. CallsInv'
  <2>1. ASSUME NEW k \in DOMAIN calls
        PROVE  /\ calls'[k].preorder = k
               /\ calls'[k].marker <= Len(stack)
               /\ calls'[k].i \in 1 .. (Len(deps[calls'[k].s]) + 1)
               /\ lowlink'[calls'[k].s] \in 1 .. k
    <3>1. calls[k].preorder = k /\ calls[k].marker <= Len(stack)
      BY DEF IInv, CallsInv
    <3>2. CASE k = n
      BY <1>loop, <1>3, <1>7, <1>9, <3>1, <3>2
    <3>3. CASE k # n
      <4>1. calls[k].s # s
        BY <1>3, <3>3 DEF IInv, OnePlaceEach
      <4>2. calls[k].i \in 1 .. (Len(deps[calls[k].s]) + 1) /\ lowlink[calls[k].s] \in 1 .. k
        BY DEF IInv, CallsInv
      <4>3. QED
        BY <1>4, <1>7, <1>8, <3>1, <3>3, <4>1, <4>2
    <3>4. QED
      BY <3>2, <3>3
  <2>2. \A j, k \in DOMAIN calls :
          j <= k => calls'[j].marker <= calls'[k].marker /\ calls'[k].s \in Reachable(calls'[j].s)
    BY <1>7 DEF IInv, CallsInv
  <2>3. QED
    BY <1>1, <1>5, <1>7, <2>1, <2>2 DEF CallsInv
<1>16. StackInv'
  <2>1. \A p \in DOMAIN stack : stack[p] \in Exprs /\ stack[p] # s
    BY <1>3, <1>4 DEF IInv, OnePlaceEach, Elements
  <2>2. \A p \in DOMAIN stack : lowlink'[stack[p]] = lowlink[stack[p]]
    BY <1>8, <2>1
  <2>3. ASSUME NEW p \in DOMAIN stack
        PROVE  /\ \A k \in DOMAIN calls : calls'[k].marker < p => stack[p] \in Reachable(calls'[k].s)
               /\ \E k \in DOMAIN calls : /\ k <= lowlink'[stack[p]]
                                         /\ calls'[k].marker < p
                                         /\ calls'[k].s \in Reachable(stack[p])
    BY <1>7, <2>2 DEF IInv, StackInv
  <2>4. QED
    BY <1>1, <1>5, <1>7, <2>3 DEF StackInv
<1>17. ActiveInv'
  <2>1. ASSUME NEW j \in DOMAIN calls
        PROVE  \E k \in DOMAIN calls : k <= lowlink'[calls[j].s] /\ calls[k].s \in Reachable(calls[j].s)
    <3>1. CASE lowlink'[calls[j].s] = lowlink[calls[j].s]
      BY <3>1 DEF IInv, ActiveInv
    <3>2. CASE lowlink'[calls[j].s] # lowlink[calls[j].s]
      <4>1. calls[j].s = s /\ lowlink'[s] = lowlink[x]
        BY <1>4, <1>8, <3>2
      <4>2. lowlink[x] \in 1 .. (UINT_MAX - 1)
        BY <1>9, <4>1
      <4>3. PICK k \in DOMAIN calls : k <= lowlink[x] /\ calls[k].s \in Reachable(x)
        BY <1>2, <4>2, LeadsBack
      <4>4. calls[k].s \in Reachable(s)
        BY <1>2, <1>3, <1>6, <4>3, ReachableTransitive
      <4>5. QED
        BY <4>1, <4>3, <4>4
    <3>3. QED
      BY <3>1, <3>2
  <2>2. QED
    BY <1>5, <1>7, <2>1 DEF ActiveInv
<1>18. VisitedInv'
  <2>1. x \in Visited
    BY <1>1, <1>2 DEF Visited
  <2>2. ASSUME NEW k \in DOMAIN calls, NEW l \in 1 .. (calls'[k].i - 1)
        PROVE  deps[calls[k].s][l] \in Visited
    <3>1. CASE l \in 1 .. (calls[k].i - 1)
      BY <3>1 DEF IInv, VisitedInv
    <3>2. CASE l \notin 1 .. (calls[k].i - 1)
      <4>1. k = n
        BY <1>7, <3>2
      <4>2. l = calls[n].i
        BY <1>loop, <3>2, <4>1
      <4>3. QED
        BY <1>2, <1>3, <2>1, <4>1, <4>2
    <3>3. QED
      BY <3>1, <3>2
  <2>3. \A e : Elements(deps[e])' = Elements(deps[e])
    BY <1>5 DEF Elements
  <2>4. QED
    BY <1>5, <1>7, <1>10, <1>11, <2>2, <2>3 DEF IInv, VisitedInv
<1>19. OriginInv' /\ Connected'
  BY <1>1, <1>5, <1>11 DEF IInv, OriginInv, Connected, Elements
<1>20. QED
  BY <1>12, <1>13, <1>14, <1>15, <1>16, <1>17, <1>18, <1>19 DEF IInv

\* The activations that remain when the innermost one is over, and what is known
\* of that one's expression.
LEMMA ReturnFacts ==
    ASSUME IInv, calls # <<>>, ~InLoop, input' = input, next' = next,
           calls' = SubSeq(calls, 1, Len(calls) - 1)
    PROVE  /\ Len(calls) \in Nat \ {0} /\ Len(calls) - 1 \in Nat
           /\ calls' \in Seq([s : Exprs, preorder : Nat, marker : Nat, i : Nat])
           /\ DOMAIN calls' = 1 .. (Len(calls) - 1)
           /\ \A k \in DOMAIN calls' : k \in DOMAIN calls /\ calls'[k] = calls[k] /\ k < Len(calls)
           /\ \A k \in DOMAIN calls : k \in DOMAIN calls' \/ k = Len(calls)
           /\ \A k \in DOMAIN calls' : calls[k].s # top.s
           /\ Active' = Active \ {top.s}
           /\ Elements(deps[top.s]) \subseteq Visited
<1> DEFINE n == Len(calls)
<1>1. /\ n \in Nat \ {0} /\ n \in DOMAIN calls /\ top = calls[n] /\ top.s \in Exprs
      /\ top.i \in 1 .. (Len(deps[top.s]) + 1)
  BY TopFacts
<1>2. /\ DOMAIN calls = 1 .. n
      /\ Len(deps[top.s]) \in Nat /\ DOMAIN deps[top.s] = 1 .. Len(deps[top.s])
  BY <1>1, ElementTypes
<1>3. /\ calls' \in Seq([s : Exprs, preorder : Nat, marker : Nat, i : Nat])
      /\ DOMAIN calls' = 1 .. (n - 1)
      /\ \A k \in 1 .. (n - 1) : calls'[k] = calls[k]
  <2> DEFINE C == [s : Exprs, preorder : Nat, marker : Nat, i : Nat]
  <2>1. calls \in Seq(C)
    BY DEF IInv, TypeOK
  <2> HIDE DEF C
  <2>2. /\ calls' \in Seq(C) /\ DOMAIN calls' = 1 .. (n - 1)
        /\ \A k \in 1 .. (n - 1) : calls'[k] = calls[k]
    BY <1>1, <2>1
  <2>3. QED
    BY <2>2 DEF C
<1> HIDE DEF n
<1>4. /\ n - 1 \in Nat
      /\ \A k \in 1 .. (n - 1) : k \in 1 .. n /\ k < n /\ k # n
      /\ \A k \in 1 .. n : k \in 1 .. (n - 1) \/ k = n
  BY <1>1
<1>5. \A k \in 1 .. (n - 1) : calls[k].s # top.s
  BY <1>1, <1>2, <1>4 DEF IInv, OnePlaceEach
<1>6. Active' = Active \ {top.s}
  <2>1. Active' = {calls[k].s : k \in 1 .. (n - 1)}
    BY <1>3 DEF Active
  <2>2. Active = {calls[k].s : k \in 1 .. n}
    BY <1>2 DEF Active
  <2>3. QED
    BY <1>1, <1>4, <1>5, <2>1, <2>2
<1>7. Elements(deps[top.s]) \subseteq Visited
  <2>1. ~(top.i <= Len(deps[top.s]))
    BY DEF InLoop
  <2>2. DOMAIN deps[top.s] = 1 .. (top.i - 1)
    BY <1>1, <1>2, <2>1
  <2>3. QED
    BY <1>1, <2>2 DEF IInv, VisitedInv, Elements
<1>8. QED
  BY <1>1, <1>2, <1>3, <1>4, <1>5, <1>6, <1>7 DEF n

\* What an activation's end always keeps.
LEMMA ReturnInv ==
    ASSUME IInv, calls # <<>>, ~InLoop, input' = input, next' = next,
           calls' = SubSeq(calls, 1, Len(calls) - 1),
           \A e \in Exprs : lowlink[e] = 0 <=> lowlink'[e] = 0,
           \A k \in DOMAIN calls' : lowlink'[calls[k].s] = lowlink[calls[k].s],
           \A k \in DOMAIN calls' : calls[k].marker <= Len(stack')
    PROVE  input' \in Inputs /\ CallsInv' /\ ActiveInv' /\ VisitedInv' /\ OriginInv'
<1>1. /\ Len(calls) \in Nat \ {0}
      /\ \A k \in DOMAIN calls' : k \in DOMAIN calls /\ calls'[k] = calls[k] /\ k < Len(calls)
      /\ \A k \in DOMAIN calls : k \in DOMAIN calls' \/ k = Len(calls)
      /\ Active' = Active \ {top.s}
      /\ Elements(deps[top.s]) \subseteq Visited
  BY ReturnFacts
<1>2. deps' = deps /\ Exprs' = Exprs /\ \A e : Reachable(e)' = Reachable(e)
  BY SameGraph
<1>3. Visited' = Visited
  BY <1>2 DEF Visited
<1>4. \A k \in DOMAIN calls : k \in Nat
  BY ElementTypes
<1>5. input' \in Inputs
  BY DEF IInv
<1>6. CallsInv'
  <2>1. \A k \in DOMAIN calls' :
          /\ calls'[k].preorder = k
          /\ calls'[k].marker <= Len(stack')
          /\ calls'[k].i \in 1 .. (Len(deps[calls'[k].s]) + 1)
          /\ lowlink'[calls'[k].s] \in 1 .. k
    BY <1>1 DEF IInv, CallsInv
  <2>2. \A j, k \in DOMAIN calls' :
          j <= k => calls'[j].marker <= calls'[k].marker /\ calls'[k].s \in Reachable(calls'[j].s)
    BY <1>1 DEF IInv, CallsInv
  <2>3. QED
    BY <1>2, <2>1, <2>2 DEF CallsInv
<1>7. ActiveInv'
  <2>1. ASSUME NEW j \in DOMAIN calls'
        PROVE  \E k \in DOMAIN calls' : k <= lowlink'[calls'[j].s] /\ calls'[k].s \in Reachable(calls'[j].s)
    <3>1. j \in DOMAIN calls /\ calls'[j] = calls[j] /\ j < Len(calls) /\ j \in Nat
      BY <1>1, <1>4
    <3>2. lowlink'[calls[j].s] = lowlink[calls[j].s] /\ lowlink[calls[j].s] \in 1 .. j
      BY <3>1 DEF IInv, CallsInv
    <3>3. PICK k \in DOMAIN calls : k <= lowlink[calls[j].s] /\ calls[k].s \in Reachable(calls[j].s)
      BY <3>1 DEF IInv, ActiveInv
    <3>4. k # Len(calls)
      BY <1>1, <1>4, <3>1, <3>2, <3>3
    <3>5. k \in DOMAIN calls' /\ calls'[k] = calls[k]
      BY <1>1, <3>4
    <3>6. QED
      BY <3>1, <3>2, <3>3, <3>5
  <2>2. QED
    BY <1>2, <2>1 DEF ActiveInv
<1>8. VisitedInv'
  <2>1. \A e \in Visited \ Active' : Elements(deps[e]) \subseteq Visited
    BY <1>1 DEF IInv, VisitedInv
  <2>2. \A k \in DOMAIN calls' : \A l \in 1 .. (calls'[k].i - 1) : deps[calls'[k].s][l] \in Visited
    BY <1>1 DEF IInv, VisitedInv
  <2>3. \A e : Elements(deps[e])' = Elements(deps[e])
    BY <1>2 DEF Elements
  <2>4. QED
    BY <1>2, <1>3, <2>1, <2>2, <2>3 DEF VisitedInv
<1>9. OriginInv'
  BY <1>2, <1>3 DEF IInv, OriginInv, Elements
<1>10. QED
  BY <1>5, <1>6, <1>7, <1>8, <1>9

\* The innermost activation ends, and its expression is not the root of a
\* component: what led to it leads on to an activation further out.
LEMMA LeaveStaysInv ==
    ASSUME IInv, calls # <<>>, ~InLoop, input' = input, next' = next,
           calls' = SubSeq(calls, 1, Len(calls) - 1),
           lowlink[top.s] # top.preorder,
           stack' = Append(stack, top.s),
           lowlink' = lowlink, sccs' = sccs
    PROVE  IInv'
<1> DEFINE n == Len(calls)
           m == Len(stack)
           s == top.s
<1>1. /\ n \in Nat \ {0} /\ n \in DOMAIN calls /\ s = calls[n].s /\ s \in Exprs /\ s \in Active
      /\ top.preorder = n /\ lowlink[s] \in 1 .. n
  BY TopFacts
<1>2. lowlink[s] \in Nat /\ lowlink[s] < n
  BY <1>1
<1>3. /\ DOMAIN calls = 1 .. n
      /\ \A k \in DOMAIN calls : calls[k].s \in Exprs /\ calls[k].marker \in Nat
      /\ m \in Nat /\ DOMAIN stack = 1 .. m
      /\ \A p \in DOMAIN stack : stack[p] \in Exprs
      /\ \A e \in Exprs : lowlink[e] \in 0 .. UINT_MAX
  BY ElementTypes
<1>4. /\ calls' \in Seq([s : Exprs, preorder : Nat, marker : Nat, i : Nat])
      /\ \A k \in DOMAIN calls' : k \in DOMAIN calls /\ calls'[k] = calls[k] /\ k < n
      /\ \A k \in DOMAIN calls : k \in DOMAIN calls' \/ k = n
      /\ Active' = Active \ {s}
  BY ReturnFacts
<1>5. deps' = deps /\ Exprs' = Exprs /\ \A e : Reachable(e)' = Reachable(e)
  BY SameGraph
<1>6. IsGraph(deps) /\ UINT_MAX \in Nat
  BY InputFacts DEF IInv
<1>7. /\ stack' \in Seq(Exprs) /\ Len(stack') = m + 1
      /\ DOMAIN stack' = (1 .. m) \union {m + 1}
      /\ \A p \in 1 .. m : stack'[p] = stack[p]
      /\ stack'[m + 1] = s
  <2>1. stack \in Seq(Exprs)
    BY DEF IInv, TypeOK
  <2>2. Len(stack') = m + 1 /\ stack' \in Seq(Exprs)
    BY <1>1, <2>1
  <2>3. DOMAIN stack' = 1 .. (m + 1)
    BY <2>2
  <2>4. 1 .. (m + 1) = (1 .. m) \union {m + 1}
    BY <1>3
  <2>5. QED
    BY <1>1, <2>1, <2>2, <2>3, <2>4
<1> HIDE DEF n, m, s
<1>8. Elements(stack') = Elements(stack) \union {s}
  BY <1>3, <1>7 DEF Elements
<1>9. \A k \in DOMAIN calls : calls[k].marker <= m
  BY DEF IInv, CallsInv, m
<1>10. input' \in Inputs /\ CallsInv' /\ ActiveInv' /\ VisitedInv' /\ OriginInv'
  <2>1. \A k \in DOMAIN calls' : calls[k].marker <= Len(stack')
    BY <1>3, <1>4, <1>7, <1>9
  <2>2. \A k \in DOMAIN calls' : lowlink'[calls[k].s] = lowlink[calls[k].s]
    OBVIOUS
  <2>3. \A e \in Exprs : lowlink[e] = 0 <=> lowlink'[e] = 0
    OBVIOUS
  <2>4. QED
    BY <2>1, <2>2, <2>3, ReturnInv
<1>11. TypeOK'
  BY <1>4, <1>5, <1>7 DEF IInv, TypeOK
<1>12. OnePlaceEach'
  <2>1. Placed' = Placed
    BY DEF Placed, Elements
  <2>2. /\ \A i, j \in DOMAIN stack : stack[i] = stack[j] => i = j
        /\ \A i, j \in DOMAIN calls : calls[i].s = calls[j].s => i = j
        /\ Elements(stack) \intersect Active = {}
        /\ Placed = {e \in Exprs : lowlink[e] = UINT_MAX}
        /\ Elements(stack) \union Active = {e \in Exprs : lowlink[e] \in 1 .. (UINT_MAX - 1)}
        /\ \A i, j \in DOMAIN sccs :
             \A a \in DOMAIN sccs[i], b \in DOMAIN sccs[j] : sccs[i][a] = sccs[j][b] => <<i, a>> = <<j, b>>
    BY DEF IInv, OnePlaceEach
  <2>3. \A p \in 1 .. m : stack[p] # s
    <3>1. \A p \in 1 .. m : stack[p] \in Elements(stack)
      BY <1>3 DEF Elements
    <3>2. QED
      BY <1>1, <2>2, <3>1
  <2>4. \A i, j \in DOMAIN stack' : stack'[i] = stack'[j] => i = j
    BY <1>3, <1>7, <2>2, <2>3
  <2>5. \A i, j \in DOMAIN calls' : calls'[i].s = calls'[j].s => i = j
    BY <1>4, <2>2
  <2>6. Elements(stack') \union Active' = Elements(stack) \union Active
    BY <1>1, <1>4, <1>8
  <2>7. Elements(stack') \intersect Active' = {}
    BY <1>4, <1>8, <2>2
  <2>8. Elements(stack)' = Elements(stack')
    BY DEF Elements
  <2>9. QED
    BY <1>5, <2>1, <2>2, <2>4, <2>5, <2>6, <2>7, <2>8 DEF OnePlaceEach
<1>13. PICK l \in DOMAIN calls : l <= lowlink[s] /\ calls[l].s \in Reachable(s)
  BY <1>1 DEF IInv, ActiveInv
<1>14. l \in Nat /\ l < n /\ l \in DOMAIN calls'
  <2>1. l \in Nat
    BY <1>1, <1>3
  <2>2. QED
    BY <1>1, <1>2, <1>4, <1>13, <2>1
<1>15. StackInv'
  <2>1. ASSUME NEW p \in 1 .. m
        PROVE  \E k \in DOMAIN calls' : /\ k <= lowlink[stack[p]]
                                        /\ calls[k].marker < p
                                        /\ calls[k].s \in Reachable(stack[p])
    <3>1. PICK k \in DOMAIN calls : /\ k <= lowlink[stack[p]]
                                    /\ calls[k].marker < p
                                    /\ calls[k].s \in Reachable(stack[p])
      BY <1>3 DEF IInv, StackInv
    <3>2. CASE k \in DOMAIN calls'
      BY <3>1, <3>2
    <3>3. CASE k = n
      <4>1. stack[p] \in Exprs /\ lowlink[stack[p]] \in Nat
        BY <1>3, <1>6
      <4>2. l <= lowlink[stack[p]]
        BY <1>1, <1>14, <3>1, <3>3, <4>1
      <4>3. calls[l].marker <= calls[n].marker
        BY <1>1, <1>13, <1>14 DEF IInv, CallsInv
      <4>4. calls[l].marker \in Nat /\ calls[n].marker \in Nat /\ p \in Nat
        BY <1>1, <1>3
      <4>5. calls[l].marker < p
        BY <3>1, <3>3, <4>3, <4>4
      <4>6. calls[l].s \in Reachable(stack[p])
        BY <1>1, <1>6, <1>13, <3>1, <3>3, <4>1, ReachableTransitive
      <4>7. QED
        BY <1>14, <4>2, <4>5, <4>6
    <3>4. QED
      BY <1>4, <3>2, <3>3
  <2>2. \A p \in 1 .. m, k \in DOMAIN calls' :
            calls[k].marker < p => stack[p] \in Reachable(calls[k].s)
    BY <1>3, <1>4 DEF IInv, StackInv
  <2>3. \A k \in DOMAIN calls' : s \in Reachable(calls[k].s)
    <3>1. \A k \in DOMAIN calls' : k \in DOMAIN calls /\ k <= n
      BY <1>1, <1>3, <1>4
    <3>2. QED
      BY <1>1, <3>1 DEF IInv, CallsInv
  <2>4. calls[l].marker < m + 1
    BY <1>3, <1>9, <1>13
  <2>5. ASSUME NEW p \in DOMAIN stack'
        PROVE  /\ \A k \in DOMAIN calls' : calls'[k].marker < p => stack'[p] \in Reachable(calls'[k].s)
               /\ \E k \in DOMAIN calls' : /\ k <= lowlink'[stack'[p]]
                                           /\ calls'[k].marker < p
                                           /\ calls'[k].s \in Reachable(stack'[p])
    <3>1. CASE p \in 1 .. m
      BY <1>4, <1>7, <2>1, <2>2, <3>1
    <3>2. CASE p = m + 1
      BY <1>4, <1>7, <1>13, <1>14, <2>3, <2>4, <3>2
    <3>3. QED
      BY <1>7, <3>1, <3>2
  <2>6. QED
    BY <1>5, <2>5 DEF StackInv
<1>16. Connected'
  BY <1>5 DEF IInv, Connected, Elements
<1>17. QED
  BY <1>10, <1>11, <1>12, <1>15, <1>16 DEF IInv

\* What comes off the stack as a component, and what stays.
LEMMA PushedFacts ==
    ASSUME IInv, calls # <<>>
    PROVE  LET m == Len(stack)
               t == top.marker
           IN  /\ m \in Nat /\ t \in Nat /\ t <= m
               /\ Pushed \in Seq(Exprs) /\ DOMAIN Pushed = (1 .. (m - t)) \union {m - t + 1}
               /\ \A q \in 1 .. (m - t) : t + q \in (t + 1) .. m /\ Pushed[q] = stack[t + q]
               /\ Pushed[m - t + 1] = top.s
               /\ Unstack \in Seq(Exprs) /\ Len(Unstack) = t /\ DOMAIN Unstack = 1 .. t
               /\ \A p \in 1 .. t : Unstack[p] = stack[p]
               /\ DOMAIN stack = (1 .. t) \union ((t + 1) .. m)
               /\ \A p \in 1 .. t : p \notin (t + 1) .. m
               /\ Elements(Pushed) = {stack[p] : p \in (t + 1) .. m} \union {top.s}
               /\ Elements(Unstack) = {stack[p] : p \in 1 .. t}
               /\ Elements(stack) = Elements(Unstack) \union {stack[p] : p \in (t + 1) .. m}
<1> DEFINE m == Len(stack)
           t == top.marker
           new == SubSeq(stack, t + 1, m)
<1>1. stack \in Seq(Exprs) /\ m \in Nat /\ t \in Nat /\ t <= m /\ top.s \in Exprs
  BY TopFacts DEF IInv, TypeOK
<1> HIDE DEF t
<1>2. /\ new \in Seq(Exprs) /\ Len(new) = m - t
      /\ \A q \in 1 .. (m - t) : new[q] = stack[t + q]
  <2>1. \A i \in (t + 1) .. m : stack[i] \in Exprs
    BY <1>1
  <2>2. Len(new) = m - t
    BY <1>1
  <2>3. new \in Seq(Exprs)
    BY <1>1, <2>1
  <2>4. ASSUME NEW q \in 1 .. (m - t)
        PROVE  new[q] = stack[t + q]
    <3>1. q \in 1 .. ((m - (t + 1)) + 1) /\ (t + 1) + q - 1 = t + q
      BY <1>1
    <3>2. new[q] = stack[(t + 1) + q - 1]
      BY <1>1, <3>1
    <3>3. QED
      BY <3>1, <3>2
  <2>5. QED
    BY <2>2, <2>3, <2>4
<1>3. Pushed = Append(new, top.s)
  BY DEF Pushed, t
<1> HIDE DEF new, m
<1>4. /\ m - t \in Nat /\ 1 .. (m - t + 1) = (1 .. (m - t)) \union {m - t + 1}
      /\ \A q \in 1 .. (m - t) : t + q \in (t + 1) .. m
      /\ \A p \in (t + 1) .. m : p - t \in 1 .. (m - t) /\ t + (p - t) = p
      /\ 1 .. m = (1 .. t) \union ((t + 1) .. m)
      /\ \A p \in 1 .. t : p \notin (t + 1) .. m
  BY <1>1
<1>5. /\ Pushed \in Seq(Exprs) /\ DOMAIN Pushed = (1 .. (m - t)) \union {m - t + 1}
      /\ \A q \in 1 .. (m - t) : Pushed[q] = stack[t + q]
      /\ Pushed[m - t + 1] = top.s
  <2>1. Pushed \in Seq(Exprs) /\ Len(Pushed) = m - t + 1
    BY <1>1, <1>2, <1>3
  <2>2. DOMAIN Pushed = 1 .. (m - t + 1)
    BY <2>1
  <2>3. \A q \in 1 .. (m - t) : Pushed[q] = new[q]
    BY <1>1, <1>2, <1>3
  <2>4. Pushed[m - t + 1] = top.s
    <3>1. Pushed[Len(new) + 1] = top.s
      BY <1>2, <1>3
    <3>2. Len(new) = m - t
      BY <1>2
    <3>3. QED
      BY <3>1, <3>2, Zenon
  <2>5. QED
    BY <1>2, <1>4, <2>1, <2>2, <2>3, <2>4
<1>6. /\ Unstack \in Seq(Exprs) /\ Len(Unstack) = t /\ DOMAIN Unstack = 1 .. t
      /\ \A p \in 1 .. t : Unstack[p] = stack[p]
  <2>1. Unstack = SubSeq(stack, 1, t)
    BY DEF Unstack, t
  <2>2. QED
    BY <1>1, <2>1 DEF m
<1>7. DOMAIN stack = (1 .. t) \union ((t + 1) .. m)
  <2>1. DOMAIN stack = 1 .. m
    BY <1>1 DEF m
  <2>2. QED
    BY <1>4, <2>1
<1>8. Elements(Pushed) = {stack[p] : p \in (t + 1) .. m} \union {top.s}
  <2>1. Elements(Pushed) = {Pushed[q] : q \in (1 .. (m - t)) \union {m - t + 1}}
    BY <1>5 DEF Elements
  <2>2. \A p \in (t + 1) .. m : stack[p] = Pushed[p - t] /\ p - t \in 1 .. (m - t)
    BY <1>4, <1>5
  <2>3. \A q \in 1 .. (m - t) : Pushed[q] = stack[t + q] /\ t + q \in (t + 1) .. m
    BY <1>4, <1>5
  <2>4. ASSUME NEW x \in Elements(Pushed)
        PROVE  x \in {stack[p] : p \in (t + 1) .. m} \union {top.s}
    <3>1. PICK q \in (1 .. (m - t)) \union {m - t + 1} : x = Pushed[q]
      BY <2>1
    <3>2. QED
      BY <1>5, <2>3, <3>1
  <2>5. ASSUME NEW x \in {stack[p] : p \in (t + 1) .. m} \union {top.s}
        PROVE  x \in Elements(Pushed)
    <3>1. CASE x = top.s
      BY <1>5, <2>1, <3>1
    <3>2. CASE x \in {stack[p] : p \in (t + 1) .. m}
      BY <2>1, <2>2, <3>2
    <3>3. QED
      BY <3>1, <3>2
  <2>6. QED
    BY <2>4, <2>5
<1>9. Elements(Unstack) = {stack[p] : p \in 1 .. t}
  BY <1>6 DEF Elements
<1>10. Elements(stack) = Elements(Unstack) \union {stack[p] : p \in (t + 1) .. m}
  BY <1>7, <1>9 DEF Elements
<1>11. QED
  BY <1>1, <1>4, <1>5, <1>6, <1>7, <1>8, <1>9, <1>10 DEF m, t

\* The innermost activation ends, and its expression is the root of a component.
LEMMA LeaveRootInv ==
    ASSUME IInv, calls # <<>>, ~InLoop, input' = input, next' = next,
           calls' = SubSeq(calls, 1, Len(calls) - 1),
           lowlink[top.s] = top.preorder,
           lowlink' = Mark(Pushed),
           stack' = Unstack,
           sccs' = Append(sccs, Pushed)
    PROVE  IInv'
<1> DEFINE n == Len(calls)
           m == Len(stack)
           t == top.marker
           s == top.s
           P == Elements(Pushed)
           N == Len(sccs)
<1>1. /\ n \in Nat \ {0} /\ n \in DOMAIN calls /\ s = calls[n].s /\ s \in Exprs /\ s \in Active
      /\ calls[n].marker = t
  BY TopFacts
<1>2. /\ m \in Nat /\ t \in Nat /\ t <= m
      /\ Pushed \in Seq(Exprs) /\ DOMAIN Pushed = (1 .. (m - t)) \union {m - t + 1}
      /\ \A q \in 1 .. (m - t) : t + q \in (t + 1) .. m /\ Pushed[q] = stack[t + q]
      /\ Pushed[m - t + 1] = s
      /\ stack' \in Seq(Exprs) /\ Len(stack') = t /\ DOMAIN stack' = 1 .. t
      /\ \A p \in 1 .. t : stack'[p] = stack[p]
      /\ DOMAIN stack = (1 .. t) \union ((t + 1) .. m)
      /\ \A p \in 1 .. t : p \notin (t + 1) .. m
      /\ P = {stack[p] : p \in (t + 1) .. m} \union {s}
      /\ Elements(stack') = {stack[p] : p \in 1 .. t}
      /\ Elements(stack) = Elements(stack') \union {stack[p] : p \in (t + 1) .. m}
  BY PushedFacts
<1>3. /\ DOMAIN calls = 1 .. n
      /\ \A k \in DOMAIN calls : calls[k].s \in Exprs /\ calls[k].marker \in Nat
      /\ \A p \in DOMAIN stack : stack[p] \in Exprs
      /\ \A e \in Exprs : lowlink[e] \in 0 .. UINT_MAX
  BY ElementTypes
<1>4. /\ calls' \in Seq([s : Exprs, preorder : Nat, marker : Nat, i : Nat])
      /\ \A k \in DOMAIN calls' : k \in DOMAIN calls /\ calls'[k] = calls[k] /\ k < n
      /\ \A k \in DOMAIN calls : k \in DOMAIN calls' \/ k = n
      /\ \A k \in DOMAIN calls' : calls[k].s # s
      /\ Active' = Active \ {s}
  BY ReturnFacts
<1>5. deps' = deps /\ Exprs' = Exprs /\ \A e : Reachable(e)' = Reachable(e)
  BY SameGraph
<1>6. IsGraph(deps) /\ UINT_MAX \in Nat /\ UINT_MAX > 0
  BY InputFacts DEF IInv
<1>7. /\ \A i, j \in DOMAIN stack : stack[i] = stack[j] => i = j
      /\ \A i, j \in DOMAIN calls : calls[i].s = calls[j].s => i = j
      /\ Elements(stack) \intersect Active = {}
      /\ Placed = {e \in Exprs : lowlink[e] = UINT_MAX}
      /\ Elements(stack) \union Active = {e \in Exprs : lowlink[e] \in 1 .. (UINT_MAX - 1)}
  BY DEF IInv, OnePlaceEach
<1>8. P \subseteq Exprs /\ P \subseteq Elements(stack) \union Active
  BY <1>1, <1>2, <1>3
<1>9. /\ sccs \in Seq(Seq(Exprs)) /\ N \in Nat /\ DOMAIN sccs = 1 .. N
      /\ sccs' \in Seq(Seq(Exprs)) /\ DOMAIN sccs' = DOMAIN sccs \union {N + 1}
      /\ \A i \in DOMAIN sccs : sccs'[i] = sccs[i]
      /\ sccs'[N + 1] = Pushed /\ N + 1 \notin DOMAIN sccs
  <2> DEFINE S == Seq(Exprs)
  <2>1. sccs \in Seq(S) /\ Pushed \in S
    BY <1>2 DEF IInv, TypeOK
  <2> HIDE DEF S
  <2>2. /\ N \in Nat /\ DOMAIN sccs = 1 .. N /\ sccs' \in Seq(S) /\ Len(sccs') = N + 1
        /\ \A i \in 1 .. N : sccs'[i] = sccs[i]
        /\ sccs'[N + 1] = Pushed
    BY <2>1
  <2>3. DOMAIN sccs' = 1 .. (N + 1)
    BY <2>2
  <2>4. 1 .. (N + 1) = (1 .. N) \union {N + 1} /\ N + 1 \notin 1 .. N
    BY <2>2
  <2>5. QED
    BY <2>1, <2>2, <2>3, <2>4 DEF S
<1>10. /\ lowlink' \in [Exprs -> 0 .. UINT_MAX]
       /\ \A e \in Exprs : lowlink'[e] = IF e \in P THEN UINT_MAX ELSE lowlink[e]
  BY <1>3, <1>6 DEF Mark
<1> HIDE DEF n, m, t, s, P, N
<1>11. \A p \in 1 .. t : stack[p] \in Exprs /\ stack[p] \notin P
  <2>1. ASSUME NEW p \in 1 .. t
        PROVE  stack[p] # s
    <3>1. stack[p] \in Elements(stack)
      BY <1>2
    <3>2. QED
      BY <1>1, <1>7, <3>1
  <2>2. ASSUME NEW p \in 1 .. t, NEW q \in (t + 1) .. m
        PROVE  stack[p] # stack[q]
    <3>1. p \in DOMAIN stack /\ q \in DOMAIN stack /\ p # q
      BY <1>2
    <3>2. QED
      BY <1>7, <3>1
  <2>3. QED
    BY <1>2, <1>3, <2>1, <2>2
<1>12. \A k \in DOMAIN calls' : calls[k].s \in Exprs /\ calls[k].s \notin P
  <2>1. ASSUME NEW k \in DOMAIN calls'
        PROVE  calls[k].s \in Exprs /\ calls[k].s \notin P
    <3>1. calls[k].s \in Active /\ calls[k].s \in Exprs /\ calls[k].s # s
      BY <1>3, <1>4 DEF Active
    <3>2. calls[k].s \notin Elements(stack)
      BY <1>7, <3>1
    <3>3. QED
      BY <1>2, <3>1, <3>2
  <2>2. QED
    BY <2>1
<1>13. input' \in Inputs /\ CallsInv' /\ ActiveInv' /\ VisitedInv' /\ OriginInv'
  <2>1. \A k \in DOMAIN calls' : calls[k].marker <= Len(stack')
    <3>1. \A k \in DOMAIN calls' : k \in DOMAIN calls /\ k <= n
      BY <1>1, <1>3, <1>4
    <3>2. \A k \in DOMAIN calls' : calls[k].marker <= calls[n].marker
      BY <1>1, <3>1 DEF IInv, CallsInv
    <3>3. QED
      BY <1>1, <1>2, <3>2
  <2>2. \A k \in DOMAIN calls' : lowlink'[calls[k].s] = lowlink[calls[k].s]
    BY <1>10, <1>12
  <2>3. \A e \in P : lowlink[e] # 0
    BY <1>7, <1>8
  <2>4. \A e \in Exprs : lowlink[e] = 0 <=> lowlink'[e] = 0
    BY <1>6, <1>10, <2>3
  <2>5. QED
    BY <2>1, <2>2, <2>4, ReturnInv
<1>14. TypeOK'
  BY <1>2, <1>4, <1>5, <1>9, <1>10 DEF IInv, TypeOK
<1>15. Placed' = Placed \union P
  <2>1. Placed' = UNION {Elements(sccs'[i]) : i \in DOMAIN sccs \union {N + 1}}
    BY <1>9 DEF Placed, Elements
  <2>2. Placed = UNION {Elements(sccs'[i]) : i \in DOMAIN sccs}
    BY <1>9 DEF Placed
  <2>3. Elements(sccs'[N + 1]) = P
    BY <1>9 DEF P
  <2>4. QED
    BY <2>1, <2>2, <2>3
<1>16. OnePlaceEach'
  <2>1. \A i, j \in DOMAIN stack' : stack'[i] = stack'[j] => i = j
    BY <1>2, <1>7
  <2>2. \A i, j \in DOMAIN calls' : calls'[i].s = calls'[j].s => i = j
    BY <1>4, <1>7
  <2>3. \A i \in DOMAIN sccs : \A a \in DOMAIN sccs[i] : sccs[i][a] \notin P
    <3>1. \A i \in DOMAIN sccs : \A a \in DOMAIN sccs[i] : sccs[i][a] \in Placed
      BY DEF Placed, Elements
    <3>2. UINT_MAX \notin 1 .. (UINT_MAX - 1)
      BY <1>6
    <3>3. \A e \in P : e \notin Placed
      BY <1>7, <1>8, <3>2
    <3>4. QED
      BY <3>1, <3>3
  <2>4. \A a \in DOMAIN Pushed : Pushed[a] \in P
    BY DEF P, Elements
  <2>5. ASSUME NEW a \in DOMAIN Pushed, NEW b \in DOMAIN Pushed, Pushed[a] = Pushed[b]
        PROVE  a = b
    <3>1. \A q \in 1 .. (m - t) : Pushed[q] # s
      <4>1. \A q \in 1 .. (m - t) : Pushed[q] \in Elements(stack)
        BY <1>2
      <4>2. QED
        BY <1>1, <1>7, <4>1
    <3>2. CASE a \in 1 .. (m - t) /\ b \in 1 .. (m - t)
      <4>1. stack[t + a] = stack[t + b] /\ t + a \in DOMAIN stack /\ t + b \in DOMAIN stack
        BY <1>2, <2>5, <3>2
      <4>2. t + a = t + b
        BY <1>7, <4>1
      <4>3. QED
        BY <1>2, <3>2, <4>2
    <3>3. QED
      BY <1>2, <2>5, <3>1, <3>2
  <2>6. \A i, j \in DOMAIN sccs' :
          \A a \in DOMAIN sccs'[i], b \in DOMAIN sccs'[j] :
             sccs'[i][a] = sccs'[j][b] => <<i, a>> = <<j, b>>
    <3>1. \A i, j \in DOMAIN sccs :
            \A a \in DOMAIN sccs[i], b \in DOMAIN sccs[j] : sccs[i][a] = sccs[j][b] => i = j /\ a = b
      BY DEF IInv, OnePlaceEach
    <3>2. ASSUME NEW i \in DOMAIN sccs', NEW j \in DOMAIN sccs',
                 NEW a \in DOMAIN sccs'[i], NEW b \in DOMAIN sccs'[j], sccs'[i][a] = sccs'[j][b]
          PROVE  i = j /\ a = b
      <4>1. CASE i \in DOMAIN sccs /\ j \in DOMAIN sccs
        BY <1>9, <3>1, <3>2, <4>1
      <4>2. CASE i = N + 1 /\ j = N + 1
        BY <1>9, <2>5, <3>2, <4>2
      <4>3. CASE i \in DOMAIN sccs /\ j = N + 1
        BY <1>9, <2>3, <2>4, <3>2, <4>3
      <4>4. CASE i = N + 1 /\ j \in DOMAIN sccs
        BY <1>9, <2>3, <2>4, <3>2, <4>4
      <4>5. QED
        BY <1>9, <4>1, <4>2, <4>3, <4>4
    <3>3. QED
      BY <3>2
  <2>7. Elements(stack') \intersect P = {} /\ Active' \intersect P = {}
    <3>1. Elements(stack') \intersect P = {}
      BY <1>2, <1>11
    <3>2. Active' \intersect P = {}
      BY <1>4, <1>12 DEF Active
    <3>3. QED
      BY <3>1, <3>2
  <2>8. Elements(stack') \union Active' = (Elements(stack) \union Active) \ P
    BY <1>1, <1>2, <1>4, <2>7
  <2>9. Elements(stack') \intersect Active' = {}
    BY <1>2, <1>4, <1>7
  <2>10. Placed \union P = {e \in Exprs : lowlink'[e] = UINT_MAX}
    BY <1>7, <1>8, <1>10
  <2>11. (Elements(stack) \union Active) \ P = {e \in Exprs : lowlink'[e] \in 1 .. (UINT_MAX - 1)}
    <3>1. UINT_MAX \notin 1 .. (UINT_MAX - 1)
      BY <1>6
    <3>2. QED
      BY <1>7, <1>10, <3>1
  <2>12. Elements(stack)' = Elements(stack')
    BY DEF Elements
  <2>13. QED
    BY <1>5, <1>15, <2>1, <2>2, <2>6, <2>8, <2>9, <2>10, <2>11, <2>12 DEF OnePlaceEach
<1>17. StackInv'
  <2>1. ASSUME NEW p \in DOMAIN stack'
        PROVE  /\ \A k \in DOMAIN calls' : calls'[k].marker < p => stack'[p] \in Reachable(calls'[k].s)
               /\ \E k \in DOMAIN calls' : /\ k <= lowlink'[stack'[p]]
                                           /\ calls'[k].marker < p
                                           /\ calls'[k].s \in Reachable(stack'[p])
    <3>1. p \in 1 .. t /\ p \in DOMAIN stack /\ stack'[p] = stack[p]
      BY <1>2
    <3>2. lowlink'[stack[p]] = lowlink[stack[p]]
      BY <1>10, <1>11, <3>1
    <3>3. \A k \in DOMAIN calls' : calls[k].marker < p => stack[p] \in Reachable(calls[k].s)
      BY <1>4, <3>1 DEF IInv, StackInv
    <3>4. PICK k \in DOMAIN calls : /\ k <= lowlink[stack[p]]
                                    /\ calls[k].marker < p
                                    /\ calls[k].s \in Reachable(stack[p])
      BY <3>1 DEF IInv, StackInv
    <3>5. k # n
      BY <1>1, <1>2, <3>1, <3>4
    <3>6. k \in DOMAIN calls' /\ calls'[k] = calls[k]
      BY <1>4, <3>5
    <3>7. QED
      BY <1>4, <3>1, <3>2, <3>3, <3>4, <3>6
  <2>2. QED
    BY <1>5, <2>1 DEF StackInv
<1>18. Connected'
  <2>1. ASSUME NEW e \in P
        PROVE  e \in Reachable(s) /\ s \in Reachable(e)
    <3>1. CASE e = s
      BY <1>1, <1>6, <3>1, ReachableFacts
    <3>2. CASE e # s
      <4>1. PICK p \in (t + 1) .. m : e = stack[p]
        BY <1>2, <3>2
      <4>2. p \in DOMAIN stack /\ e \in Exprs /\ t < p
        <5>1. t \in Nat /\ m \in Nat
          BY <1>2
        <5>2. t < p
          BY <5>1
        <5>3. QED
          BY <1>2, <1>3, <4>1, <5>2
      <4>3. e \in Reachable(s)
        BY <1>1, <4>1, <4>2 DEF IInv, StackInv
      <4>4. PICK k \in DOMAIN calls : calls[k].s \in Reachable(e)
        BY <4>1, <4>2 DEF IInv, StackInv
      <4>5. k <= n
        BY <1>1, <1>3
      <4>6. s \in Reachable(calls[k].s)
        BY <1>1, <4>5 DEF IInv, CallsInv
      <4>7. s \in Reachable(e)
        BY <1>6, <4>2, <4>4, <4>6, ReachableTransitive
      <4>8. QED
        BY <4>3, <4>7
    <3>3. QED
      BY <3>1, <3>2
  <2>2. ASSUME NEW e \in P
        PROVE  P \subseteq Reachable(e)
    <3>1. Reachable(s) \subseteq Reachable(e)
      BY <1>6, <1>8, <2>1, ReachableTransitive
    <3>2. QED
      BY <2>1, <3>1
  <2>3. \A i \in DOMAIN sccs' : \A e \in Elements(sccs'[i]) : Elements(sccs'[i]) \subseteq Reachable(e)
    <3>1. \A i \in DOMAIN sccs : \A e \in Elements(sccs'[i]) : Elements(sccs'[i]) \subseteq Reachable(e)
      BY <1>9 DEF IInv, Connected
    <3>2. Elements(sccs'[N + 1]) = P
      BY <1>9 DEF P
    <3>3. QED
      BY <1>9, <2>2, <3>1, <3>2
  <2>4. QED
    BY <1>5, <2>3 DEF Connected, Elements
<1>19. QED
  BY <1>13, <1>14, <1>16, <1>17, <1>18 DEF IInv

\* Every step of the search keeps the invariant.
LEMMA NextIInv == IInv /\ [Next]_vars => IInv'
<1> SUFFICES ASSUME IInv, [Next]_vars
             PROVE  IInv'
  OBVIOUS
<1>1. CASE Start
  BY <1>1, StartInv
<1>2. CASE Descend
  BY <1>2, DescendInv
<1>3. CASE Compare
  BY <1>3, CompareInv
<1>4. CASE Leave
  <2>1. /\ calls # <<>> /\ ~InLoop /\ input' = input /\ next' = next
        /\ calls' = SubSeq(calls, 1, Len(calls) - 1)
    BY <1>4 DEF Leave
  <2>2. CASE lowlink[top.s] = top.preorder
    BY <1>4, <2>1, <2>2, LeaveRootInv DEF Leave
  <2>3. CASE lowlink[top.s] # top.preorder
    BY <1>4, <2>1, <2>3, LeaveStaysInv DEF Leave
  <2>4. QED
    BY <2>2, <2>3
<1>5. CASE UNCHANGED vars
  <2>1. /\ input' = input /\ next' = next /\ calls' = calls /\ lowlink' = lowlink
        /\ stack' = stack /\ sccs' = sccs
    BY <1>5 DEF vars
  <2>2. deps' = deps /\ Exprs' = Exprs /\ \A e : Reachable(e)' = Reachable(e)
    BY <2>1, SameGraph
  <2>3. Visited' = Visited
    BY <2>1, <2>2 DEF Visited
  <2>4. TypeOK' /\ OnePlaceEach'
    <3>1. TypeOK'
      BY <2>1, <2>2 DEF IInv, TypeOK
    <3>2. OnePlaceEach'
      BY <2>1, <2>2 DEF IInv, OnePlaceEach, Placed, Active, Elements
    <3>3. QED
      BY <3>1, <3>2
  <2>5. CallsInv' /\ StackInv' /\ ActiveInv'
    BY <2>1, <2>2 DEF IInv, CallsInv, StackInv, ActiveInv
  <2>6. VisitedInv' /\ OriginInv' /\ Connected'
    BY <2>1, <2>2, <2>3 DEF IInv, VisitedInv, OriginInv, Connected, Active, Elements
  <2>7. QED
    BY <2>1, <2>4, <2>5, <2>6 DEF IInv
<1>6. QED
  BY <1>1, <1>2, <1>3, <1>4, <1>5 DEF Next, Step

\* When the search is over, all that was visited is in a component, and that is
\* a closed set with the expressions of the program in it.
LEMMA FinishedFacts ==
    ASSUME IInv, Finished
    PROVE  /\ stack = <<>>
           /\ Placed = UNION {Reachable(e) : e \in Elements(input.exprs)}
<1>1. calls = <<>> /\ next > Len(input.exprs)
  BY DEF Finished
<1>2. DOMAIN calls = {} /\ Active = {}
  BY <1>1 DEF Active
<1>3. stack = <<>>
  <2>1. DOMAIN stack = {}
    BY <1>2 DEF IInv, StackInv
  <2>2. stack \in Seq(Exprs)
    BY DEF IInv, TypeOK
  <2>3. Len(stack) = 0
    BY <2>1, <2>2
  <2>4. QED
    BY <2>2, <2>3
<1>4. IsGraph(deps) /\ input.exprs \in Seq(Exprs) /\ UINT_MAX \in Nat /\ UINT_MAX > 0
  BY InputFacts DEF IInv
<1>5. Placed = Visited
  <2>1. Elements(stack) = {}
    BY <1>3 DEF Elements
  <2>2. {e \in Exprs : lowlink[e] \in 1 .. (UINT_MAX - 1)} = {}
    BY <1>2, <2>1 DEF IInv, OnePlaceEach
  <2>3. \A e \in Exprs : lowlink[e] \in 0 .. UINT_MAX
    BY ElementTypes
  <2>4. \A e \in Exprs : lowlink[e] = 0 \/ lowlink[e] = UINT_MAX
    BY <1>4, <2>2, <2>3
  <2>5. Placed = {e \in Exprs : lowlink[e] = UINT_MAX}
    BY DEF IInv, OnePlaceEach
  <2>6. QED
    BY <1>4, <2>4, <2>5 DEF Visited
<1>6. ClosedIn(deps, Visited)
  BY <1>2 DEF IInv, VisitedInv, ClosedIn, Visited, Exprs
<1>7. \A e \in Elements(input.exprs) : e \in Visited /\ e \in Exprs
  <2>1. next \in 1 .. (Len(input.exprs) + 1) /\ Len(input.exprs) \in Nat
    BY <1>4 DEF IInv, TypeOK
  <2>2. next - 1 = Len(input.exprs) /\ DOMAIN input.exprs = 1 .. Len(input.exprs)
    BY <1>1, <1>4, <2>1
  <2>3. \A n \in DOMAIN input.exprs : input.exprs[n] \in Visited
    BY <2>2 DEF IInv, OriginInv
  <2>4. QED
    BY <2>3 DEF Elements, Visited
<1>8. \A e \in Elements(input.exprs) : Reachable(e) \subseteq Visited
  BY <1>4, <1>6, <1>7, ReachableFacts
<1>9. Visited \subseteq UNION {Reachable(e) : e \in Elements(input.exprs)}
  BY DEF IInv, OriginInv
<1>10. QED
  BY <1>3, <1>5, <1>8, <1>9

(* Throughout the search for components the invariant holds.                *)
THEOREM SpecIInv == Spec => []IInv
<1>1. QED
  BY InitIInv, NextIInv, PTL DEF Spec

(* Every variable of construct_sccs keeps its type; no depth of recursion   *)
(* reaches UINT_MAX, the lowlink that marks what is in a component.         *)
THEOREM TypeCorrect == Spec => []TypeOK
<1>1. IInv => TypeOK
  BY DEF IInv
<1>2. QED
  BY <1>1, SpecIInv, PTL

(* For every list of expressions and every graph of dependencies,           *)
(* construct_sccs loses no expression and meets none twice, and puts into   *)
(* a component only expressions that depend on one another.                 *)
THEOREM SearchIsSound == Spec => []SearchSound
<1>1. IInv => SearchSound
  <2>1. IInv => AllPlaced
    BY FinishedFacts DEF AllPlaced
  <2>2. QED
    BY <2>1 DEF IInv, SearchSound
<1>2. QED
  BY <1>1, SpecIInv, PTL
=============================================================================
