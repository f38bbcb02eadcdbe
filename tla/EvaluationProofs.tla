-------------------------- MODULE EvaluationProofs ---------------------------
(***************************************************************************)
(* For every program: whatever runs while the compiler does calls only     *)
(* functions that are there, unless an object file refers to a name that   *)
(* nothing is bound to; names mean the same in all code; and what is       *)
(* written is the expansion of the source files.                           *)
(***************************************************************************)
EXTENDS Evaluation, Induction, SequenceTheorems, TLAPS

-----------------------------------------------------------------------------
(* The inductive invariant.  Its parts are stated for any bindings bs,      *)
(* objects objs, memory mem, stack st and so on, so that they can be said    *)
(* of the state before and of the state after a step.                       *)

\* A name has been given the address, or some address.
Gives(bs, name, address) ==
    \E i \in DOMAIN bs : bs[i].name = name /\ bs[i].address = address
Bound(bs, name) == \E i \in DOMAIN bs : bs[i].name = name

\* What may be called by anyone.  Thunks with the handler of a meta-expression at
\* top level are called while this is expanded, and never again.
Public(mem) == {a \in DOMAIN mem : mem[a].type = "thunk" => mem[a].handler = "evaluate"}
Places(mem) == DOMAIN mem \union {NotFound}
Handlers    == {"evaluate", "generate"}

\* What code may try to call.
Callable(mem) == Public(mem) \union {NotFound}

BindingsOK(bs, mem) == bs \in Seq([name : Names, address : Public(mem)])

\* The symbols of an object that wait for an address have none or one that their
\* name has been given; the others are bindings.  What an object refers to is
\* among its symbols.
Symbols == [name : Names, bind : {STB_LOCAL, STB_GLOBAL}, shndx : {SHN_UNDEF, "text"},
            value : Nat \X Nat]
SymbolOK(sym, bs) == /\ sym \in Symbols /\ sym.bind = STB_GLOBAL
                     /\ \/ IsMutable(sym) /\ sym.value = NotFound
                        \/ Gives(bs, sym.name, sym.value)
Object == [syms : UNION {[0 .. m -> Symbols] : m \in Nat}, refs : Seq(Names)]
ObjectOK(object, bs) ==
    /\ \A i \in DOMAIN object.syms \ {0} : SymbolOK(object.syms[i], bs)
    /\ \A k \in DOMAIN object.refs : \E i \in DOMAIN object.syms \ {0} :
          object.syms[i].name = object.refs[k]
ObjectsOK(objs, bs) ==
    /\ objs \in Seq(Object)
    /\ \A n \in DOMAIN objs : ObjectOK(objs[n], bs)

\* Every symbol whose name is bound has its address.
Linked(objs, bs) ==
    \A n \in DOMAIN objs : \A i \in DOMAIN objs[n].syms \ {0} :
        LET sym == objs[n].syms[i] IN Bound(bs, sym.name) => Gives(bs, sym.name, sym.value)

LinksInv == phase # "generate_metaprogram" => Linked(objects, bindings)

\* What is in memory.
IsBuiltin(c) == c.type = "builtin"
IsNative(c, objs) == c.type = "native" /\ c.object \in DOMAIN objs
IsThunk(c, mem) ==
    /\ c \in [type : {"thunk"}, function : Bodies, handler : Handlers, cache : Places(mem)]
    /\ c.cache # NotFound => /\ mem[c.cache].type = "body"
                             /\ c.function.refs # <<>> => mem[c.cache].links # <<>>
IsBody(a, c, mem, bs) ==
    /\ c \in [type : {"body"}, name : Names, refs : Seq(Names), links : Seq(Public(mem))]
    /\ DOMAIN c.links = DOMAIN c.refs
    /\ \A k \in DOMAIN c.refs : IF c.refs[k] = c.name THEN c.links[k] = a
                                ELSE Gives(bs, c.refs[k], c.links[k])
CodeOK(a, c, mem, objs, bs) ==
    IsBuiltin(c) \/ IsNative(c, objs) \/ IsThunk(c, mem) \/ IsBody(a, c, mem, bs)
MemoryOK(mem, n, objs, bs) ==
    /\ n \in Nat /\ DOMAIN mem \subseteq (0 .. n) \X Nat /\ NotFound \notin DOMAIN mem
    /\ \A a \in DOMAIN mem : CodeOK(a, mem[a], mem, objs, bs)

\* What an expression under expansion will have become.
Refs(metas) == FlattenSeq([k \in DOMAIN metas |-> Expansion[metas[k]].refs])
Expanded(e) == IF e.type = "meta" THEN Expansion[e]
               ELSE [e EXCEPT !.type = Constrained(@), !.metas = <<>>,
                              !.refs = @ \o Refs(e.metas)]

\* What the expression that compile_files is at expands to.
Current == IF file \in DOMAIN program.files /\ pos \in DOMAIN program.files[file]
           THEN {Expansion[program.files[file][pos]]} ELSE {}

\* Frames under way in phase ph, where the current expression has to become cur.
RunFrames(mem)    == [op : {"run"}, calls : Seq(Callable(mem))]
ExpandFrames(mem) == [op : {"expand"}, owner : {"try", "init", "file"}, at : Places(mem),
                      expr : Bodies \union Metas, handler : Handlers,
                      stage : {"next", "container", "macro"}, container : Places(mem)]
FrameOK(f, mem, ph, cur) ==
    /\ f.stage # "next" => HasMeta(f.expr)
    /\ f.owner = "init" => /\ f.expr \in Bodies
                           /\ f.at \in DOMAIN mem /\ mem[f.at].type = "thunk"
                           /\ mem[f.at].function.refs # <<>> => f.expr.refs # <<>>
    /\ f.owner = "try" => ph = "try_generate_metas"
    /\ f.owner = "file" => ph = "compile_files" /\ Expanded(f.expr) \in cur
    /\ ph = "compile_files" => f.handler = "evaluate"
    /\ f.stage = "container" => /\ f.container \in DOMAIN mem /\ mem[f.container].type = "thunk"
                                /\ mem[f.container].function.refs # <<>>

\* A frame that waits for the function made of a container: it has been compiled
\* or is about to be, in the frame above.
Awaits(f, mem) == f.op = "expand" /\ f.stage = "container" /\ mem[f.container].cache = NotFound
Prepares(f, a) == f.op = "expand" /\ f.owner = "init" /\ f.at = a

StackOK(st, mem, ph, cur) ==
    /\ st \in Seq(RunFrames(mem) \union ExpandFrames(mem))
    /\ \A j \in DOMAIN st : st[j].op = "expand" => FrameOK(st[j], mem, ph, cur)
    /\ \A j \in DOMAIN st : Awaits(st[j], mem) => j # 1 /\ Prepares(st[j - 1], st[j].container)
    /\ st # <<>> => ph \in {"try_generate_metas", "compile_files"}

\* The first n expressions of a source file, and all of them, expanded.
UpTo(p, f, n)      == [i \in 1 .. n |-> Expansion[p.files[f][i]]]
ExpandedFile(p, f) == [i \in DOMAIN p.files[f] |-> Expansion[p.files[f][i]]]

\* How far compile_files is.
FilesInv ==
    /\ program \in Programs
    /\ DOMAIN expanded = DOMAIN program.files
    /\ phase \in {"load", "generate_metaprogram", "try_generate_metas"} =>
          /\ file = 1 /\ written = <<>>
          /\ \A f \in DOMAIN program.files : expanded[f] = <<>>
    /\ phase = "compile_files" =>
          /\ file \in Nat \ {0} /\ pos \in Nat \ {0} /\ written = <<>>
          /\ file \in DOMAIN program.files => pos <= Len(program.files[file]) + 1
          /\ \A f \in DOMAIN program.files :
                expanded[f] = IF f < file THEN ExpandedFile(program, f)
                              ELSE IF f = file THEN UpTo(program, f, pos - 1) ELSE <<>>
    /\ phase = "write" =>
          /\ written \in Seq(Seq(Bodies)) /\ file = Len(written) + 1
          /\ \A f \in DOMAIN program.files : expanded[f] = ExpandedFile(program, f)
    /\ \A f \in DOMAIN written : f \in DOMAIN program.files /\ written[f] = ExpandedFile(program, f)

\* The expressions of a round, and the phases.
RoundInv ==
    /\ phase \in {"load", "generate_metaprogram", "try_generate_metas", "compile_files",
                  "write", "done", "error", "crash"}
    /\ phase = "load" => loads = 0 /\ objects = <<>>
    /\ pos \in Nat
    /\ phase \in {"load", "generate_metaprogram", "try_generate_metas"} =>
          all_exprs \in Seq(Bodies \union Metas) /\ extension \in Seq(Bodies)

\* Code that is going to call what is not there, or has done so, comes from an
\* object that has not been linked to all it refers to.
WildFrame(f) == f.op = "run" /\ NotFound \in Range(f.calls)
Wild(st)     == \E j \in DOMAIN st : WildFrame(st[j])
WildInv      == phase = "crash" \/ Wild(stack) => Unresolved

BindingsInv == BindingsOK(bindings, code)
ObjectsInv  == ObjectsOK(objects, bindings)
CodeInv     == MemoryOK(code, loads, objects, bindings)
StackInv    == StackOK(stack, code, phase, Current)

IInv == /\ BindingsInv /\ ObjectsInv /\ LinksInv /\ CodeInv
        /\ StackInv /\ WildInv /\ FilesInv /\ RoundInv

-----------------------------------------------------------------------------
(* Sequences.                                                               *)

\* FlattenSeq joins the sequences one after the other.
LEMMA FlattenSteps ==
    ASSUME NEW S, NEW s \in Seq(Seq(S))
    PROVE  \E g :
              /\ \A i \in 0 .. Len(s) : g[i] \in Seq(S)
              /\ g[0] = <<>>
              /\ \A i \in 1 .. Len(s) : g[i - 1] \in Seq(S) /\ g[i] = g[i - 1] \o s[i]
              /\ FlattenSeq(s) = g[Len(s)]
<1> DEFINE n == Len(s)
           U == Seq(S)
           step == [i \in 1 .. n |-> [u \in U |-> u \o s[i]]]
           Is(f) == f = [i \in 1 .. n |-> IF i = 1 THEN s[i] ELSE f[i - 1] \o s[i]]
<1>1. n \in Nat /\ <<>> \in U /\ \A i \in 1 .. n : s[i] \in U
  OBVIOUS
<1>2. StepsIn(step, n, U)
  <2>1. \A i \in 1 .. n : \A u \in U : u \o s[i] \in U
    BY <1>1
  <2> HIDE DEF n, U
  <2>2. QED
    BY <2>1 DEF StepsIn
<1>3. PICK g : Computes(g, <<>>, step, n, U)
  <2> HIDE DEF n, U, step
  <2> QED BY <1>1, <1>2, Iterate
<1>4. g \in [0 .. n -> U] /\ g[0] = <<>> /\ \A i \in 1 .. n : g[i] = step[i][g[i - 1]]
  <2> HIDE DEF n, U, step
  <2> QED BY <1>3 DEF Computes
<1> HIDE DEF n, U
<1>5. /\ \A i \in 0 .. n : g[i] \in U
      /\ \A i \in 1 .. n : g[i - 1] \in U
  BY <1>1, <1>4
<1>6. \A i \in 1 .. n : g[i] = g[i - 1] \o s[i]
  BY <1>4, <1>5
<1>7. CASE n = 0
  <2>1. s = <<>> /\ FlattenSeq(s) = s
    BY <1>7 DEF FlattenSeq, n
  <2>2. QED
    BY <1>4, <1>5, <1>6, <1>7, <2>1 DEF n, U
<1>8. CASE n # 0
  <2> DEFINE f == [i \in 1 .. n |-> g[i]]
             c == CHOOSE h : Is(h)
  <2>1. g[1] = s[1] /\ 1 \in 1 .. n
    <3>1. 1 \in 1 .. n
      BY <1>1, <1>8
    <3>2. <<>> \o s[1] = s[1]
      BY <1>1, <3>1 DEF U
    <3>3. g[1] = g[1 - 1] \o s[1]
      BY <1>6, <3>1, Zenon
    <3>4. 1 - 1 = 0 /\ g[0] = <<>>
      BY <1>4
    <3>5. QED
      BY <3>1, <3>2, <3>3, <3>4
  <2>2. Is(f)
    <3>1. ASSUME NEW i \in 1 .. n
          PROVE  f[i] = IF i = 1 THEN s[i] ELSE f[i - 1] \o s[i]
      <4>1. CASE i = 1
        BY <2>1, <4>1
      <4>2. CASE i # 1
        <5>1. i - 1 \in 1 .. n
          BY <1>1, <4>2
        <5>2. QED
          BY <1>6, <4>2, <5>1
      <4>3. QED
        BY <4>1, <4>2
    <3>2. f = [i \in 1 .. n |-> f[i]]
      OBVIOUS
    <3> HIDE DEF f
    <3>3. QED
      BY <3>1, <3>2
  <2>3. Is(c)
    <3> HIDE DEF Is, f
    <3> QED BY <2>2
  <2>4. FlattenSeq(s) = c[n]
    BY <1>8 DEF FlattenSeq, n
  <2> HIDE DEF c, f
  <2> DEFINE T == {i \in 0 .. n : i # 0 => c[i] = g[i]}
  <2>5. 0 \in T
    BY <1>1
  <2>6. ASSUME NEW i \in 1 .. n, i - 1 \in T
        PROVE  i \in T
    <3>1. c[i] = IF i = 1 THEN s[i] ELSE c[i - 1] \o s[i]
      BY <2>3
    <3>2. CASE i = 1
      BY <2>1, <3>1, <3>2
    <3>3. CASE i # 1
      <4>1. c[i - 1] = g[i - 1]
        BY <1>1, <2>6, <3>3
      <4>2. c[i] = g[i - 1] \o s[i]
        BY <3>1, <3>3, <4>1
      <4>3. c[i] = g[i]
        BY <1>6, <4>2
      <4>4. QED
        BY <4>3
    <3>4. QED
      BY <3>2, <3>3
  <2>7. 0 .. n \subseteq T
    <3> HIDE DEF T
    <3> QED BY <1>1, <2>5, <2>6, IndexInduction
  <2>8. c[n] = g[n]
    BY <1>1, <1>8, <2>7
  <2>9. QED
    BY <1>4, <1>5, <1>6, <2>4, <2>8 DEF n, U
<1>9. QED
  BY <1>7, <1>8

LEMMA CatFacts ==
    ASSUME NEW S, NEW a \in Seq(S), NEW b \in Seq(S)
    PROVE  /\ a \o b \in Seq(S) /\ Len(a \o b) = Len(a) + Len(b)
           /\ DOMAIN (a \o b) = 1 .. Len(a \o b)
           /\ \A j \in 1 .. Len(a) : (a \o b)[j] = a[j]
           /\ \A j \in 1 .. Len(b) : (a \o b)[Len(a) + j] = b[j]
  OBVIOUS

\* When a sequence is that of two others joined.
LEMMA IsCat ==
    ASSUME NEW S, NEW a \in Seq(S), NEW b \in Seq(S), NEW c \in Seq(S),
           Len(c) = Len(a) + Len(b),
           \A k \in 1 .. (Len(a) + Len(b)) : c[k] = IF k <= Len(a) THEN a[k] ELSE b[k - Len(a)]
    PROVE  c = a \o b
<1> DEFINE d == a \o b
<1>1. d \in Seq(S) /\ Len(d) = Len(a) + Len(b)
  OBVIOUS
<1>2. \A k \in 1 .. Len(c) : c[k] = d[k]
  OBVIOUS
<1> HIDE DEF d
<1>3. c = d
  BY <1>1, <1>2, SeqEqual
<1>4. QED
  BY <1>3 DEF d

\* The items of sequences joined are those of the sequences.
LEMMA FlattenItems ==
    ASSUME NEW S, NEW s \in Seq(Seq(S))
    PROVE  /\ FlattenSeq(s) \in Seq(S)
           /\ \A k \in DOMAIN FlattenSeq(s) :
                 \E i \in DOMAIN s : \E j \in DOMAIN s[i] : FlattenSeq(s)[k] = s[i][j]
           /\ \A i \in DOMAIN s : \A j \in DOMAIN s[i] :
                 \E k \in DOMAIN FlattenSeq(s) : FlattenSeq(s)[k] = s[i][j]
<1>1. PICK g :
          /\ \A i \in 0 .. Len(s) : g[i] \in Seq(S)
          /\ g[0] = <<>>
          /\ \A i \in 1 .. Len(s) : g[i - 1] \in Seq(S) /\ g[i] = g[i - 1] \o s[i]
          /\ FlattenSeq(s) = g[Len(s)]
  BY FlattenSteps
<1> DEFINE n == Len(s)
           In(m) == /\ \A k \in DOMAIN g[m] : \E i \in 1 .. m : \E j \in DOMAIN s[i] : g[m][k] = s[i][j]
                    /\ \A i \in 1 .. m : \A j \in DOMAIN s[i] : \E k \in DOMAIN g[m] : g[m][k] = s[i][j]
           T == {m \in 0 .. n : In(m)}
<1>2. /\ n \in Nat /\ DOMAIN s = 1 .. n
      /\ \A i \in 1 .. n : s[i] \in Seq(S) /\ g[i] \in Seq(S) /\ g[i - 1] \in Seq(S)
  <2>1. n \in Nat /\ DOMAIN s = 1 .. n /\ \A i \in 1 .. n : s[i] \in Seq(S)
    OBVIOUS
  <2>2. QED
    BY <1>1, <2>1
<1>3. 0 \in T
  <2>1. DOMAIN g[0] = {} /\ 1 .. 0 = {}
    BY <1>1
  <2>2. QED
    BY <1>2, <2>1
<1>4. ASSUME NEW m \in 1 .. n, m - 1 \in T
      PROVE  m \in T
  <2> DEFINE a == g[m - 1]
             b == s[m]
             c == g[m]
  <2>1. a \in Seq(S) /\ b \in Seq(S) /\ c = a \o b
    BY <1>1, <1>2
  <2>2. In(m - 1)
    BY <1>4
  <2>3. /\ Len(c) = Len(a) + Len(b) /\ Len(a) \in Nat /\ Len(b) \in Nat
        /\ \A k \in 1 .. Len(a) : c[k] = a[k]
        /\ \A k \in 1 .. Len(b) : c[Len(a) + k] = b[k]
        /\ DOMAIN a = 1 .. Len(a) /\ DOMAIN b = 1 .. Len(b) /\ DOMAIN c = 1 .. Len(c)
    <3> HIDE DEF a, b, c
    <3> QED BY <2>1
  <2>4. ASSUME NEW k \in DOMAIN c
        PROVE  \E i \in 1 .. m : \E j \in DOMAIN s[i] : c[k] = s[i][j]
    <3>1. CASE k <= Len(a)
      <4>1. k \in DOMAIN a /\ c[k] = a[k]
        <5> HIDE DEF a, b, c
        <5> QED BY <2>3, <3>1
      <4>2. PICK i \in 1 .. (m - 1) : \E j \in DOMAIN s[i] : a[k] = s[i][j]
        BY <2>2, <4>1
      <4>3. i \in 1 .. m
        OBVIOUS
      <4>4. QED
        BY <4>1, <4>2, <4>3
    <3>2. CASE ~(k <= Len(a))
      <4>1. k - Len(a) \in DOMAIN b /\ c[k] = b[k - Len(a)]
        <5> HIDE DEF a, b, c
        <5>1. k \in Nat /\ k - Len(a) \in 1 .. Len(b) /\ Len(a) + (k - Len(a)) = k
          BY <2>3, <3>2
        <5>2. QED
          BY <2>3, <5>1
      <4>2. m \in 1 .. m
        OBVIOUS
      <4>3. QED
        BY <4>1, <4>2
    <3>3. QED
      BY <3>1, <3>2
  <2>5. ASSUME NEW i \in 1 .. m, NEW j \in DOMAIN s[i]
        PROVE  \E k \in DOMAIN c : c[k] = s[i][j]
    <3>1. CASE i = m
      <4>1. Len(a) + j \in DOMAIN c /\ c[Len(a) + j] = b[j]
        <5>1. j \in 1 .. Len(b)
          BY <2>3, <3>1
        <5> HIDE DEF a, b, c
        <5>2. QED
          BY <2>3, <5>1
      <4>2. QED
        BY <3>1, <4>1
    <3>2. CASE i # m
      <4>1. i \in 1 .. (m - 1)
        BY <3>2
      <4>2. PICK k \in DOMAIN a : a[k] = s[i][j]
        BY <2>2, <4>1
      <4>3. k \in DOMAIN c /\ c[k] = a[k]
        <5> HIDE DEF a, b, c
        <5> QED BY <2>3
      <4>4. QED
        BY <4>2, <4>3
    <3>3. QED
      BY <3>1, <3>2
  <2>6. QED
    BY <2>4, <2>5
<1>5. 0 .. n \subseteq T
  <2> HIDE DEF T
  <2> QED BY <1>2, <1>3, <1>4, IndexInduction
<1>6. In(n)
  <2>1. n \in 0 .. n
    BY <1>2
  <2> HIDE DEF n, In
  <2>2. QED
    BY <1>5, <2>1
<1>7. g[n] \in Seq(S)
  <2>1. n = 0 \/ n \in 1 .. n
    BY <1>2
  <2>2. QED
    BY <1>1, <1>2, <2>1
<1>8. FlattenSeq(s) = g[n]
  BY <1>1
<1> HIDE DEF n
<1>9. /\ \A k \in DOMAIN FlattenSeq(s) :
            \E i \in DOMAIN s : \E j \in DOMAIN s[i] : FlattenSeq(s)[k] = s[i][j]
      /\ \A i \in DOMAIN s : \A j \in DOMAIN s[i] :
            \E k \in DOMAIN FlattenSeq(s) : FlattenSeq(s)[k] = s[i][j]
  <2> DEFINE F == FlattenSeq(s)
             D == DOMAIN s
  <2>1. F = g[n] /\ D = 1 .. n
    BY <1>2, <1>8
  <2> HIDE DEF F, D
  <2>2. /\ \A k \in DOMAIN F : \E i \in D : \E j \in DOMAIN s[i] : F[k] = s[i][j]
        /\ \A i \in D : \A j \in DOMAIN s[i] : \E k \in DOMAIN F : F[k] = s[i][j]
    BY <1>6, <2>1, Zenon
  <2>3. QED
    BY <2>2 DEF F, D
<1>10. QED
  BY <1>7, <1>8, <1>9, Zenon

\* Joining two lists of sequences.
LEMMA FlattenCat ==
    \A S : \A s, t \in Seq(Seq(S)) : FlattenSeq(s \o t) = FlattenSeq(s) \o FlattenSeq(t)
<1>0. SUFFICES ASSUME NEW S, NEW s, NEW t, s \in Seq(Seq(S)), t \in Seq(Seq(S))
               PROVE  FlattenSeq(s \o t) = FlattenSeq(s) \o FlattenSeq(t)
  OBVIOUS
<1> DEFINE st == s \o t
<1>1. st \in Seq(Seq(S)) /\ Len(st) = Len(s) + Len(t) /\ Len(s) \in Nat /\ Len(t) \in Nat
  BY <1>0
<1>2. /\ \A i \in 1 .. Len(s) : st[i] = s[i]
      /\ \A i \in 1 .. Len(t) : st[Len(s) + i] = t[i]
  BY <1>0
<1> HIDE DEF st
<1>3. PICK g :
          /\ \A i \in 0 .. Len(st) : g[i] \in Seq(S)
          /\ g[0] = <<>>
          /\ \A i \in 1 .. Len(st) : g[i - 1] \in Seq(S) /\ g[i] = g[i - 1] \o st[i]
          /\ FlattenSeq(st) = g[Len(st)]
  BY <1>1, FlattenSteps
<1>4. PICK a :
          /\ \A i \in 0 .. Len(s) : a[i] \in Seq(S)
          /\ a[0] = <<>>
          /\ \A i \in 1 .. Len(s) : a[i - 1] \in Seq(S) /\ a[i] = a[i - 1] \o s[i]
          /\ FlattenSeq(s) = a[Len(s)]
  BY <1>0, FlattenSteps
<1>5. PICK b :
          /\ \A i \in 0 .. Len(t) : b[i] \in Seq(S)
          /\ b[0] = <<>>
          /\ \A i \in 1 .. Len(t) : b[i - 1] \in Seq(S) /\ b[i] = b[i - 1] \o t[i]
          /\ FlattenSeq(t) = b[Len(t)]
  BY <1>0, FlattenSteps
<1>6. g[Len(s)] = a[Len(s)]
  <2> DEFINE T == {i \in 0 .. Len(s) : g[i] = a[i]}
  <2>1. 0 \in T
    BY <1>1, <1>3, <1>4
  <2>2. ASSUME NEW i \in 1 .. Len(s), i - 1 \in T
        PROVE  i \in T
    <3>1. i \in 1 .. Len(st) /\ i \in 0 .. Len(s)
      BY <1>1
    <3>2. g[i] = g[i - 1] \o s[i]
      BY <1>2, <1>3, <3>1, Zenon
    <3>3. a[i] = a[i - 1] \o s[i]
      BY <1>4, Zenon
    <3>4. g[i - 1] = a[i - 1]
      BY <2>2
    <3>5. QED
      BY <3>1, <3>2, <3>3, <3>4, Zenon
  <2>3. 0 .. Len(s) \subseteq T
    <3> HIDE DEF T
    <3> QED BY <1>1, <2>1, <2>2, IndexInduction
  <2>4. Len(s) \in 0 .. Len(s)
    BY <1>1
  <2>5. QED
    BY <2>3, <2>4, Zenon
<1>7. g[Len(s) + Len(t)] = a[Len(s)] \o b[Len(t)]
  <2> DEFINE x == a[Len(s)]
             T == {i \in 0 .. Len(t) : g[Len(s) + i] = x \o b[i]}
  <2>1. x \in Seq(S)
    BY <1>1, <1>4
  <2> HIDE DEF x
  <2>2. 0 \in T
    <3>1. x \o <<>> = x /\ 0 \in 0 .. Len(t) /\ Len(s) + 0 = Len(s)
      BY <1>1, <2>1
    <3>2. QED
      BY <1>5, <1>6, <3>1, Zenon DEF x
  <2>3. ASSUME NEW i \in 1 .. Len(t), i - 1 \in T
        PROVE  i \in T
    <3>1. Len(s) + i \in 1 .. Len(st) /\ (Len(s) + i) - 1 = Len(s) + (i - 1) /\ i \in 0 .. Len(t)
      BY <1>1
    <3>2. g[Len(s) + i] = g[Len(s) + (i - 1)] \o t[i]
      BY <1>2, <1>3, <3>1, Zenon
    <3>3. g[Len(s) + (i - 1)] = x \o b[i - 1]
      BY <2>3
    <3>4. b[i - 1] \in Seq(S) /\ t[i] \in Seq(S)
      <4>1. b[i - 1] \in Seq(S)
        BY <1>5, Zenon
      <4>2. t[i] \in Seq(S)
        BY <1>0, ElementOfSeq
      <4>3. QED
        BY <4>1, <4>2
    <3>5. (x \o b[i - 1]) \o t[i] = x \o (b[i - 1] \o t[i])
      <4>1. \A y, z \in Seq(S) : (x \o y) \o z = x \o (y \o z)
        BY <2>1, ConcatAssociative
      <4>2. QED
        BY <3>4, <4>1
    <3>6. b[i] = b[i - 1] \o t[i]
      BY <1>5, Zenon
    <3>7. QED
      BY <3>1, <3>2, <3>3, <3>5, <3>6, Zenon
  <2>4. 0 .. Len(t) \subseteq T
    <3> HIDE DEF T
    <3> QED BY <1>1, <2>2, <2>3, IndexInduction
  <2>5. Len(t) \in 0 .. Len(t)
    BY <1>1
  <2>6. QED
    BY <2>4, <2>5, Zenon DEF x
<1>8. QED
  BY <1>1, <1>3, <1>4, <1>5, <1>7 DEF st

-----------------------------------------------------------------------------
(* Expressions and their expansion.                                         *)

\* What the compiler takes for an expression is one of these.
LEMMA Kinds ==
    ASSUME NEW e \in Exprs
    PROVE  /\ Height(e) \in Nat
           /\ e.type \in {"malformed", "meta", "function", "other", "constrain"}
           /\ e.type = "malformed" => e = Malformed
           /\ e.type = "meta" => /\ e \in Metas /\ e.out \in Exprs /\ Height(e.out) < Height(e)
                                 /\ e.name \in Names
                                 /\ e.container # <<>> => e.container[1] \in Bodies
           /\ e.type \in {"function", "other", "constrain"} =>
                 e \in Bodies /\ \A k \in DOMAIN e.metas : Height(e.metas[k]) < Height(e)
<1>1. CASE e = Malformed
  <2>1. e.type = "malformed"
    BY <1>1 DEF Malformed
  <2>2. QED
    BY <1>1, <2>1, ExprsAssumption
<1>2. CASE /\ e \in [type : {"meta"}, name : Names, container : Seq(Exprs), out : Exprs]
           /\ e.container # <<>> => Len(e.container) = 1 /\ e.container[1] \in Bodies
           /\ Height(e.out) < Height(e)
  <2>1. e.type = "meta" /\ e.name \in Names /\ e.out \in Exprs
    BY <1>2
  <2>2. QED
    BY <1>2, <2>1, ExprsAssumption DEF Metas
<1>3. CASE e \in Bodies /\ \A k \in DOMAIN e.metas : Height(e.metas[k]) < Height(e)
  <2>1. e.type \in {"function", "other", "constrain"}
    BY <1>3 DEF Bodies
  <2>2. QED
    BY <1>3, <2>1, ExprsAssumption
<1>4. QED
  BY <1>1, <1>2, <1>3, ExprsAssumption

LEMMA BodyParts ==
    ASSUME NEW e \in Bodies
    PROVE  /\ e.type \in {"function", "other", "constrain"} /\ e.name \in Names
           /\ e.metas \in Seq(Metas) /\ e.refs \in Seq(Names)
           /\ e.type = "constrain" => e.metas # <<>>
  BY DEF Bodies

\* An expression with other contents, which has its signature.
Remade(e, metas, refs) ==
    [e EXCEPT !.type = Constrained(@), !.metas = metas, !.refs = refs]

LEMMA RemadeFacts ==
    ASSUME NEW e \in Bodies, NEW metas \in Seq(Metas), NEW refs \in Seq(Names)
    PROVE  LET new == Remade(e, metas, refs)
           IN  /\ new \in Bodies /\ new.type = Constrained(e.type) /\ new.name = e.name
               /\ new.metas = metas /\ new.refs = refs
  BY DEF Bodies, Constrained, Remade

\* Metas in the order of an expression.
LEMMA MetasAreExprs ==
    ASSUME NEW metas \in Seq(Metas), NEW k \in DOMAIN metas
    PROVE  metas[k] \in Metas /\ metas[k] \in Exprs
<1>1. metas[k] \in Metas
  OBVIOUS
<1>2. QED
  BY <1>1 DEF Metas

\* What Expansion makes of an expression, with that of others as in F.
Becomes(F, e) ==
    IF e.type = "meta" THEN F[e.out]
    ELSE IF e.type = "malformed" THEN Other(<<>>, <<>>)
    ELSE [e EXCEPT !.type = Constrained(@), !.metas = <<>>,
                   !.refs = @ \o FlattenSeq([k \in DOMAIN e.metas |-> F[e.metas[k]].refs])]

Plain == {b \in Bodies : b.metas = <<>>}

LEMMA PlainRefs ==
    ASSUME NEW F \in [Exprs -> Plain], NEW metas \in Seq(Metas)
    PROVE  /\ [k \in DOMAIN metas |-> F[metas[k]].refs] \in Seq(Seq(Names))
           /\ FlattenSeq([k \in DOMAIN metas |-> F[metas[k]].refs]) \in Seq(Names)
<1> DEFINE r(k) == F[metas[k]].refs
           n == Len(metas)
<1>1. n \in Nat /\ DOMAIN metas = 1 .. n
  OBVIOUS
<1>2. ASSUME NEW k \in 1 .. n
      PROVE  r(k) \in Seq(Names)
  <2>1. metas[k] \in Exprs
    BY <1>1, MetasAreExprs
  <2>2. F[metas[k]] \in Plain
    BY <2>1
  <2>3. QED
    BY <2>2 DEF Plain, Bodies
<1>3. [k \in 1 .. n |-> r(k)] \in Seq(Seq(Names))
  <2> HIDE DEF r, n
  <2> QED BY <1>1, <1>2
<1>4. QED
  BY <1>1, <1>3, FlattenItems

LEMMA BecomesPlain ==
    ASSUME NEW F \in [Exprs -> Plain], NEW e \in Exprs
    PROVE  Becomes(F, e) \in Plain
<1>1. CASE e.type = "meta"
  BY <1>1, Kinds DEF Becomes
<1>2. CASE e.type = "malformed"
  <2>1. <<>> \in Seq(Metas) /\ <<>> \in Seq(Names)
    OBVIOUS
  <2>2. Other(<<>>, <<>>) \in Bodies
    BY <2>1, NamesAssumption DEF Other, Bodies
  <2>3. QED
    BY <1>2, <2>2 DEF Becomes, Other, Plain
<1>3. CASE e.type \in {"function", "other", "constrain"}
  <2>1. e \in Bodies
    BY <1>3, Kinds
  <2> DEFINE r == FlattenSeq([k \in DOMAIN e.metas |-> F[e.metas[k]].refs])
  <2>2. e.metas \in Seq(Metas) /\ e.refs \in Seq(Names)
    BY <2>1, BodyParts
  <2>3. r \in Seq(Names)
    BY <2>2, PlainRefs
  <2>4. Becomes(F, e) = Remade(e, <<>>, e.refs \o r)
    BY <1>3 DEF Becomes, Remade
  <2> HIDE DEF r
  <2>5. <<>> \in Seq(Metas) /\ e.refs \o r \in Seq(Names)
    BY <2>2, <2>3
  <2>6. Remade(e, <<>>, e.refs \o r) \in Plain
    BY <2>1, <2>5, RemadeFacts DEF Plain
  <2>7. QED
    BY <2>4, <2>6
<1>4. QED
  BY <1>1, <1>2, <1>3, Kinds

\* It depends on F below e only.
LEMMA BecomesLocal ==
    ASSUME NEW F, NEW G, NEW e \in Exprs,
           \A d \in Exprs : Height(d) < Height(e) => F[d] = G[d]
    PROVE  Becomes(F, e) = Becomes(G, e)
<1>1. CASE e.type = "meta"
  BY <1>1, Kinds DEF Becomes
<1>2. CASE e.type = "malformed"
  BY <1>2 DEF Becomes
<1>3. CASE e.type \in {"function", "other", "constrain"}
  <2>1. \A k \in DOMAIN e.metas : F[e.metas[k]] = G[e.metas[k]]
    BY <1>3, Kinds, BodyParts, MetasAreExprs
  <2>2. [k \in DOMAIN e.metas |-> F[e.metas[k]].refs] = [k \in DOMAIN e.metas |-> G[e.metas[k]].refs]
    BY <2>1
  <2>3. QED
    BY <1>3, <2>2 DEF Becomes
<1>4. QED
  BY <1>1, <1>2, <1>3, Kinds

\* F is right up to height n.
Right(F, n) == \A e \in Exprs : Height(e) < n => F[e] = Becomes(F, e)

LEMMA RightUnique ==
    ASSUME NEW F, NEW m \in Nat, Right(F, m), NEW G, NEW n \in Nat, Right(G, n)
    PROVE  \A e \in Exprs : Height(e) < m /\ Height(e) < n => F[e] = G[e]
<1> DEFINE T == {h \in Nat : \A e \in Exprs :
                    Height(e) < h /\ Height(e) < m /\ Height(e) < n => F[e] = G[e]}
<1>1. 0 \in T
  BY Kinds
<1>2. ASSUME NEW h \in T
      PROVE  h + 1 \in T
  <2> SUFFICES ASSUME NEW e \in Exprs, Height(e) < h + 1, Height(e) < m, Height(e) < n
               PROVE  F[e] = G[e]
    OBVIOUS
  <2>1. \A d \in Exprs : Height(d) < Height(e) => F[d] = G[d]
    BY Kinds
  <2>2. Becomes(F, e) = Becomes(G, e)
    BY <2>1, BecomesLocal
  <2>3. QED
    BY <2>2 DEF Right
<1>3. T = Nat
  <2>1. T \in SUBSET Nat
    OBVIOUS
  <2> HIDE DEF T
  <2>2. QED
    BY <1>1, <1>2, <2>1, InductionSet
<1>4. QED
  <2> SUFFICES ASSUME NEW e \in Exprs, Height(e) < m, Height(e) < n
               PROVE  F[e] = G[e]
    OBVIOUS
  <2>1. m \in T
    BY <1>3
  <2>2. QED
    BY <2>1

LEMMA RightExists ==
    ASSUME NEW n \in Nat
    PROVE  \E F \in [Exprs -> Plain] : Right(F, n)
<1> DEFINE T == {h \in Nat : \E F \in [Exprs -> Plain] : Right(F, h)}
<1>1. 0 \in T
  <2> DEFINE p == Other(<<>>, <<>>)
             F == [e \in Exprs |-> p]
  <2>1. p \in Plain
    <3>1. <<>> \in Seq(Metas) /\ <<>> \in Seq(Names)
      OBVIOUS
    <3>2. QED
      BY <3>1, NamesAssumption DEF Plain, Bodies, Other
  <2> HIDE DEF p
  <2>2. Right(F, 0)
    BY <2>1, Kinds DEF Right
  <2>3. F \in [Exprs -> Plain]
    BY <2>1
  <2>4. QED
    <3> HIDE DEF F
    <3> QED BY <2>2, <2>3
<1>2. ASSUME NEW h \in T
      PROVE  h + 1 \in T
  <2>1. PICK F \in [Exprs -> Plain] : Right(F, h)
    OBVIOUS
  <2> DEFINE G == [e \in Exprs |-> Becomes(F, e)]
  <2>2. G \in [Exprs -> Plain]
    BY BecomesPlain
  <2>3. ASSUME NEW e \in Exprs, Height(e) < h + 1
        PROVE  G[e] = Becomes(G, e)
    <3>1. ASSUME NEW d \in Exprs, Height(d) < Height(e)
          PROVE  F[d] = G[d]
      <4>1. Height(d) < h
        BY <2>3, <3>1, Kinds
      <4>2. QED
        BY <2>1, <4>1 DEF Right
    <3>2. Becomes(F, e) = Becomes(G, e)
      <4> HIDE DEF G
      <4> QED BY <3>1, BecomesLocal
    <3>3. QED
      BY <3>2
  <2>4. Right(G, h + 1)
    <3> HIDE DEF G
    <3> QED BY <2>2, <2>3 DEF Right
  <2>5. QED
    <3> HIDE DEF G
    <3> QED BY <2>2, <2>4
<1>3. T = Nat
  <2>1. T \in SUBSET Nat
    OBVIOUS
  <2> HIDE DEF T
  <2>2. QED
    BY <1>1, <1>2, <2>1, InductionSet
<1>4. QED
  BY <1>3

\* Expansion is what its definition says, and has no meta-expressions in it.
LEMMA ExpansionDef ==
    /\ Expansion \in [Exprs -> Plain]
    /\ \A e \in Exprs : Expansion[e] = Becomes(Expansion, e)
<1> DEFINE Up(e) == CHOOSE F : F \in [Exprs -> Plain] /\ Right(F, Height(e) + 1)
           H == [e \in Exprs |-> Up(e)[e]]
           Is(f) == f = [e \in Exprs |-> Becomes(f, e)]
<1>1. ASSUME NEW e \in Exprs
      PROVE  Up(e) \in [Exprs -> Plain] /\ Right(Up(e), Height(e) + 1)
  <2>1. Height(e) + 1 \in Nat
    BY Kinds
  <2>2. \E F \in [Exprs -> Plain] : Right(F, Height(e) + 1)
    BY <2>1, RightExists
  <2>3. QED
    BY <2>2
<1> HIDE DEF Up
<1>2. ASSUME NEW e \in Exprs
      PROVE  H[e] = Becomes(H, e) /\ H[e] \in Plain
  <2> DEFINE F == Up(e)
  <2>1. F \in [Exprs -> Plain] /\ Right(F, Height(e) + 1)
    BY <1>1
  <2>2. ASSUME NEW d \in Exprs, Height(d) < Height(e)
        PROVE  F[d] = H[d]
    <3>1. Right(Up(d), Height(d) + 1) /\ Height(d) \in Nat /\ Height(e) \in Nat
      BY <1>1, Kinds
    <3>2. Height(d) < Height(d) + 1 /\ Height(d) < Height(e) + 1
      BY <2>2, <3>1
    <3> HIDE DEF F
    <3>3. F[d] = Up(d)[d]
      BY <2>1, <3>1, <3>2, RightUnique
    <3>4. QED
      BY <3>3
  <2> HIDE DEF F, H
  <2>3. Becomes(F, e) = Becomes(H, e)
    BY <2>2, BecomesLocal
  <2>4. F[e] = Becomes(F, e) /\ F[e] \in Plain
    BY <2>1, Kinds DEF Right
  <2>5. QED
    BY <2>3, <2>4 DEF H, F
<1>3. Is(H)
  <2>1. H = [e \in Exprs |-> H[e]]
    OBVIOUS
  <2> HIDE DEF H
  <2>2. QED
    BY <1>2, <2>1
<1>4. Expansion = CHOOSE f : Is(f)
  BY DEF Expansion, Becomes
<1>5. Is(Expansion)
  <2> HIDE DEF Is, H
  <2> QED BY <1>3, <1>4
<1>6. \A e \in Exprs : Expansion[e] = Becomes(Expansion, e)
  BY <1>5, Zenon
<1>7. ASSUME NEW e \in Exprs
      PROVE  Expansion[e] \in Plain
  <2>1. Right(Expansion, Height(e) + 1)
    BY <1>6 DEF Right
  <2>2. Height(e) \in Nat /\ Height(e) + 1 \in Nat /\ Height(e) < Height(e) + 1
    BY Kinds
  <2>3. Expansion[e] = Up(e)[e]
    BY <1>1, <2>1, <2>2, RightUnique
  <2>4. QED
    BY <1>1, <2>3
<1>8. Expansion = [e \in Exprs |-> Expansion[e]]
  <2>1. Expansion = [e \in Exprs |-> Becomes(Expansion, e)]
    BY <1>5
  <2>2. QED
    BY <1>6, <2>1
<1>9. QED
  BY <1>6, <1>7, <1>8

LEMMA ExpansionPlain ==
    ASSUME NEW e \in Exprs
    PROVE  /\ Expansion[e] \in Bodies /\ Expansion[e].metas = <<>>
           /\ Expansion[e].refs \in Seq(Names)
<1>1. Expansion[e] \in Plain
  BY ExpansionDef
<1>2. QED
  BY <1>1, BodyParts DEF Plain

\* What the meta-expressions in an expression add to its references.
LEMMA RefsFacts ==
    /\ Refs(<<>>) = <<>>
    /\ \A metas \in Seq(Metas) : Refs(metas) \in Seq(Names)
    /\ \A a, b \in Seq(Metas) : Refs(a \o b) = Refs(a) \o Refs(b)
    /\ \A m \in Metas : Refs(<<m>>) = Expansion[m].refs
<1> DEFINE r(metas) == [k \in DOMAIN metas |-> Expansion[metas[k]].refs]
<1>1. \A metas \in Seq(Metas) : /\ r(metas) \in Seq(Seq(Names)) /\ Len(r(metas)) = Len(metas)
                                /\ Refs(metas) \in Seq(Names)
  <2> SUFFICES ASSUME NEW metas \in Seq(Metas)
               PROVE  /\ r(metas) \in Seq(Seq(Names)) /\ Len(r(metas)) = Len(metas)
                      /\ Refs(metas) \in Seq(Names)
    OBVIOUS
  <2>1. r(metas) \in Seq(Seq(Names)) /\ Refs(metas) \in Seq(Names)
    BY ExpansionDef, PlainRefs DEF Refs
  <2>2. DOMAIN r(metas) = 1 .. Len(metas) /\ Len(metas) \in Nat
    OBVIOUS
  <2> HIDE DEF r
  <2>3. QED
    BY <2>1, <2>2
<1>2. Refs(<<>>) = <<>>
  <2>1. r(<<>>) = <<>>
    OBVIOUS
  <2>2. FlattenSeq(<<>>) = <<>>
    BY DEF FlattenSeq
  <2>3. QED
    BY <2>1, <2>2 DEF Refs
<1>3. ASSUME NEW a \in Seq(Metas), NEW b \in Seq(Metas)
      PROVE  Refs(a \o b) = Refs(a) \o Refs(b)
  <2>1. a \o b \in Seq(Metas)
    OBVIOUS
  <2>2. r(a \o b) = r(a) \o r(b)
    <3>1. /\ r(a) \in Seq(Seq(Names)) /\ r(b) \in Seq(Seq(Names)) /\ r(a \o b) \in Seq(Seq(Names))
          /\ Len(r(a)) = Len(a) /\ Len(r(b)) = Len(b) /\ Len(r(a \o b)) = Len(a) + Len(b)
      BY <1>1, <2>1
    <3>2. ASSUME NEW k \in 1 .. Len(a) + Len(b)
          PROVE  r(a \o b)[k] = IF k <= Len(a) THEN r(a)[k] ELSE r(b)[k - Len(a)]
      OBVIOUS
    <3> DEFINE x == r(a)
               y == r(b)
               z == r(a \o b)
    <3>3. z = x \o y
      <4>1. /\ x \in Seq(Seq(Names)) /\ y \in Seq(Seq(Names)) /\ z \in Seq(Seq(Names))
            /\ Len(z) = Len(x) + Len(y)
            /\ \A k \in 1 .. (Len(x) + Len(y)) : z[k] = IF k <= Len(x) THEN x[k] ELSE y[k - Len(x)]
        <5> HIDE DEF r
        <5> QED BY <3>1, <3>2
      <4> HIDE DEF x, y, z
      <4>2. QED
        BY <4>1, IsCat
    <3>4. QED
      BY <3>3
  <2>3. FlattenSeq(r(a) \o r(b)) = FlattenSeq(r(a)) \o FlattenSeq(r(b))
    <3> HIDE DEF r
    <3> QED BY <1>1, FlattenCat
  <2>4. QED
    BY <2>2, <2>3 DEF Refs
<1>4. ASSUME NEW m \in Metas
      PROVE  Refs(<<m>>) = Expansion[m].refs
  <2>1. Len(r(<<m>>)) = 1 /\ r(<<m>>)[1] = Expansion[m].refs
    OBVIOUS
  <2> HIDE DEF r
  <2>2. FlattenSeq(r(<<m>>)) = r(<<m>>)[1]
    <3> DEFINE s == r(<<m>>)
    <3>1. s \in Seq(Seq(Names))
      <4>1. <<m>> \in Seq(Metas)
        OBVIOUS
      <4>2. QED
        BY <1>1, <4>1
    <3>2. Len(s) = 1
      BY <2>1
    <3> HIDE DEF s
    <3>3. PICK g :
              /\ \A i \in 0 .. Len(s) : g[i] \in Seq(Names)
              /\ g[0] = <<>>
              /\ \A i \in 1 .. Len(s) : g[i - 1] \in Seq(Names) /\ g[i] = g[i - 1] \o s[i]
              /\ FlattenSeq(s) = g[Len(s)]
      BY <3>1, FlattenSteps
    <3>4. g[1] = g[1 - 1] \o s[1] /\ s[1] \in Seq(Names)
      <4>1. 1 \in 1 .. Len(s)
        BY <3>2
      <4>2. g[1] = g[1 - 1] \o s[1]
        BY <3>3, <4>1, Zenon
      <4>3. QED
        BY <3>1, <4>1, <4>2
    <3>5. 1 - 1 = 0 /\ <<>> \o s[1] = s[1]
      BY <3>4
    <3>6. QED
      BY <3>2, <3>3, <3>4, <3>5 DEF s
  <2>3. QED
    BY <2>1, <2>2 DEF Refs, r
<1>5. QED
  BY <1>1, <1>2, <1>3, <1>4

LEMMA ExpandedExpr ==
    ASSUME NEW e \in Exprs, e.type # "malformed"
    PROVE  e \in Bodies \union Metas /\ Expanded(e) = Expansion[e]
<1>1. Expansion[e] = Becomes(Expansion, e)
  BY ExpansionDef
<1>2. QED
  BY <1>1, Kinds DEF Expanded, Becomes, Refs

LEMMA MetaOut ==
    ASSUME NEW e \in Metas
    PROVE  /\ e \in Exprs /\ e.type = "meta" /\ e.out \in Exprs
           /\ Expansion[e] = Expansion[e.out] /\ Expanded(e) = Expansion[e]
<1>1. e \in Exprs /\ e.type = "meta"
  BY DEF Metas
<1>2. Expansion[e] = Becomes(Expansion, e)
  BY <1>1, ExpansionDef
<1>3. QED
  BY <1>1, <1>2, Kinds DEF Becomes, Expanded

\* A body is told by what is in it.
LEMMA SameBody ==
    ASSUME NEW a \in Bodies, NEW b \in Bodies, a.type = b.type, a.name = b.name,
           a.metas = b.metas, a.refs = b.refs
    PROVE  a = b
  BY DEF Bodies

LEMMA ExpandedBody ==
    ASSUME NEW e \in Bodies
    PROVE  /\ Expanded(e) \in Bodies
           /\ Expanded(e).type = Constrained(e.type) /\ Expanded(e).name = e.name
           /\ Expanded(e).metas = <<>> /\ Expanded(e).refs = e.refs \o Refs(e.metas)
<1>1. /\ e.metas \in Seq(Metas) /\ e.refs \in Seq(Names) /\ Refs(e.metas) \in Seq(Names)
      /\ e.type # "meta"
  BY BodyParts, RefsFacts
<1> DEFINE none == <<>>
           refs == e.refs \o Refs(e.metas)
           new  == Expanded(e)
<1>2. refs \in Seq(Names) /\ none \in Seq(Metas)
  BY <1>1
<1>3. new = Remade(e, none, refs)
  BY <1>1 DEF Expanded, Remade
<1> HIDE DEF none, refs, new
<1>4. /\ new \in Bodies /\ new.type = Constrained(e.type) /\ new.name = e.name
      /\ new.metas = none /\ new.refs = refs
  BY <1>2, <1>3, RemadeFacts
<1>5. QED
  BY <1>4 DEF none, refs, new

\* The next meta-expression, if there is one.
LEMMA NextMetaFacts ==
    ASSUME NEW e \in Bodies \union Metas, HasMeta(e)
    PROVE  /\ NextMeta(e) \in Metas /\ NextMeta(e).out \in Exprs
           /\ e.type # "meta" => /\ e \in Bodies /\ e.metas # <<>> /\ Tail(e.metas) \in Seq(Metas)
                                 /\ e.metas = <<NextMeta(e)>> \o Tail(e.metas)
           /\ e.type = "meta" => e \in Metas /\ NextMeta(e) = e
<1>1. CASE e.type = "meta"
  <2>1. e \in Metas
    BY <1>1, BodyParts
  <2>2. QED
    BY <1>1, <2>1, MetaOut DEF NextMeta
<1>2. CASE e.type # "meta"
  <2>1. e \in Bodies /\ e.metas \in Seq(Metas) /\ e.metas # <<>>
    BY <1>2, BodyParts DEF Metas, HasMeta
  <2> DEFINE ms == e.metas
  <2>2. ms \in Seq(Metas) /\ ms # <<>>
    BY <2>1
  <2> HIDE DEF ms
  <2>3. Head(ms) \in Metas /\ Tail(ms) \in Seq(Metas)
    BY <2>2
  <2>4. ms = <<Head(ms)>> \o Tail(ms)
    <3>1. <<Head(ms)>> \in Seq(Metas)
      BY <2>3
    <3> DEFINE h == <<Head(ms)>>
               u == Tail(ms)
    <3>2. Len(h) = 1 /\ Len(u) = Len(ms) - 1 /\ Len(ms) \in Nat
      BY <2>2
    <3>3. \A k \in 1 .. (Len(h) + Len(u)) : ms[k] = IF k <= Len(h) THEN h[k] ELSE u[k - Len(h)]
      BY <2>2
    <3>4. Len(ms) = Len(h) + Len(u)
      BY <3>2
    <3>5. h \in Seq(Metas) /\ u \in Seq(Metas)
      BY <2>3, <3>1
    <3> HIDE DEF h, u
    <3>6. ms = h \o u
      BY <2>2, <3>3, <3>4, <3>5, IsCat
    <3>7. QED
      BY <3>6 DEF h, u
  <2>5. NextMeta(e) = Head(ms)
    BY <1>2 DEF NextMeta, ms
  <2>6. QED
    BY <1>2, <2>1, <2>3, <2>4, <2>5, MetaOut DEF ms
<1>3. QED
  BY <1>1, <1>2

\* A replacement changes nothing about what an expression expands to.
LEMMA ReplaceFacts ==
    ASSUME NEW e \in Bodies \union Metas, HasMeta(e), NextMeta(e).out.type # "malformed"
    PROVE  LET r == replace(e, NextMeta(e).out)
           IN  /\ r \in Bodies \union Metas
               /\ Expanded(r) = Expanded(e)
               /\ e \in Bodies => r \in Bodies /\ (e.refs # <<>> => r.refs # <<>>)
<1> DEFINE m == NextMeta(e)
           out == m.out
           r == replace(e, out)
<1>1. m \in Metas /\ out \in Exprs /\ out.type # "malformed"
  BY NextMetaFacts
<1>2. Expansion[m] = Expansion[out] /\ Expanded(out) = Expansion[out] /\ out \in Bodies \union Metas
  BY <1>1, MetaOut, ExpandedExpr
<1>3. CASE e.type = "meta"
  <2>1. r = out /\ m = e /\ e \in Metas
    BY <1>3, NextMetaFacts DEF replace
  <2>2. Expanded(e) = Expansion[e]
    BY <1>3 DEF Expanded
  <2>3. e \notin Bodies
    BY <1>3, BodyParts
  <2>4. QED
    BY <1>2, <2>1, <2>2, <2>3
<1>4. CASE e.type # "meta"
  <2> DEFINE tail == Tail(e.metas)
             more == IF out.type = "meta" THEN <<out>> ELSE out.metas
             refs == IF out.type = "meta" THEN <<>> ELSE out.refs
  <2>1. e \in Bodies /\ tail \in Seq(Metas) /\ e.metas = <<m>> \o tail
    BY <1>4, NextMetaFacts
  <2>2. e.refs \in Seq(Names)
    BY <2>1, BodyParts
  <2>3. /\ more \in Seq(Metas) /\ refs \in Seq(Names)
        /\ refs \o Refs(more) = Expansion[m].refs
    <3>1. CASE out.type = "meta"
      <4>1. out \in Metas
        BY <1>2, <3>1, BodyParts
      <4>2. Refs(<<out>>) = Expansion[out].refs /\ Refs(<<out>>) \in Seq(Names) /\ <<out>> \in Seq(Metas)
        <5> HIDE DEF out
        <5>1. <<out>> \in Seq(Metas)
          BY <4>1
        <5>2. QED
          BY <4>1, <5>1, RefsFacts
      <4>3. <<>> \o Refs(<<out>>) = Refs(<<out>>) /\ <<>> \in Seq(Names)
        BY <4>2
      <4>4. QED
        BY <1>2, <3>1, <4>2, <4>3
    <3>2. CASE out.type # "meta"
      <4>1. out \in Bodies
        BY <1>2, <3>2 DEF Metas
      <4>2. Expanded(out).refs = out.refs \o Refs(out.metas)
        BY <4>1, ExpandedBody
      <4>3. QED
        BY <1>2, <3>2, <4>1, <4>2, BodyParts
    <3>3. QED
      BY <3>1, <3>2
  <2> DEFINE ms == more \o tail
             rs == e.refs \o refs
  <2>4. ms \in Seq(Metas) /\ rs \in Seq(Names)
    <3> HIDE DEF more, refs, tail
    <3> QED BY <2>1, <2>2, <2>3
  <2>5. r = Remade(e, ms, rs)
    <3>1. CASE out.type = "meta"
      <4>1. r = [e EXCEPT !.type = Constrained(@), !.metas = ms]
        BY <1>4, <3>1 DEF replace
      <4>2. rs = e.refs
        BY <2>2, <3>1
      <4> HIDE DEF ms, rs, r
      <4>3. QED
        BY <2>1, <4>1, <4>2 DEF Bodies, Remade
    <3>2. CASE out.type # "meta"
      BY <1>4, <3>2 DEF replace, Remade
    <3>3. QED
      BY <3>1, <3>2
  <2> HIDE DEF ms, rs, r
  <2>6. /\ r \in Bodies /\ r.type = Constrained(e.type) /\ r.name = e.name
        /\ r.metas = ms /\ r.refs = rs
    BY <2>1, <2>4, <2>5, RemadeFacts
  <2>7. rs \o Refs(ms) = e.refs \o Refs(e.metas)
    <3> DEFINE a == e.refs
               b == refs
               c == Refs(more)
               d == Refs(tail)
    <3>1. Refs(ms) = c \o d
      BY <2>1, <2>3, RefsFacts DEF ms
    <3>2. Refs(e.metas) = (b \o c) \o d
      <4>1. <<m>> \in Seq(Metas)
        BY <1>1
      <4>2. Refs(<<m>> \o tail) = Refs(<<m>>) \o Refs(tail)
        <5> HIDE DEF m, tail
        <5> QED BY <2>1, <4>1, RefsFacts
      <4>3. Refs(<<m>>) = Expansion[m].refs
        BY <1>1, RefsFacts
      <4>4. QED
        BY <2>1, <2>3, <4>2, <4>3
    <3>3. a \in Seq(Names) /\ b \in Seq(Names) /\ c \in Seq(Names) /\ d \in Seq(Names)
      BY <2>1, <2>2, <2>3, RefsFacts
    <3>4. (a \o b) \o (c \o d) = a \o ((b \o c) \o d)
      <4> HIDE DEF a, b, c, d
      <4>1. \A x, y, z \in Seq(Names) : (x \o y) \o z = x \o (y \o z)
        BY ConcatAssociative
      <4>2. b \o c \in Seq(Names) /\ c \o d \in Seq(Names)
        BY <3>3
      <4>3. (a \o b) \o (c \o d) = a \o (b \o (c \o d))
        <5> DEFINE cd == c \o d
        <5>1. cd \in Seq(Names)
          BY <4>2
        <5> HIDE DEF cd
        <5>2. (a \o b) \o cd = a \o (b \o cd)
          BY <3>3, <4>1, <5>1, Zenon
        <5>3. QED
          BY <5>2 DEF cd
      <4>4. b \o (c \o d) = (b \o c) \o d
        BY <3>3, <4>1, Zenon
      <4>5. QED
        BY <4>3, <4>4, Zenon
    <3>5. QED
      BY <3>1, <3>2, <3>4 DEF rs
  <2>8. Expanded(r) = Expanded(e)
    <3>1. /\ Expanded(e) \in Bodies /\ Expanded(r) \in Bodies
          /\ Expanded(r).type = Expanded(e).type /\ Expanded(r).name = Expanded(e).name
          /\ Expanded(r).metas = Expanded(e).metas /\ Expanded(r).refs = Expanded(e).refs
      <4>1. /\ Expanded(e) \in Bodies /\ Expanded(e).name = e.name
            /\ Expanded(e).type = Constrained(e.type)
            /\ Expanded(e).metas = <<>> /\ Expanded(e).refs = e.refs \o Refs(e.metas)
        BY <2>1, ExpandedBody
      <4>2. /\ Expanded(r) \in Bodies /\ Expanded(r).name = r.name
            /\ Expanded(r).type = Constrained(r.type)
            /\ Expanded(r).metas = <<>> /\ Expanded(r).refs = r.refs \o Refs(r.metas)
        BY <2>6, ExpandedBody
      <4>3. Constrained(r.type) = Constrained(e.type)
        BY <2>6 DEF Constrained
      <4>4. QED
        BY <2>6, <2>7, <4>1, <4>2, <4>3
    <3>2. QED
      BY <3>1, SameBody
  <2>9. e.refs # <<>> => r.refs # <<>>
    <3>1. e.refs # <<>> => rs # <<>>
      <4> HIDE DEF refs
      <4> QED BY <2>2, <2>3, ConcatEqualIffEmpty, ConcatProperties DEF rs
    <3>2. QED
      BY <2>6, <3>1
  <2>10. QED
    BY <2>1, <2>6, <2>8, <2>9 DEF r
<1>5. QED
  BY <1>3, <1>4

LEMMA FinishedFacts ==
    ASSUME NEW e \in Bodies \union Metas, ~HasMeta(e)
    PROVE  e \in Bodies /\ e.metas = <<>> /\ Expanded(e) = e
<1>1. e \in Bodies /\ e.metas = <<>>
  BY DEF HasMeta, Metas
<1>2. Expanded(e).refs = e.refs
  <2>1. Expanded(e).refs = e.refs \o <<>>
    BY <1>1, ExpandedBody, RefsFacts
  <2>2. e.refs \in Seq(Names)
    BY <1>1, BodyParts
  <2>3. QED
    BY <2>1, <2>2
<1>3. Expanded(e).type = e.type
  <2>1. e.type # "constrain"
    BY <1>1, BodyParts
  <2>2. QED
    BY <1>1, <2>1, ExpandedBody DEF Constrained
<1>4. QED
  BY <1>1, <1>2, <1>3, ExpandedBody, SameBody

-----------------------------------------------------------------------------
(* Symbols and bindings.                                                    *)

LEMMA MaxFacts ==
    ASSUME NEW n \in Nat, NEW T \in SUBSET (0 .. n), T # {}
    PROVE  Max(T) \in T /\ \A k \in T : k <= Max(T)
<1>1. PICK m \in T : \A k \in T : k <= m
  BY Greatest
<1>2. \E x \in T : \A y \in T : x >= y
  BY <1>1
<1>3. Max(T) \in T /\ \A y \in T : Max(T) >= y
  BY <1>2, Zenon DEF Max
<1>4. QED
  BY <1>3

LEMMA MinFacts ==
    ASSUME NEW T \in SUBSET Nat, T # {}
    PROVE  Min(T) \in T /\ \A k \in T : Min(T) <= k
<1>1. \E x \in T : \A y \in T : x <= y
  BY Least
<1>2. QED
  BY <1>1, Zenon DEF Min

\* A symbol that waits for its address takes one that its name is given.
LEMMA MutateFacts ==
    ASSUME NEW syms, NEW S, NEW updates \in Seq(S), NEW i \in DOMAIN syms
    PROVE  LET sym == syms[i]
               new == mutate_bindings(syms, updates)[i]
           IN  \/ /\ i # 0 /\ IsMutable(sym)
                  /\ \E k \in DOMAIN updates : /\ updates[k].name = sym.name
                                               /\ new = [sym EXCEPT !.value = updates[k].address]
               \/ /\ new = sym
                  /\ \/ i = 0 \/ ~IsMutable(sym)
                     \/ \A k \in DOMAIN updates : updates[k].name # sym.name
<1> DEFINE named == {k \in DOMAIN updates : updates[k].name = syms[i].name}
<1>1. mutate_bindings(syms, updates)[i] =
        IF i # 0 /\ IsMutable(syms[i]) /\ named # {}
        THEN [syms[i] EXCEPT !.value = updates[Max(named)].address] ELSE syms[i]
  BY DEF mutate_bindings
<1>2. ASSUME named # {}
      PROVE  Max(named) \in named
  <2>1. Len(updates) \in Nat /\ named \in SUBSET (0 .. Len(updates))
    OBVIOUS
  <2> HIDE DEF named
  <2>2. QED
    BY <1>2, <2>1, MaxFacts
<1>3. CASE i # 0 /\ IsMutable(syms[i]) /\ named # {}
  <2>1. Max(named) \in DOMAIN updates /\ updates[Max(named)].name = syms[i].name
    BY <1>2, <1>3
  <2>2. mutate_bindings(syms, updates)[i] = [syms[i] EXCEPT !.value = updates[Max(named)].address]
    BY <1>1, <1>3
  <2> HIDE DEF named
  <2>3. QED
    BY <1>3, <2>1, <2>2
<1>4. CASE ~(i # 0 /\ IsMutable(syms[i]) /\ named # {})
  BY <1>1, <1>4
<1>5. QED
  BY <1>3, <1>4

\* A reference leads to the first symbol of its name.
LEMMA LinksFacts ==
    ASSUME NEW syms, DOMAIN syms \subseteq Nat, NEW refs, NEW k \in DOMAIN refs,
           \E i \in DOMAIN syms \ {0} : syms[i].name = refs[k]
    PROVE  /\ DOMAIN Links(syms, refs) = DOMAIN refs
           /\ \E i \in DOMAIN syms \ {0} :
                 /\ syms[i].name = refs[k] /\ Links(syms, refs)[k] = syms[i].value
                 /\ \A j \in DOMAIN syms \ {0} : syms[j].name = refs[k] => i <= j
<1> DEFINE T == {i \in DOMAIN syms \ {0} : syms[i].name = refs[k]}
<1>1. T \in SUBSET Nat /\ T # {}
  OBVIOUS
<1>2. DOMAIN Links(syms, refs) = DOMAIN refs /\ Links(syms, refs)[k] = syms[Min(T)].value
  BY DEF Links
<1>3. Min(T) \in T /\ \A j \in T : Min(T) <= j
  <2> HIDE DEF T
  <2> QED BY <1>1, MinFacts
<1>4. QED
  BY <1>2, <1>3

\* AddressOf gives a bound name one of its addresses.
LEMMA AddressOfFacts ==
    ASSUME NEW S, bindings \in Seq(S), NEW name
    PROVE  /\ Bound(bindings, name) => Gives(bindings, name, AddressOf(name))
           /\ ~Bound(bindings, name) => AddressOf(name) = NotFound
<1> DEFINE T == {i \in DOMAIN bindings : bindings[i].name = name}
<1>1. T \in SUBSET Nat
  OBVIOUS
<1>2. AddressOf(name) = IF T = {} THEN NotFound ELSE bindings[Min(T)].address
  BY DEF AddressOf
<1>3. CASE T = {}
  BY <1>2, <1>3 DEF Bound
<1>4. CASE T # {}
  <2>1. Min(T) \in T
    <3> HIDE DEF T
    <3> QED BY <1>1, <1>4, MinFacts
  <2>2. QED
    BY <1>2, <1>4, <2>1 DEF Bound, Gives
<1>5. QED
  BY <1>3, <1>4

LEMMA SymbolTableFacts ==
    ASSUME NEW n \in Nat, NEW defs \in Seq(Names), NEW refs \in Seq(Names)
    PROVE  LET syms == SymbolTable(n, defs, refs)
               m    == Len(defs) + Len(refs)
           IN  /\ m \in Nat /\ syms \in [0 .. m -> Symbols]
               /\ \A i \in 1 .. Len(defs) : syms[i] = Defined(defs[i], Address(n, i))
               /\ \A i \in 1 .. Len(refs) : syms[Len(defs) + i] = Undefined(refs[i])
               /\ \A i \in 1 .. m : \/ i \in 1 .. Len(defs)
                                    \/ i > Len(defs) /\ i - Len(defs) \in 1 .. Len(refs)
                                       /\ syms[i] = Undefined(refs[i - Len(defs)])
<1> DEFINE m == Len(defs) + Len(refs)
           syms == SymbolTable(n, defs, refs)
           Nothing == [name |-> "", bind |-> STB_LOCAL, shndx |-> SHN_UNDEF, value |-> NotFound]
<1>1. m \in Nat /\ DOMAIN syms = 0 .. m /\ Len(defs) \in Nat /\ Len(refs) \in Nat
  BY DEF SymbolTable
<1>2. ASSUME NEW i \in 0 .. m
      PROVE  /\ i = 0 => syms[i] = Nothing
             /\ i \in DOMAIN defs => syms[i] = Defined(defs[i], Address(n, i))
             /\ i # 0 /\ i \notin DOMAIN defs => syms[i] = Undefined(refs[i - Len(defs)])
  <2>1. syms[i] = CASE i = 0 -> Nothing
                    [] i \in DOMAIN defs -> Defined(defs[i], Address(n, i))
                    [] OTHER -> Undefined(refs[i - Len(defs)])
    BY DEF SymbolTable
  <2>2. 0 \notin DOMAIN defs
    OBVIOUS
  <2> HIDE DEF syms, m, Nothing
  <2>3. QED
    BY <2>1, <2>2
<1>3. \A i \in 1 .. Len(defs) : i # 0 /\ i \in DOMAIN defs /\ i \in 0 .. m /\ syms[i] = Defined(defs[i], Address(n, i))
  <2> SUFFICES ASSUME NEW i \in 1 .. Len(defs)
               PROVE  i # 0 /\ i \in DOMAIN defs /\ i \in 0 .. m /\ syms[i] = Defined(defs[i], Address(n, i))
    OBVIOUS
  <2>1. i # 0 /\ i \in DOMAIN defs /\ i \in 0 .. m
    BY <1>1
  <2> HIDE DEF syms, m
  <2>2. QED
    BY <1>2, <2>1
<1>4. \A i \in (Len(defs) + 1) .. m : i # 0 /\ i \notin DOMAIN defs /\ i \in 0 .. m /\ syms[i] = Undefined(refs[i - Len(defs)])
  <2> SUFFICES ASSUME NEW i \in (Len(defs) + 1) .. m
               PROVE  i # 0 /\ i \notin DOMAIN defs /\ i \in 0 .. m /\ syms[i] = Undefined(refs[i - Len(defs)])
    OBVIOUS
  <2>1. i # 0 /\ i \notin DOMAIN defs /\ i \in 0 .. m
    BY <1>1
  <2> HIDE DEF syms, m
  <2>2. QED
    BY <1>2, <2>1
<1>5. \A name \in Names : Undefined(name) \in Symbols
  BY DEF Undefined, Symbols, NotFound, Address
<1>6. \A name \in Names : \A k \in Nat : Defined(name, Address(n, k)) \in Symbols
  BY DEF Defined, Symbols, Address
<1>7. syms \in [0 .. m -> Symbols]
  <2>1. ASSUME NEW i \in 0 .. m
        PROVE  syms[i] \in Symbols
    <3>1. CASE i = 0
      <4>1. Nothing \in Symbols
        BY NamesAssumption DEF Symbols, NotFound, Address
      <4> HIDE DEF Nothing, syms
      <4>2. QED
        BY <1>2, <3>1, <4>1
    <3>2. CASE i \in 1 .. Len(defs)
      BY <1>3, <1>6, <3>2
    <3>3. CASE i \in (Len(defs) + 1) .. m
      BY <1>1, <1>4, <1>5, <3>3
    <3>4. QED
      BY <1>1, <3>1, <3>2, <3>3
  <2>2. syms = [i \in 0 .. m |-> syms[i]]
    BY <1>1 DEF SymbolTable
  <2> HIDE DEF syms, m
  <2>3. QED
    BY <2>1, <2>2
<1>8. \A i \in 1 .. Len(refs) : syms[Len(defs) + i] = Undefined(refs[i])
  <2> SUFFICES ASSUME NEW i \in 1 .. Len(refs)
               PROVE  syms[Len(defs) + i] = Undefined(refs[i])
    OBVIOUS
  <2>1. Len(defs) + i \in (Len(defs) + 1) .. m /\ (Len(defs) + i) - Len(defs) = i
    BY <1>1
  <2> HIDE DEF syms, m
  <2>2. QED
    BY <1>4, <2>1
<1>9. \A i \in 1 .. m : \/ i \in 1 .. Len(defs)
                        \/ i > Len(defs) /\ i - Len(defs) \in 1 .. Len(refs)
                           /\ syms[i] = Undefined(refs[i - Len(defs)])
  <2> HIDE DEF syms
  <2> QED BY <1>1, <1>4
<1> HIDE DEF syms, m
<1>10. QED
  BY <1>1, <1>3, <1>7, <1>8, <1>9 DEF syms, m

\* What is collected in n steps, each of which adds an item at either end or none.
Collects(c, item, sel, n, S) ==
    /\ sel \in SUBSET (1 .. n) /\ item \in [1 .. n -> S]
    /\ c[0] = <<>>
    /\ \A i \in 1 .. n : IF i \in sel
                         THEN c[i] = <<item[i]>> \o c[i - 1] \/ c[i] = Append(c[i - 1], item[i])
                         ELSE c[i] = c[i - 1]

LEMMA Collected ==
    ASSUME NEW S, NEW n \in Nat, NEW sel, NEW item, NEW c, Collects(c, item, sel, n, S)
    PROVE  /\ c[n] \in Seq(S)
           /\ \A k \in DOMAIN c[n] : \E i \in sel : c[n][k] = item[i]
           /\ \A i \in sel : \E k \in DOMAIN c[n] : c[n][k] = item[i]
<1> DEFINE In(m) == /\ c[m] \in Seq(S)
                    /\ \A k \in DOMAIN c[m] : \E i \in sel : i <= m /\ c[m][k] = item[i]
                    /\ \A i \in sel : i <= m => \E k \in DOMAIN c[m] : c[m][k] = item[i]
           T == {m \in 0 .. n : In(m)}
<1>0. /\ sel \in SUBSET (1 .. n) /\ item \in [1 .. n -> S]
      /\ c[0] = <<>>
      /\ \A i \in 1 .. n : IF i \in sel
                           THEN c[i] = <<item[i]>> \o c[i - 1] \/ c[i] = Append(c[i - 1], item[i])
                           ELSE c[i] = c[i - 1]
  BY DEF Collects
<1>1. 0 \in T
  <2>1. \A i \in sel : ~(i <= 0)
    BY <1>0
  <2>2. c[0] \in Seq(S) /\ DOMAIN c[0] = {}
    BY <1>0
  <2>3. QED
    BY <2>1, <2>2
<1>2. ASSUME NEW m \in 1 .. n, m - 1 \in T
      PROVE  m \in T
  <2> DEFINE u == c[m - 1]
             v == c[m]
             x == item[m]
  <2>1. In(m - 1) /\ u \in Seq(S) /\ x \in S
    BY <1>0, <1>2
  <2>2. CASE m \notin sel
    <3>1. v = u
      BY <1>0, <2>2
    <3>2. \A i \in sel : i <= m <=> i <= m - 1
      BY <1>0, <2>2
    <3>3. In(m)
      BY <2>1, <3>1, <3>2
    <3>4. QED
      BY <3>3
  <2>3. CASE m \in sel
    <3>1. v = <<x>> \o u \/ v = Append(u, x)
      BY <1>0, <2>3
    <3>2. PICK p \in 1 .. (Len(u) + 1) :
             /\ DOMAIN v = 1 .. (Len(u) + 1) /\ v[p] = x /\ v \in Seq(S) /\ Len(u) \in Nat
             /\ \A k \in DOMAIN v : k # p => \E j \in DOMAIN u : v[k] = u[j]
             /\ \A j \in DOMAIN u : \E k \in DOMAIN v : v[k] = u[j]
      <4> HIDE DEF u, v, x
      <4>1. CASE v = <<x>> \o u
        <5>1. /\ DOMAIN v = 1 .. (Len(u) + 1) /\ DOMAIN u = 1 .. Len(u) /\ Len(u) \in Nat
              /\ v[1] = x /\ \A j \in 1 .. Len(u) : v[j + 1] = u[j]
              /\ v \in Seq(S)
          BY <2>1, <4>1
        <5>2. \A k \in DOMAIN v : k # 1 => k - 1 \in DOMAIN u /\ v[k] = u[k - 1]
          BY <2>1, <4>1
        <5>3. \A j \in DOMAIN u : j + 1 \in DOMAIN v
          BY <5>1
        <5>4. 1 \in 1 .. (Len(u) + 1)
          BY <5>1
        <5>5. QED
          BY <5>1, <5>2, <5>3, <5>4
      <4>2. CASE v = Append(u, x)
        <5>1. /\ DOMAIN v = 1 .. (Len(u) + 1) /\ DOMAIN u = 1 .. Len(u) /\ Len(u) \in Nat
              /\ v[Len(u) + 1] = x /\ \A j \in 1 .. Len(u) : v[j] = u[j]
              /\ v \in Seq(S)
          BY <2>1, <4>2
        <5>2. \A k \in DOMAIN v : k # Len(u) + 1 => k \in DOMAIN u /\ v[k] = u[k]
          BY <5>1
        <5>3. \A j \in DOMAIN u : j \in DOMAIN v
          BY <5>1
        <5>4. Len(u) + 1 \in 1 .. (Len(u) + 1)
          BY <5>1
        <5>5. QED
          BY <5>1, <5>2, <5>3, <5>4
      <4>3. QED
        BY <3>1, <4>1, <4>2
    <3>3. ASSUME NEW k \in DOMAIN v
          PROVE  \E i \in sel : i <= m /\ v[k] = item[i]
      <4>1. CASE k = p
        BY <2>3, <3>2, <4>1
      <4>2. CASE k # p
        <5>1. PICK j \in DOMAIN u : v[k] = u[j]
          BY <3>2, <4>2
        <5>2. PICK i \in sel : i <= m - 1 /\ u[j] = item[i]
          BY <2>1
        <5>3. i <= m
          BY <1>0, <5>2
        <5>4. QED
          BY <5>1, <5>2, <5>3
      <4>3. QED
        BY <4>1, <4>2
    <3>4. ASSUME NEW i \in sel, i <= m
          PROVE  \E k \in DOMAIN v : v[k] = item[i]
      <4>1. CASE i = m
        BY <3>2, <4>1
      <4>2. CASE i # m
        <5>1. i <= m - 1
          BY <1>0, <3>4, <4>2
        <5>2. PICK j \in DOMAIN u : u[j] = item[i]
          BY <2>1, <5>1
        <5>3. QED
          BY <3>2, <5>2
      <4>3. QED
        BY <4>1, <4>2
    <3>5. In(m)
      <4> HIDE DEF x
      <4> QED BY <3>2, <3>3, <3>4, Zenon
    <3>6. QED
      BY <3>5
  <2>4. QED
    BY <2>2, <2>3
<1>3. 0 .. n \subseteq T
  <2> HIDE DEF T
  <2> QED BY <1>1, <1>2, IndexInduction
<1>4. In(n)
  <2>1. n \in 0 .. n
    OBVIOUS
  <2> HIDE DEF In
  <2>2. QED
    BY <1>3, <2>1
<1>5. \A i \in sel : i <= n
  BY <1>0
<1>6. QED
  BY <1>4, <1>5

\* The bindings of an object are its symbols that have an address from it.
Binding == [name : Names, address : Nat \X Nat]

LEMMA ImmutableBindings ==
    ASSUME NEW n \in Nat, NEW syms \in [0 .. n -> Symbols]
    PROVE  /\ immutable_bindings(syms) \in Seq(Binding)
           /\ \A k \in DOMAIN immutable_bindings(syms) : \E i \in 1 .. n :
                 /\ IsImmutable(syms[i])
                 /\ immutable_bindings(syms)[k] = [name |-> syms[i].name, address |-> syms[i].value]
           /\ \A i \in 1 .. n : IsImmutable(syms[i]) => \E k \in DOMAIN immutable_bindings(syms) :
                 immutable_bindings(syms)[k] = [name |-> syms[i].name, address |-> syms[i].value]
<1> DEFINE b(i) == [name |-> syms[i].name, address |-> syms[i].value]
           more(u, i) == IF IsImmutable(syms[i]) THEN <<b(i)>> \o u ELSE u
           step == [i \in 1 .. n |-> [u \in Seq(Binding) |-> more(u, i)]]
           Is(f) == f = [k \in 0 .. n |-> IF k = 0 THEN <<>> ELSE more(f[k - 1], k)]
           c == CHOOSE f : Is(f)
<1>1. \A i \in 1 .. n : b(i) \in Binding
  BY DEF Symbols, Binding
<1>2. ASSUME NEW i \in 1 .. n, NEW u \in Seq(Binding)
      PROVE  more(u, i) \in Seq(Binding)
  <2>1. <<b(i)>> \in Seq(Binding)
    BY <1>1
  <2> HIDE DEF b
  <2>2. QED
    BY <2>1
<1> HIDE DEF more
<1>3. StepsIn(step, n, Seq(Binding))
  BY <1>2 DEF StepsIn
<1>4. PICK g : Computes(g, <<>>, step, n, Seq(Binding))
  <2>1. <<>> \in Seq(Binding)
    OBVIOUS
  <2> HIDE DEF step
  <2>2. QED
    BY <1>3, <2>1, Iterate
<1>5. /\ g \in [0 .. n -> Seq(Binding)] /\ g[0] = <<>>
      /\ \A i \in 1 .. n : g[i] = more(g[i - 1], i)
  <2>1. /\ g \in [0 .. n -> Seq(Binding)] /\ g[0] = <<>>
        /\ \A i \in 1 .. n : g[i] = step[i][g[i - 1]]
    BY <1>4 DEF Computes
  <2>2. \A i \in 1 .. n : g[i - 1] \in Seq(Binding)
    BY <2>1
  <2>3. QED
    BY <2>1, <2>2
<1>6. Is(c)
  <2>1. ASSUME NEW k \in 0 .. n
        PROVE  g[k] = IF k = 0 THEN <<>> ELSE more(g[k - 1], k)
    BY <1>5
  <2>2. g = [k \in 0 .. n |-> g[k]]
    BY <1>5
  <2>3. Is(g)
    BY <2>1, <2>2
  <2> HIDE DEF Is
  <2>4. QED
    BY <2>3
<1>7. Given(syms) = c
  BY DEF Given, more
<1> HIDE DEF c
<1>8. c[0] = <<>> /\ \A i \in 1 .. n : c[i] = more(c[i - 1], i)
  BY <1>6
<1>9. immutable_bindings(syms) = c[n]
  <2>1. DOMAIN syms = 0 .. n /\ n \in 0 .. n /\ DOMAIN syms # {}
    OBVIOUS
  <2>2. Max(DOMAIN syms) \in 0 .. n /\ n <= Max(DOMAIN syms)
    BY <2>1, MaxFacts
  <2>3. Max(DOMAIN syms) = n
    BY <2>2
  <2>4. QED
    BY <1>7, <2>3 DEF immutable_bindings
<1> DEFINE sel == {i \in 1 .. n : IsImmutable(syms[i])}
           item == [i \in 1 .. n |-> b(i)]
<1>10. /\ sel \in SUBSET (1 .. n) /\ item \in [1 .. n -> Binding]
       /\ \A i \in 1 .. n : item[i] = b(i)
  BY <1>1
<1> HIDE DEF b
<1>11. \A i \in 1 .. n : IF i \in sel THEN c[i] = <<item[i]>> \o c[i - 1] ELSE c[i] = c[i - 1]
  BY <1>8, <1>10 DEF more
<1> HIDE DEF item
<1>12. /\ c[n] \in Seq(Binding)
       /\ \A k \in DOMAIN c[n] : \E i \in sel : c[n][k] = item[i]
       /\ \A i \in sel : \E k \in DOMAIN c[n] : c[n][k] = item[i]
  <2>1. Collects(c, item, sel, n, Binding)
    <3> HIDE DEF sel
    <3> QED BY <1>8, <1>10, <1>11 DEF Collects
  <2> HIDE DEF sel
  <2>2. QED
    BY <2>1, Collected
<1>13. /\ \A k \in DOMAIN c[n] : \E i \in 1 .. n : IsImmutable(syms[i]) /\ c[n][k] = b(i)
       /\ \A i \in 1 .. n : IsImmutable(syms[i]) => \E k \in DOMAIN c[n] : c[n][k] = b(i)
  <2>1. /\ \A i \in sel : i \in 1 .. n /\ IsImmutable(syms[i]) /\ item[i] = b(i)
        /\ \A i \in 1 .. n : IsImmutable(syms[i]) => i \in sel
    BY <1>10
  <2> HIDE DEF sel
  <2>2. QED
    BY <1>12, <2>1, Zenon
<1> DEFINE BindsImmutables(s) ==
             /\ s \in Seq(Binding)
             /\ \A k \in DOMAIN s : \E i \in 1 .. n : IsImmutable(syms[i]) /\ s[k] = b(i)
             /\ \A i \in 1 .. n : IsImmutable(syms[i]) => \E k \in DOMAIN s : s[k] = b(i)
<1>14. BindsImmutables(immutable_bindings(syms))
  <2>1. BindsImmutables(c[n])
    BY <1>12, <1>13, Zenon
  <2> HIDE DEF BindsImmutables
  <2>2. QED
    BY <1>9, <2>1
<1>15. QED
  BY <1>14, Zenon DEF b

\* The functions among expressions.
LEMMA FunctionsFacts ==
    ASSUME NEW S, NEW exprs \in Seq(S)
    PROVE  /\ Functions(exprs) \in Seq(S)
           /\ \A k \in DOMAIN Functions(exprs) : \E i \in DOMAIN exprs :
                 exprs[i].type = "function" /\ Functions(exprs)[k] = exprs[i]
           /\ \A i \in DOMAIN exprs : exprs[i].type = "function" =>
                 \E k \in DOMAIN Functions(exprs) : Functions(exprs)[k] = exprs[i]
<1> DEFINE n == Len(exprs)
           more(u, i) == IF exprs[i].type = "function" THEN Append(u, exprs[i]) ELSE u
           step == [i \in 1 .. n |-> [u \in Seq(S) |-> more(u, i)]]
           Is(f) == f = [k \in 0 .. n |-> IF k = 0 THEN <<>> ELSE more(f[k - 1], k)]
           c == CHOOSE f : Is(f)
<1>1. n \in Nat /\ DOMAIN exprs = 1 .. n /\ \A i \in 1 .. n : exprs[i] \in S
  OBVIOUS
<1>2. ASSUME NEW i \in 1 .. n, NEW u \in Seq(S)
      PROVE  more(u, i) \in Seq(S)
  BY <1>1
<1>3. FunctionsUpTo(exprs) = c
  <2>1. \A f, k : (IF k = 0 THEN <<>>
                   ELSE IF exprs[k].type = "function" THEN Append(f[k - 1], exprs[k])
                   ELSE f[k - 1])
                  = IF k = 0 THEN <<>> ELSE more(f[k - 1], k)
    OBVIOUS
  <2>2. QED
    BY <2>1 DEF FunctionsUpTo
<1> HIDE DEF more, n
<1>4. StepsIn(step, n, Seq(S))
  BY <1>2 DEF StepsIn
<1>5. PICK g : Computes(g, <<>>, step, n, Seq(S))
  <2>1. <<>> \in Seq(S)
    OBVIOUS
  <2> HIDE DEF step
  <2>2. QED
    BY <1>1, <1>4, <2>1, Iterate
<1>6. /\ g \in [0 .. n -> Seq(S)] /\ g[0] = <<>>
      /\ \A i \in 1 .. n : g[i] = more(g[i - 1], i)
  <2>1. /\ g \in [0 .. n -> Seq(S)] /\ g[0] = <<>>
        /\ \A i \in 1 .. n : g[i] = step[i][g[i - 1]]
    BY <1>5 DEF Computes
  <2>2. \A i \in 1 .. n : g[i - 1] \in Seq(S)
    BY <1>1, <2>1
  <2>3. QED
    BY <2>1, <2>2
<1>7. Is(c)
  <2>1. ASSUME NEW k \in 0 .. n
        PROVE  g[k] = IF k = 0 THEN <<>> ELSE more(g[k - 1], k)
    BY <1>1, <1>6
  <2>2. g = [k \in 0 .. n |-> g[k]]
    BY <1>6
  <2>3. Is(g)
    BY <2>1, <2>2
  <2> HIDE DEF Is
  <2>4. QED
    BY <2>3
<1> HIDE DEF c
<1>8. c[0] = <<>> /\ \A i \in 1 .. n : c[i] = more(c[i - 1], i)
  BY <1>1, <1>7
<1> DEFINE sel == {i \in 1 .. n : exprs[i].type = "function"}
           item == [i \in 1 .. n |-> exprs[i]]
<1>9. /\ sel \in SUBSET (1 .. n) /\ item \in [1 .. n -> S]
      /\ \A i \in 1 .. n : item[i] = exprs[i]
  BY <1>1
<1>10. \A i \in 1 .. n : IF i \in sel THEN c[i] = Append(c[i - 1], item[i]) ELSE c[i] = c[i - 1]
  BY <1>8 DEF more
<1> HIDE DEF item
<1>11. /\ c[n] \in Seq(S)
       /\ \A k \in DOMAIN c[n] : \E i \in sel : c[n][k] = item[i]
       /\ \A i \in sel : \E k \in DOMAIN c[n] : c[n][k] = item[i]
  <2>1. Collects(c, item, sel, n, S)
    <3> HIDE DEF sel
    <3> QED BY <1>8, <1>9, <1>10 DEF Collects
  <2> HIDE DEF sel
  <2>2. QED
    BY <1>1, <2>1, Collected
<1>12. Functions(exprs) = c[n]
  BY <1>3 DEF Functions, n
<1>13. QED
  BY <1>1, <1>9, <1>11, <1>12

-----------------------------------------------------------------------------
(* Memory and calls.                                                        *)

\* Code stays where it is, and what has been compiled stays compiled.
Grows(mem, new) ==
    /\ DOMAIN mem \subseteq DOMAIN new
    /\ \A a \in DOMAIN mem :
          /\ new[a].type = mem[a].type
          /\ mem[a].type = "thunk" => /\ new[a].function = mem[a].function
                                      /\ new[a].handler = mem[a].handler
                                      /\ mem[a].cache # NotFound => new[a].cache # NotFound

LEMMA GrowsSame == \A mem : Grows(mem, mem)
  BY DEF Grows

LEMMA PublicGrows ==
    ASSUME NEW mem, NEW new, Grows(mem, new)
    PROVE  Public(mem) \subseteq Public(new) /\ Places(mem) \subseteq Places(new)
  BY DEF Grows, Public, Places

LEMMA FramesGrow ==
    ASSUME NEW mem, NEW new, Grows(mem, new)
    PROVE  /\ RunFrames(mem) \subseteq RunFrames(new)
           /\ ExpandFrames(mem) \subseteq ExpandFrames(new)
<1>1. Public(mem) \subseteq Public(new) /\ Places(mem) \subseteq Places(new)
  BY PublicGrows
<1>2. Seq(Callable(mem)) \subseteq Seq(Callable(new))
  <2>1. Callable(mem) \subseteq Callable(new)
    BY <1>1 DEF Callable
  <2>2. QED
    BY <2>1, SeqMonotonic
<1>3. QED
  BY <1>1, <1>2 DEF RunFrames, ExpandFrames

LEMMA FrameGrows ==
    ASSUME NEW mem, NEW new, Grows(mem, new), NEW ph, NEW cur, NEW f,
           f.op = "expand", FrameOK(f, mem, ph, cur)
    PROVE  FrameOK(f, new, ph, cur) /\ (Awaits(f, new) => Awaits(f, mem))
  BY DEF Grows, FrameOK, Awaits

\* The frames in new take the place of the innermost one, which was to prepare
\* the function of a container only if the last of them is too, or has done so.
LEMMA StackReplace ==
    ASSUME NEW st, NEW mem, NEW ph, NEW cur, StackOK(st, mem, ph, cur), st # <<>>,
           NEW mem2, Grows(mem, mem2),
           NEW new \in Seq(RunFrames(mem2) \union ExpandFrames(mem2)),
           \A j \in DOMAIN new : new[j].op = "expand" => FrameOK(new[j], mem2, ph, cur),
           \A j \in DOMAIN new : Awaits(new[j], mem2) => j # 1 /\ Prepares(new[j - 1], new[j].container),
           \A a : Prepares(Head(st), a) /\ mem2[a].cache = NotFound =>
                     new # <<>> /\ Prepares(new[Len(new)], a)
    PROVE  StackOK(new \o Tail(st), mem2, ph, cur)
<1> DEFINE Frames  == RunFrames(mem) \union ExpandFrames(mem)
           Frames2 == RunFrames(mem2) \union ExpandFrames(mem2)
           rest == Tail(st)
           all  == new \o rest
<1>1. st \in Seq(Frames) /\ Frames \subseteq Frames2
  BY FramesGrow DEF StackOK
<1>2. st \in Seq(Frames2)
  <2> HIDE DEF Frames, Frames2
  <2> QED BY <1>1, SeqMonotonic
<1>3. /\ rest \in Seq(Frames2) /\ Len(st) \in Nat \ {0} /\ Len(rest) = Len(st) - 1
      /\ \A j \in 1 .. Len(rest) : rest[j] = st[j + 1]
      /\ Head(st) = st[1] /\ DOMAIN st = 1 .. Len(st)
  <2> HIDE DEF Frames2
  <2> QED BY <1>2
<1>4. new \in Seq(Frames2) /\ Len(new) \in Nat /\ DOMAIN new = 1 .. Len(new)
  OBVIOUS
<1>5. /\ all \in Seq(Frames2) /\ Len(all) = Len(new) + Len(rest) /\ DOMAIN all = 1 .. Len(all)
      /\ \A j \in 1 .. Len(new) : all[j] = new[j]
      /\ \A j \in 1 .. Len(rest) : all[Len(new) + j] = rest[j]
  <2> HIDE DEF Frames2, rest
  <2>1. \A a, b \in Seq(Frames2) :
           /\ a \o b \in Seq(Frames2) /\ Len(a \o b) = Len(a) + Len(b)
           /\ DOMAIN (a \o b) = 1 .. Len(a \o b)
           /\ \A j \in 1 .. Len(a) : (a \o b)[j] = a[j]
           /\ \A j \in 1 .. Len(b) : (a \o b)[Len(a) + j] = b[j]
    BY CatFacts
  <2>2. QED
    BY <1>3, <1>4, <2>1, Zenon
<1> HIDE DEF Frames, Frames2, rest, all
<1>6. ASSUME NEW j \in DOMAIN all
      PROVE  \/ j \in 1 .. Len(new) /\ all[j] = new[j]
             \/ /\ j - Len(new) \in 1 .. Len(rest)
                /\ (j - Len(new)) + 1 \in DOMAIN st
                /\ all[j] = st[(j - Len(new)) + 1]
  <2>1. CASE j <= Len(new)
    BY <1>4, <1>5, <2>1
  <2>2. CASE ~(j <= Len(new))
    <3>1. j - Len(new) \in 1 .. Len(rest) /\ Len(new) + (j - Len(new)) = j
      BY <1>3, <1>4, <1>5, <2>2
    <3>2. all[j] = rest[j - Len(new)]
      BY <1>5, <3>1
    <3>3. QED
      BY <1>3, <3>1, <3>2
  <2>3. QED
    BY <2>1, <2>2
<1>7. ASSUME NEW j \in DOMAIN st, st[j].op = "expand"
      PROVE  FrameOK(st[j], mem2, ph, cur) /\ (Awaits(st[j], mem2) => Awaits(st[j], mem))
  <2>1. FrameOK(st[j], mem, ph, cur)
    BY <1>7 DEF StackOK
  <2>2. QED
    BY <1>7, <2>1, FrameGrows
<1>8. ASSUME NEW j \in DOMAIN all, all[j].op = "expand"
      PROVE  FrameOK(all[j], mem2, ph, cur)
  BY <1>4, <1>6, <1>7, <1>8
<1>9. ASSUME NEW j \in DOMAIN all, Awaits(all[j], mem2)
      PROVE  j # 1 /\ Prepares(all[j - 1], all[j].container)
  <2>1. CASE j \in 1 .. Len(new) /\ all[j] = new[j]
    <3>1. j # 1 /\ Prepares(new[j - 1], new[j].container)
      BY <1>4, <1>9, <2>1
    <3>2. all[j - 1] = new[j - 1]
      <4>1. j - 1 \in 1 .. Len(new)
        BY <1>4, <2>1, <3>1
      <4>2. QED
        BY <1>5, <4>1
    <3>3. QED
      BY <2>1, <3>1, <3>2
  <2>2. CASE /\ j - Len(new) \in 1 .. Len(rest)
             /\ (j - Len(new)) + 1 \in DOMAIN st
             /\ all[j] = st[(j - Len(new)) + 1]
    <3> DEFINE k == (j - Len(new)) + 1
    <3>1. k \in DOMAIN st /\ all[j] = st[k] /\ k # 1 /\ k - 1 = j - Len(new) /\ j \in Nat
      BY <1>3, <1>4, <1>5, <2>2
    <3>2. Awaits(st[k], mem) /\ mem2[st[k].container].cache = NotFound
      <4> HIDE DEF k
      <4>1. st[k].op = "expand"
        BY <1>9, <3>1 DEF Awaits
      <4>2. QED
        BY <1>7, <1>9, <3>1, <4>1 DEF Awaits
    <3>3. Prepares(st[k - 1], st[k].container)
      <4> HIDE DEF k
      <4> QED BY <3>1, <3>2 DEF StackOK
    <3>4. CASE k = 2
      <4>1. j = Len(new) + 1
        <5> HIDE DEF k
        <5> QED BY <1>4, <3>1, <3>4
      <4>2. Prepares(Head(st), st[k].container)
        BY <1>3, <3>3, <3>4
      <4>3. new # <<>> /\ Prepares(new[Len(new)], st[k].container)
        BY <3>2, <4>2
      <4>4. Len(new) \in 1 .. Len(new) /\ j - 1 = Len(new)
        BY <1>4, <4>1, <4>3
      <4>5. all[j - 1] = new[Len(new)] /\ j # 1
        BY <1>5, <4>1, <4>4
      <4> HIDE DEF k
      <4>6. QED
        BY <3>1, <4>3, <4>5
    <3>5. CASE k # 2
      <4>1. (j - Len(new)) - 1 \in 1 .. Len(rest) /\ Len(new) + ((j - Len(new)) - 1) = j - 1
        BY <1>3, <1>4, <2>2, <3>1, <3>5
      <4>2. all[j - 1] = rest[(j - Len(new)) - 1]
        BY <1>5, <4>1
      <4>3. rest[(j - Len(new)) - 1] = st[((j - Len(new)) - 1) + 1]
        BY <1>3, <4>1
      <4>4. ((j - Len(new)) - 1) + 1 = k - 1
        BY <1>4, <3>1
      <4>5. j # 1
        BY <1>4, <2>2, <3>1, <3>5
      <4>6. all[j - 1] = st[k - 1]
        BY <4>2, <4>3, <4>4
      <4> HIDE DEF k
      <4>7. QED
        BY <3>1, <3>3, <4>5, <4>6
    <3>6. QED
      BY <3>4, <3>5
  <2>3. QED
    BY <1>6, <2>1, <2>2
<1>10. ph \in {"try_generate_metas", "compile_files"}
  BY DEF StackOK
<1>11. QED
  BY <1>5, <1>8, <1>9, <1>10 DEF StackOK, Frames2, all, rest

LEMMA StackEmpty == \A mem, ph, cur : StackOK(<<>>, mem, ph, cur)
  BY DEF StackOK

IsFrame(f, mem, ph, cur) == /\ f \in RunFrames(mem) \union ExpandFrames(mem)
                            /\ f.op = "expand" => FrameOK(f, mem, ph, cur)
\* What waits for the frame f has what it waits for, or waits for the frame g.
Relieves(f, g, mem) == \A a : Prepares(f, a) /\ mem[a].cache = NotFound => Prepares(g, a)

LEMMA FrameOps ==
    ASSUME NEW f, NEW mem, f \in RunFrames(mem) \union ExpandFrames(mem)
    PROVE  /\ f.op = "run" \/ f.op = "expand"
           /\ f.op = "run" => f \in RunFrames(mem) /\ f.calls \in Seq(Callable(mem))
           /\ f.op = "expand" => f \in ExpandFrames(mem)
  BY DEF RunFrames, ExpandFrames

\* The innermost frame.
LEMMA TopFrame ==
    ASSUME NEW st, NEW mem, NEW ph, NEW cur, StackOK(st, mem, ph, cur), st # <<>>
    PROVE  /\ IsFrame(Head(st), mem, ph, cur) /\ ~Awaits(Head(st), mem)
           /\ ph \in {"try_generate_metas", "compile_files"}
<1> DEFINE Frames == RunFrames(mem) \union ExpandFrames(mem)
<1>1. st \in Seq(Frames)
  BY DEF StackOK
<1> HIDE DEF Frames
<1>2. Head(st) = st[1] /\ 1 \in DOMAIN st /\ st[1] \in Frames
  BY <1>1
<1>3. QED
  BY <1>2 DEF StackOK, IsFrame, Frames

LEMMA StackOne ==
    ASSUME NEW st, NEW mem, NEW ph, NEW cur, StackOK(st, mem, ph, cur), st # <<>>,
           NEW mem2, Grows(mem, mem2),
           NEW f, IsFrame(f, mem2, ph, cur), ~Awaits(f, mem2), Relieves(Head(st), f, mem2)
    PROVE  StackOK(<<f>> \o Tail(st), mem2, ph, cur)
<1> DEFINE new == <<f>>
           Frames == RunFrames(mem2) \union ExpandFrames(mem2)
<1>1. f \in Frames
  BY DEF IsFrame
<1>2. new \in Seq(Frames) /\ DOMAIN new = {1} /\ new[1] = f /\ new # <<>> /\ Len(new) = 1
  <2> HIDE DEF Frames
  <2> QED BY <1>1
<1> HIDE DEF new
<1>3. \A a : Prepares(Head(st), a) /\ mem2[a].cache = NotFound =>
                new # <<>> /\ Prepares(new[Len(new)], a)
  BY <1>2 DEF Relieves
<1>4. StackOK(new \o Tail(st), mem2, ph, cur)
  BY <1>2, <1>3, StackReplace DEF IsFrame
<1>5. QED
  BY <1>4 DEF new

LEMMA StackTwo ==
    ASSUME NEW st, NEW mem, NEW ph, NEW cur, StackOK(st, mem, ph, cur), st # <<>>,
           NEW mem2, Grows(mem, mem2),
           NEW f, IsFrame(f, mem2, ph, cur), ~Awaits(f, mem2),
           NEW g, IsFrame(g, mem2, ph, cur), Awaits(g, mem2) => Prepares(f, g.container),
           Relieves(Head(st), g, mem2)
    PROVE  StackOK(<<f, g>> \o Tail(st), mem2, ph, cur)
<1> DEFINE new == <<f, g>>
           Frames == RunFrames(mem2) \union ExpandFrames(mem2)
<1>1. f \in Frames /\ g \in Frames
  BY DEF IsFrame
<1>2. /\ new \in Seq(Frames) /\ DOMAIN new = {1, 2} /\ new[1] = f /\ new[2] = g
      /\ new # <<>> /\ Len(new) = 2
  <2> HIDE DEF Frames
  <2> QED BY <1>1
<1> HIDE DEF new
<1>3. \A a : Prepares(Head(st), a) /\ mem2[a].cache = NotFound =>
                new # <<>> /\ Prepares(new[Len(new)], a)
  BY <1>2 DEF Relieves
<1>4. \A j \in DOMAIN new : new[j].op = "expand" => FrameOK(new[j], mem2, ph, cur)
  BY <1>2 DEF IsFrame
<1>5. \A j \in DOMAIN new : Awaits(new[j], mem2) => j # 1 /\ Prepares(new[j - 1], new[j].container)
  <2>1. 2 - 1 = 1 /\ 2 # 1
    OBVIOUS
  <2>2. QED
    BY <1>2, <2>1
<1>6. StackOK(new \o Tail(st), mem2, ph, cur)
  BY <1>2, <1>3, <1>4, <1>5, StackReplace
<1>7. QED
  BY <1>6 DEF new

LEMMA StackPop ==
    ASSUME NEW st, NEW mem, NEW ph, NEW cur, StackOK(st, mem, ph, cur), st # <<>>,
           Head(st).op # "expand"
    PROVE  StackOK(Tail(st), mem, ph, cur)
<1> DEFINE new == <<>>
           Frames == RunFrames(mem) \union ExpandFrames(mem)
<1>1. new \in Seq(Frames) /\ DOMAIN new = {}
  OBVIOUS
<1> HIDE DEF new
<1>2. \A a : ~Prepares(Head(st), a)
  BY DEF Prepares
<1>3. Grows(mem, mem)
  BY GrowsSame
<1>4. StackOK(new \o Tail(st), mem, ph, cur)
  BY <1>1, <1>2, <1>3, StackReplace
<1>5. <<>> \o Tail(st) = Tail(st)
  <2>1. st \in Seq(Frames)
    BY DEF StackOK
  <2> HIDE DEF Frames
  <2>2. QED
    BY <2>1
<1>6. QED
  BY <1>4, <1>5 DEF new

LEMMA StackSingle ==
    ASSUME NEW mem, NEW ph, NEW cur, NEW f, IsFrame(f, mem, ph, cur), ~Awaits(f, mem),
           ph \in {"try_generate_metas", "compile_files"}
    PROVE  StackOK(<<f>>, mem, ph, cur)
<1> DEFINE new == <<f>>
           Frames == RunFrames(mem) \union ExpandFrames(mem)
<1>1. f \in Frames
  BY DEF IsFrame
<1>2. new \in Seq(Frames) /\ DOMAIN new = {1} /\ new[1] = f
  <2> HIDE DEF Frames
  <2> QED BY <1>1
<1> HIDE DEF new
<1>3. QED
  BY <1>2 DEF StackOK, IsFrame, new

\* Calls that are taken off the stack, and put onto it.
LEMMA WildCalls ==
    ASSUME NEW S, NEW st \in Seq(S), st # <<>>
    PROVE  /\ Wild(Tail(st)) => Wild(st)
           /\ WildFrame(Head(st)) => Wild(st)
           /\ \A f : Wild(<<f>> \o Tail(st)) => WildFrame(f) \/ Wild(st)
           /\ \A f, g : Wild(<<f, g>> \o Tail(st)) => WildFrame(f) \/ WildFrame(g) \/ Wild(st)
           /\ \A f : Wild(<<f>>) => WildFrame(f)
           /\ ~Wild(<<>>)
<1> DEFINE rest == Tail(st)
<1>1. /\ rest \in Seq(S) /\ Len(st) \in Nat \ {0} /\ Len(rest) = Len(st) - 1
      /\ DOMAIN st = 1 .. Len(st) /\ DOMAIN rest = 1 .. Len(rest) /\ Head(st) = st[1]
      /\ \A j \in 1 .. Len(rest) : rest[j] = st[j + 1]
  OBVIOUS
<1> HIDE DEF rest
<1>2. \A j \in DOMAIN rest : j + 1 \in DOMAIN st /\ rest[j] = st[j + 1]
  BY <1>1
<1>3. Wild(rest) => Wild(st)
  BY <1>2 DEF Wild
<1>4. WildFrame(Head(st)) => Wild(st)
  BY <1>1 DEF Wild
<1>5. ASSUME NEW f, Wild(<<f>> \o rest)
      PROVE  WildFrame(f) \/ Wild(st)
  <2> DEFINE T == S \union {f}
             a == <<f>>
             all == a \o rest
  <2>1. f \in T /\ S \subseteq T
    OBVIOUS
  <2> HIDE DEF T
  <2>2. a \in Seq(T) /\ rest \in Seq(T) /\ Len(a) = 1 /\ a[1] = f
    BY <1>1, <2>1, SeqMonotonic
  <2> HIDE DEF a
  <2>3. /\ DOMAIN all = 1 .. (1 + Len(rest)) /\ all[1] = f
        /\ \A j \in 1 .. Len(rest) : all[1 + j] = rest[j]
    <3>1. /\ Len(all) = Len(a) + Len(rest) /\ DOMAIN all = 1 .. Len(all)
          /\ \A j \in 1 .. Len(a) : all[j] = a[j]
          /\ \A j \in 1 .. Len(rest) : all[Len(a) + j] = rest[j]
      <4>1. \A x, y \in Seq(T) :
               /\ Len(x \o y) = Len(x) + Len(y) /\ DOMAIN (x \o y) = 1 .. Len(x \o y)
               /\ \A j \in 1 .. Len(x) : (x \o y)[j] = x[j]
               /\ \A j \in 1 .. Len(y) : (x \o y)[Len(x) + j] = y[j]
        BY CatFacts
      <4>2. QED
        BY <2>2, <4>1, Zenon
    <3> HIDE DEF all
    <3>2. QED
      BY <2>2, <3>1
  <2> HIDE DEF all
  <2>4. PICK j \in DOMAIN all : WildFrame(all[j])
    BY <1>5 DEF Wild, all, a
  <2>5. CASE j = 1
    BY <2>3, <2>4, <2>5
  <2>6. CASE j # 1
    <3>1. j - 1 \in 1 .. Len(rest) /\ 1 + (j - 1) = j
      BY <1>1, <2>3, <2>6
    <3>2. WildFrame(rest[j - 1])
      BY <2>3, <2>4, <3>1
    <3>3. QED
      BY <1>1, <1>3, <3>1, <3>2 DEF Wild
  <2>7. QED
    BY <2>5, <2>6
<1>6. ASSUME NEW f, NEW g, Wild(<<f, g>> \o rest)
      PROVE  WildFrame(f) \/ WildFrame(g) \/ Wild(st)
  <2> DEFINE T == S \union {f, g}
             a == <<f, g>>
             all == a \o rest
  <2>1. f \in T /\ g \in T /\ S \subseteq T
    OBVIOUS
  <2> HIDE DEF T
  <2>2. a \in Seq(T) /\ rest \in Seq(T) /\ Len(a) = 2 /\ a[1] = f /\ a[2] = g
    BY <1>1, <2>1, SeqMonotonic
  <2> HIDE DEF a
  <2>3. /\ DOMAIN all = 1 .. (2 + Len(rest)) /\ all[1] = f /\ all[2] = g
        /\ \A j \in 1 .. Len(rest) : all[2 + j] = rest[j]
    <3>1. /\ Len(all) = Len(a) + Len(rest) /\ DOMAIN all = 1 .. Len(all)
          /\ \A j \in 1 .. Len(a) : all[j] = a[j]
          /\ \A j \in 1 .. Len(rest) : all[Len(a) + j] = rest[j]
      <4>1. \A x, y \in Seq(T) :
               /\ Len(x \o y) = Len(x) + Len(y) /\ DOMAIN (x \o y) = 1 .. Len(x \o y)
               /\ \A j \in 1 .. Len(x) : (x \o y)[j] = x[j]
               /\ \A j \in 1 .. Len(y) : (x \o y)[Len(x) + j] = y[j]
        BY CatFacts
      <4>2. QED
        BY <2>2, <4>1, Zenon
    <3> HIDE DEF all
    <3>2. QED
      BY <2>2, <3>1
  <2> HIDE DEF all
  <2>4. PICK j \in DOMAIN all : WildFrame(all[j])
    BY <1>6 DEF Wild, all, a
  <2>5. CASE j \in {1, 2}
    BY <2>3, <2>4, <2>5
  <2>6. CASE j \notin {1, 2}
    <3>1. j - 2 \in 1 .. Len(rest) /\ 2 + (j - 2) = j
      BY <1>1, <2>3, <2>6
    <3>2. WildFrame(rest[j - 2])
      BY <2>3, <2>4, <3>1
    <3>3. QED
      BY <1>1, <1>3, <3>1, <3>2 DEF Wild
  <2>7. QED
    BY <2>5, <2>6
<1>7. (\A f : Wild(<<f>>) => WildFrame(f)) /\ ~Wild(<<>>)
  BY DEF Wild
<1>8. QED
  BY <1>3, <1>4, <1>5, <1>6, <1>7 DEF rest

\* An address that a name has been given may be called.
LEMMA GivesPublic ==
    ASSUME NEW bs, NEW mem, BindingsOK(bs, mem), NEW name, NEW a, Gives(bs, name, a)
    PROVE  a \in Public(mem) /\ Bound(bs, name)
<1> DEFINE B == [name : Names, address : Public(mem)]
<1>1. PICK i \in DOMAIN bs : bs[i].name = name /\ bs[i].address = a
  BY DEF Gives
<1>2. bs[i] \in B
  <2>1. bs \in Seq(B)
    BY DEF BindingsOK
  <2> HIDE DEF B
  <2>2. QED
    BY <2>1
<1>3. QED
  BY <1>1, <1>2 DEF Bound

\* The parts of an object.
LEMMA ObjectFacts ==
    ASSUME NEW object \in Object
    PROVE  /\ \E m \in Nat : object.syms \in [0 .. m -> Symbols]
           /\ DOMAIN object.syms \subseteq Nat /\ object.refs \in Seq(Names)
           /\ \A m \in Nat : \A syms \in [0 .. m -> Symbols] :
                 /\ [object EXCEPT !.syms = syms] \in Object
                 /\ [object EXCEPT !.syms = syms].syms = syms
                 /\ [object EXCEPT !.syms = syms].refs = object.refs
<1> DEFINE Tables == UNION {[0 .. m -> Symbols] : m \in Nat}
<1>1. object \in [syms : Tables, refs : Seq(Names)]
  BY DEF Object
<1>2. \A m \in Nat : \A syms \in [0 .. m -> Symbols] : syms \in Tables
  OBVIOUS
<1>3. ASSUME NEW syms \in Tables
      PROVE  \E m \in Nat : syms \in [0 .. m -> Symbols]
  OBVIOUS
<1>4. \A syms \in Tables : DOMAIN syms \subseteq Nat
  OBVIOUS
<1>5. Object = [syms : Tables, refs : Seq(Names)]
  BY DEF Object
<1> HIDE DEF Tables
<1>6. object.syms \in Tables /\ object.refs \in Seq(Names)
  BY <1>1
<1>7. \A syms \in Tables : /\ [object EXCEPT !.syms = syms] \in Object
                          /\ [object EXCEPT !.syms = syms].syms = syms
                          /\ [object EXCEPT !.syms = syms].refs = object.refs
  BY <1>1, <1>5
<1>8. QED
  BY <1>2, <1>3, <1>4, <1>6, <1>7

\* What an object calls may be called, unless it waits for an address.
LEMMA ObjectLinks ==
    ASSUME BindingsInv, ObjectsInv, CodeInv, Linked(objects, bindings), NEW n \in DOMAIN objects
    PROVE  LET links == Links(objects[n].syms, objects[n].refs)
           IN  links \in Seq(Callable(code)) /\ (NotFound \in Range(links) => Unresolved)
<1> DEFINE syms == objects[n].syms
           refs == objects[n].refs
           links == Links(syms, refs)
<1>1. ObjectOK(objects[n], bindings) /\ objects[n] \in Object
  BY DEF ObjectsInv, ObjectsOK
<1>2. refs \in Seq(Names) /\ DOMAIN links = DOMAIN refs /\ DOMAIN syms \subseteq Nat
  BY <1>1, ObjectFacts DEF Links
<1>3. ASSUME NEW k \in DOMAIN refs
      PROVE  \/ links[k] \in Public(code) /\ links[k] # NotFound
             \/ links[k] = NotFound /\ AddressOf(refs[k]) = NotFound
  <2>1. DOMAIN syms \subseteq Nat /\ \E i \in DOMAIN syms \ {0} : syms[i].name = refs[k]
    BY <1>1, <1>2 DEF ObjectOK
  <2>2. PICK i \in DOMAIN syms \ {0} : syms[i].name = refs[k] /\ links[k] = syms[i].value
    <3> HIDE DEF syms, refs
    <3> QED BY <2>1, LinksFacts
  <2>3. SymbolOK(syms[i], bindings)
    BY <1>1 DEF ObjectOK
  <2>4. CASE Gives(bindings, refs[k], syms[i].value)
    <3>1. links[k] \in Public(code)
      BY <2>2, <2>4, GivesPublic DEF BindingsInv
    <3>2. NotFound \notin DOMAIN code
      BY DEF CodeInv, MemoryOK
    <3>3. QED
      BY <3>1, <3>2 DEF Public
  <2>5. CASE ~Gives(bindings, refs[k], syms[i].value)
    <3>1. syms[i].value = NotFound
      BY <2>2, <2>3, <2>5 DEF SymbolOK
    <3>2. ~Bound(bindings, refs[k])
      BY <2>2, <2>5 DEF Linked
    <3>3. AddressOf(refs[k]) = NotFound
      BY <3>2, AddressOfFacts DEF BindingsInv, BindingsOK
    <3>4. QED
      BY <2>2, <3>1, <3>3
  <2>6. QED
    BY <2>4, <2>5
<1>4. links = [k \in DOMAIN refs |-> links[k]]
  BY DEF Links
<1>5. NotFound \in Range(links) => Unresolved
  BY <1>2, <1>3 DEF Range, Unresolved
<1>6. QED
  <2>1. \A k \in DOMAIN refs : links[k] \in Callable(code)
    BY <1>3 DEF Callable
  <2> HIDE DEF links, refs
  <2>2. DOMAIN refs = 1 .. Len(refs) /\ Len(refs) \in Nat
    BY <1>2
  <2>3. links \in Seq(Callable(code))
    BY <1>4, <2>1, <2>2
  <2>4. QED
    BY <1>5, <2>3 DEF links, refs

\* The parts of code in memory.
LEMMA CodeFacts ==
    ASSUME NEW mem, NEW n, NEW objs, NEW bs, MemoryOK(mem, n, objs, bs), NEW a \in DOMAIN mem
    PROVE  /\ mem[a].type \in {"builtin", "native", "thunk", "body"}
           /\ mem[a].type = "native" => mem[a].object \in DOMAIN objs
           /\ mem[a].type = "thunk" => IsThunk(mem[a], mem)
           /\ mem[a].type = "body" => IsBody(a, mem[a], mem, bs) /\ mem[a].links \in Seq(Public(mem))
<1>1. CodeOK(a, mem[a], mem, objs, bs)
  BY DEF MemoryOK
<1>2. IsNative(mem[a], objs) => mem[a].type = "native"
  BY DEF IsNative
<1>3. IsThunk(mem[a], mem) => mem[a].type = "thunk"
  BY DEF IsThunk
<1>4. IsBody(a, mem[a], mem, bs) => mem[a].type = "body" /\ mem[a].links \in Seq(Public(mem))
  BY DEF IsBody
<1>5. QED
  BY <1>1, <1>2, <1>3, <1>4 DEF CodeOK, IsBuiltin, IsNative

\* What leads to code only.
LEMMA PublicCalls ==
    ASSUME NEW mem, NEW n, NEW objs, NEW bs, MemoryOK(mem, n, objs, bs),
           NEW calls \in Seq(Public(mem))
    PROVE  calls \in Seq(Callable(mem)) /\ NotFound \notin Range(calls)
<1>1. Public(mem) \subseteq Callable(mem) /\ Public(mem) \subseteq DOMAIN mem
  BY DEF Public, Callable
<1>2. calls \in Seq(Callable(mem))
  BY <1>1, SeqMonotonic
<1>3. \A k \in DOMAIN calls : calls[k] \in Public(mem)
  OBVIOUS
<1>4. QED
  BY <1>1, <1>2, <1>3 DEF MemoryOK, Range

\* A call of what may be called begins with a frame.
LEMMA FrameOf ==
    ASSUME BindingsInv, ObjectsInv, CodeInv, LinksInv,
           phase \in {"try_generate_metas", "compile_files"}, NEW cur, NEW a \in Public(code)
    PROVE  /\ IsFrame(frame_of(a), code, phase, cur)
           /\ ~Awaits(frame_of(a), code)
           /\ WildFrame(frame_of(a)) => Unresolved
<1> DEFINE c == code[a]
<1>0. /\ a \in DOMAIN code /\ (c.type = "thunk" => c.handler = "evaluate")
      /\ MemoryOK(code, loads, objects, bindings)
  BY DEF Public, CodeInv
<1>1. /\ c.type \in {"builtin", "native", "thunk", "body"}
      /\ c.type = "native" => c.object \in DOMAIN objects
      /\ c.type = "thunk" => IsThunk(c, code)
      /\ c.type = "body" => c.links \in Seq(Public(code))
  BY <1>0, CodeFacts
<1>2. ASSUME NEW calls \in Seq(Callable(code)), NotFound \in Range(calls) => Unresolved
      PROVE  /\ IsFrame(Run(calls), code, phase, cur) /\ ~Awaits(Run(calls), code)
             /\ WildFrame(Run(calls)) => Unresolved
  BY <1>2 DEF IsFrame, Awaits, Run, RunFrames, WildFrame
<1>3. ASSUME NEW calls \in Seq(Public(code))
      PROVE  /\ IsFrame(Run(calls), code, phase, cur) /\ ~Awaits(Run(calls), code)
             /\ WildFrame(Run(calls)) => Unresolved
  BY <1>2, PublicCalls DEF CodeInv
<1>4. CASE c.type = "native"
  <2>1. frame_of(a) = Run(Links(objects[c.object].syms, objects[c.object].refs))
    BY <1>4 DEF frame_of
  <2>2. Linked(objects, bindings)
    BY DEF LinksInv
  <2>3. QED
    BY <1>1, <1>2, <1>4, <2>1, <2>2, ObjectLinks
<1>5. CASE c.type = "builtin"
  <2> DEFINE none == <<>>
  <2>1. none \in Seq(Public(code)) /\ frame_of(a) = Run(none)
    BY <1>5 DEF frame_of
  <2> HIDE DEF none
  <2>2. QED
    BY <1>3, <2>1
<1>6. CASE c.type = "body"
  <2>1. frame_of(a) = Run(c.links)
    BY <1>6 DEF frame_of
  <2>2. QED
    BY <1>1, <1>3, <1>6, <2>1
<1>7. CASE c.type = "thunk" /\ c.cache # NotFound
  <2>1. frame_of(a) = Run(code[c.cache].links)
    BY <1>7 DEF frame_of
  <2>2. c.cache \in DOMAIN code /\ code[c.cache].type = "body"
    BY <1>1, <1>7 DEF IsThunk, Places
  <2>3. code[c.cache].links \in Seq(Public(code))
    BY <1>0, <2>2, CodeFacts
  <2>4. QED
    BY <1>3, <2>1, <2>3
<1>8. CASE c.type = "thunk" /\ c.cache = NotFound
  <2> DEFINE f == Expand("init", a, c.function, c.handler)
  <2>1. frame_of(a) = f
    BY <1>8 DEF frame_of
  <2>2. c.function \in Bodies /\ c.handler = "evaluate"
    BY <1>0, <1>1, <1>8 DEF IsThunk
  <2>3. f \in ExpandFrames(code)
    BY <1>0, <2>2 DEF Expand, ExpandFrames, Places, Handlers
  <2>4. FrameOK(f, code, phase, cur)
    BY <1>0, <1>8, <2>2 DEF Expand, FrameOK
  <2>5. ~Awaits(f, code)
    BY DEF Awaits, Expand
  <2>6. ~WildFrame(f)
    BY DEF WildFrame, Expand
  <2> HIDE DEF f
  <2>7. QED
    BY <2>1, <2>3, <2>4, <2>5, <2>6 DEF IsFrame
<1>9. QED
  BY <1>1, <1>4, <1>5, <1>6, <1>7, <1>8

-----------------------------------------------------------------------------
(* Steps.                                                                   *)

\* Steps that leave names and memory alone.
LEMMA MemorySame ==
    ASSUME BindingsInv, ObjectsInv, CodeInv, LinksInv, phase # "generate_metaprogram",
           UNCHANGED <<bindings, objects, code>>, loads' \in {loads, loads + 1}
    PROVE  BindingsInv' /\ ObjectsInv' /\ CodeInv' /\ LinksInv'
<1>1. BindingsInv' /\ ObjectsInv'
  BY DEF BindingsInv, ObjectsInv
<1>2. MemoryOK(code, loads', objects, bindings)
  <2>1. loads' \in Nat /\ (0 .. loads) \X Nat \subseteq (0 .. loads') \X Nat
    BY DEF CodeInv, MemoryOK
  <2>2. QED
    BY <2>1 DEF CodeInv, MemoryOK
<1>3. CodeInv'
  BY <1>2 DEF CodeInv
<1>4. LinksInv'
  BY DEF LinksInv
<1>5. QED
  BY <1>1, <1>3, <1>4

\* Steps that leave the files alone, or fail.
LEMMA FilesSame ==
    ASSUME FilesInv, UNCHANGED <<program, file, expanded, written>>,
           \/ UNCHANGED <<phase, pos>>
           \/ phase' = phase /\ phase = "try_generate_metas"
           \/ phase' \in {"error", "crash"}
    PROVE  FilesInv'
<1>1. CASE UNCHANGED <<phase, pos>>
  BY <1>1 DEF FilesInv
<1>2. CASE phase' = phase /\ phase = "try_generate_metas"
  BY <1>2 DEF FilesInv
<1>3. CASE phase' \in {"error", "crash"}
  BY <1>3 DEF FilesInv
<1>4. QED
  BY <1>1, <1>2, <1>3

LEMMA CurrentSame ==
    ASSUME UNCHANGED <<program, file, pos>>
    PROVE  Current' = Current
  BY DEF Current

\* What an object waits for depends on names only.
LEMMA UnresolvedSame ==
    ASSUME UNCHANGED <<bindings, objects>>
    PROVE  Unresolved' = Unresolved
  BY DEF Unresolved, AddressOf

\* Steps that put frames in the place of the innermost one.
LEMMA WildStep ==
    ASSUME StackInv, WildInv, stack # <<>>
    PROVE  /\ WildFrame(Top) \/ Wild(Tail(stack)) => Unresolved
           /\ \A f : (WildFrame(f) => Unresolved) => (Wild(<<f>> \o Tail(stack)) => Unresolved)
           /\ \A f, g : (WildFrame(f) \/ WildFrame(g) => Unresolved)
                          => (Wild(<<f, g>> \o Tail(stack)) => Unresolved)
<1> DEFINE Frames == RunFrames(code) \union ExpandFrames(code)
<1>1. stack \in Seq(Frames)
  BY DEF StackInv, StackOK
<1> HIDE DEF Frames
<1>2. Wild(stack) => Unresolved
  BY DEF WildInv
<1>3. /\ Wild(Tail(stack)) => Wild(stack)
      /\ WildFrame(Head(stack)) => Wild(stack)
      /\ \A f : Wild(<<f>> \o Tail(stack)) => WildFrame(f) \/ Wild(stack)
      /\ \A f, g : Wild(<<f, g>> \o Tail(stack)) => WildFrame(f) \/ WildFrame(g) \/ Wild(stack)
  BY <1>1, WildCalls
<1>4. QED
  BY <1>2, <1>3, Zenon DEF Top

\* An error in an expansion.
LEMMA Throws ==
    ASSUME IInv, stack # <<>>, Top.op = "expand", NEW type, Throw(type, Top.handler),
           UNCHANGED <<program, all_exprs, extension, file, bindings, objects, code, expanded,
                       written>>,
           loads' \in {loads, loads + 1}
    PROVE  IInv'
<1>1. /\ IsFrame(Top, code, phase, Current)
      /\ phase \in {"try_generate_metas", "compile_files"}
  BY TopFrame DEF IInv, StackInv, Top
<1>2. phase = "compile_files" => Top.handler # "generate"
  BY <1>1 DEF IsFrame, FrameOK
<1>3. \/ phase' = "error"
      \/ phase' = phase /\ phase = "try_generate_metas" /\ pos' = pos + 1
  BY <1>1, <1>2 DEF Throw, Caught
<1>4. BindingsInv' /\ ObjectsInv' /\ CodeInv' /\ LinksInv'
  BY <1>1, MemorySame DEF IInv
<1>5. FilesInv'
  BY <1>3, FilesSame DEF IInv
<1>6. StackInv'
  BY StackEmpty DEF Throw, StackInv
<1>7. pos' \in Nat
  BY DEF Throw, IInv, RoundInv
<1>8. RoundInv'
  BY <1>1, <1>3, <1>7 DEF IInv, RoundInv
<1>9. WildInv'
  <2>1. phase' # "crash" /\ stack' = <<>>
    BY <1>3 DEF Throw
  <2>2. QED
    BY <2>1 DEF WildInv, Wild
<1>10. QED
  BY <1>4, <1>5, <1>6, <1>8, <1>9 DEF IInv

\* Steps that change nothing but the stack.
LEMMA StackOnly ==
    ASSUME IInv, stack # <<>>, StackInv', Wild(stack') => Unresolved,
           UNCHANGED <<program, phase, all_exprs, extension, pos, file, bindings, objects, code,
                       loads, expanded, written>>
    PROVE  IInv'
<1>1. phase \in {"try_generate_metas", "compile_files"}
  BY TopFrame DEF IInv, StackInv
<1>2. BindingsInv' /\ ObjectsInv' /\ CodeInv' /\ LinksInv'
  BY <1>1, MemorySame DEF IInv
<1>3. FilesInv'
  BY FilesSame DEF IInv
<1>4. RoundInv'
  BY <1>1 DEF IInv, RoundInv
<1>5. WildInv'
  BY <1>1, UnresolvedSame DEF WildInv
<1>6. QED
  BY <1>2, <1>3, <1>4, <1>5 DEF IInv

\* An expansion that stays what it is but for the stage it is in.
InStage(g, f, stage, a, mem) ==
    /\ g = [f EXCEPT !.stage = stage, !.container = a]
    /\ stage \in {"next", "container", "macro"} /\ a \in Places(mem)
    /\ stage = "container" => /\ a \in DOMAIN mem /\ mem[a].type = "thunk"
                              /\ mem[a].function.refs # <<>>

LEMMA StageFrame ==
    ASSUME NEW mem, NEW ph, NEW cur, NEW f, IsFrame(f, mem, ph, cur), f.op = "expand",
           HasMeta(f.expr), NEW g, NEW stage, NEW a, InStage(g, f, stage, a, mem)
    PROVE  /\ IsFrame(g, mem, ph, cur) /\ Relieves(f, g, mem)
           /\ g.op = "expand" /\ g.stage = stage /\ g.container = a
<1>0. /\ g = [f EXCEPT !.stage = stage, !.container = a]
      /\ stage \in {"next", "container", "macro"} /\ a \in Places(mem)
      /\ stage = "container" => /\ a \in DOMAIN mem /\ mem[a].type = "thunk"
                                /\ mem[a].function.refs # <<>>
  BY DEF InStage
<1>1. f \in ExpandFrames(mem) /\ FrameOK(f, mem, ph, cur)
  BY FrameOps DEF IsFrame
<1>2. /\ g \in ExpandFrames(mem)
      /\ g.op = "expand" /\ g.owner = f.owner /\ g.at = f.at /\ g.expr = f.expr
      /\ g.handler = f.handler /\ g.stage = stage /\ g.container = a
  BY <1>0, <1>1 DEF ExpandFrames
<1>3. FrameOK(g, mem, ph, cur)
  BY <1>0, <1>1, <1>2 DEF FrameOK
<1>4. Relieves(f, g, mem)
  BY <1>2 DEF Relieves, Prepares
<1>5. QED
  BY <1>2, <1>3, <1>4 DEF IsFrame

\* An expansion that is not finished has a meta-expression before it.
LEMMA UnfinishedFacts ==
    ASSUME NEW mem, NEW ph, NEW cur, NEW f, IsFrame(f, mem, ph, cur), f.op = "expand"
    PROVE  /\ f.expr \in Bodies \union Metas
           /\ ~Finished(f) \/ f.stage # "next" => HasMeta(f.expr)
<1>1. f \in ExpandFrames(mem) /\ FrameOK(f, mem, ph, cur)
  BY FrameOps DEF IsFrame
<1>2. ~Finished(f) => HasMeta(f.expr)
  BY DEF Finished, HasMeta
<1>3. QED
  BY <1>1, <1>2 DEF ExpandFrames, FrameOK

\* A call from an expansion.
LEMMA CallsFrom ==
    ASSUME IInv, stack # <<>>, Top.op = "expand", HasMeta(Top.expr),
           NEW a \in Public(code), NEW g,
           g = [Top EXCEPT !.stage = "macro"] \/ g = [Top EXCEPT !.stage = "macro", !.container = NotFound],
           stack' = Called(a, g),
           UNCHANGED <<program, phase, all_exprs, extension, pos, file, bindings, objects, code,
                       loads, expanded, written>>
    PROVE  IInv'
<1>1. /\ IsFrame(Top, code, phase, Current)
      /\ phase \in {"try_generate_metas", "compile_files"}
      /\ StackOK(stack, code, phase, Current)
  BY TopFrame DEF IInv, StackInv, Top
<1>2. Top \in ExpandFrames(code)
  BY <1>1, FrameOps DEF IsFrame
<1>3. \E b \in Places(code) : g = [Top EXCEPT !.stage = "macro", !.container = b]
  <2>1. CASE g = [Top EXCEPT !.stage = "macro"]
    <3>1. Top.container \in Places(code) /\ g = [Top EXCEPT !.stage = "macro", !.container = Top.container]
      BY <1>2, <2>1 DEF ExpandFrames
    <3>2. QED
      BY <3>1
  <2>2. CASE g = [Top EXCEPT !.stage = "macro", !.container = NotFound]
    BY <2>2 DEF Places
  <2>3. QED
    BY <2>1, <2>2
<1>4. IsFrame(g, code, phase, Current) /\ Relieves(Top, g, code) /\ ~Awaits(g, code)
  <2>1. PICK b \in Places(code) : g = [Top EXCEPT !.stage = "macro", !.container = b]
    BY <1>3
  <2>2. InStage(g, Top, "macro", b, code)
    BY <2>1 DEF InStage
  <2>3. IsFrame(g, code, phase, Current) /\ Relieves(Top, g, code) /\ g.stage = "macro"
    BY <1>1, <2>2, StageFrame
  <2>4. QED
    BY <2>3 DEF Awaits
<1>5. IsFrame(frame_of(a), code, phase, Current) /\ ~Awaits(frame_of(a), code)
  BY <1>1, FrameOf DEF IInv
<1>6. Grows(code, code)
  BY GrowsSame
<1>7. StackOK(<<frame_of(a), g>> \o Tail(stack), code, phase, Current)
  BY <1>1, <1>4, <1>5, <1>6, StackTwo DEF Top
<1>8. StackInv'
  BY <1>7, CurrentSame DEF StackInv, Called, Return
<1>9. Wild(stack') => Unresolved
  <2>1. ~WildFrame(g)
    BY <1>2 DEF WildFrame, ExpandFrames
  <2>2. WildFrame(frame_of(a)) => Unresolved
    BY <1>1, FrameOf DEF IInv
  <2>3. QED
    BY <2>1, <2>2, WildStep DEF IInv, Called, Return
<1>10. QED
  BY <1>8, <1>9, StackOnly

LEMMA CallMacroInv ==
    ASSUME IInv, CallMacro
    PROVE  IInv'
<1> DEFINE name == NextMeta(Top.expr).name
<1>1. /\ stack # <<>> /\ Top.op = "expand" /\ Top.stage = "next" /\ ~Finished(Top)
      /\ UNCHANGED <<program, all_exprs, extension, file, bindings, objects, code, loads,
                     expanded, written>>
  BY DEF CallMacro
<1>2. IsFrame(Top, code, phase, Current)
  BY <1>1, TopFrame DEF IInv, StackInv, Top
<1>3. HasMeta(Top.expr)
  BY <1>1, <1>2, UnfinishedFacts
<1>4. CASE AddressOf(name) = NotFound
  <2>1. Throw("undefined_symbol", Top.handler)
    BY <1>4 DEF CallMacro
  <2>2. loads' \in {loads, loads + 1}
    BY <1>1
  <2>3. QED
    BY <1>1, <2>1, <2>2, Throws
<1>5. CASE AddressOf(name) # NotFound
  <2>1. /\ stack' = Called(AddressOf(name), [Top EXCEPT !.stage = "macro"])
        /\ UNCHANGED <<phase, pos, error>>
    BY <1>5 DEF CallMacro
  <2>2. AddressOf(name) \in Public(code)
    <3>1. Gives(bindings, name, AddressOf(name))
      BY <1>5, AddressOfFacts DEF IInv, BindingsInv, BindingsOK
    <3>2. QED
      BY <3>1, GivesPublic DEF IInv, BindingsInv
  <2> HIDE DEF name
  <2>3. QED
    BY <1>1, <1>3, <2>1, <2>2, CallsFrom
<1>6. QED
  BY <1>4, <1>5

LEMMA CallComputedInv ==
    ASSUME IInv, CallComputed
    PROVE  IInv'
<1> DEFINE c == code[Top.container]
           a == Head(code[c.cache].links)
<1>1. /\ stack # <<>> /\ Top.op = "expand" /\ Top.stage = "container"
      /\ stack' = Called(a, [Top EXCEPT !.stage = "macro", !.container = NotFound])
      /\ UNCHANGED <<program, phase, all_exprs, extension, pos, file, bindings, objects, code,
                     loads, expanded, written>>
  BY DEF CallComputed
<1>2. IsFrame(Top, code, phase, Current) /\ ~Awaits(Top, code)
  BY <1>1, TopFrame DEF IInv, StackInv, Top
<1>3. HasMeta(Top.expr)
  BY <1>1, <1>2, UnfinishedFacts
<1>4. Top.container \in DOMAIN code /\ c.type = "thunk" /\ c.function.refs # <<>> /\ c.cache # NotFound
  BY <1>1, <1>2 DEF IsFrame, FrameOK, Awaits
<1>5. MemoryOK(code, loads, objects, bindings)
  BY DEF IInv, CodeInv
<1>6. c.cache \in DOMAIN code /\ code[c.cache].type = "body" /\ code[c.cache].links # <<>>
  BY <1>4, <1>5, CodeFacts DEF IsThunk, Places
<1>7. code[c.cache].links \in Seq(Public(code))
  BY <1>5, <1>6, CodeFacts
<1>8. a \in Public(code)
  BY <1>6, <1>7
<1> HIDE DEF a
<1>9. QED
  BY <1>1, <1>3, <1>8, CallsFrom

\* The calls that a function has still to come to.
LEMMA RunCalls ==
    ASSUME NEW S, NEW calls \in Seq(S), calls # <<>>
    PROVE  /\ Head(calls) \in S /\ Tail(calls) \in Seq(S)
           /\ Head(calls) \in Range(calls) /\ Range(Tail(calls)) \subseteq Range(calls)
<1>1. /\ Head(calls) \in S /\ Tail(calls) \in Seq(S)
      /\ 1 \in DOMAIN calls /\ Head(calls) = calls[1]
      /\ \A k \in DOMAIN Tail(calls) : k + 1 \in DOMAIN calls /\ Tail(calls)[k] = calls[k + 1]
  OBVIOUS
<1>2. QED
  BY <1>1 DEF Range

LEMMA CallFunctionInv ==
    ASSUME IInv, CallFunction
    PROVE  IInv'
<1> DEFINE a == Head(Top.calls)
           g == Run(Tail(Top.calls))
<1>1. /\ stack # <<>> /\ Top.op = "run" /\ Top.calls # <<>>
      /\ UNCHANGED <<program, all_exprs, extension, pos, file, bindings, objects, code, loads,
                     expanded, written, error>>
  BY DEF CallFunction
<1>2. /\ IsFrame(Top, code, phase, Current) /\ StackOK(stack, code, phase, Current)
      /\ phase \in {"try_generate_metas", "compile_files"}
  BY <1>1, TopFrame DEF IInv, StackInv, Top
<1>3. Top.calls \in Seq(Callable(code))
  BY <1>1, <1>2, FrameOps DEF IsFrame
<1>4. /\ a \in Callable(code) /\ Tail(Top.calls) \in Seq(Callable(code))
      /\ a \in Range(Top.calls) /\ Range(Tail(Top.calls)) \subseteq Range(Top.calls)
  BY <1>1, <1>3, RunCalls
<1>5. CASE a \in DOMAIN code
  <2>1. a \in Public(code)
    BY <1>4, <1>5 DEF Callable, IInv, CodeInv, MemoryOK
  <2>2. stack' = Called(a, g) /\ UNCHANGED phase
    BY <1>5 DEF CallFunction
  <2>3. IsFrame(g, code, phase, Current) /\ ~Awaits(g, code)
    BY <1>4 DEF IsFrame, Awaits, Run, RunFrames
  <2>4. /\ IsFrame(frame_of(a), code, phase, Current) /\ ~Awaits(frame_of(a), code)
        /\ WildFrame(frame_of(a)) => Unresolved
    BY <1>2, <2>1, FrameOf DEF IInv
  <2>5. Grows(code, code) /\ Relieves(Top, g, code)
    BY <1>1, GrowsSame DEF Relieves, Prepares
  <2>6. WildFrame(g) => WildFrame(Top)
    BY <1>1, <1>4 DEF WildFrame, Run
  <2> HIDE DEF a, g
  <2>7. StackOK(<<frame_of(a), g>> \o Tail(stack), code, phase, Current)
    BY <1>1, <1>2, <2>3, <2>4, <2>5, StackTwo DEF Top
  <2>8. StackInv'
    BY <1>1, <2>2, <2>7, CurrentSame DEF StackInv, Called, Return
  <2>9. Wild(stack') => Unresolved
    BY <1>1, <2>2, <2>4, <2>6, WildStep DEF IInv, Called, Return
  <2>10. QED
    BY <1>1, <2>2, <2>8, <2>9, StackOnly
<1>6. CASE a \notin DOMAIN code
  <2>1. a = NotFound
    BY <1>4, <1>6 DEF Callable, Public
  <2>2. phase' = "crash" /\ stack' = <<>>
    BY <1>6 DEF CallFunction, Crash
  <2>3. Unresolved
    BY <1>1, <1>4, <2>1, WildStep DEF WildFrame, IInv
  <2>4. BindingsInv' /\ ObjectsInv' /\ CodeInv' /\ LinksInv'
    BY <1>1, <1>2, MemorySame DEF IInv
  <2>5. StackInv'
    BY <2>2, StackEmpty DEF StackInv
  <2>6. FilesInv' /\ RoundInv'
    BY <1>1, <2>2, FilesSame DEF IInv, RoundInv
  <2>7. WildInv'
    BY <1>1, <2>3, UnresolvedSame DEF WildInv
  <2>8. QED
    BY <2>4, <2>5, <2>6, <2>7 DEF IInv
<1>7. QED
  BY <1>5, <1>6

LEMMA SkipCallInv ==
    ASSUME IInv, SkipCall
    PROVE  IInv'
<1> DEFINE g == Run(Tail(Top.calls))
<1>1. /\ stack # <<>> /\ Top.op = "run" /\ Top.calls # <<>>
      /\ stack' = <<g>> \o Tail(stack)
      /\ UNCHANGED <<program, phase, all_exprs, extension, pos, file, bindings, objects, code,
                     loads, expanded, written>>
  BY DEF SkipCall, Return
<1>2. IsFrame(Top, code, phase, Current) /\ StackOK(stack, code, phase, Current)
  BY <1>1, TopFrame DEF IInv, StackInv, Top
<1>3. Top.calls \in Seq(Callable(code))
  BY <1>1, <1>2, FrameOps DEF IsFrame
<1>4. /\ Tail(Top.calls) \in Seq(Callable(code))
      /\ Range(Tail(Top.calls)) \subseteq Range(Top.calls)
  BY <1>1, <1>3, RunCalls
<1>5. IsFrame(g, code, phase, Current) /\ ~Awaits(g, code)
  BY <1>4 DEF IsFrame, Awaits, Run, RunFrames
<1>6. Grows(code, code) /\ Relieves(Top, g, code)
  BY <1>1, GrowsSame DEF Relieves, Prepares
<1> HIDE DEF g
<1>7. StackOK(<<g>> \o Tail(stack), code, phase, Current)
  BY <1>1, <1>2, <1>5, <1>6, StackOne DEF Top
<1>8. StackInv'
  BY <1>1, <1>7, CurrentSame DEF StackInv
<1>9. Wild(stack') => Unresolved
  <2>1. WildFrame(g) => WildFrame(Top)
    BY <1>1, <1>4 DEF WildFrame, Run, g
  <2>2. QED
    BY <1>1, <2>1, WildStep DEF IInv
<1>10. QED
  BY <1>1, <1>8, <1>9, StackOnly

LEMMA FunctionReturnsInv ==
    ASSUME IInv, FunctionReturns
    PROVE  IInv'
<1>1. /\ stack # <<>> /\ Top.op = "run" /\ stack' = Tail(stack)
      /\ UNCHANGED <<program, phase, all_exprs, extension, pos, file, bindings, objects, code,
                     loads, expanded, written>>
  BY DEF FunctionReturns, Return
<1>2. StackOK(Tail(stack), code, phase, Current)
  BY <1>1, StackPop DEF IInv, StackInv, Top
<1>3. StackInv'
  BY <1>1, <1>2, CurrentSame DEF StackInv
<1>4. Wild(stack') => Unresolved
  BY <1>1, WildStep DEF IInv
<1>5. QED
  BY <1>1, <1>3, <1>4, StackOnly

LEMMA MacroReturnsInv ==
    ASSUME IInv, MacroReturns
    PROVE  IInv'
<1> DEFINE out == NextMeta(Top.expr).out
           r   == replace(Top.expr, out)
           g   == [Top EXCEPT !.stage = "next", !.expr = r]
<1>1. /\ stack # <<>> /\ Top.op = "expand" /\ Top.stage = "macro"
      /\ UNCHANGED <<program, all_exprs, extension, file, bindings, objects, code, loads,
                     expanded, written>>
  BY DEF MacroReturns
<1>2. /\ IsFrame(Top, code, phase, Current) /\ StackOK(stack, code, phase, Current)
      /\ Top \in ExpandFrames(code) /\ FrameOK(Top, code, phase, Current)
  <2>1. IsFrame(Top, code, phase, Current) /\ StackOK(stack, code, phase, Current)
    BY <1>1, TopFrame DEF IInv, StackInv, Top
  <2>2. QED
    BY <1>1, <2>1, FrameOps DEF IsFrame
<1>3. Top.expr \in Bodies \union Metas /\ HasMeta(Top.expr)
  BY <1>1, <1>2, UnfinishedFacts
<1>4. CASE out.type = "malformed"
  <2>1. Throw("special_form", Top.handler)
    BY <1>4 DEF MacroReturns
  <2>2. loads' \in {loads, loads + 1}
    BY <1>1
  <2>3. QED
    BY <1>1, <2>1, <2>2, Throws
<1>5. CASE out.type # "malformed"
  <2>1. stack' = <<g>> \o Tail(stack) /\ UNCHANGED <<phase, pos, error>>
    BY <1>5 DEF MacroReturns, Return
  <2>2. /\ r \in Bodies \union Metas /\ Expanded(r) = Expanded(Top.expr)
        /\ Top.expr \in Bodies => r \in Bodies /\ (Top.expr.refs # <<>> => r.refs # <<>>)
    BY <1>3, <1>5, ReplaceFacts
  <2> HIDE DEF r
  <2>3. /\ g \in ExpandFrames(code)
        /\ g.op = "expand" /\ g.owner = Top.owner /\ g.at = Top.at /\ g.expr = r
        /\ g.handler = Top.handler /\ g.stage = "next"
    BY <1>2, <2>2 DEF ExpandFrames
  <2> HIDE DEF g
  <2>4. FrameOK(g, code, phase, Current)
    BY <1>2, <2>2, <2>3 DEF FrameOK
  <2>5. IsFrame(g, code, phase, Current) /\ ~Awaits(g, code)
    BY <2>3, <2>4 DEF IsFrame, Awaits
  <2>6. Grows(code, code) /\ Relieves(Top, g, code)
    BY <2>3, GrowsSame DEF Relieves, Prepares
  <2>7. StackOK(<<g>> \o Tail(stack), code, phase, Current)
    BY <1>1, <1>2, <2>5, <2>6, StackOne DEF Top
  <2>8. StackInv'
    BY <1>1, <2>1, <2>7, CurrentSame DEF StackInv
  <2>9. Wild(stack') => Unresolved
    <3>1. ~WildFrame(g)
      BY <2>3 DEF WildFrame
    <3>2. QED
      BY <1>1, <2>1, <3>1, WildStep DEF IInv
  <2>10. QED
    BY <1>1, <2>1, <2>8, <2>9, StackOnly
<1>6. QED
  BY <1>4, <1>5

-----------------------------------------------------------------------------
(* Steps that add to memory.                                                *)

\* Thunks are all that changes.
Keeps(mem, new) ==
    Grows(mem, new) /\ \A a \in DOMAIN mem : mem[a].type # "thunk" => new[a] = mem[a]

LEMMA CodeKept ==
    ASSUME NEW mem, NEW new, Keeps(mem, new), NEW objs, NEW objs2, DOMAIN objs \subseteq DOMAIN objs2,
           NEW bs, NEW bs2, \A name, b : Gives(bs, name, b) => Gives(bs2, name, b),
           NEW a, NEW c, CodeOK(a, c, mem, objs, bs)
    PROVE  CodeOK(a, c, new, objs2, bs2)
<1>1. Public(mem) \subseteq Public(new) /\ Places(mem) \subseteq Places(new)
  BY PublicGrows DEF Keeps
<1>2. CASE IsBuiltin(c) \/ IsNative(c, objs)
  BY <1>2 DEF IsNative, CodeOK
<1>3. CASE IsThunk(c, mem)
  <2>1. c.cache # NotFound => new[c.cache] = mem[c.cache]
    <3>1. c.cache \in Places(mem) /\ (c.cache # NotFound => mem[c.cache].type = "body")
      BY <1>3 DEF IsThunk
    <3>2. QED
      BY <3>1 DEF Keeps, Places
  <2>2. IsThunk(c, new)
    BY <1>1, <1>3, <2>1 DEF IsThunk
  <2>3. QED
    BY <2>2 DEF CodeOK
<1>4. CASE IsBody(a, c, mem, bs)
  <2>1. Seq(Public(mem)) \subseteq Seq(Public(new))
    BY <1>1, SeqMonotonic
  <2>2. IsBody(a, c, new, bs2)
    BY <1>4, <2>1 DEF IsBody
  <2>3. QED
    BY <2>2 DEF CodeOK
<1>5. QED
  BY <1>2, <1>3, <1>4 DEF CodeOK

LEMMA BindingsGrow ==
    ASSUME NEW bs, NEW mem, NEW new, Grows(mem, new), BindingsOK(bs, mem)
    PROVE  BindingsOK(bs, new)
<1>1. Public(mem) \subseteq Public(new)
  BY PublicGrows
<1>2. [name : Names, address : Public(mem)] \subseteq [name : Names, address : Public(new)]
  BY <1>1
<1> DEFINE A == [name : Names, address : Public(mem)]
           B == [name : Names, address : Public(new)]
<1>3. bs \in Seq(A) /\ A \subseteq B
  BY <1>2 DEF BindingsOK
<1> HIDE DEF A, B
<1>4. bs \in Seq(B)
  BY <1>3, SeqMonotonic
<1>5. QED
  BY <1>4 DEF BindingsOK, B

LEMMA WithFacts ==
    ASSUME NEW new
    PROVE  /\ DOMAIN With(new) = DOMAIN code \union DOMAIN new
           /\ \A a \in DOMAIN new : With(new)[a] = new[a]
           /\ \A a \in DOMAIN code : a \notin DOMAIN new => With(new)[a] = code[a]
  BY DEF With

\* What is loaded next has addresses of its own.
LEMMA Fresh ==
    ASSUME CodeInv, NEW k \in Nat
    PROVE  /\ Address(loads + 1, k) \notin DOMAIN code
           /\ Address(loads + 1, k) # NotFound
           /\ Address(loads + 1, k) \in (0 .. (loads + 1)) \X Nat
           /\ (0 .. loads) \X Nat \subseteq (0 .. (loads + 1)) \X Nat
  BY DEF CodeInv, MemoryOK, Address, NotFound

\* Objects and bindings do not notice more code.
LEMMA NamesSame ==
    ASSUME BindingsInv, ObjectsInv, LinksInv, phase # "generate_metaprogram",
           UNCHANGED <<phase, bindings, objects>>, Grows(code, code')
    PROVE  BindingsInv' /\ ObjectsInv' /\ LinksInv'
<1>1. BindingsInv'
  BY BindingsGrow DEF BindingsInv
<1>2. ObjectsInv'
  BY DEF ObjectsInv
<1>3. LinksInv'
  BY DEF LinksInv
<1>4. QED
  BY <1>1, <1>2, <1>3

LEMMA CallContainerInv ==
    ASSUME IInv, CallContainer
    PROVE  IInv'
<1> DEFINE meta    == NextMeta(Top.expr)
           c       == meta.container[1]
           address == Address(loads + 1, 1)
           holder  == Function("", c.metas, <<meta.name>> \o c.refs)
           thunk   == Thunk(holder, Top.handler)
           new     == [a \in {address} |-> thunk]
           f       == Expand("init", address, holder, Top.handler)
           g       == [Top EXCEPT !.stage = "container", !.container = address]
<1>1. /\ stack # <<>> /\ Top.op = "expand" /\ Top.stage = "next" /\ ~Finished(Top)
      /\ meta.container # <<>>
      /\ code' = With(new) /\ loads' = loads + 1
      /\ stack' = <<f, g>> \o Tail(stack)
      /\ UNCHANGED <<program, phase, all_exprs, extension, pos, file, bindings, objects,
                     expanded, written, error>>
  BY DEF CallContainer, Return
<1>2. /\ IsFrame(Top, code, phase, Current) /\ StackOK(stack, code, phase, Current)
      /\ Top \in ExpandFrames(code) /\ FrameOK(Top, code, phase, Current)
      /\ phase \in {"try_generate_metas", "compile_files"}
  <2>1. /\ IsFrame(Top, code, phase, Current) /\ StackOK(stack, code, phase, Current)
        /\ phase \in {"try_generate_metas", "compile_files"}
    BY <1>1, TopFrame DEF IInv, StackInv, Top
  <2>2. QED
    BY <1>1, <2>1, FrameOps DEF IsFrame
<1>3. Top.expr \in Bodies \union Metas /\ HasMeta(Top.expr) /\ Top.handler \in Handlers
  BY <1>1, <1>2, UnfinishedFacts DEF ExpandFrames
<1>4. c \in Bodies /\ meta.name \in Names
  <2>1. meta \in Exprs /\ meta.type = "meta"
    BY <1>3, NextMetaFacts, MetaOut
  <2>2. QED
    BY <1>1, <2>1, Kinds
<1>5. holder \in Bodies /\ holder.refs # <<>>
  <2> DEFINE refs == <<meta.name>> \o c.refs
  <2>1. c.metas \in Seq(Metas) /\ c.refs \in Seq(Names)
    BY <1>4, BodyParts
  <2>2. refs \in Seq(Names) /\ refs # <<>>
    <3> HIDE DEF meta, c
    <3>1. <<meta.name>> \in Seq(Names) /\ Len(<<meta.name>>) = 1
      BY <1>4
    <3>2. Len(refs) = 1 + Len(c.refs) /\ Len(c.refs) \in Nat /\ refs \in Seq(Names)
      BY <2>1, <3>1
    <3> HIDE DEF refs
    <3>3. refs # <<>>
      BY <3>2
    <3>4. QED
      BY <3>2, <3>3
  <2> HIDE DEF refs, meta, c
  <2>3. Function("", c.metas, refs) \in Bodies /\ Function("", c.metas, refs).refs = refs
    BY <2>1, <2>2, NamesAssumption DEF Function, Bodies
  <2>4. QED
    BY <2>2, <2>3 DEF refs
<1>6. /\ address \notin DOMAIN code /\ address # NotFound
      /\ address \in (0 .. (loads + 1)) \X Nat
      /\ (0 .. loads) \X Nat \subseteq (0 .. (loads + 1)) \X Nat
  BY Fresh DEF IInv
<1> HIDE DEF meta, c, holder, address
<1>7. /\ DOMAIN code' = DOMAIN code \union {address} /\ code'[address] = thunk
      /\ \A a \in DOMAIN code : code'[a] = code[a]
  <2>1. DOMAIN new = {address} /\ new[address] = thunk
    OBVIOUS
  <2> HIDE DEF new, thunk
  <2>2. QED
    BY <1>1, <1>6, <2>1, WithFacts
<1>8. Keeps(code, code') /\ Grows(code, code')
  BY <1>7 DEF Keeps, Grows
<1>9. /\ thunk.type = "thunk" /\ thunk.function = holder /\ thunk.handler = Top.handler
      /\ thunk.cache = NotFound /\ IsThunk(thunk, code')
  BY <1>3, <1>5 DEF Thunk, IsThunk, Places
<1>10. MemoryOK(code', loads', objects, bindings)
  <2>1. MemoryOK(code, loads, objects, bindings)
    BY DEF IInv, CodeInv
  <2>2. ASSUME NEW a \in DOMAIN code'
        PROVE  CodeOK(a, code'[a], code', objects, bindings)
    <3>1. CASE a \in DOMAIN code
      <4>1. CodeOK(a, code[a], code, objects, bindings)
        BY <2>1, <3>1 DEF MemoryOK
      <4>2. CodeOK(a, code[a], code', objects, bindings)
        BY <1>8, <4>1, CodeKept
      <4>3. QED
        BY <1>7, <3>1, <4>2
    <3>2. CASE a = address
      BY <1>7, <1>9, <3>2 DEF CodeOK
    <3>3. QED
      BY <1>7, <3>1, <3>2
  <2>3. /\ loads' \in Nat /\ NotFound \notin DOMAIN code'
        /\ DOMAIN code' \subseteq (0 .. loads') \X Nat
    BY <1>1, <1>6, <1>7, <2>1 DEF MemoryOK
  <2>4. QED
    BY <2>2, <2>3 DEF MemoryOK
<1>11. CodeInv' /\ BindingsInv' /\ ObjectsInv' /\ LinksInv'
  BY <1>1, <1>2, <1>8, <1>10, NamesSame DEF IInv, CodeInv
<1> HIDE DEF thunk, new
<1>12. IsFrame(f, code', phase, Current) /\ ~Awaits(f, code') /\ Prepares(f, address)
  <2>1. f \in ExpandFrames(code')
    BY <1>3, <1>5, <1>7 DEF Expand, ExpandFrames, Places
  <2>2. FrameOK(f, code', phase, Current)
    BY <1>2, <1>5, <1>7, <1>9 DEF Expand, FrameOK
  <2>3. QED
    BY <2>1, <2>2 DEF IsFrame, Awaits, Prepares, Expand
<1>13. IsFrame(g, code', phase, Current) /\ Relieves(Top, g, code') /\ g.container = address
  <2>1. IsFrame(Top, code', phase, Current)
    BY <1>1, <1>2, <1>8, FramesGrow, FrameGrows DEF IsFrame
  <2>2. InStage(g, Top, "container", address, code')
    BY <1>5, <1>7, <1>9 DEF InStage, Places
  <2> HIDE DEF g
  <2>3. QED
    BY <1>1, <1>3, <2>1, <2>2, StageFrame
<1> HIDE DEF f, g
<1>14. StackOK(<<f, g>> \o Tail(stack), code', phase, Current)
  BY <1>1, <1>2, <1>8, <1>12, <1>13, StackTwo DEF Top
<1>15. StackInv'
  BY <1>1, <1>14, CurrentSame DEF StackInv
<1>16. FilesInv' /\ RoundInv'
  <2>1. FilesInv'
    BY <1>1, FilesSame DEF IInv
  <2>2. RoundInv'
    BY <1>1, <1>2 DEF IInv, RoundInv
  <2>3. QED
    BY <2>1, <2>2
<1>17. WildInv'
  <2>1. ~WildFrame(f) /\ ~WildFrame(g)
    BY <1>2 DEF WildFrame, Expand, ExpandFrames, f, g
  <2>2. Wild(stack') => Unresolved
    BY <1>1, <2>1, WildStep DEF IInv
  <2>3. QED
    BY <1>1, <1>2, <2>2, UnresolvedSame DEF WildInv
<1>18. QED
  BY <1>11, <1>15, <1>16, <1>17 DEF IInv

\* The links of a function all of whose names are known.
LEMMA BodyLinks ==
    ASSUME BindingsInv, loads \in Nat, NEW function \in Bodies, Missing(function) = {}
    PROVE  LET refs  == function.refs
               links == Links(load_program_and_mutate(function), refs)
           IN  /\ DOMAIN links = DOMAIN refs
               /\ \A k \in DOMAIN refs :
                     IF refs[k] = function.name THEN links[k] = Address(loads + 1, 1)
                     ELSE Gives(bindings, refs[k], links[k])
<1> DEFINE refs  == function.refs
           m     == 1 + Len(refs)
           table == SymbolTable(loads + 1, <<function.name>>, refs)
           syms  == mutate_bindings(table, bindings)
           links == Links(syms, refs)
<1>1. refs \in Seq(Names) /\ function.name \in Names /\ loads + 1 \in Nat
  <2>1. function.refs \in Seq(Names) /\ function.name \in Names
    BY BodyParts, Zenon
  <2>2. loads + 1 \in Nat
    OBVIOUS
  <2>3. QED
    BY <2>1, <2>2
<1>2. <<function.name>> \in Seq(Names) /\ Len(<<function.name>>) = 1
      /\ <<function.name>>[1] = function.name
  BY <1>1
<1>3. /\ m \in Nat /\ table \in [0 .. m -> Symbols]
      /\ table[1] = Defined(function.name, Address(loads + 1, 1))
      /\ \A i \in 1 .. Len(refs) : table[1 + i] = Undefined(refs[i])
  <2> DEFINE defs == <<function.name>>
  <2>1. defs \in Seq(Names) /\ Len(defs) = 1 /\ defs[1] = function.name /\ 1 \in 1 .. Len(defs)
    BY <1>2
  <2> HIDE DEF defs, refs
  <2>2. LET t == SymbolTable(loads + 1, defs, refs)
        IN  /\ Len(defs) + Len(refs) \in Nat /\ t \in [0 .. (Len(defs) + Len(refs)) -> Symbols]
            /\ \A i \in 1 .. Len(defs) : t[i] = Defined(defs[i], Address(loads + 1, i))
            /\ \A i \in 1 .. Len(refs) : t[Len(defs) + i] = Undefined(refs[i])
    BY <1>1, <2>1, SymbolTableFacts
  <2>3. QED
    BY <2>1, <2>2 DEF defs, refs
<1>4. bindings \in Seq([name : Names, address : Public(code)])
  BY DEF BindingsInv, BindingsOK
<1>5. DOMAIN syms = 0 .. m /\ DOMAIN syms \subseteq Nat
  BY <1>3 DEF mutate_bindings
<1>6. \A i \in DOMAIN syms :
         \/ /\ i # 0 /\ IsMutable(table[i])
            /\ \E k \in DOMAIN bindings :
                  /\ bindings[k].name = table[i].name
                  /\ syms[i] = [table[i] EXCEPT !.value = bindings[k].address]
         \/ /\ syms[i] = table[i]
            /\ \/ i = 0 \/ ~IsMutable(table[i])
               \/ \A k \in DOMAIN bindings : bindings[k].name # table[i].name
  <2>1. DOMAIN table = 0 .. m
    BY <1>3
  <2> HIDE DEF table
  <2>2. QED
    BY <1>4, <1>5, <2>1, MutateFacts
<1> HIDE DEF table, syms
<1>7. \A i \in 0 .. m : syms[i].name = table[i].name
  <2>1. \A i \in 0 .. m : table[i] \in Symbols
    BY <1>3
  <2>2. QED
    BY <1>5, <1>6, <2>1 DEF Symbols
<1>8. syms[1].name = function.name /\ syms[1].value = Address(loads + 1, 1) /\ 1 \in 1 .. m
  <2>1. table[1].name = function.name /\ ~IsMutable(table[1]) /\ table[1].value = Address(loads + 1, 1)
    BY <1>3 DEF Defined, IsMutable, SHN_UNDEF, SHN_COMMON
  <2>2. 1 \in 0 .. m
    BY <1>1
  <2>3. QED
    BY <1>1, <1>5, <1>6, <2>1, <2>2
<1>9. ASSUME NEW i \in 1 .. Len(refs)
      PROVE  /\ syms[1 + i].name = refs[i] /\ 1 + i \in DOMAIN syms \ {0}
             /\ Bound(bindings, refs[i]) => Gives(bindings, refs[i], syms[1 + i].value)
  <2>1. 1 + i \in 0 .. m /\ 1 + i # 0
    BY <1>1
  <2>2. table[1 + i].name = refs[i] /\ IsMutable(table[1 + i]) /\ table[1 + i] \in Symbols
    <3>1. table[1 + i] = Undefined(refs[i]) /\ table[1 + i] \in Symbols
      BY <1>3, <2>1
    <3>2. QED
      BY <3>1 DEF Undefined, IsMutable
  <2>3. ASSUME Bound(bindings, refs[i])
        PROVE  Gives(bindings, refs[i], syms[1 + i].value)
    <3>1. PICK k \in DOMAIN bindings :
              /\ bindings[k].name = refs[i]
              /\ syms[1 + i] = [table[1 + i] EXCEPT !.value = bindings[k].address]
      BY <1>5, <1>6, <2>1, <2>2, <2>3 DEF Bound
    <3>2. syms[1 + i].value = bindings[k].address
      BY <2>2, <3>1 DEF Symbols
    <3>3. QED
      BY <3>1, <3>2 DEF Gives
  <2>4. QED
    BY <1>5, <1>7, <2>1, <2>2, <2>3
<1>10. ASSUME NEW k \in DOMAIN refs
       PROVE  /\ DOMAIN links = DOMAIN refs
              /\ IF refs[k] = function.name THEN links[k] = Address(loads + 1, 1)
                 ELSE Gives(bindings, refs[k], links[k])
  <2>1. k \in 1 .. Len(refs)
    BY <1>1
  <2>2. \E i \in DOMAIN syms \ {0} : syms[i].name = refs[k]
    BY <1>9, <2>1
  <2>3. /\ DOMAIN links = DOMAIN refs
        /\ \E i \in DOMAIN syms \ {0} :
              /\ syms[i].name = refs[k] /\ links[k] = syms[i].value
              /\ \A j \in DOMAIN syms \ {0} : syms[j].name = refs[k] => i <= j
    <3> HIDE DEF refs
    <3> QED BY <1>5, <2>2, LinksFacts
  <2>4. PICK i \in DOMAIN syms \ {0} :
            /\ syms[i].name = refs[k] /\ links[k] = syms[i].value
            /\ \A j \in DOMAIN syms \ {0} : syms[j].name = refs[k] => i <= j
    BY <2>3
  <2>5. CASE refs[k] = function.name
    <3>1. i <= 1 /\ i \in Nat \ {0}
      BY <1>5, <1>8, <2>4, <2>5
    <3>2. i = 1
      BY <3>1
    <3>3. QED
      BY <1>8, <2>3, <2>4, <2>5, <3>2
  <2>6. CASE refs[k] # function.name
    <3>1. i # 1 /\ i \in 1 .. m
      BY <1>5, <1>8, <2>4, <2>6
    <3> DEFINE j == i - 1
    <3>2. j \in 1 .. Len(refs) /\ i = 1 + j
      BY <1>1, <3>1
    <3> HIDE DEF j
    <3>3. refs[j] = refs[k] /\ (Bound(bindings, refs[j]) => Gives(bindings, refs[j], links[k]))
      BY <1>9, <2>4, <3>2
    <3>4. refs[k] \in Range(refs)
      BY DEF Range
    <3>5. AddressOf(refs[k]) # NotFound
      BY <2>6, <3>4 DEF Missing
    <3>6. Bound(bindings, refs[k])
      BY <1>4, <3>5, AddressOfFacts
    <3>7. QED
      BY <2>3, <2>6, <3>3, <3>6
  <2>7. QED
    BY <2>5, <2>6
<1>11. DOMAIN links = DOMAIN refs
  BY DEF Links
<1>12. links = Links(load_program_and_mutate(function), refs)
  BY DEF load_program_and_mutate, syms, table
<1> HIDE DEF links
<1>13. QED
  BY <1>10, <1>11, <1>12

\* The body of a function in memory, and in the thunk it was made for.
LEMMA InitFunctionInv ==
    ASSUME IInv, InitFunction
    PROVE  IInv'
<1> DEFINE function == Top.expr
           links == Links(load_program_and_mutate(function), function.refs)
           body  == Address(loads + 1, 1)
           at    == Top.at
           compiled == Body(function.name, function.refs, links)
           entered  == [code[at] EXCEPT !.cache = body]
           new   == [a \in {body, at} |-> IF a = body THEN compiled ELSE [code[a] EXCEPT !.cache = body]]
           g     == Run(links)
<1>1. /\ stack # <<>> /\ Top.op = "expand" /\ Top.owner = "init" /\ Finished(Top)
      /\ UNCHANGED <<program, all_exprs, extension, file, bindings, objects, expanded, written>>
  BY DEF InitFunction
<1>2. /\ IsFrame(Top, code, phase, Current) /\ StackOK(stack, code, phase, Current)
      /\ Top \in ExpandFrames(code) /\ FrameOK(Top, code, phase, Current)
      /\ phase \in {"try_generate_metas", "compile_files"}
  <2>1. /\ IsFrame(Top, code, phase, Current) /\ StackOK(stack, code, phase, Current)
        /\ phase \in {"try_generate_metas", "compile_files"}
    BY <1>1, TopFrame DEF IInv, StackInv, Top
  <2>2. QED
    BY <1>1, <2>1, FrameOps DEF IsFrame
<1>3. /\ function \in Bodies
      /\ at \in DOMAIN code /\ code[at].type = "thunk"
      /\ code[at].function.refs # <<>> => function.refs # <<>>
  BY <1>1, <1>2 DEF FrameOK
<1>4. MemoryOK(code, loads, objects, bindings) /\ loads \in Nat
  BY DEF IInv, CodeInv, MemoryOK
<1>5. CASE Throw("multiple_definition", Top.handler) /\ UNCHANGED <<code, loads>>
  <2>1. loads' \in {loads, loads + 1}
    BY <1>5
  <2>2. QED
    BY <1>1, <1>5, <2>1, Throws
<1>6. CASE Throw("undefined_symbol", Top.handler) /\ UNCHANGED code /\ loads' = loads + 1
  <2>1. loads' \in {loads, loads + 1}
    BY <1>6
  <2>2. QED
    BY <1>1, <1>6, <2>1, Throws
<1>7. ASSUME Missing(function) = {}, code' = With(new), stack' = <<g>> \o Tail(stack),
             loads' = loads + 1, UNCHANGED <<phase, pos, error>>
      PROVE  IInv'
  <2>1. /\ DOMAIN links = DOMAIN function.refs
        /\ \A k \in DOMAIN function.refs :
              IF function.refs[k] = function.name THEN links[k] = body
              ELSE Gives(bindings, function.refs[k], links[k])
    <3> HIDE DEF function
    <3> QED BY <1>3, <1>4, <1>7, BodyLinks DEF IInv
  <2>2. /\ body \notin DOMAIN code /\ body # NotFound
        /\ body \in (0 .. (loads + 1)) \X Nat
        /\ (0 .. loads) \X Nat \subseteq (0 .. (loads + 1)) \X Nat
    BY Fresh DEF IInv
  <2> HIDE DEF body, links, function, at
  <2>3. body # at
    BY <1>3, <2>2
  <2>4. /\ DOMAIN code' = DOMAIN code \union {body}
        /\ code'[body] = compiled /\ code'[at] = entered
        /\ \A a \in DOMAIN code : a # at => code'[a] = code[a]
    <3>1. DOMAIN new = {body, at} /\ new[body] = compiled /\ new[at] = entered
      BY <2>3
    <3> HIDE DEF new, compiled, entered
    <3>2. /\ DOMAIN code' = DOMAIN code \union {body, at}
          /\ code'[body] = compiled /\ code'[at] = entered
          /\ \A a \in DOMAIN code : a \notin {body, at} => code'[a] = code[a]
      BY <1>7, <3>1, WithFacts
    <3>3. QED
      BY <1>3, <2>2, <3>2
  <2>5. IsThunk(code[at], code)
    BY <1>3, <1>4, CodeFacts
  <2>6. /\ code[at].function \in Bodies /\ code[at].handler \in Handlers
        /\ entered = [type |-> "thunk", function |-> code[at].function,
                      handler |-> code[at].handler, cache |-> body]
    BY <2>5 DEF IsThunk
  <2>7. /\ compiled.type = "body" /\ compiled.name = function.name
        /\ compiled.refs = function.refs /\ compiled.links = links
    BY DEF Body
  <2> HIDE DEF entered, compiled, new
  <2>8. Keeps(code, code') /\ Grows(code, code')
    <3>1. ASSUME NEW a \in DOMAIN code
          PROVE  /\ a \in DOMAIN code' /\ code'[a].type = code[a].type
                 /\ code[a].type = "thunk" =>
                       /\ code'[a].function = code[a].function
                       /\ code'[a].handler = code[a].handler
                       /\ code[a].cache # NotFound => code'[a].cache # NotFound
                 /\ code[a].type # "thunk" => code'[a] = code[a]
      <4>1. CASE a = at
        BY <1>3, <2>2, <2>4, <2>6, <4>1
      <4>2. CASE a # at
        BY <2>4, <4>2
      <4>3. QED
        BY <4>1, <4>2
    <3>2. QED
      BY <3>1 DEF Keeps, Grows
  <2>9. Public(code) \subseteq Public(code') /\ body \in Public(code')
    <3>1. body \in Public(code')
      BY <2>4, <2>7 DEF Public
    <3>2. QED
      BY <2>8, <3>1, PublicGrows
  <2>10. links \in Seq(Public(code'))
    <3>1. ASSUME NEW k \in DOMAIN function.refs
          PROVE  links[k] \in Public(code')
      <4>1. CASE function.refs[k] = function.name
        BY <2>1, <2>9, <4>1
      <4>2. CASE function.refs[k] # function.name
        <5>1. Gives(bindings, function.refs[k], links[k])
          BY <2>1, <4>2
        <5>2. links[k] \in Public(code)
          BY <5>1, GivesPublic DEF IInv, BindingsInv
        <5>3. QED
          BY <2>9, <5>2
      <4>3. QED
        BY <4>1, <4>2
    <3>2. links = [k \in DOMAIN function.refs |-> links[k]]
      BY DEF links, Links
    <3>3. function.refs \in Seq(Names)
      BY <1>3, BodyParts
    <3>4. DOMAIN function.refs = 1 .. Len(function.refs) /\ Len(function.refs) \in Nat
      BY <3>3
    <3>5. QED
      BY <3>1, <3>2, <3>4
  <2>11. IsBody(body, compiled, code', bindings)
    <3>1. function.name \in Names /\ function.refs \in Seq(Names)
      BY <1>3, BodyParts
    <3>2. compiled \in [type : {"body"}, name : Names, refs : Seq(Names), links : Seq(Public(code'))]
      BY <2>10, <3>1 DEF compiled, Body
    <3>3. QED
      BY <2>1, <2>7, <3>2 DEF IsBody
  <2>12. IsThunk(entered, code')
    <3>1. code[at].function.refs # <<>> => links # <<>>
      <4>1. function.refs \in Seq(Names) /\ links \in Seq(Public(code'))
        BY <1>3, <2>10, BodyParts
      <4>2. ASSUME function.refs # <<>>
            PROVE  links # <<>>
        <5>1. 1 \in DOMAIN function.refs
          BY <4>1, <4>2
        <5>2. DOMAIN links # {}
          BY <2>1, <5>1
        <5>3. QED
          BY <5>2
      <4>3. QED
        BY <1>3, <4>2
    <3>2. entered \in [type : {"thunk"}, function : Bodies, handler : Handlers, cache : Places(code')]
      BY <2>4, <2>6 DEF Places
    <3>3. QED
      BY <2>4, <2>6, <2>7, <3>1, <3>2 DEF IsThunk
  <2>13. MemoryOK(code', loads', objects, bindings)
    <3>1. ASSUME NEW a \in DOMAIN code'
          PROVE  CodeOK(a, code'[a], code', objects, bindings)
      <4>1. CASE a \in DOMAIN code /\ a # at
        <5>1. CodeOK(a, code[a], code, objects, bindings)
          BY <1>4, <4>1 DEF MemoryOK
        <5>2. CodeOK(a, code[a], code', objects, bindings)
          BY <2>8, <5>1, CodeKept
        <5>3. QED
          BY <2>4, <4>1, <5>2
      <4>2. CASE a = at
        BY <2>4, <2>12, <4>2 DEF CodeOK
      <4>3. CASE a = body
        BY <2>4, <2>11, <4>3 DEF CodeOK
      <4>4. QED
        BY <2>4, <4>1, <4>2, <4>3
    <3>2. QED
      BY <1>4, <1>7, <2>2, <2>4, <3>1 DEF MemoryOK
  <2>14. CodeInv' /\ BindingsInv' /\ ObjectsInv' /\ LinksInv'
    BY <1>1, <1>2, <1>7, <2>8, <2>13, NamesSame DEF IInv, CodeInv
  <2>15. /\ IsFrame(g, code', phase, Current) /\ ~Awaits(g, code')
         /\ ~WildFrame(g)
    <3>1. links \in Seq(Callable(code')) /\ NotFound \notin Range(links)
      BY <2>10, <2>13, PublicCalls
    <3>2. QED
      BY <3>1 DEF IsFrame, Awaits, Run, RunFrames, WildFrame
  <2>16. Relieves(Top, g, code')
    BY <1>1, <2>2, <2>4, <2>6 DEF Relieves, Prepares, at
  <2> HIDE DEF g
  <2>17. StackOK(<<g>> \o Tail(stack), code', phase, Current)
    BY <1>1, <1>2, <2>8, <2>15, <2>16, StackOne DEF Top
  <2>18. StackInv'
    BY <1>1, <1>7, <2>17, CurrentSame DEF StackInv
  <2>19. FilesInv' /\ RoundInv'
    <3>1. FilesInv'
      BY <1>1, <1>7, FilesSame DEF IInv
    <3>2. RoundInv'
      BY <1>1, <1>2, <1>7 DEF IInv, RoundInv
    <3>3. QED
      BY <3>1, <3>2
  <2>20. WildInv'
    <3>1. Wild(stack') => Unresolved
      BY <1>1, <1>7, <2>15, WildStep DEF IInv
    <3>2. QED
      BY <1>1, <1>2, <1>7, <3>1, UnresolvedSame DEF WildInv
  <2>21. QED
    BY <2>14, <2>18, <2>19, <2>20 DEF IInv
<1>8. QED
  BY <1>5, <1>6, <1>7 DEF InitFunction, Return

-----------------------------------------------------------------------------
(* Steps that bind names.                                                   *)

\* Bindings that may be called are bindings.
LEMMA BindingsAreBindings ==
    ASSUME NEW bs, NEW mem, NEW n \in Nat, BindingsOK(bs, mem), DOMAIN mem \subseteq (0 .. n) \X Nat
    PROVE  bs \in Seq(Binding)
<1>1. Public(mem) \subseteq Nat \X Nat
  BY DEF Public
<1> DEFINE A == [name : Names, address : Public(mem)]
<1>2. bs \in Seq(A) /\ A \subseteq Binding
  BY <1>1 DEF BindingsOK, Binding
<1> HIDE DEF A
<1>3. QED
  BY <1>2, SeqMonotonic

\* mutate_bindings for all objects gives every symbol the address of its name.
LEMMA LinkFacts ==
    ASSUME NEW objs, NEW bs \in Seq(Binding), ObjectsOK(objs, bs)
    PROVE  LET new == link_objects(objs, bs)
           IN  /\ ObjectsOK(new, bs) /\ Linked(new, bs)
               /\ DOMAIN new = DOMAIN objs
               /\ \A n \in DOMAIN objs : new[n].refs = objs[n].refs
<1> DEFINE new == link_objects(objs, bs)
           syms(n) == mutate_bindings(objs[n].syms, bs)
<1>1. /\ objs \in Seq(Object) /\ \A n \in DOMAIN objs : ObjectOK(objs[n], bs)
      /\ Len(objs) \in Nat /\ DOMAIN objs = 1 .. Len(objs)
  BY DEF ObjectsOK
<1>2. \A b \in Binding : b.address \in Nat \X Nat
  BY DEF Binding
<1>3. ASSUME NEW n \in DOMAIN objs, NEW i \in DOMAIN objs[n].syms
      PROVE  LET sym == objs[n].syms[i]
             IN  /\ sym \in Symbols
                 /\ \/ /\ i # 0 /\ IsMutable(sym)
                       /\ \E k \in DOMAIN bs : /\ bs[k].name = sym.name
                                               /\ syms(n)[i] = [sym EXCEPT !.value = bs[k].address]
                    \/ /\ syms(n)[i] = sym
                       /\ \/ i = 0 \/ ~IsMutable(sym)
                          \/ \A k \in DOMAIN bs : bs[k].name # sym.name
  <2>1. objs[n] \in Object
    BY <1>1
  <2>2. \E m \in Nat : objs[n].syms \in [0 .. m -> Symbols]
    BY <2>1, ObjectFacts
  <2>3. objs[n].syms[i] \in Symbols
    BY <2>2
  <2>4. QED
    BY <2>3, MutateFacts
<1>4. ASSUME NEW n \in DOMAIN objs
      PROVE  /\ new[n] \in Object /\ new[n].syms = syms(n) /\ new[n].refs = objs[n].refs
             /\ DOMAIN syms(n) = DOMAIN objs[n].syms
  <2>1. objs[n] \in Object
    BY <1>1
  <2>2. PICK m \in Nat : objs[n].syms \in [0 .. m -> Symbols]
    BY <2>1, ObjectFacts
  <2>3. DOMAIN objs[n].syms = 0 .. m
    BY <2>2
  <2>4. DOMAIN syms(n) = 0 .. m
    BY <2>3 DEF mutate_bindings
  <2>5. ASSUME NEW i \in 0 .. m
        PROVE  syms(n)[i] \in Symbols
    <3>1. objs[n].syms[i] \in Symbols
      BY <1>3, <2>3
    <3>2. \A k \in DOMAIN bs : bs[k].address \in Nat \X Nat
      BY <1>2
    <3>3. \A sym \in Symbols : \A a \in Nat \X Nat : [sym EXCEPT !.value = a] \in Symbols
      BY DEF Symbols
    <3> DEFINE sym == objs[n].syms[i]
               nsym == syms(n)[i]
    <3>4. nsym = sym \/ \E k \in DOMAIN bs : nsym = [sym EXCEPT !.value = bs[k].address]
      <4>1. i \in DOMAIN objs[n].syms
        BY <2>3
      <4> HIDE DEF syms
      <4>2. QED
        BY <1>3, <4>1
    <3>5. sym \in Symbols
      BY <3>1
    <3> HIDE DEF nsym, sym
    <3>6. nsym \in Symbols
      BY <3>2, <3>3, <3>4, <3>5
    <3>7. QED
      BY <3>6 DEF nsym
  <2>6. syms(n) = [i \in 0 .. m |-> syms(n)[i]]
    BY <2>3, <2>4 DEF mutate_bindings
  <2>7. new[n] = [objs[n] EXCEPT !.syms = syms(n)]
    BY DEF link_objects
  <2> HIDE DEF syms, new
  <2>8. syms(n) \in [0 .. m -> Symbols]
    BY <2>5, <2>6
  <2>9. QED
    BY <2>1, <2>3, <2>4, <2>7, <2>8, ObjectFacts
<1>5. DOMAIN new = DOMAIN objs
  BY DEF link_objects
<1>6. ASSUME NEW n \in DOMAIN objs, NEW i \in DOMAIN objs[n].syms \ {0}
      PROVE  /\ syms(n)[i].name = objs[n].syms[i].name
             /\ SymbolOK(syms(n)[i], bs)
             /\ Bound(bs, syms(n)[i].name) => Gives(bs, syms(n)[i].name, syms(n)[i].value)
  <2> DEFINE sym == objs[n].syms[i]
             nsym == syms(n)[i]
  <2>1. SymbolOK(sym, bs) /\ sym \in Symbols
    BY <1>1, <1>3 DEF ObjectOK
  <2>2. CASE /\ i # 0 /\ IsMutable(sym)
             /\ \E k \in DOMAIN bs : /\ bs[k].name = sym.name
                                     /\ nsym = [sym EXCEPT !.value = bs[k].address]
    <3>1. PICK k \in DOMAIN bs : bs[k].name = sym.name /\ nsym = [sym EXCEPT !.value = bs[k].address]
      BY <2>2
    <3>2. bs[k].address \in Nat \X Nat
      BY <1>2
    <3> HIDE DEF nsym, sym
    <3>3. /\ nsym \in Symbols /\ nsym.name = sym.name /\ nsym.bind = sym.bind
          /\ nsym.value = bs[k].address
      BY <2>1, <3>1, <3>2 DEF Symbols
    <3>4. Gives(bs, nsym.name, nsym.value)
      BY <3>1, <3>3 DEF Gives
    <3>5. QED
      BY <2>1, <3>3, <3>4 DEF SymbolOK, nsym, sym
  <2>3. CASE /\ nsym = sym
             /\ ~IsMutable(sym) \/ \A k \in DOMAIN bs : bs[k].name # sym.name
    <3> HIDE DEF nsym, sym
    <3>1. Bound(bs, sym.name) => Gives(bs, sym.name, sym.value)
      BY <2>1, <2>3 DEF SymbolOK, Bound
    <3>2. QED
      BY <2>1, <2>3, <3>1 DEF nsym, sym
  <2>4. QED
    BY <1>3, <2>2, <2>3
<1>7. ASSUME NEW n \in DOMAIN objs
      PROVE  /\ ObjectOK(new[n], bs)
             /\ \A i \in DOMAIN new[n].syms \ {0} :
                   LET sym == new[n].syms[i] IN Bound(bs, sym.name) => Gives(bs, sym.name, sym.value)
  <2> HIDE DEF syms, new
  <2>1. \A k \in DOMAIN objs[n].refs : \E i \in DOMAIN objs[n].syms \ {0} :
           objs[n].syms[i].name = objs[n].refs[k]
    BY <1>1 DEF ObjectOK
  <2>2. QED
    BY <1>4, <1>6, <2>1 DEF ObjectOK
<1>8. new \in Seq(Object)
  <2>1. new = [n \in DOMAIN objs |-> new[n]]
    BY DEF link_objects
  <2> HIDE DEF new
  <2>2. QED
    BY <1>1, <1>4, <2>1
<1> HIDE DEF syms, new
<1>9. ObjectsOK(new, bs) /\ Linked(new, bs)
  BY <1>5, <1>7, <1>8 DEF ObjectsOK, Linked
<1>10. QED
  BY <1>4, <1>5, <1>9 DEF new

\* What an object that has been loaded gives to others and takes from them.
Loaded(n, defs, refs, syms, bs) ==
    /\ \E m \in Nat : syms \in [0 .. m -> Symbols]
    /\ \A i \in DOMAIN syms \ {0} : SymbolOK(syms[i], bs)
    /\ \A k \in DOMAIN refs : \E i \in DOMAIN syms \ {0} : syms[i].name = refs[k]
    /\ bs \in Seq(Binding)
    /\ \A k \in DOMAIN bs : \E i \in DOMAIN defs : bs[k].address = Address(n, i)
    /\ \A i \in DOMAIN defs : Bound(bs, defs[i])

LEMMA ObjectLoaded ==
    ASSUME NEW n \in Nat, NEW defs \in Seq(Names), NEW refs \in Seq(Names)
    PROVE  LET syms == SymbolTable(n, defs, refs)
           IN  Loaded(n, defs, refs, syms, immutable_bindings(syms))
<1> DEFINE l    == Len(defs)
           m    == Len(defs) + Len(refs)
           syms == SymbolTable(n, defs, refs)
           bs   == immutable_bindings(syms)
<1>1. /\ m \in Nat /\ syms \in [0 .. m -> Symbols]
      /\ \A i \in 1 .. l : syms[i] = Defined(defs[i], Address(n, i))
      /\ \A i \in 1 .. Len(refs) : syms[l + i] = Undefined(refs[i])
      /\ \A i \in 1 .. m : \/ i \in 1 .. l
                           \/ i > l /\ i - l \in 1 .. Len(refs)
                              /\ syms[i] = Undefined(refs[i - l])
  BY SymbolTableFacts
<1>2. /\ l \in Nat /\ Len(refs) \in Nat /\ DOMAIN defs = 1 .. l /\ DOMAIN refs = 1 .. Len(refs)
      /\ m = l + Len(refs)
  OBVIOUS
<1> HIDE DEF syms, m, l
<1>3. \A i \in 1 .. l : /\ IsImmutable(syms[i]) /\ syms[i].bind = STB_GLOBAL
                        /\ syms[i].name = defs[i] /\ syms[i].value = Address(n, i)
                        /\ i \in 1 .. m
  <2>1. \A i \in 1 .. l : i \in 1 .. m
    BY <1>1, <1>2
  <2>2. \A name, a : /\ IsImmutable(Defined(name, a)) /\ Defined(name, a).bind = STB_GLOBAL
                     /\ Defined(name, a).name = name /\ Defined(name, a).value = a
    BY DEF Defined, IsImmutable, SHN_UNDEF, SHN_COMMON
  <2>3. QED
    BY <1>1, <2>1, <2>2
<1>4. \A name : /\ IsMutable(Undefined(name)) /\ ~IsImmutable(Undefined(name))
                /\ Undefined(name).bind = STB_GLOBAL /\ Undefined(name).value = NotFound
                /\ Undefined(name).name = name
  BY DEF Undefined, IsMutable, IsImmutable
<1>5. /\ bs \in Seq(Binding)
      /\ \A k \in DOMAIN bs : \E i \in 1 .. m :
            IsImmutable(syms[i]) /\ bs[k] = [name |-> syms[i].name, address |-> syms[i].value]
      /\ \A i \in 1 .. m : IsImmutable(syms[i]) => \E k \in DOMAIN bs :
            bs[k] = [name |-> syms[i].name, address |-> syms[i].value]
  BY <1>1, ImmutableBindings
<1> HIDE DEF bs
<1>6. \A k \in DOMAIN bs : \E i \in DOMAIN defs : bs[k].address = Address(n, i)
  <2> SUFFICES ASSUME NEW k \in DOMAIN bs
               PROVE  \E i \in DOMAIN defs : bs[k].address = Address(n, i)
    OBVIOUS
  <2>1. PICK i \in 1 .. m : /\ IsImmutable(syms[i])
                            /\ bs[k] = [name |-> syms[i].name, address |-> syms[i].value]
    BY <1>5
  <2>2. i \in 1 .. l
    BY <1>1, <1>4, <2>1
  <2>3. bs[k].address = Address(n, i) /\ i \in DOMAIN defs
    BY <1>2, <1>3, <2>1, <2>2
  <2>4. QED
    BY <2>3
<1>7. \A i \in 1 .. l : Gives(bs, syms[i].name, syms[i].value)
  <2> SUFFICES ASSUME NEW i \in 1 .. l
               PROVE  Gives(bs, syms[i].name, syms[i].value)
    OBVIOUS
  <2>1. PICK k \in DOMAIN bs : bs[k] = [name |-> syms[i].name, address |-> syms[i].value]
    BY <1>3, <1>5
  <2>2. QED
    BY <2>1 DEF Gives
<1>8. ASSUME NEW i \in DOMAIN syms \ {0}
      PROVE  SymbolOK(syms[i], bs)
  <2>1. i \in 1 .. m /\ syms[i] \in Symbols
    BY <1>1
  <2>2. CASE i \in 1 .. l
    BY <1>3, <1>7, <2>1, <2>2 DEF SymbolOK
  <2>3. CASE i \notin 1 .. l
    <3>1. syms[i] = Undefined(refs[i - l])
      BY <1>1, <2>1, <2>3
    <3>2. QED
      BY <1>4, <2>1, <3>1 DEF SymbolOK
  <2>4. QED
    BY <2>2, <2>3
<1>9. ASSUME NEW k \in DOMAIN refs
      PROVE  \E i \in DOMAIN syms \ {0} : syms[i].name = refs[k]
  <2>1. k \in 1 .. Len(refs) /\ l + k \in 0 .. m /\ l + k # 0
    BY <1>2
  <2>2. l + k \in DOMAIN syms /\ syms[l + k].name = refs[k]
    BY <1>1, <1>4, <2>1
  <2>3. QED
    BY <2>1, <2>2
<1>10. ASSUME NEW i \in DOMAIN defs
       PROVE  Bound(bs, defs[i])
  BY <1>2, <1>3, <1>7 DEF Gives, Bound
<1>11. Loaded(n, defs, refs, syms, bs)
  <2>1. \E k \in Nat : syms \in [0 .. k -> Symbols]
    BY <1>1
  <2>2. QED
    BY <1>5, <1>6, <1>8, <1>9, <1>10, <2>1 DEF Loaded
<1>12. QED
  BY <1>11 DEF bs, syms

\* What generate_metaprogram loads: thunks, which have symbols and are bound.
LEMMA MetaprogramFacts ==
    ASSUME NEW exprs \in Seq(Bodies \union Metas), NEW n \in Nat
    PROVE  LET functions == Functions(exprs)
               names == [k \in DOMAIN functions |-> functions[k].name]
               syms  == SymbolTable(n, names, <<>>)
               bs    == immutable_bindings(syms)
           IN  /\ DOMAIN functions \subseteq Nat
               /\ \A k \in DOMAIN functions : functions[k] \in Bodies
               /\ \E m \in Nat : syms \in [0 .. m -> Symbols]
               /\ \A i \in DOMAIN syms \ {0} : SymbolOK(syms[i], bs)
               /\ bs \in Seq(Binding)
               /\ \A k \in DOMAIN bs : \E i \in DOMAIN functions : bs[k].address = Address(n, i)
               /\ \A i \in DOMAIN exprs : exprs[i].type = "function" => Bound(bs, exprs[i].name)
<1> DEFINE f     == Functions(exprs)
           names == [k \in DOMAIN f |-> f[k].name]
           syms  == SymbolTable(n, names, <<>>)
           bs    == immutable_bindings(syms)
           S     == Bodies \union Metas
<1>1. /\ f \in Seq(S)
      /\ \A k \in DOMAIN f : \E i \in DOMAIN exprs : exprs[i].type = "function" /\ f[k] = exprs[i]
      /\ \A i \in DOMAIN exprs : exprs[i].type = "function" => \E k \in DOMAIN f : f[k] = exprs[i]
  <2> HIDE DEF S
  <2>1. exprs \in Seq(S)
    BY DEF S
  <2>2. QED
    BY <2>1, FunctionsFacts
<1> HIDE DEF f
<1>2. /\ DOMAIN f = 1 .. Len(f) /\ Len(f) \in Nat
      /\ \A k \in DOMAIN f : f[k] \in Bodies /\ f[k].name \in Names
  <2>1. ASSUME NEW k \in DOMAIN f
        PROVE  f[k] \in Bodies /\ f[k].name \in Names
    <3>1. f[k] \in S /\ f[k].type = "function"
      BY <1>1
    <3>2. f[k] \in Bodies
      BY <3>1 DEF Metas
    <3>3. QED
      BY <3>2, BodyParts
  <2>2. QED
    BY <1>1, <2>1
<1>3. names \in Seq(Names) /\ DOMAIN names = DOMAIN f /\ \A k \in DOMAIN f : names[k] = f[k].name
  BY <1>2
<1> HIDE DEF names
<1>4. /\ \E l \in Nat : syms \in [0 .. l -> Symbols]
      /\ \A i \in DOMAIN syms \ {0} : SymbolOK(syms[i], bs)
      /\ bs \in Seq(Binding)
      /\ \A k \in DOMAIN bs : \E i \in DOMAIN names : bs[k].address = Address(n, i)
      /\ \A i \in DOMAIN names : Bound(bs, names[i])
  <2> DEFINE none == <<>>
  <2>1. none \in Seq(Names)
    OBVIOUS
  <2> HIDE DEF none
  <2>2. Loaded(n, names, none, syms, bs)
    BY <1>3, <2>1, ObjectLoaded DEF none
  <2> HIDE DEF syms, bs
  <2>3. QED
    BY <2>2 DEF Loaded
<1> HIDE DEF syms, bs
<1>5. ASSUME NEW i \in DOMAIN exprs, exprs[i].type = "function"
      PROVE  Bound(bs, exprs[i].name)
  <2>1. PICK k \in DOMAIN f : f[k] = exprs[i]
    BY <1>1, <1>5
  <2>2. k \in DOMAIN names /\ names[k] = exprs[i].name
    BY <1>3, <2>1
  <2>3. QED
    BY <1>4, <2>2
<1>6. DOMAIN f \subseteq Nat /\ DOMAIN names = DOMAIN f
  BY <1>2, <1>3
<1>7. /\ \A k \in DOMAIN f : f[k] \in Bodies
      /\ \A k \in DOMAIN bs : \E i \in DOMAIN f : bs[k].address = Address(n, i)
      /\ \A i \in DOMAIN exprs : exprs[i].type = "function" => Bound(bs, exprs[i].name)
  BY <1>2, <1>4, <1>5, <1>6
<1>8. QED
  BY <1>4, <1>6, <1>7, Zenon DEF f, names, syms, bs

\* Bindings of two kinds together give what either gives.
LEMMA GivesCat ==
    ASSUME NEW S, NEW bs \in Seq(S), NEW more \in Seq(S), NEW name
    PROVE  /\ Bound(bs, name) \/ Bound(more, name) => Bound(bs \o more, name)
           /\ \A a : Gives(bs, name, a) \/ Gives(more, name, a) => Gives(bs \o more, name, a)
<1> DEFINE all == bs \o more
<1>1. /\ DOMAIN all = 1 .. (Len(bs) + Len(more)) /\ Len(bs) \in Nat /\ Len(more) \in Nat
      /\ \A j \in 1 .. Len(bs) : all[j] = bs[j]
      /\ \A j \in 1 .. Len(more) : all[Len(bs) + j] = more[j]
  BY CatFacts
<1>2. DOMAIN bs = 1 .. Len(bs) /\ DOMAIN more = 1 .. Len(more)
  OBVIOUS
<1> HIDE DEF all
<1>3. \A j \in DOMAIN bs : \E i \in DOMAIN all : all[i] = bs[j]
  BY <1>1, <1>2
<1>4. ASSUME NEW j \in DOMAIN more
      PROVE  \E i \in DOMAIN all : all[i] = more[j]
  <2>1. Len(bs) + j \in DOMAIN all /\ all[Len(bs) + j] = more[j]
    BY <1>1, <1>2
  <2>2. QED
    BY <2>1
<1>5. Bound(bs, name) \/ Bound(more, name) => Bound(all, name)
  BY <1>3, <1>4 DEF Bound
<1>6. \A a : Gives(bs, name, a) \/ Gives(more, name, a) => Gives(all, name, a)
  BY <1>3, <1>4 DEF Gives
<1>7. QED
  BY <1>5, <1>6 DEF all

\* One more object, and more bindings.
More(bs, bs2) == \A name, a : Gives(bs, name, a) => Gives(bs2, name, a)

LEMMA ObjectsAppend ==
    ASSUME NEW objs, NEW bs, NEW bs2, ObjectsOK(objs, bs), NEW object \in Object,
           ObjectOK(object, bs2), More(bs, bs2)
    PROVE  /\ ObjectsOK(Append(objs, object), bs2) /\ Len(objs) \in Nat
           /\ DOMAIN objs = 1 .. Len(objs) /\ DOMAIN Append(objs, object) = 1 .. (Len(objs) + 1)
           /\ \A n \in DOMAIN objs : Append(objs, object)[n] = objs[n]
           /\ Append(objs, object)[Len(objs) + 1] = object
<1> DEFINE all == Append(objs, object)
<1>1. objs \in Seq(Object) /\ \A n \in DOMAIN objs : ObjectOK(objs[n], bs)
  BY DEF ObjectsOK
<1>2. /\ all \in Seq(Object) /\ Len(objs) \in Nat
      /\ DOMAIN objs = 1 .. Len(objs) /\ DOMAIN all = 1 .. (Len(objs) + 1)
      /\ \A n \in DOMAIN objs : all[n] = objs[n]
      /\ all[Len(objs) + 1] = object
  BY <1>1
<1> HIDE DEF all
<1>3. ASSUME NEW n \in DOMAIN all
      PROVE  ObjectOK(all[n], bs2)
  <2>1. CASE n = Len(objs) + 1
    BY <1>2, <2>1
  <2>2. CASE n # Len(objs) + 1
    <3>1. n \in DOMAIN objs
      BY <1>2, <2>2
    <3>2. ObjectOK(objs[n], bs)
      BY <1>1, <3>1
    <3>3. ObjectOK(objs[n], bs2)
      BY <3>2 DEF ObjectOK, SymbolOK, More
    <3>4. QED
      BY <1>2, <3>1, <3>3
  <2>3. QED
    BY <2>1, <2>2
<1>4. ObjectsOK(all, bs2)
  BY <1>2, <1>3 DEF ObjectsOK
<1>5. QED
  BY <1>2, <1>4 DEF all

LEMMA GenerateMetaprogramInv ==
    ASSUME IInv, GenerateMetaprogram
    PROVE  IInv'
<1> DEFINE functions == Functions(all_exprs)
           names == [k \in DOMAIN functions |-> functions[k].name]
           syms  == SymbolTable(loads + 1, names, <<>>)
           more  == immutable_bindings(syms)
           bs    == bindings \o more
           object == [syms |-> syms, refs |-> <<>>]
           objs  == Append(objects, object)
           new   == [a \in {Address(loads + 1, k) : k \in DOMAIN functions} |->
                        Thunk(functions[a[2]], "evaluate")]
<1>1. /\ phase = "generate_metaprogram" /\ phase' = "try_generate_metas"
      /\ bindings' = bs /\ objects' = link_objects(objs, bindings')
      /\ code' = With(new) /\ loads' = loads + 1 /\ pos' = 1 /\ extension' = <<>>
      /\ UNCHANGED <<program, all_exprs, file, stack, expanded, written, error>>
  BY DEF GenerateMetaprogram
<1>2. /\ MemoryOK(code, loads, objects, bindings) /\ loads \in Nat
      /\ DOMAIN code \subseteq (0 .. loads) \X Nat /\ NotFound \notin DOMAIN code
      /\ all_exprs \in Seq(Bodies \union Metas)
      /\ BindingsOK(bindings, code) /\ ObjectsOK(objects, bindings)
  BY <1>1 DEF IInv, CodeInv, MemoryOK, RoundInv, BindingsInv, ObjectsInv
<1>3. /\ DOMAIN functions \subseteq Nat
      /\ \A k \in DOMAIN functions : functions[k] \in Bodies
      /\ \E m \in Nat : syms \in [0 .. m -> Symbols]
      /\ \A i \in DOMAIN syms \ {0} : SymbolOK(syms[i], more)
      /\ more \in Seq(Binding)
      /\ \A k \in DOMAIN more : \E i \in DOMAIN functions : more[k].address = Address(loads + 1, i)
      /\ \A i \in DOMAIN all_exprs : all_exprs[i].type = "function" => Bound(more, all_exprs[i].name)
  <2>1. loads + 1 \in Nat
    BY <1>2
  <2>2. QED
    BY <1>2, <2>1, MetaprogramFacts, Zenon
<1> HIDE DEF functions, syms, more
<1>4. bindings \in Seq(Binding)
  BY <1>2, BindingsAreBindings
<1>5. /\ \A name : Bound(bindings, name) \/ Bound(more, name) => Bound(bs, name)
      /\ \A name, a : Gives(bindings, name, a) \/ Gives(more, name, a) => Gives(bs, name, a)
      /\ bs \in Seq(Binding)
  <2>1. bs \in Seq(Binding)
    BY <1>3, <1>4
  <2>2. QED
    BY <1>3, <1>4, <2>1, GivesCat
<1>6. /\ \A k \in DOMAIN functions :
            /\ Address(loads + 1, k) \notin DOMAIN code /\ Address(loads + 1, k) # NotFound
            /\ Address(loads + 1, k) \in (0 .. (loads + 1)) \X Nat
      /\ (0 .. loads) \X Nat \subseteq (0 .. (loads + 1)) \X Nat
  BY <1>3, Fresh DEF IInv
<1>7. /\ DOMAIN new = {Address(loads + 1, k) : k \in DOMAIN functions}
      /\ \A k \in DOMAIN functions :
            new[Address(loads + 1, k)] = Thunk(functions[k], "evaluate")
  <2>1. \A k \in DOMAIN functions : Address(loads + 1, k)[2] = k
    BY DEF Address
  <2>2. QED
    BY <2>1
<1> HIDE DEF new, bs
<1>8. /\ DOMAIN code' = DOMAIN code \union {Address(loads + 1, k) : k \in DOMAIN functions}
      /\ \A k \in DOMAIN functions :
            code'[Address(loads + 1, k)] = Thunk(functions[k], "evaluate")
      /\ \A a \in DOMAIN code : code'[a] = code[a]
  <2>1. /\ DOMAIN code' = DOMAIN code \union DOMAIN new
        /\ \A a \in DOMAIN new : code'[a] = new[a]
        /\ \A a \in DOMAIN code : a \notin DOMAIN new => code'[a] = code[a]
    BY <1>1, WithFacts
  <2>2. QED
    BY <1>6, <1>7, <2>1
<1>9. Keeps(code, code') /\ Grows(code, code')
  BY <1>8 DEF Keeps, Grows
<1>10. ASSUME NEW k \in DOMAIN functions
       PROVE  Address(loads + 1, k) \in Public(code')
  <2>1. Address(loads + 1, k) \in DOMAIN code'
    BY <1>8
  <2>2. code'[Address(loads + 1, k)].handler = "evaluate"
    <3>1. code'[Address(loads + 1, k)] = Thunk(functions[k], "evaluate")
      BY <1>8
    <3>2. QED
      BY <3>1 DEF Thunk
  <2>3. QED
    BY <2>1, <2>2 DEF Public
<1>11. BindingsOK(bs, code')
  <2> DEFINE A == [name : Names, address : Public(code')]
  <2>1. bindings \in Seq(A)
    BY <1>2, <1>9, BindingsGrow DEF BindingsOK
  <2>2. ASSUME NEW k \in DOMAIN more
        PROVE  more[k] \in A
    <3>1. more[k] \in Binding
      BY <1>3
    <3>2. more[k].address \in Public(code')
      BY <1>3, <1>10
    <3>3. QED
      BY <3>1, <3>2 DEF Binding
  <2> HIDE DEF A
  <2>3. more \in Seq(A)
    <3>1. more \in Seq(Binding)
      BY <1>3
    <3>2. Len(more) \in Nat /\ DOMAIN more = 1 .. Len(more) /\ more = [k \in 1 .. Len(more) |-> more[k]]
      BY <3>1
    <3>3. QED
      BY <2>2, <3>2
  <2>4. bs \in Seq(A)
    BY <2>1, <2>3 DEF bs
  <2>5. QED
    BY <2>4 DEF BindingsOK, A
<1>12. object \in Object /\ ObjectOK(object, bs) /\ object.refs = <<>>
  <2>1. object.syms = syms /\ object.refs = <<>>
    OBVIOUS
  <2>2. object \in Object
    <3>1. syms \in UNION {[0 .. m -> Symbols] : m \in Nat}
      BY <1>3
    <3> DEFINE Tables == UNION {[0 .. m -> Symbols] : m \in Nat}
    <3>2. <<>> \in Seq(Names)
      OBVIOUS
    <3>3. syms \in Tables
      BY <3>1
    <3> HIDE DEF Tables
    <3>4. object \in [syms : Tables, refs : Seq(Names)]
      BY <3>2, <3>3
    <3>5. QED
      BY <3>4 DEF Tables, Object
  <2>3. \A i \in DOMAIN syms \ {0} : SymbolOK(syms[i], bs)
    BY <1>3, <1>5 DEF SymbolOK
  <2> HIDE DEF object
  <2>4. DOMAIN object.refs = {}
    BY <2>1
  <2>5. QED
    BY <2>1, <2>2, <2>3, <2>4 DEF ObjectOK
<1> HIDE DEF object
<1>13. /\ ObjectsOK(objs, bs) /\ Len(objects) \in Nat
       /\ DOMAIN objects = 1 .. Len(objects) /\ DOMAIN objs = 1 .. (Len(objects) + 1)
       /\ \A n \in DOMAIN objects : objs[n] = objects[n]
       /\ objs[Len(objects) + 1] = object
  <2>1. More(bindings, bs)
    BY <1>5 DEF More
  <2>2. ObjectsOK(objects, bindings) /\ object \in Object /\ ObjectOK(object, bs)
    BY <1>2, <1>12
  <2>3. QED
    BY <2>1, <2>2, ObjectsAppend
<1> HIDE DEF objs
<1>14. /\ ObjectsOK(objects', bs) /\ Linked(objects', bs)
       /\ DOMAIN objects' = DOMAIN objs
       /\ \A n \in DOMAIN objs : objects'[n].refs = objs[n].refs
  BY <1>1, <1>5, <1>13, LinkFacts
<1>15. BindingsInv' /\ ObjectsInv' /\ LinksInv'
  BY <1>1, <1>11, <1>14 DEF BindingsInv, ObjectsInv, LinksInv
<1>16. CodeInv'
  <2>1. ASSUME NEW a \in DOMAIN code'
        PROVE  CodeOK(a, code'[a], code', objects', bs)
    <3>1. CASE a \in DOMAIN code
      <4>1. CodeOK(a, code[a], code, objects, bindings)
        BY <1>2, <3>1 DEF MemoryOK
      <4>2. DOMAIN objects \subseteq DOMAIN objects'
        BY <1>13, <1>14
      <4>3. CodeOK(a, code[a], code', objects', bs)
        BY <1>5, <1>9, <4>1, <4>2, CodeKept
      <4>4. QED
        BY <1>8, <3>1, <4>3
    <3>2. CASE a \notin DOMAIN code
      <4>1. PICK k \in DOMAIN functions : a = Address(loads + 1, k)
        BY <1>8, <3>2
      <4>2. code'[a] = Thunk(functions[k], "evaluate") /\ functions[k] \in Bodies
        BY <1>3, <1>8, <4>1
      <4>3. IsThunk(code'[a], code')
        BY <4>2 DEF Thunk, IsThunk, Handlers, Places
      <4>4. QED
        BY <4>3 DEF CodeOK
    <3>3. QED
      BY <3>1, <3>2
  <2>2. loads' \in Nat /\ DOMAIN code' \subseteq (0 .. loads') \X Nat /\ NotFound \notin DOMAIN code'
    BY <1>1, <1>2, <1>6, <1>8
  <2>3. MemoryOK(code', loads', objects', bs)
    BY <2>1, <2>2 DEF MemoryOK
  <2>4. QED
    BY <1>1, <2>3 DEF CodeInv
<1>17. StackInv'
  <2>1. stack = <<>>
    BY <1>1 DEF IInv, StackInv, StackOK
  <2>2. QED
    BY <1>1, <2>1, StackEmpty DEF StackInv
<1>18. WildInv'
  BY <1>1 DEF IInv, StackInv, StackOK, WildInv, Wild
<1>19. FilesInv'
  BY <1>1 DEF IInv, FilesInv
<1>20. RoundInv'
  <2>1. extension' \in Seq(Bodies) /\ pos' \in Nat
    BY <1>1
  <2>2. QED
    BY <1>1, <2>1 DEF IInv, RoundInv
<1>21. QED
  BY <1>15, <1>16, <1>17, <1>18, <1>19, <1>20 DEF IInv

\* The expressions of source files.
LEMMA FileExprs ==
    ASSUME NEW p \in Programs
    PROVE  /\ p.files \in Seq(Seq(Exprs \ {Malformed}))
           /\ FlattenSeq(p.files) \in Seq(Bodies \union Metas)
           /\ \A f \in DOMAIN p.files : \A i \in DOMAIN p.files[f] :
                 /\ p.files[f][i] \in Exprs /\ p.files[f][i] \in Bodies \union Metas
                 /\ Expanded(p.files[f][i]) = Expansion[p.files[f][i]]
<1> DEFINE S == Exprs \ {Malformed}
           B == Bodies \union Metas
           files == p.files
<1>1. files \in Seq(Seq(S))
  BY ProgramsAssumption
<1>2. \A e \in S : e \in Exprs /\ e \in B /\ Expanded(e) = Expansion[e]
  BY Kinds, ExpandedExpr
<1> HIDE DEF S, B, files
<1>3. FlattenSeq(files) \in Seq(S)
  BY <1>1, FlattenItems
<1>4. FlattenSeq(files) \in Seq(B)
  <2>1. S \subseteq B
    BY <1>2
  <2>2. QED
    BY <1>3, <2>1, SeqMonotonic
<1>5. \A f \in DOMAIN files : files[f] \in Seq(S)
  BY <1>1
<1>6. \A f \in DOMAIN files : \A i \in DOMAIN files[f] : files[f][i] \in S
  BY <1>5
<1>7. QED
  BY <1>1, <1>2, <1>4, <1>6, Zenon DEF S, B, files

LEMMA LoadFilesInv ==
    ASSUME IInv, LoadFiles
    PROVE  IInv'
<1> DEFINE N == DOMAIN program.objects
           defs(n) == program.objects[n].defs
           refs(n) == program.objects[n].refs
           syms(n) == SymbolTable(n, defs(n), refs(n))
           gives(n) == immutable_bindings(syms(n))
           objs == [n \in N |-> [syms |-> syms(n), refs |-> refs(n)]]
           s    == [n \in N |-> gives(n)]
           bs   == FlattenSeq(s)
           all  == bindings \o bs
           new  == [a \in {b.address : b \in Range(bs)} |-> Native(a[1])]
<1>1. /\ phase = "load" /\ phase' = "generate_metaprogram"
      /\ all_exprs' = FlattenSeq(program.files) /\ objects' = objs
      /\ loads' = Len(program.objects) /\ bindings' = all /\ code' = With(new)
      /\ UNCHANGED <<program, extension, pos, file, stack, expanded, written, error>>
  <2> DEFINE found == FlattenSeq([n \in DOMAIN objects' |-> immutable_bindings(objects'[n].syms)])
  <2>1. /\ phase = "load" /\ phase' = "generate_metaprogram"
        /\ all_exprs' = FlattenSeq(program.files) /\ objects' = objs
        /\ loads' = Len(program.objects) /\ bindings' = bindings \o found
        /\ code' = With([a \in {b.address : b \in Range(found)} |-> Native(a[1])])
        /\ UNCHANGED <<program, extension, pos, file, stack, expanded, written, error>>
    BY DEF LoadFiles
  <2>2. \A n \in N : objs[n].syms = syms(n)
    OBVIOUS
  <2>3. [n \in DOMAIN objs |-> immutable_bindings(objs[n].syms)] = s
    BY <2>2
  <2>4. found = bs
    BY <2>1, <2>3
  <2> HIDE DEF found, bs
  <2>5. QED
    BY <2>1, <2>4
<1>2. /\ program \in Programs
      /\ program.objects \in Seq([defs : Seq(Names), refs : Seq(Names)])
  <2>1. program \in Programs
    BY DEF IInv, FilesInv
  <2>2. QED
    BY <2>1, ProgramsAssumption
<1>3. /\ Len(program.objects) \in Nat /\ N = 1 .. Len(program.objects)
      /\ \A n \in N : n \in Nat /\ defs(n) \in Seq(Names) /\ refs(n) \in Seq(Names)
  <2> DEFINE O == [defs : Seq(Names), refs : Seq(Names)]
             os == program.objects
  <2>1. os \in Seq(O)
    BY <1>2
  <2>2. \A o \in O : o.defs \in Seq(Names) /\ o.refs \in Seq(Names)
    OBVIOUS
  <2> HIDE DEF O, os
  <2>3. Len(os) \in Nat /\ DOMAIN os = 1 .. Len(os) /\ \A n \in DOMAIN os : os[n] \in O
    BY <2>1
  <2>4. \A n \in DOMAIN os : n \in Nat /\ os[n].defs \in Seq(Names) /\ os[n].refs \in Seq(Names)
    BY <2>2, <2>3
  <2>5. QED
    BY <2>3, <2>4 DEF os
<1> HIDE DEF N
<1>4. \A n \in N : Loaded(n, defs(n), refs(n), syms(n), gives(n))
  <2> SUFFICES ASSUME NEW n \in N
               PROVE  Loaded(n, defs(n), refs(n), syms(n), gives(n))
    OBVIOUS
  <2>1. n \in Nat /\ defs(n) \in Seq(Names) /\ refs(n) \in Seq(Names)
    BY <1>3
  <2> HIDE DEF defs, refs
  <2>2. QED
    BY <2>1, ObjectLoaded
<1> HIDE DEF defs, refs, syms, gives
<1>5. /\ s \in Seq(Seq(Binding)) /\ DOMAIN s = N /\ \A n \in N : s[n] = gives(n)
  <2>1. \A n \in N : gives(n) \in Seq(Binding)
    BY <1>4 DEF Loaded
  <2> DEFINE B == Seq(Binding)
  <2> HIDE DEF B
  <2>2. s \in Seq(B)
    BY <1>3, <2>1 DEF B
  <2>3. QED
    BY <2>2 DEF B
<1> HIDE DEF s
<1>6. /\ bs \in Seq(Binding)
      /\ \A k \in DOMAIN bs : \E n \in N : \E j \in DOMAIN gives(n) : bs[k] = gives(n)[j]
      /\ \A n \in N : \A j \in DOMAIN gives(n) : \E k \in DOMAIN bs : bs[k] = gives(n)[j]
  <2>1. /\ bs \in Seq(Binding)
        /\ \A k \in DOMAIN bs : \E n \in DOMAIN s : \E j \in DOMAIN s[n] : bs[k] = s[n][j]
        /\ \A n \in DOMAIN s : \A j \in DOMAIN s[n] : \E k \in DOMAIN bs : bs[k] = s[n][j]
    BY <1>5, FlattenItems
  <2>2. QED
    BY <1>5, <2>1
<1> HIDE DEF bs
<1>7. \A n \in N : \A name : /\ Bound(gives(n), name) => Bound(bs, name)
                             /\ \A a : Gives(gives(n), name, a) => Gives(bs, name, a)
  <2> SUFFICES ASSUME NEW n \in N, NEW name
               PROVE  /\ Bound(gives(n), name) => Bound(bs, name)
                      /\ \A a : Gives(gives(n), name, a) => Gives(bs, name, a)
    OBVIOUS
  <2>1. \A j \in DOMAIN gives(n) : \E k \in DOMAIN bs : bs[k] = gives(n)[j]
    BY <1>6
  <2>2. QED
    BY <2>1 DEF Bound, Gives
<1>8. \A k \in DOMAIN bs : \E n \in N : \E i \in Nat : bs[k].address = Address(n, i)
  <2> SUFFICES ASSUME NEW k \in DOMAIN bs
               PROVE  \E n \in N : \E i \in Nat : bs[k].address = Address(n, i)
    OBVIOUS
  <2>1. PICK n \in N : \E j \in DOMAIN gives(n) : bs[k] = gives(n)[j]
    BY <1>6
  <2>2. PICK j \in DOMAIN gives(n) : bs[k] = gives(n)[j]
    BY <2>1
  <2>3. \E i \in DOMAIN defs(n) : gives(n)[j].address = Address(n, i)
    BY <1>4 DEF Loaded
  <2>4. DOMAIN defs(n) \subseteq Nat
    BY <1>3
  <2>5. QED
    BY <2>2, <2>3, <2>4
<1>9. /\ DOMAIN new = {bs[k].address : k \in DOMAIN bs}
      /\ \A a \in DOMAIN new : new[a] = Native(a[1])
  <2>1. {b.address : b \in Range(bs)} = {bs[k].address : k \in DOMAIN bs}
    BY DEF Range
  <2>2. QED
    BY <2>1
<1> HIDE DEF new
<1>10. ASSUME NEW a \in DOMAIN new
       PROVE  /\ a \in (0 .. Len(program.objects)) \X Nat /\ a # NotFound /\ a \notin DOMAIN code
              /\ new[a].type = "native" /\ new[a].object \in N
  <2>1. PICK n \in N : \E i \in Nat : a = Address(n, i)
    BY <1>8, <1>9
  <2>2. PICK i \in Nat : a = <<n, i>>
    BY <2>1 DEF Address
  <2>3. new[a] = Native(n)
    BY <1>9, <2>2
  <2>4. new[a].type = "native" /\ new[a].object = n
    BY <2>3 DEF Native
  <2>5. n \in 0 .. Len(program.objects) /\ n # 0
    BY <1>3
  <2>6. DOMAIN code \subseteq (0 .. 0) \X Nat
    BY <1>1 DEF IInv, CodeInv, MemoryOK, RoundInv
  <2>7. QED
    BY <2>2, <2>4, <2>5, <2>6 DEF NotFound, Address
<1>11. /\ MemoryOK(code, loads, objects, bindings) /\ BindingsOK(bindings, code)
       /\ bindings \in Seq(Binding) /\ loads = 0 /\ objects = <<>>
  <2>1. /\ MemoryOK(code, loads, objects, bindings) /\ BindingsOK(bindings, code)
        /\ loads = 0 /\ objects = <<>>
    BY <1>1 DEF IInv, CodeInv, BindingsInv, RoundInv
  <2>2. loads \in Nat /\ DOMAIN code \subseteq (0 .. loads) \X Nat
    BY <2>1 DEF MemoryOK
  <2>3. QED
    BY <2>1, <2>2, BindingsAreBindings
<1>12. /\ DOMAIN code' = DOMAIN code \union DOMAIN new
       /\ \A a \in DOMAIN new : code'[a] = new[a]
       /\ \A a \in DOMAIN code : code'[a] = code[a]
  BY <1>1, <1>10, WithFacts
<1>13. Keeps(code, code') /\ Grows(code, code')
  BY <1>12 DEF Keeps, Grows
<1>14. /\ all \in Seq(Binding)
       /\ \A name, a : Gives(bindings, name, a) \/ Gives(bs, name, a) => Gives(all, name, a)
  BY <1>6, <1>11, GivesCat
<1>15. BindingsInv'
  <2> DEFINE A == [name : Names, address : Public(code')]
  <2>1. ASSUME NEW k \in DOMAIN bs
        PROVE  bs[k] \in A
    <3>1. bs[k] \in Binding
      BY <1>6
    <3>2. bs[k].address \in Public(code')
      BY <1>9, <1>10, <1>12 DEF Public
    <3>3. QED
      BY <3>1, <3>2 DEF Binding
  <2>2. bindings \in Seq(A)
    BY <1>11, <1>13, BindingsGrow DEF BindingsOK
  <2> HIDE DEF A
  <2>3. Len(bs) \in Nat /\ DOMAIN bs = 1 .. Len(bs) /\ bs = [k \in 1 .. Len(bs) |-> bs[k]]
    BY <1>6
  <2>4. bs \in Seq(A)
    BY <2>1, <2>3
  <2>5. all \in Seq(A)
    BY <2>2, <2>4
  <2>6. QED
    BY <1>1, <2>5 DEF BindingsInv, BindingsOK, A
<1> HIDE DEF all
<1>16. ASSUME NEW n \in N
       PROVE  objs[n] \in Object /\ ObjectOK(objs[n], all)
  <2>1. objs[n] = [syms |-> syms(n), refs |-> refs(n)]
    OBVIOUS
  <2>2. /\ refs(n) \in Seq(Names) /\ Loaded(n, defs(n), refs(n), syms(n), gives(n))
    BY <1>3, <1>4
  <2> DEFINE Tables == UNION {[0 .. m -> Symbols] : m \in Nat}
  <2>3. syms(n) \in Tables
    BY <2>2 DEF Loaded
  <2> HIDE DEF Tables, objs
  <2>4. objs[n] \in [syms : Tables, refs : Seq(Names)]
    BY <2>1, <2>2, <2>3
  <2>5. objs[n].syms = syms(n) /\ objs[n].refs = refs(n)
    BY <2>1
  <2>6. \A i \in DOMAIN syms(n) \ {0} : SymbolOK(syms(n)[i], all)
    BY <1>7, <1>14, <2>2 DEF Loaded, SymbolOK
  <2>7. \A k \in DOMAIN refs(n) : \E i \in DOMAIN syms(n) \ {0} : syms(n)[i].name = refs(n)[k]
    BY <2>2 DEF Loaded
  <2>8. ObjectOK(objs[n], all)
    BY <2>5, <2>6, <2>7 DEF ObjectOK
  <2>9. QED
    BY <2>4, <2>8 DEF Object, Tables
<1>17. DOMAIN objs = N
  OBVIOUS
<1>18. ObjectsInv'
  <2>1. objs \in Seq(Object)
    <3>1. objs = [n \in N |-> objs[n]]
      OBVIOUS
    <3> DEFINE l == Len(program.objects)
    <3>2. l \in Nat /\ N = 1 .. l
      BY <1>3
    <3> HIDE DEF objs, l
    <3>3. \A n \in 1 .. l : objs[n] \in Object
      BY <1>16, <3>2
    <3>4. objs = [n \in 1 .. l |-> objs[n]]
      BY <3>1, <3>2
    <3>5. QED
      BY <3>2, <3>3, <3>4
  <2> HIDE DEF objs
  <2>2. QED
    BY <1>1, <1>16, <1>17, <2>1 DEF ObjectsInv, ObjectsOK
<1> HIDE DEF objs
<1>19. LinksInv'
  BY <1>1 DEF LinksInv
<1>20. CodeInv'
  <2>1. ASSUME NEW a \in DOMAIN code'
        PROVE  CodeOK(a, code'[a], code', objs, all)
    <3>1. CASE a \in DOMAIN code
      <4>1. CodeOK(a, code[a], code, objects, bindings)
        BY <1>11, <3>1 DEF MemoryOK
      <4>2. DOMAIN objects = {}
        BY <1>11
      <4>3. CodeOK(a, code[a], code', objs, all)
        BY <1>13, <1>14, <4>1, <4>2, CodeKept
      <4>4. QED
        BY <1>12, <3>1, <4>3
    <3>2. CASE a \in DOMAIN new
      BY <1>10, <1>12, <1>17, <3>2 DEF CodeOK, IsNative
    <3>3. QED
      BY <1>12, <3>1, <3>2
  <2>2. /\ Len(program.objects) \in Nat /\ NotFound \notin DOMAIN code'
        /\ DOMAIN code' \subseteq (0 .. Len(program.objects)) \X Nat
    <3>1. NotFound \notin DOMAIN code /\ DOMAIN code \subseteq (0 .. 0) \X Nat
      BY <1>11 DEF MemoryOK
    <3>2. QED
      BY <1>3, <1>10, <1>12, <3>1
  <2>3. MemoryOK(code', Len(program.objects), objs, all)
    BY <2>1, <2>2 DEF MemoryOK
  <2>4. QED
    BY <1>1, <2>3 DEF CodeInv
<1>21. StackInv' /\ WildInv'
  <2>1. stack = <<>>
    BY <1>1 DEF IInv, StackInv, StackOK
  <2>2. QED
    BY <1>1, <2>1, StackEmpty DEF StackInv, WildInv, Wild
<1>22. FilesInv'
  BY <1>1 DEF IInv, FilesInv
<1>23. RoundInv'
  <2>1. all_exprs' \in Seq(Bodies \union Metas)
    BY <1>1, <1>2, FileExprs
  <2>2. QED
    BY <1>1, <2>1 DEF IInv, RoundInv
<1>24. QED
  BY <1>15, <1>18, <1>19, <1>20, <1>21, <1>22, <1>23 DEF IInv

-----------------------------------------------------------------------------
(* Steps between the calls.                                                 *)

\* Without calls under way there is none to what is not there.
LEMMA NoCalls ==
    ASSUME stack' = <<>> \/ (\E f : stack' = <<f>> /\ f.op = "expand"), phase' # "crash"
    PROVE  WildInv'
  BY DEF WildInv, Wild, WildFrame

\* Errors outside of an expansion, and steps that only change the phase.
LEMMA LoadFailsInv ==
    ASSUME IInv, LoadFails
    PROVE  IInv'
<1>1. /\ phase = "load" /\ phase' = "error"
      /\ UNCHANGED <<program, all_exprs, extension, pos, file, bindings, objects, code, loads,
                     stack, expanded, written>>
  BY DEF LoadFails
<1>2. BindingsInv' /\ ObjectsInv' /\ CodeInv' /\ LinksInv'
  BY <1>1, MemorySame DEF IInv
<1>3. StackInv' /\ WildInv'
  <2>1. stack' = <<>> /\ phase' # "crash"
    BY <1>1 DEF IInv, StackInv, StackOK
  <2>2. QED
    BY <2>1, StackEmpty, NoCalls DEF StackInv
<1>4. FilesInv' /\ RoundInv'
  BY <1>1, FilesSame DEF IInv, RoundInv
<1>5. QED
  BY <1>2, <1>3, <1>4 DEF IInv

LEMMA TryGenerateMetaInv ==
    ASSUME IInv, TryGenerateMeta
    PROVE  IInv'
<1> DEFINE e == all_exprs[pos]
           f == Expand("try", NotFound, e, "generate")
<1>1. /\ phase = "try_generate_metas" /\ stack = <<>> /\ pos \in DOMAIN all_exprs
      /\ UNCHANGED <<program, phase, all_exprs, extension, file, bindings, objects, code, loads,
                     expanded, written, error>>
  BY DEF TryGenerateMeta
<1>2. e \in Bodies \union Metas /\ pos \in Nat
  BY <1>1 DEF IInv, RoundInv
<1>3. BindingsInv' /\ ObjectsInv' /\ CodeInv' /\ LinksInv'
  BY <1>1, MemorySame DEF IInv
<1>4. FilesInv'
  BY <1>1, FilesSame DEF IInv
<1>5. RoundInv'
  <2>1. pos' \in Nat
    BY <1>2 DEF TryGenerateMeta
  <2>2. QED
    BY <1>1, <2>1 DEF IInv, RoundInv
<1>6. CASE e.type = "meta"
  <2>1. stack' = <<f>> /\ UNCHANGED pos
    BY <1>6 DEF TryGenerateMeta
  <2> HIDE DEF e
  <2>2. IsFrame(f, code, phase, Current) /\ ~Awaits(f, code)
    <3>1. f \in ExpandFrames(code)
      BY <1>2 DEF Expand, ExpandFrames, Places, Handlers
    <3>2. FrameOK(f, code, phase, Current)
      BY <1>1 DEF Expand, FrameOK
    <3>3. ~Awaits(f, code)
      BY DEF Awaits, Expand
    <3>4. QED
      BY <3>1, <3>2, <3>3 DEF IsFrame
  <2>3. WildInv'
    BY <1>1, <2>1, NoCalls DEF Expand
  <2> HIDE DEF f
  <2>4. StackOK(<<f>>, code, phase, Current)
    BY <1>1, <2>2, StackSingle
  <2>5. StackInv'
    BY <1>1, <2>1, <2>4, CurrentSame DEF StackInv
  <2>6. QED
    BY <1>3, <1>4, <1>5, <2>3, <2>5 DEF IInv
<1>7. CASE e.type # "meta"
  <2>1. stack' = <<>>
    BY <1>1, <1>7 DEF TryGenerateMeta
  <2>2. StackInv' /\ WildInv'
    BY <1>1, <2>1, StackEmpty, NoCalls DEF StackInv
  <2>3. QED
    BY <1>3, <1>4, <1>5, <2>2 DEF IInv
<1>8. QED
  BY <1>6, <1>7

LEMMA TryFinishedInv ==
    ASSUME IInv, TryFinished
    PROVE  IInv'
<1>1. /\ stack # <<>> /\ Top.op = "expand" /\ Top.owner = "try" /\ Finished(Top)
      /\ extension' = <<Top.expr>> \o extension /\ pos' = pos + 1 /\ stack' = <<>>
      /\ UNCHANGED <<program, phase, all_exprs, file, bindings, objects, code, loads, expanded,
                     written, error>>
  BY DEF TryFinished
<1>2. IsFrame(Top, code, phase, Current)
  BY <1>1, TopFrame DEF IInv, StackInv, Top
<1>3. Top.expr \in Bodies /\ phase = "try_generate_metas"
  <2>1. Top.expr \in Bodies \union Metas
    BY <1>1, <1>2, UnfinishedFacts
  <2>2. Top.expr.type # "meta"
    BY <1>1 DEF Finished, HasMeta
  <2>3. QED
    BY <1>1, <1>2, <2>1, <2>2 DEF Metas, IsFrame, FrameOK
<1>4. BindingsInv' /\ ObjectsInv' /\ CodeInv' /\ LinksInv'
  BY <1>1, <1>3, MemorySame DEF IInv
<1>5. FilesInv'
  BY <1>1, <1>3, FilesSame DEF IInv
<1>6. StackInv' /\ WildInv'
  BY <1>1, <1>3, StackEmpty, NoCalls DEF StackInv
<1>7. RoundInv'
  <2>1. extension \in Seq(Bodies) /\ pos \in Nat
    BY <1>3 DEF IInv, RoundInv
  <2> DEFINE e == Top.expr
  <2>2. e \in Bodies
    BY <1>3
  <2> HIDE DEF e
  <2>3. <<e>> \o extension \in Seq(Bodies) /\ pos + 1 \in Nat
    BY <2>1, <2>2
  <2>4. QED
    BY <1>1, <1>3, <2>3 DEF IInv, RoundInv, e
<1>8. QED
  BY <1>4, <1>5, <1>6, <1>7 DEF IInv

LEMMA EndOfRoundInv ==
    ASSUME IInv, EndOfRound
    PROVE  IInv'
<1>1. /\ phase = "try_generate_metas" /\ stack = <<>>
      /\ all_exprs' = extension /\ pos' = 1
      /\ phase' = IF extension = <<>> THEN "compile_files" ELSE "generate_metaprogram"
      /\ UNCHANGED <<program, extension, file, bindings, objects, code, loads, stack, expanded,
                     written, error>>
  BY DEF EndOfRound
<1>2. BindingsInv' /\ ObjectsInv' /\ CodeInv' /\ LinksInv'
  BY <1>1, MemorySame DEF IInv
<1>3. StackInv' /\ WildInv'
  BY <1>1, StackEmpty, NoCalls DEF StackInv
<1>4. RoundInv'
  <2>1. extension \in Seq(Bodies) /\ extension \in Seq(Bodies \union Metas)
    <3> DEFINE B == Bodies \union Metas
    <3>1. extension \in Seq(Bodies) /\ Bodies \subseteq B
      BY <1>1 DEF IInv, RoundInv
    <3> HIDE DEF B
    <3>2. extension \in Seq(B)
      BY <3>1, SeqMonotonic
    <3>3. QED
      BY <3>1, <3>2 DEF B
  <2>2. QED
    BY <1>1, <2>1 DEF RoundInv
<1>5. FilesInv'
  <2>1. /\ program \in Programs /\ DOMAIN expanded = DOMAIN program.files
        /\ file = 1 /\ written = <<>> /\ \A f \in DOMAIN program.files : expanded[f] = <<>>
    BY <1>1 DEF IInv, FilesInv
  <2>2. program.files \in Seq(Seq(Exprs \ {Malformed}))
    BY <2>1, ProgramsAssumption
  <2>3. file \in DOMAIN program.files => 1 <= Len(program.files[file]) + 1
    BY <2>1, <2>2
  <2>4. ASSUME NEW f \in DOMAIN program.files
        PROVE  expanded[f] = IF f < 1 THEN ExpandedFile(program, f)
                             ELSE IF f = 1 THEN UpTo(program, f, 1 - 1) ELSE <<>>
    <3>1. f \in Nat \ {0}
      BY <2>2
    <3>2. UpTo(program, f, 1 - 1) = <<>>
      BY DEF UpTo
    <3>3. QED
      BY <2>1, <3>1, <3>2
  <2>5. QED
    BY <1>1, <2>1, <2>3, <2>4 DEF FilesInv
<1>6. QED
  BY <1>2, <1>3, <1>4, <1>5 DEF IInv

\* The expressions of a file that compile_files has been through, one by one.
LEMMA UpToFacts ==
    ASSUME NEW p \in Programs, NEW f \in DOMAIN p.files
    PROVE  /\ f \in Nat \ {0} /\ Len(p.files[f]) \in Nat
           /\ DOMAIN p.files[f] = 1 .. Len(p.files[f])
           /\ UpTo(p, f, 0) = <<>> /\ UpTo(p, f, Len(p.files[f])) = ExpandedFile(p, f)
           /\ \A n \in DOMAIN p.files[f] :
                 Append(UpTo(p, f, n - 1), Expansion[p.files[f][n]]) = UpTo(p, f, n)
<1> DEFINE S == Exprs \ {Malformed}
           s == p.files[f]
<1>1. p.files \in Seq(Seq(S))
  BY ProgramsAssumption
<1> HIDE DEF S
<1>2. f \in Nat \ {0} /\ s \in Seq(S)
  BY <1>1
<1>3. Len(s) \in Nat /\ DOMAIN s = 1 .. Len(s)
  BY <1>2
<1>4. UpTo(p, f, 0) = <<>> /\ UpTo(p, f, Len(s)) = ExpandedFile(p, f)
  BY <1>3 DEF UpTo, ExpandedFile
<1>5. ASSUME NEW n \in 1 .. Len(s)
      PROVE  Append(UpTo(p, f, n - 1), Expansion[s[n]]) = UpTo(p, f, n)
  <2> DEFINE E(i) == Expansion[s[i]]
             V == {E(i) : i \in 1 .. n}
             m == n - 1
             a == [i \in 1 .. m |-> E(i)]
             b == [i \in 1 .. n |-> E(i)]
  <2>1. m \in Nat /\ n = m + 1 /\ \A i \in 1 .. n : E(i) \in V
    BY <1>3
  <2> HIDE DEF E, V, m
  <2>2. a \in Seq(V) /\ Len(a) = m /\ \A i \in 1 .. m : a[i] = E(i)
    BY <2>1
  <2>3. b \in Seq(V) /\ Len(b) = n /\ \A i \in 1 .. n : b[i] = E(i)
    BY <2>1
  <2>4. E(n) \in V
    BY <2>1
  <2> DEFINE c == Append(a, E(n))
  <2> HIDE DEF a, b
  <2>5. c \in Seq(V) /\ Len(c) = m + 1 /\ c[m + 1] = E(n) /\ \A i \in 1 .. m : c[i] = a[i]
    BY <2>2, <2>4
  <2> HIDE DEF c
  <2>6. \A i \in 1 .. Len(c) : c[i] = b[i]
    BY <2>1, <2>2, <2>3, <2>5
  <2>7. c = b
    BY <2>1, <2>3, <2>5, <2>6, SeqEqual
  <2>8. QED
    BY <2>7 DEF UpTo, a, b, c, E, m
<1>6. QED
  BY <1>2, <1>3, <1>4, <1>5

LEMMA GenerateMetasInv ==
    ASSUME IInv, GenerateMetas
    PROVE  IInv'
<1> DEFINE files == program.files
           e == files[file][pos]
           f == Expand("file", NotFound, e, "evaluate")
<1>1. /\ phase = "compile_files" /\ stack = <<>> /\ file \in DOMAIN files
      /\ UNCHANGED <<program, phase, all_exprs, extension, bindings, objects, code, loads,
                     expanded, written, error>>
  BY DEF GenerateMetas
<1>2. BindingsInv' /\ ObjectsInv' /\ CodeInv' /\ LinksInv'
  BY <1>1, MemorySame DEF IInv
<1>3. /\ program \in Programs /\ DOMAIN expanded = DOMAIN files
      /\ file \in Nat \ {0} /\ pos \in Nat \ {0} /\ written = <<>>
      /\ pos <= Len(files[file]) + 1
      /\ \A g \in DOMAIN files :
            expanded[g] = IF g < file THEN ExpandedFile(program, g)
                          ELSE IF g = file THEN UpTo(program, g, pos - 1) ELSE <<>>
  BY <1>1 DEF IInv, FilesInv
<1>4. CASE pos \in DOMAIN files[file]
  <2>1. stack' = <<f>> /\ UNCHANGED <<file, pos>>
    BY <1>4 DEF GenerateMetas
  <2>2. e \in Bodies \union Metas /\ Expanded(e) = Expansion[e] /\ Current = {Expansion[e]}
    BY <1>1, <1>3, <1>4, FileExprs DEF Current
  <2> HIDE DEF e
  <2>3. IsFrame(f, code, phase, Current) /\ ~Awaits(f, code)
    <3>1. f \in ExpandFrames(code)
      BY <2>2 DEF Expand, ExpandFrames, Places, Handlers
    <3>2. FrameOK(f, code, phase, Current)
      BY <1>1, <2>2 DEF Expand, FrameOK
    <3>3. ~Awaits(f, code)
      BY DEF Awaits, Expand
    <3>4. QED
      BY <3>1, <3>2, <3>3 DEF IsFrame
  <2>4. WildInv'
    BY <1>1, <2>1, NoCalls DEF Expand
  <2> HIDE DEF f
  <2>5. StackOK(<<f>>, code, phase, Current)
    BY <1>1, <2>3, StackSingle
  <2>6. StackInv'
    BY <1>1, <2>1, <2>5, CurrentSame DEF StackInv
  <2>7. FilesInv' /\ RoundInv'
    BY <1>1, <2>1, FilesSame DEF IInv, RoundInv
  <2>8. QED
    BY <1>2, <2>4, <2>6, <2>7 DEF IInv
<1>5. CASE pos \notin DOMAIN files[file]
  <2>1. file' = file + 1 /\ pos' = 1 /\ UNCHANGED stack
    BY <1>5 DEF GenerateMetas
  <2>2. StackInv' /\ WildInv'
    BY <1>1, <2>1, StackEmpty, NoCalls DEF StackInv
  <2>3. \A g \in DOMAIN files : /\ g \in Nat \ {0} /\ Len(files[g]) \in Nat
                                /\ DOMAIN files[g] = 1 .. Len(files[g])
                                /\ UpTo(program, g, 0) = <<>>
                                /\ UpTo(program, g, Len(files[g])) = ExpandedFile(program, g)
    BY <1>3, UpToFacts
  <2>4. pos - 1 = Len(files[file])
    BY <1>1, <1>3, <1>5, <2>3
  <2>5. \A g \in DOMAIN files :
           expanded[g] = IF g < file + 1 THEN ExpandedFile(program, g)
                         ELSE IF g = file + 1 THEN UpTo(program, g, 1 - 1) ELSE <<>>
    <3> SUFFICES ASSUME NEW g \in DOMAIN files
                 PROVE  expanded[g] = IF g < file + 1 THEN ExpandedFile(program, g)
                                      ELSE IF g = file + 1 THEN UpTo(program, g, 1 - 1) ELSE <<>>
      OBVIOUS
    <3>1. g \in Nat \ {0} /\ UpTo(program, g, 0) = <<>> /\ 1 - 1 = 0
      BY <2>3
    <3>2. g < file + 1 <=> g < file \/ g = file
      BY <1>3, <3>1
    <3>3. g = file => expanded[g] = ExpandedFile(program, g)
      BY <1>3, <2>3, <2>4
    <3>4. QED
      BY <1>3, <3>1, <3>2, <3>3
  <2>6. FilesInv'
    <3>1. file + 1 \in Nat \ {0}
      BY <1>3
    <3>2. file + 1 \in DOMAIN files => 1 <= Len(files[file + 1]) + 1
      BY <2>3
    <3>3. QED
      BY <1>1, <1>3, <2>1, <2>5, <3>1, <3>2 DEF FilesInv
  <2>7. RoundInv'
    BY <1>1, <2>1 DEF IInv, RoundInv
  <2>8. QED
    BY <1>2, <2>2, <2>6, <2>7 DEF IInv
<1>6. QED
  BY <1>4, <1>5

LEMMA GenerateFinishedInv ==
    ASSUME IInv, GenerateFinished
    PROVE  IInv'
<1> DEFINE files == program.files
           e == Top.expr
<1>1. /\ stack # <<>> /\ Top.op = "expand" /\ Top.owner = "file" /\ Finished(Top)
      /\ expanded' = [expanded EXCEPT ![file] = Append(@, e)]
      /\ pos' = pos + 1 /\ stack' = <<>>
      /\ UNCHANGED <<program, phase, all_exprs, extension, file, bindings, objects, code, loads,
                     written, error>>
  BY DEF GenerateFinished
<1>2. IsFrame(Top, code, phase, Current)
  BY <1>1, TopFrame DEF IInv, StackInv, Top
<1>3. phase = "compile_files" /\ Expanded(e) \in Current
  BY <1>1, <1>2 DEF IsFrame, FrameOK
<1>4. /\ file \in DOMAIN files /\ pos \in DOMAIN files[file]
      /\ e = Expansion[files[file][pos]]
  <2>1. e \in Bodies \union Metas
    BY <1>1, <1>2, UnfinishedFacts
  <2>2. ~HasMeta(e)
    BY <1>1 DEF Finished
  <2>3. Expanded(e) = e
    BY <2>1, <2>2, FinishedFacts
  <2>4. QED
    BY <1>3, <2>3 DEF Current
<1> HIDE DEF e
<1>5. BindingsInv' /\ ObjectsInv' /\ CodeInv' /\ LinksInv'
  BY <1>1, <1>3, MemorySame DEF IInv
<1>6. StackInv' /\ WildInv'
  BY <1>1, <1>3, StackEmpty, NoCalls DEF StackInv
<1>7. /\ program \in Programs /\ DOMAIN expanded = DOMAIN files
      /\ file \in Nat \ {0} /\ pos \in Nat \ {0} /\ written = <<>>
      /\ \A g \in DOMAIN files :
            expanded[g] = IF g < file THEN ExpandedFile(program, g)
                          ELSE IF g = file THEN UpTo(program, g, pos - 1) ELSE <<>>
  BY <1>3 DEF IInv, FilesInv
<1>8. /\ Len(files[file]) \in Nat /\ DOMAIN files[file] = 1 .. Len(files[file])
      /\ Append(UpTo(program, file, pos - 1), e) = UpTo(program, file, pos)
  BY <1>4, <1>7, UpToFacts
<1>9. FilesInv'
  <2>1. pos' \in Nat \ {0} /\ pos' <= Len(files[file]) + 1 /\ pos' - 1 = pos
    BY <1>1, <1>4, <1>7, <1>8
  <2>2. ASSUME NEW g \in DOMAIN files
        PROVE  expanded'[g] = IF g < file THEN ExpandedFile(program, g)
                              ELSE IF g = file THEN UpTo(program, g, pos' - 1) ELSE <<>>
    <3>1. CASE g = file
      <4>1. expanded'[g] = Append(expanded[g], e)
        BY <1>1, <1>7, <3>1
      <4>2. expanded[g] = UpTo(program, file, pos - 1)
        BY <1>7, <3>1
      <4>3. ~(g < file)
        BY <1>7, <3>1
      <4>4. QED
        BY <1>8, <2>1, <3>1, <4>1, <4>2, <4>3
    <3>2. CASE g # file
      <4>1. expanded'[g] = expanded[g]
        BY <1>1, <1>7, <3>2
      <4>2. QED
        BY <1>7, <3>2, <4>1
    <3>3. QED
      BY <3>1, <3>2
  <2>3. DOMAIN expanded' = DOMAIN files
    BY <1>1, <1>7
  <2>4. QED
    BY <1>1, <1>3, <1>7, <2>1, <2>2, <2>3 DEF FilesInv
<1>10. RoundInv'
  <2>1. pos' \in Nat
    BY <1>1, <1>7
  <2>2. QED
    BY <1>1, <1>3, <2>1 DEF RoundInv
<1>11. QED
  BY <1>5, <1>6, <1>9, <1>10 DEF IInv

\* Steps of the phases without a stack, which leave memory alone.
LEMMA NoStack ==
    ASSUME IInv, stack = <<>>, phase # "generate_metaprogram", phase' # "crash",
           UNCHANGED <<program, bindings, objects, code, loads, stack>>
    PROVE  BindingsInv' /\ ObjectsInv' /\ CodeInv' /\ LinksInv' /\ StackInv' /\ WildInv'
<1>1. BindingsInv' /\ ObjectsInv' /\ CodeInv' /\ LinksInv'
  BY MemorySame DEF IInv
<1>2. StackInv' /\ WildInv'
  BY StackEmpty, NoCalls DEF StackInv
<1>3. QED
  BY <1>1, <1>2

LEMMA InferTypesInv ==
    ASSUME IInv, InferTypes
    PROVE  IInv'
<1>1. /\ phase = "compile_files" /\ stack = <<>> /\ file \notin DOMAIN program.files
      /\ \/ phase' = "write" /\ file' = 1
         \/ phase' = "error" /\ UNCHANGED file
      /\ UNCHANGED <<program, all_exprs, extension, pos, bindings, objects, code, loads, stack,
                     expanded, written>>
  BY DEF InferTypes
<1>2. BindingsInv' /\ ObjectsInv' /\ CodeInv' /\ LinksInv' /\ StackInv' /\ WildInv'
  BY <1>1, NoStack
<1>3. RoundInv'
  BY <1>1 DEF IInv, RoundInv
<1>4. FilesInv'
  <2>1. CASE phase' = "error" /\ UNCHANGED file
    BY <1>1, <2>1, FilesSame DEF IInv
  <2>2. CASE phase' = "write" /\ file' = 1
    <3>1. /\ program \in Programs /\ DOMAIN expanded = DOMAIN program.files
          /\ file \in Nat \ {0} /\ written = <<>>
          /\ \A f \in DOMAIN program.files : f < file => expanded[f] = ExpandedFile(program, f)
      BY <1>1 DEF IInv, FilesInv
    <3> DEFINE files == program.files
               S == Seq(Exprs \ {Malformed})
    <3>2. files \in Seq(S)
      BY <3>1, ProgramsAssumption
    <3> HIDE DEF S, files
    <3>3. ASSUME NEW f \in DOMAIN files
          PROVE  f < file
      BY <1>1, <3>1, <3>2 DEF files
    <3>4. \A f \in DOMAIN program.files : expanded[f] = ExpandedFile(program, f)
      BY <3>1, <3>3 DEF files
    <3>5. written' \in Seq(Seq(Bodies)) /\ file' = Len(written') + 1 /\ DOMAIN written' = {}
      BY <1>1, <2>2, <3>1
    <3>6. QED
      BY <1>1, <2>2, <3>1, <3>4, <3>5 DEF FilesInv
  <2>3. QED
    BY <1>1, <2>1, <2>2
<1>5. QED
  BY <1>2, <1>3, <1>4 DEF IInv

LEMMA WriteFileInv ==
    ASSUME IInv, WriteFile
    PROVE  IInv'
<1>1. /\ phase = "write" /\ file \in DOMAIN expanded
      /\ \/ written' = Append(written, expanded[file]) /\ file' = file + 1 /\ UNCHANGED phase
         \/ phase' = "error" /\ UNCHANGED <<file, written>>
      /\ UNCHANGED <<program, all_exprs, extension, pos, bindings, objects, code, loads, stack,
                     expanded>>
  BY DEF WriteFile
<1>2. BindingsInv' /\ ObjectsInv' /\ CodeInv' /\ LinksInv' /\ StackInv' /\ WildInv'
  <2>1. stack = <<>>
    BY <1>1 DEF IInv, StackInv, StackOK
  <2>2. QED
    BY <1>1, <2>1, NoStack
<1>3. RoundInv'
  BY <1>1 DEF IInv, RoundInv
<1>4. CASE phase' = "error" /\ UNCHANGED <<file, written>>
  <2>1. FilesInv'
    BY <1>1, <1>4, FilesSame DEF IInv
  <2>2. QED
    BY <1>2, <1>3, <2>1 DEF IInv
<1>5. CASE written' = Append(written, expanded[file]) /\ file' = file + 1 /\ UNCHANGED phase
  <2>1. /\ program \in Programs /\ DOMAIN expanded = DOMAIN program.files
        /\ written \in Seq(Seq(Bodies)) /\ file = Len(written) + 1
        /\ \A f \in DOMAIN program.files : expanded[f] = ExpandedFile(program, f)
        /\ \A f \in DOMAIN written : f \in DOMAIN program.files /\ written[f] = ExpandedFile(program, f)
    BY <1>1 DEF IInv, FilesInv
  <2> DEFINE w == expanded[file]
             B == Seq(Bodies)
  <2>2. w = ExpandedFile(program, file) /\ file \in DOMAIN program.files
    BY <1>1, <2>1
  <2>3. w \in B
    <3>1. /\ Len(program.files[file]) \in Nat
          /\ DOMAIN program.files[file] = 1 .. Len(program.files[file])
      BY <2>1, <2>2, UpToFacts
    <3>2. \A i \in DOMAIN program.files[file] : Expansion[program.files[file][i]] \in Bodies
      BY <2>1, <2>2, FileExprs, ExpansionPlain DEF Plain
    <3>3. QED
      BY <2>2, <3>1, <3>2 DEF ExpandedFile
  <2> HIDE DEF w, B
  <2>4. /\ written' \in Seq(B) /\ Len(written') = Len(written) + 1 /\ Len(written) \in Nat
        /\ DOMAIN written' = 1 .. (Len(written) + 1) /\ DOMAIN written = 1 .. Len(written)
        /\ \A f \in DOMAIN written : written'[f] = written[f]
        /\ written'[Len(written) + 1] = w
    <3>1. written \in Seq(B) /\ written' = Append(written, w)
      BY <1>5, <2>1 DEF w, B
    <3>2. QED
      BY <2>3, <3>1
  <2>5. ASSUME NEW f \in DOMAIN written'
        PROVE  f \in DOMAIN program.files /\ written'[f] = ExpandedFile(program, f)
    <3>1. CASE f \in DOMAIN written
      BY <2>1, <2>4, <3>1
    <3>2. CASE f = file
      BY <2>1, <2>2, <2>4, <3>2
    <3>3. QED
      BY <2>1, <2>4, <3>1, <3>2
  <2>6. FilesInv'
    <3>1. file' = Len(written') + 1 /\ written' \in Seq(Seq(Bodies))
      BY <1>5, <2>1, <2>4 DEF B
    <3>2. QED
      BY <1>1, <1>5, <2>1, <2>5, <3>1 DEF FilesInv
  <2>7. QED
    BY <1>2, <1>3, <2>6 DEF IInv
<1>6. QED
  BY <1>1, <1>4, <1>5

LEMMA AllWrittenInv ==
    ASSUME IInv, AllWritten
    PROVE  IInv'
<1>1. /\ phase = "write" /\ phase' = "done"
      /\ UNCHANGED <<program, all_exprs, extension, pos, file, bindings, objects, code, loads,
                     stack, expanded, written, error>>
  BY DEF AllWritten
<1>2. BindingsInv' /\ ObjectsInv' /\ CodeInv' /\ LinksInv' /\ StackInv' /\ WildInv'
  <2>1. stack = <<>>
    BY <1>1 DEF IInv, StackInv, StackOK
  <2>2. QED
    BY <1>1, <2>1, NoStack
<1>3. FilesInv' /\ RoundInv'
  BY <1>1 DEF IInv, FilesInv, RoundInv
<1>4. QED
  BY <1>2, <1>3 DEF IInv

-----------------------------------------------------------------------------
(* The theorems.                                                            *)

LEMMA InitInv == Init => IInv
<1> SUFFICES ASSUME Init
             PROVE  IInv
  OBVIOUS
<1> DEFINE S == {Address(0, k) : k \in DOMAIN Interface}
           A == [name : Names, address : Public(code)]
<1>1. /\ program \in Programs /\ phase = "load"
      /\ all_exprs = <<>> /\ extension = <<>> /\ pos = 1 /\ file = 1
      /\ bindings = static_bindings /\ objects = <<>> /\ loads = 0
      /\ code = [a \in S |-> Builtin]
      /\ stack = <<>> /\ written = <<>>
      /\ expanded = [f \in DOMAIN program.files |-> <<>>]
  BY DEF Init
<1>2. /\ DOMAIN Interface = 1 .. Len(Interface) /\ Len(Interface) \in Nat
      /\ \A k \in DOMAIN Interface : Interface[k] \in Names
  <2>1. Interface \in Seq(Names)
    BY NamesAssumption
  <2>2. QED
    BY <2>1
<1>3. DOMAIN code = S /\ \A a \in DOMAIN code : code[a].type = "builtin"
  BY <1>1 DEF Builtin
<1>4. BindingsInv
  <2>1. \A k \in DOMAIN Interface : Address(0, k) \in Public(code)
    BY <1>3 DEF Public
  <2>2. \A k \in DOMAIN Interface : [name |-> Interface[k], address |-> Address(0, k)] \in A
    BY <1>2, <2>1
  <2> HIDE DEF A
  <2>3. static_bindings \in Seq(A)
    BY <1>2, <2>2 DEF static_bindings
  <2>4. QED
    BY <1>1, <2>3 DEF BindingsInv, BindingsOK, A
<1>5. ObjectsInv /\ LinksInv
  BY <1>1 DEF ObjectsInv, ObjectsOK, LinksInv, Linked
<1>6. CodeInv
  <2>1. \A k \in DOMAIN Interface : /\ Address(0, k) \in (0 .. 0) \X Nat
                                    /\ Address(0, k) # NotFound
    BY <1>2 DEF Address, NotFound
  <2>2. DOMAIN code \subseteq (0 .. loads) \X Nat /\ NotFound \notin DOMAIN code
    BY <1>1, <1>3, <2>1
  <2>3. \A a \in DOMAIN code : CodeOK(a, code[a], code, objects, bindings)
    BY <1>3 DEF CodeOK, IsBuiltin
  <2>4. QED
    BY <1>1, <2>2, <2>3 DEF CodeInv, MemoryOK
<1>7. StackInv /\ WildInv
  BY <1>1, StackEmpty DEF StackInv, WildInv, Wild
<1>8. FilesInv
  BY <1>1 DEF FilesInv
<1>9. RoundInv
  BY <1>1 DEF RoundInv
<1>10. QED
  BY <1>4, <1>5, <1>6, <1>7, <1>8, <1>9 DEF IInv

LEMMA StutterInv ==
    ASSUME IInv, UNCHANGED vars
    PROVE  IInv'
<1>1. UNCHANGED <<program, phase, all_exprs, extension, pos, file, bindings, objects, code, loads,
                  stack, expanded, written, error>>
  BY DEF vars
<1>2. Current' = Current
  BY <1>1, CurrentSame
<1>3. BindingsInv' /\ ObjectsInv' /\ LinksInv' /\ CodeInv'
  BY <1>1 DEF IInv, BindingsInv, ObjectsInv, LinksInv, CodeInv
<1>4. StackInv' /\ WildInv'
  BY <1>1, <1>2, UnresolvedSame DEF IInv, StackInv, WildInv
<1>5. FilesInv' /\ RoundInv'
  BY <1>1 DEF IInv, FilesInv, RoundInv
<1>6. QED
  BY <1>3, <1>4, <1>5 DEF IInv

\* The inductive invariant holds in every state: whatever the compiler loads,
\* links, calls and throws, in whatever order (evaluate_files, init_function,
\* generate_metas, compile_files).
THEOREM EvaluationInvariant == Spec => []IInv
<1>1. Init => IInv
  BY InitInv
<1>2. IInv /\ [Next]_vars => IInv'
  <2> SUFFICES ASSUME IInv, [Next]_vars
               PROVE  IInv'
    OBVIOUS
  <2>1. CASE LoadFiles
    BY <2>1, LoadFilesInv
  <2>2. CASE LoadFails
    BY <2>2, LoadFailsInv
  <2>3. CASE GenerateMetaprogram
    BY <2>3, GenerateMetaprogramInv
  <2>4. CASE TryGenerateMeta
    BY <2>4, TryGenerateMetaInv
  <2>5. CASE TryFinished
    BY <2>5, TryFinishedInv
  <2>6. CASE EndOfRound
    BY <2>6, EndOfRoundInv
  <2>7. CASE CallMacro
    BY <2>7, CallMacroInv
  <2>8. CASE CallContainer
    BY <2>8, CallContainerInv
  <2>9. CASE CallComputed
    BY <2>9, CallComputedInv
  <2>10. CASE MacroReturns
    BY <2>10, MacroReturnsInv
  <2>11. CASE InitFunction
    BY <2>11, InitFunctionInv
  <2>12. CASE CallFunction
    BY <2>12, CallFunctionInv
  <2>13. CASE SkipCall
    BY <2>13, SkipCallInv
  <2>14. CASE FunctionReturns
    BY <2>14, FunctionReturnsInv
  <2>15. CASE GenerateMetas
    BY <2>15, GenerateMetasInv
  <2>16. CASE GenerateFinished
    BY <2>16, GenerateFinishedInv
  <2>17. CASE InferTypes
    BY <2>17, InferTypesInv
  <2>18. CASE WriteFile
    BY <2>18, WriteFileInv
  <2>19. CASE AllWritten
    BY <2>19, AllWrittenInv
  <2>20. CASE UNCHANGED vars
    BY <2>20, StutterInv
  <2>21. QED
    BY <2>1, <2>2, <2>3, <2>4, <2>5, <2>6, <2>7, <2>8, <2>9, <2>10, <2>11, <2>12, <2>13, <2>14,
       <2>15, <2>16, <2>17, <2>18, <2>19, <2>20 DEF Next
<1>3. QED
  BY <1>1, <1>2, PTL DEF Spec

\* Whatever program is preprocessed: code that runs during that calls what is
\* not there only if evaluate_files has loaded an object file that refers to a
\* name nothing is bound to, and has not seen to it; and all code that
\* load_program_and_mutate has compiled and linked leads to code.
THEOREM NoWildCallAlways == Spec => []NoWildCall
<1>1. ASSUME IInv
      PROVE  NoWildCall
  <2>1. phase = "crash" => Unresolved
    BY <1>1 DEF IInv, WildInv
  <2>2. ASSUME NEW a \in DOMAIN code, code[a].type = "body"
        PROVE  Range(code[a].links) \subseteq DOMAIN code
    <3>1. code[a].links \in Seq(Public(code))
      BY <1>1, <2>2, CodeFacts DEF IInv, CodeInv
    <3>2. \A k \in DOMAIN code[a].links : code[a].links[k] \in DOMAIN code
      BY <3>1 DEF Public
    <3>3. QED
      BY <3>2 DEF Range
  <2>3. QED
    BY <2>1, <2>2 DEF NoWildCall
<1>2. IInv => NoWildCall
  BY <1>1
<1>3. QED
  BY <1>2, EvaluationInvariant, PTL

\* A name that is bound once has the address that it has been given.
LEMMA OneAddress ==
    ASSUME IInv, BoundOnce, NEW name, NEW a, Gives(bindings, name, a)
    PROVE  a = AddressOf(name)
<1>1. Bound(bindings, name)
  BY DEF Gives, Bound
<1>2. Gives(bindings, name, AddressOf(name))
  BY <1>1, AddressOfFacts DEF IInv, BindingsInv, BindingsOK
<1>3. QED
  BY <1>2 DEF Gives, BoundOnce

\* Whatever is loaded and linked in whatever order, a name that is defined once
\* leads from all objects and from all compiled bodies to the address that
\* AddressOf gives a meta-expression (mutate_bindings, load_program_and_mutate).
THEOREM OneMeaningAlways == Spec => []OneMeaning
<1>1. ASSUME IInv
      PROVE  OneMeaning
  <2> SUFFICES ASSUME phase \notin {"load", "generate_metaprogram"}, BoundOnce
               PROVE  /\ \A n \in DOMAIN objects : \A i \in DOMAIN objects[n].syms \ {0} :
                            objects[n].syms[i].value = AddressOf(objects[n].syms[i].name)
                      /\ \A a \in DOMAIN code : code[a].type = "body" =>
                            \A k \in DOMAIN code[a].refs :
                               code[a].links[k] = IF code[a].refs[k] = code[a].name THEN a
                                                  ELSE AddressOf(code[a].refs[k])
    BY DEF OneMeaning
  <2>1. ASSUME NEW n \in DOMAIN objects, NEW i \in DOMAIN objects[n].syms \ {0}
        PROVE  objects[n].syms[i].value = AddressOf(objects[n].syms[i].name)
    <3> DEFINE sym == objects[n].syms[i]
    <3>1. SymbolOK(sym, bindings)
      BY <1>1 DEF IInv, ObjectsInv, ObjectsOK, ObjectOK
    <3>2. Bound(bindings, sym.name) => Gives(bindings, sym.name, sym.value)
      BY <1>1 DEF IInv, LinksInv, Linked
    <3> HIDE DEF sym
    <3>3. CASE Gives(bindings, sym.name, sym.value)
      BY <1>1, <3>3, OneAddress DEF sym
    <3>4. CASE ~Gives(bindings, sym.name, sym.value)
      <4>1. sym.value = NotFound /\ ~Bound(bindings, sym.name)
        BY <3>1, <3>2, <3>4 DEF SymbolOK
      <4>2. AddressOf(sym.name) = NotFound
        BY <1>1, <4>1, AddressOfFacts DEF IInv, BindingsInv, BindingsOK
      <4>3. QED
        BY <4>1, <4>2 DEF sym
    <3>5. QED
      BY <3>3, <3>4
  <2>2. ASSUME NEW a \in DOMAIN code, code[a].type = "body", NEW k \in DOMAIN code[a].refs
        PROVE  code[a].links[k] = IF code[a].refs[k] = code[a].name THEN a
                                  ELSE AddressOf(code[a].refs[k])
    <3>1. IsBody(a, code[a], code, bindings)
      BY <1>1, <2>2, CodeFacts DEF IInv, CodeInv
    <3>2. IF code[a].refs[k] = code[a].name THEN code[a].links[k] = a
          ELSE Gives(bindings, code[a].refs[k], code[a].links[k])
      BY <3>1 DEF IsBody
    <3>3. QED
      BY <1>1, <3>2, OneAddress
  <2>3. QED
    BY <2>1, <2>2
<1>2. IInv => OneMeaning
  BY <1>1
<1>3. QED
  BY <1>2, EvaluationInvariant, PTL

\* Every object file that is written holds what its source file expands to,
\* whatever has been called, thrown away and expanded for other purposes before
\* (compile_files, generate_metas).
THEOREM WritesExpansionAlways == Spec => []WritesExpansion
<1>1. IInv => WritesExpansion
  BY DEF IInv, FilesInv, WritesExpansion, ExpandedFile
<1>2. QED
  BY <1>1, EvaluationInvariant, PTL
=============================================================================
