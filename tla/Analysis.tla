------------------------------ MODULE Analysis ------------------------------
(***************************************************************************)
(* The passes of bootstrap/analysis.c that annotate expressions before     *)
(* type inference and code generation: which binding a symbol refers to    *)
(* (link_symbols), which expressions an expression depends on              *)
(* (vfind_dependencies), which continuations leave the jumps that name     *)
(* them (escape_analysis), and which expressions may leave or re-enter     *)
(* their surroundings while they are evaluated (containment_analysis).     *)
(***************************************************************************)
EXTENDS Expressions

-----------------------------------------------------------------------------
(* Symbols.  A list of bindings is a sequence of pairs of a name and a      *)
(* binding, searched from its head.                                         *)

\* The binding of a name nothing defines: a storage expression is made for it,
\* at a path of its own.
Undefined(n) == << <<0, n>>, Ref >>

IsUndefined(b) == b[1][1] = 0

global_binding_augs_of(exprs) ==
    LET globals == SelectSeq([i \in DOMAIN exprs |-> i],
                             LAMBDA i : exprs[i].type \in {"function", "storage"})
    IN  Reverse([i \in DOMAIN globals |->
                    <<exprs[globals[i]].name, << <<globals[i]>>, Ref >> >>])

assign_binding(n, bindings) ==
    LET found == SelectInSeq(bindings, LAMBDA b : b[1] = n)
    IN  IF found = 0 THEN Undefined(n) ELSE bindings[found][2]

\* The bindings of the parameters, the last one first.
ParameterBindings(t, p) ==
    Reverse([k \in DOMAIN t.parameters |-> <<t.parameters[k], <<p, k>> >>])

\* The bindings of the symbols of t: a set of pairs of a path and a binding.
RECURSIVE link_symbols(_, _, _, _, _)
link_symbols(t, p, static_storage, static_bindings, dynamic_bindings) ==
    LET self == << <<t.name, <<p, Ref>> >> >>
        Within(new) ==
            UNION {link_symbols(Subs(t)[j], Append(p, j), static_storage,
                      (IF static_storage THEN new ELSE <<>>) \o static_bindings,
                      (IF static_storage THEN <<>> ELSE new) \o dynamic_bindings) :
                   j \in DOMAIN Subs(t)}
    IN  CASE t.type = "symbol" ->
               {<<p, assign_binding(t.name, dynamic_bindings \o static_bindings)>>}
          [] t.type = "function" ->
               link_symbols(t.expression, Append(p, 1), FALSE, self \o static_bindings,
                            ParameterBindings(t, p))
          [] t.type \in {"with", "continuation"} -> Within(ParameterBindings(t, p) \o self)
          [] t.type = "storage" -> Within(self)
          [] OTHER -> Within(<<>>)

\* The binding of every symbol of a program, by the path of the symbol.
Bindings(exprs) ==
    LET globals == global_binding_augs_of(exprs)
    IN  AsFunction(UNION {link_symbols(exprs[i], <<i>>, TRUE, globals, <<>>) :
                          i \in DOMAIN exprs})

-----------------------------------------------------------------------------
(* Dependencies.                                                            *)

\* One visit: deps maps every expression to the list of those it depends on,
\* the ones found last at the head.
vfind_dependencies(deps, p, t, bind) ==
    LET Prepend(d, q, new) ==
            [x \in DOMAIN d \union {q} |->
                IF x # q THEN d[x] ELSE IF q \in DOMAIN d THEN <<new>> \o d[q] ELSE <<new>>]
        PrependAll(d, news) == FoldLeft(LAMBDA acc, n : Prepend(acc, p, n), d, news)
        subs == [j \in DOMAIN Subs(t) |-> Append(p, j)]
    IN  CASE t.type \in {"if", "function", "with", "invoke"} -> PrependAll(deps, subs)
          [] t.type = "storage" ->
               \* its own reference, which depends on nothing
               PrependAll(Prepend(deps, p, Append(p, 0)), subs)
          [] t.type = "jump" ->
               PrependAll(Prepend(PrependAll(deps, <<subs[1]>>), subs[1], p), Tail(subs))
          [] t.type = "symbol" ->
               Prepend(Prepend(deps, p, bind[p][1]), bind[p][1], p)
          [] t.type = "constrain" ->
               Prepend(PrependAll(deps, subs), subs[1], p)
          [] OTHER -> deps

\* The dependencies of a whole program.  An expression none was found for
\* has an empty list.
Dependencies(exprs) ==
    LET bind  == Bindings(exprs)
        visit == Visited(exprs)
        found == FoldLeft(LAMBDA d, x : vfind_dependencies(d, x[1], x[2], bind),
                          << >>, visit)
        all   == DOMAIN found \union UNION {Range(found[p]) : p \in DOMAIN found}
                              \union {x[1] : x \in Range(visit)}
    IN  [p \in all |-> IF p \in DOMAIN found THEN found[p] ELSE <<>>]

-----------------------------------------------------------------------------
(* Continuations.                                                           *)

\* The type of the expression a binding belongs to.
TargetType(b, nodes) == IF IsUndefined(b) THEN "storage" ELSE nodes[b[1]].type

\* The symbol with this binding is the reference of a continuation or with.
NamesContinuation(b, nodes) ==
    b[2] = Ref /\ TargetType(b, nodes) \in {"continuation", "with"}

\* The paths of the continuations and withs that escape_analysis marks.
RECURSIVE escape_analysis(_, _, _, _, _)
escape_analysis(t, p, escaping, bind, nodes) ==
    (CASE t.type = "symbol" /\ escaping /\ NamesContinuation(bind[p], nodes) -> {bind[p][1]}
       [] t.type = "continuation" /\ escaping -> {p}
       [] OTHER -> {})
    \union
    UNION {escape_analysis(Subs(t)[j], Append(p, j), ~(t.type = "jump" /\ j = 1),
                           bind, nodes) : j \in DOMAIN Subs(t)}

\* The expression a jump reaches without going through a stored continuation,
\* or <<>>.
short_circuit(t, p, bind, nodes) ==
    CASE t.reference.type = "symbol" /\ NamesContinuation(bind[ReferencePath(p)], nodes) ->
           bind[ReferencePath(p)][1]
      [] t.reference.type = "continuation" -> ReferencePath(p)
      [] OTHER -> <<>>

CONTAINS_NONE == 0
CONTAINS_JUMP == 1
CONTAINS_WITH == 3

\* The bitwise or of flags: the bits of each flag are among those of the next.
Or(flags) == CHOOSE f \in flags \union {CONTAINS_NONE} : \A g \in flags : g <= f

\* Mutant: a branch that jumps counts as if the other one did, too.
IfFlagOr(condition, consequent, alternate) == Or({condition, consequent, alternate})

\* An if with one branch that jumps may be left or not, like a with.
IfFlag(condition, consequent, alternate) ==
    IF consequent + alternate = 1 THEN CONTAINS_WITH
    ELSE Or({condition, consequent, alternate})

RECURSIVE containment_analysis(_)
containment_analysis(t) ==
    LET flag(j) == containment_analysis(Subs(t)[j])
    IN  CASE t.type \in {"constrain", "storage", "invoke"} ->
               Or({flag(j) : j \in DOMAIN Subs(t)})
          [] t.type = "if" -> IfFlag(flag(1), flag(2), flag(3))
          [] t.type = "with" -> CONTAINS_WITH
          [] t.type = "jump" -> CONTAINS_JUMP
          [] OTHER -> CONTAINS_NONE

\* The contains_flag of a jump or invoke.
contains_flag(t) ==
    Or({containment_analysis(Subs(t)[j]) : j \in DOMAIN Subs(t)})
=============================================================================
