---------------------------- MODULE Preprocessing ----------------------------
(***************************************************************************)
(* Which programs can be preprocessed, said without the compiler's rounds, *)
(* thunks and handlers, and that the compiler preprocesses those.          *)
(***************************************************************************)
EXTENDS Evaluation, FiniteSets

RECURSIVE Macros(_), Outs(_)

\* The functions that are called to get from an expression to its expansion.
Macros(e) ==
    CASE e.type = "meta" ->
           {e.name} \union Macros(e.out)
           \union UNION {Macros(c) \union Range(Expansion[c].refs) : c \in Range(e.container)}
      [] e.type = "malformed" -> {}
      [] OTHER -> UNION {Macros(m) : m \in Range(e.metas)}

\* An expression at top level and what comes out of it.
Outs(e) == {e} \union (IF e.type = "meta" THEN Outs(e.out) ELSE {})

TopLevel(p) == UNION {Range(p.files[f]) : f \in DOMAIN p.files}
AllFunctions(p) == {e \in UNION {Outs(t) : t \in TopLevel(p)} : e.type = "function"}
Natives(p) == Range(p.objects)
NativeNames(p) == UNION {Range(o.defs) : o \in Natives(p)}

\* f needs g: when f is called, g has to be there.
Needs(p) ==
    UNION {{f.name} \X (Macros(f) \union Range(Expansion[f].refs)) : f \in AllFunctions(p)}
    \union UNION {Range(o.defs) \X Range(o.refs) : o \in Natives(p)}

RECURSIVE Closure(_, _)
Closure(needs, names) ==
    LET more == names \union {pair[2] : pair \in {q \in needs : q[1] \in names}}
    IN  IF more = names THEN names ELSE Closure(needs, more)

\* All that is needed when the functions with these names are called.
NeededBy(p, names) == Closure(Needs(p), names)

\* No function is needed to preprocess itself.
WellFounded(p) ==
    \A f \in {pair[1] : pair \in Needs(p)} :
        f \notin NeededBy(p, {pair[2] : pair \in {q \in Needs(p) : q[1] = f}})

\* The functions that are there from the start.
WrittenNames(p) ==
    Range(Interface) \union NativeNames(p) \union {e.name : e \in {t \in TopLevel(p) : t.type = "function"}}

\* The functions that top-level meta-expressions become, if all that is needed
\* to preprocess them is in env.
Produced(p, env) ==
    {f.name : f \in {e \in UNION {Outs(t) : t \in {u \in TopLevel(p) : NeededBy(p, Macros(u)) \subseteq env}} :
                     e.type = "function"}}

\* One round of evaluate_files is enough for p: what top-level meta-expressions
\* call finds in the files all it needs, and what is produced in this way
\* completes what the rest of the program needs.
OneRound(p) ==
    LET env == WrittenNames(p)
    IN  /\ \A t \in TopLevel(p) :
              t.type = "meta" => NeededBy(p, Macros(t) \intersect env) \subseteq env
        /\ \A t \in TopLevel(p) :
              NeededBy(p, Macros(t)) \subseteq env \union Produced(p, env)

-----------------------------------------------------------------------------
(* Correctness.                                                             *)

\* A program for which one round is enough has no undefined symbols: an
\* undefined symbol in try_generate_metas is no error yet.
OneRoundSuffices ==
    error = "undefined_symbol" => ~OneRound(program)

\* evaluate_files and compile_files come to an end.
Terminates == <>(phase \in {"done", "error", "crash"})
=============================================================================
