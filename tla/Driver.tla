------------------------------- MODULE Driver --------------------------------
(***************************************************************************)
(* A run of the compiler, from its arguments to its exit status: main and  *)
(* compile_files of bootstrap/compile.c with compile_program.  All source  *)
(* files are linked together once, for the constraint check; then the      *)
(* symbols are unlinked and every file is linked again by itself, because  *)
(* write_elf numbers the symbols of one file only.  link_symbols keeps the *)
(* binding that a symbol has, so what unlinking misses stays.              *)
(*                                                                         *)
(* evaluate_files and the expansion of meta-expressions (Evaluation), the  *)
(* verdict of the constraint check (Inference) and the bytes of the object *)
(* files (Assembler) are modelled elsewhere: here they succeed or raise an *)
(* error.  The expressions of all files are numbered in the order of the   *)
(* command line, and an expression is identified by its path from there.   *)
(***************************************************************************)
EXTENDS Generator

CONSTANTS Commands,    \* what main can be called with: sequences of arguments
          Contents     \* the expressions of each source file after expansion

ASSUME CommandsAssumption == \A c \in Commands : c \in Seq(Seq(STRING))

VARIABLES
    argv,         \* the arguments
    phase,        \* where main is
    file,         \* the source file being compiled
    pos,          \* how many expressions the loop under way has dealt with
    binding,      \* the binding_aug of every symbol, or NULL
    undefined,    \* undefined_bindings: of all files under 0, and of each one
    absolute,     \* the bindings whose type classify_program_binding_augs has set
    statics,      \* static_bindings of each file
    written,      \* the object files written: [name, file]
    ctx,          \* evaluate_handler.ctx: its region, or the error raised
    status        \* the exit status

vars == <<argv, phase, file, pos, binding, undefined, absolute, statics, written,
          ctx, status>>

NULL == << >>
NoError == "region"
Running == -1

\* The values of enum error_type.
error_type == <<"unification", "arguments", "param_count_mismatch", "special_form",
                "unexpected_character", "multiple_definition", "object", "missing_file",
                "undefined_symbol", "unsupported_intrinsics">>

Value(e) == SelectInSeq(error_type, LAMBDA x : x = e) - 1

-----------------------------------------------------------------------------
(* The command line: src1 ... - intr1 ... - obj1 ...                        *)

Dash == <<"-">>

\* The first place from i on that holds a dash, or the one after the last.
Stop(i) == CHOOSE j \in i .. (Len(argv) + 1) :
              /\ j = Len(argv) + 1 \/ argv[j] = Dash
              /\ \A k \in i .. (j - 1) : argv[k] # Dash

source_fns    == SubSeq(argv, 1, Stop(1) - 1)
intrinsic_fns == SubSeq(argv, Stop(1) + 1, Stop(Stop(1) + 1) - 1)

\* The name with its last dot and what follows replaced by ".o"; NULL for a
\* name without a dot, which strcpy would write to address 0.
outfn(infn) ==
    LET dot == SelectLastInSeq(infn, LAMBDA c : c = ".")
    IN  IF dot = 0 THEN NULL ELSE SubSeq(infn, 1, dot - 1) \o <<".", "o">>

-----------------------------------------------------------------------------
(* The expressions.                                                         *)

exprs == Concatenate(Len(source_fns), LAMBDA f : Contents[source_fns[f]])
First(f) == 1 + Len(Concatenate(f - 1, LAMBDA g : Contents[source_fns[g]]))
FileOf(i) == CHOOSE f \in DOMAIN source_fns : First(f) <= i /\ i < First(f + 1)

\* The lists the loops go through: all_exprs, which prepend has turned around,
\* and the expressions of one file.
all_exprs == Reverse([i \in DOMAIN exprs |-> i])
ExprsOf(f) == [k \in 1 .. Len(Contents[source_fns[f]]) |-> First(f) + k - 1]

Symbols(i) == {x[1] : x \in {y \in NodesOf(exprs[i], <<i>>) : y[2].type = "symbol"}}

\* global_binding_augs_of a list of expressions, the last one first.
global_bindings(order) ==
    LET globals == SelectSeq(order, LAMBDA i : exprs[i].type \in {"function", "storage"})
    IN  Reverse([k \in DOMAIN globals |->
                    <<exprs[globals[k]].name, << <<globals[k]>>, Ref >> >>])

\* The binding made for a name that is not defined belongs to one list.
Listed(b, list) == IF IsUndefined(b) THEN << <<0, b[1][2], list>>, Ref >> ELSE b

\* link_symbols on the i-th expression, with the bindings the symbols have.
Linked(i, list, globals) ==
    LET links == AsFunction(link_symbols(exprs[i], <<i>>, TRUE, globals, <<>>))
    IN  [p \in DOMAIN binding |->
            IF p \in DOMAIN links /\ binding[p] = NULL THEN Listed(links[p], list)
                                                       ELSE binding[p]]

\* Mutant: the symbols of other files stay linked.
unlink_undefined(i) ==
    [p \in DOMAIN binding |->
        IF p \in Symbols(i) /\ binding[p] \in undefined[0] THEN NULL ELSE binding[p]]

\* Mutant: undefined symbols stay linked.
unlink_globals(i) ==
    [p \in DOMAIN binding |->
        IF p \in Symbols(i) /\ binding[p] \in {g[2] : g \in Range(global_bindings(all_exprs))}
        THEN NULL ELSE binding[p]]

\* vunlink_symbols with the global and then with the undefined bindings.
vunlink_symbols(i) ==
    [p \in DOMAIN binding |->
        IF /\ p \in Symbols(i)
           /\ \/ binding[p] \in {g[2] : g \in Range(global_bindings(all_exprs))}
              \/ binding[p] \in undefined[0]
        THEN NULL ELSE binding[p]]

\* Two of the names that a function or continuation binds are the same.
vfind_multiple_definitions(t) ==
    /\ t.type \in {"continuation", "function"}
    /\ LET names == <<t.name>> \o t.parameters
       IN  \E i, j \in DOMAIN names : i < j /\ names[i] = names[j]

\* Mutant: a constrain expression is not gone into.
RECURSIVE classify_unconstrained(_, _)
classify_unconstrained(t, p) ==
    IF t.type \in {"function", "constrain"} THEN {}
    ELSE (CASE t.type = "storage" -> {<<p, Ref>>}
            [] t.type \in {"jump", "invoke"} -> {<<p, Temp>>}
            [] t.type \in {"continuation", "with"} ->
                 {<<p, k>> : k \in {Ref} \union DOMAIN t.parameters}
            [] OTHER -> {})
         \union UNION {classify_unconstrained(Subs(t)[j], Append(p, j)) : j \in DOMAIN Subs(t)}

\* The bindings outside of functions.
RECURSIVE classify_program_binding_augs(_, _)
classify_program_binding_augs(t, p) ==
    IF t.type = "function" THEN {}
    ELSE (CASE t.type = "storage" -> {<<p, Ref>>}
            [] t.type \in {"jump", "invoke"} -> {<<p, Temp>>}
            [] t.type \in {"continuation", "with"} ->
                 {<<p, k>> : k \in {Ref} \union DOMAIN t.parameters}
            [] OTHER -> {})
         \union UNION {classify_program_binding_augs(Subs(t)[j], Append(p, j)) :
                       j \in DOMAIN Subs(t)}

Escapes(i, bind) == escape_analysis(exprs[i], <<i>>, TRUE, bind, Nodes(exprs))

-----------------------------------------------------------------------------
(* The steps.                                                               *)

\* throw_*: the error record takes the place of the region, and control goes
\* back to where main has called setjump.
Throw(e) ==
    /\ ctx' = e
    /\ phase' = "handler"
    /\ UNCHANGED <<argv, file, pos, binding, undefined, absolute, statics, written,
                   status>>

Init ==
    /\ argv \in Commands
    /\ phase = "main"
    /\ file = 1
    /\ pos = 0
    /\ binding = [p \in {} |-> NULL]
    /\ undefined = [l \in {0} |-> {}]
    /\ absolute = {}
    /\ statics = <<>>
    /\ written = <<>>
    /\ ctx = NoError
    /\ status = Running

\* The arguments are split up to evaluate_files.
Main ==
    /\ phase = "main"
    /\ IF Stop(1) > Len(argv) \/ Stop(Stop(1) + 1) > Len(argv)
       THEN Throw("arguments")
       ELSE IF intrinsic_fns # <<>> THEN Throw("unsupported_intrinsics")
       ELSE /\ phase' = "evaluate"
            /\ UNCHANGED <<argv, file, pos, binding, undefined, absolute, statics,
                           written, ctx, status>>

\* evaluate_files, and the reading and expanding of compile_files.
Evaluate ==
    /\ phase = "evaluate"
    /\ \/ /\ \A f \in DOMAIN source_fns : source_fns[f] \in DOMAIN Contents
          /\ phase' = "link"
          /\ binding' = [p \in UNION {Symbols(i) : i \in DOMAIN exprs} |-> NULL]
          /\ undefined' = [l \in 0 .. Len(source_fns) |-> {}]
          /\ statics' = [f \in DOMAIN source_fns |-> <<>>]
          /\ UNCHANGED <<argv, file, pos, absolute, written, ctx, status>>
       \/ \E e \in {"missing_file", "special_form", "unexpected_character", "object",
                    "multiple_definition", "undefined_symbol"} : Throw(e)

\* What the symbols of the i-th expression add to a list of undefined bindings.
NewUndefined(i, list, bind) ==
    {b \in {bind[p] : p \in Symbols(i)} : IsUndefined(b) /\ b[1][3] = list}

\* compile_files: one expression is linked for the constraint check.
LinkAll ==
    /\ phase = "link"
    /\ pos < Len(all_exprs)
    /\ LET i == all_exprs[pos + 1]
           new == Linked(i, 0, global_bindings(all_exprs))
       IN  /\ binding' = new
           /\ undefined' = [undefined EXCEPT ![0] = @ \union NewUndefined(i, 0, new)]
    /\ pos' = pos + 1
    /\ UNCHANGED <<argv, phase, file, absolute, statics, written, ctx, status>>

\* infer_types accepts the program or raises an error.
Infer ==
    /\ phase = "link"
    /\ pos = Len(all_exprs)
    /\ \/ /\ phase' = "unlink"
          /\ pos' = 0
          /\ UNCHANGED <<argv, file, binding, undefined, absolute, statics, written, ctx, status>>
       \/ Throw("unification")

Unlink ==
    /\ phase = "unlink"
    /\ pos < Len(all_exprs)
    /\ binding' = vunlink_symbols(all_exprs[pos + 1])
    /\ pos' = pos + 1
    /\ UNCHANGED <<argv, phase, file, undefined, absolute, statics, written, ctx, status>>

Unlinked ==
    /\ phase = "unlink"
    /\ pos = Len(all_exprs)
    /\ phase' = "compile"
    /\ pos' = 0
    /\ UNCHANGED <<argv, file, binding, undefined, absolute, statics, written, ctx,
                   status>>

\* compile_program: the passes over one expression of the file.
CompileExpression ==
    /\ phase = "compile"
    /\ file \in DOMAIN source_fns
    /\ pos < Len(ExprsOf(file))
    /\ LET i == ExprsOf(file)[pos + 1]
           new == Linked(i, file, global_bindings(ExprsOf(file)))
       IN  IF \E x \in NodesOf(exprs[i], <<i>>) : vfind_multiple_definitions(x[2])
           THEN Throw("multiple_definition")
           ELSE /\ absolute' = absolute \union classify_program_binding_augs(exprs[i], <<i>>)
                /\ binding' = new
                /\ undefined' = [undefined EXCEPT ![file] = @ \union NewUndefined(i, file, new)]
                /\ statics' = [statics EXCEPT
                                 ![file] = @ \o layout_frames(exprs[i], <<i>>, Escapes(i, new))]
                /\ pos' = pos + 1
                /\ UNCHANGED <<argv, phase, file, written, ctx, status>>

\* The object file is written next to the source file; creating it may fail.
\* For a name without a dot the process faults: there is no step.
WriteFile ==
    /\ phase = "compile"
    /\ file \in DOMAIN source_fns
    /\ pos = Len(ExprsOf(file))
    /\ outfn(source_fns[file]) # NULL
    /\ \/ /\ written' = Append(written, [name |-> outfn(source_fns[file]), file |-> file])
          /\ file' = file + 1
          /\ pos' = 0
          /\ UNCHANGED <<argv, phase, binding, undefined, absolute, statics, ctx, status>>
       \/ Throw("missing_file")

\* All files are written: main returns 0.
Finish ==
    /\ phase = "compile"
    /\ file > Len(source_fns)
    /\ phase' = "exit"
    /\ status' = 0
    /\ UNCHANGED <<argv, file, pos, binding, undefined, absolute, statics, written, ctx>>

\* setjump has returned a second time: the error is shown and its type returned.
Handle ==
    /\ phase = "handler"
    /\ phase' = "exit"
    /\ status' = Value(ctx)
    /\ UNCHANGED <<argv, file, pos, binding, undefined, absolute, statics, written, ctx>>

Next == Main \/ Evaluate \/ LinkAll \/ Infer \/ Unlink \/ Unlinked \/ CompileExpression
          \/ WriteFile \/ Finish \/ Handle

Spec == Init /\ [][Next]_vars

-----------------------------------------------------------------------------
(* Properties.                                                              *)

Written == {written[k].file : k \in DOMAIN written}

\* Every variable has its type.
TypeOK ==
    /\ phase \in {"main", "evaluate", "link", "unlink", "compile", "handler", "exit"}
    /\ file \in 1 .. (Len(source_fns) + 1)
    /\ pos \in Nat
    /\ phase \in {"link", "unlink", "compile"} =>
         /\ DOMAIN binding = UNION {Symbols(i) : i \in DOMAIN exprs}
         /\ DOMAIN undefined = 0 .. Len(source_fns)
         /\ DOMAIN statics = DOMAIN source_fns
    /\ ctx \in {NoError} \union Range(error_type)
    /\ status \in {Running} \union 0 .. (Len(error_type) - 1)

\* A binding of the file alone, with the paths it has among all files.
Among(b, f) ==
    IF IsUndefined(b) THEN Listed(b, f)
    ELSE << <<b[1][1] + First(f) - 1>> \o Tail(b[1]), b[2] >>

\* Linking all files for the constraint check leaves no trace in what is
\* written: the symbols of every object file, also of those that were written
\* before an error, have the bindings they have when the file is compiled alone.
LinkedAlone ==
    \A f \in Written :
        LET alone == Bindings(Contents[source_fns[f]])
        IN  \A p \in DOMAIN alone :
                binding[<<p[1] + First(f) - 1>> \o Tail(p)] = Among(alone[p], f)

\* The symbol is the reference of a jump that goes straight to a continuation.
ShortCircuited(p) ==
    LET nodes == Nodes(exprs)
        up == SubSeq(p, 1, Len(p) - 1)
    IN  /\ Len(p) > 1 /\ nodes[up].type = "jump" /\ Last(p) = 1
        /\ short_circuit(nodes[up], up, binding, nodes) # <<>>

SlotBindings(slots) == {slots[k].binding : k \in DOMAIN slots}

\* The bindings in the frames of the functions of an expression, and their
\* parameters.
FrameBindings(i) ==
    UNION {SlotBindings(Frame(x[2], x[1], Escapes(i, binding)))
               \union {<<x[1], k>> : k \in DOMAIN x[2].parameters} :
           x \in {y \in NodesOf(exprs[i], <<i>>) : y[2].type = "function"}}

FunctionLabels(i) == {<<x[1], Ref>> : x \in {y \in NodesOf(exprs[i], <<i>>) : y[2].type = "function"}}

\* write_elf never meets a binding that it has given no symbol: whatever code
\* refers to is a function or a static of the same file, in its list of
\* undefined bindings, or in the frame of a function.
ReferencesPlaced ==
    \A f \in Written : \A i \in Range(ExprsOf(f)) : \A p \in Symbols(i) :
        ShortCircuited(p) \/
            binding[p] \in undefined[f] \union SlotBindings(statics[f]) \union FrameBindings(i)
                             \union UNION {FunctionLabels(j) : j \in Range(ExprsOf(f))}

\* Code addresses a binding in the way its storage was laid out: the type that
\* classify_program_binding_augs gives is absolute for what layout_frames has
\* put among the statics, and for nothing in a frame.
StorageAsClassified ==
    \A f \in Written :
        /\ SlotBindings(statics[f]) \subseteq absolute
        /\ \A i \in Range(ExprsOf(f)) : FrameBindings(i) \intersect absolute = {}
=============================================================================
