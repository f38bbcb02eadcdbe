----------------------------- MODULE Evaluation ------------------------------
(***************************************************************************)
(* How a program preprocesses itself (bootstrap/compile.c and the last     *)
(* part of bootstrap/analysis.c).  evaluate_files loads the functions of   *)
(* the source files as thunks, expands the meta-expressions at top level,  *)
(* and repeats that with the expressions that have come out.               *)
(* compile_files then reads the files again, expands all that is in them   *)
(* and writes object files.  A function that is called while this goes on  *)
(* is first preprocessed, compiled and linked (init_function), which may   *)
(* call further functions.                                                 *)
(*                                                                         *)
(* Of an expression the model keeps what preprocessing deals with:         *)
(*   function   a top-level function: its name, the meta-expressions in    *)
(*              its body, in the order of pre_visit_expressions, and the   *)
(*              names of the functions that its body refers to;            *)
(*   other      any other expression, with the same contents;              *)
(*   constrain  one whose signature a macro has still to give: the call of *)
(*              that macro comes before what is in the expression;         *)
(*   meta       a meta-expression, and in out the expression that its      *)
(*              macro returns for the fragment in it.  Within another      *)
(*              expression, a constrain expression is one as well, and its *)
(*              out is the expression that is constrained;                 *)
(*   malformed  what build_expression refuses.                             *)
(***************************************************************************)
EXTENDS Objects, SequencesExt

CONSTANTS
    Names,      \* the names of functions
    Interface,  \* those of the compiler itself that it binds for macros
    Programs,   \* what the compiler is run on: source and object files
    Exprs,      \* the expressions in them and in what macros return
    Height(_)   \* the height of an expression as a tree

Function(name, metas, refs) ==
    [type |-> "function", name |-> name, metas |-> metas, refs |-> refs]
Other(metas, refs) == [type |-> "other", name |-> "", metas |-> metas, refs |-> refs]
Malformed == [type |-> "malformed"]

\* The function of a meta-expression is given by its name, or by an expression
\* that has to be evaluated to get it.
Meta(name, out) == [type |-> "meta", name |-> name, container |-> <<>>, out |-> out]
ComputedMeta(container, name, out) ==
    [type |-> "meta", name |-> name, container |-> <<container>>, out |-> out]

\* A constrain expression that is part of no other one.
Constrain(meta) == [type |-> "constrain", name |-> "", metas |-> <<meta>>, refs |-> <<>>]

\* Meta-expressions, and what functions and other expressions can become.
Metas  == {e \in Exprs : e.type = "meta"}
Bodies == {b \in [type : {"function", "other", "constrain"}, name : Names, metas : Seq(Metas),
                  refs : Seq(Names)] : b.type = "constrain" => b.metas # <<>>}

ASSUME NamesAssumption == "" \in Names /\ Interface \in Seq(Names)

\* Expressions are finite trees.
ASSUME ExprsAssumption ==
    \A e \in Exprs :
        /\ Height(e) \in Nat
        /\ \/ e = Malformed
           \/ /\ e \in [type : {"meta"}, name : Names, container : Seq(Exprs), out : Exprs]
              /\ e.container # <<>> => Len(e.container) = 1 /\ e.container[1] \in Bodies
              /\ Height(e.out) < Height(e)
           \/ /\ e \in Bodies
              /\ \A k \in DOMAIN e.metas : Height(e.metas[k]) < Height(e)
              /\ e.type = "constrain" => e.metas[1].out # Malformed

\* Source files consist of expressions.  Object files may refer to anything.
ASSUME ProgramsAssumption ==
    \A p \in Programs :
        /\ p.files \in Seq(Seq(Exprs \ {Malformed}))
        /\ p.objects \in Seq([defs : Seq(Names), refs : Seq(Names)])

VARIABLES
    program,    \* [files, objects]: what the command line names
    phase,      \* where evaluate_files or compile_files is
    all_exprs,  \* evaluate_files: the expressions of this round
    extension,  \* try_generate_metas: the expressions of the next round
    pos,        \* the position in the expressions being gone through
    file,       \* compile_files: the source file being dealt with
    bindings,   \* the names that are known, with their addresses
    objects,    \* evaluate_files: the symbols of the objects linked in every round
    code,       \* what is at an address in memory
    loads,      \* how many objects have been loaded
    stack,      \* the calls under way, the innermost one first
    expanded,   \* compile_files: the files after preprocessing
    written,    \* the object files written
    error       \* the error that ended the run

vars == <<program, phase, all_exprs, extension, pos, file, bindings, objects, code, loads,
          stack, expanded, written, error>>

-----------------------------------------------------------------------------
(* Objects and names.                                                       *)

\* The address of the k-th function of the n-th object loaded.
Address(n, k) == <<n, k>>

\* The address 0.
NotFound == Address(0, 0)

Undefined(name) == [name |-> name, bind |-> STB_GLOBAL, shndx |-> SHN_UNDEF, value |-> NotFound]
Defined(name, address) ==
    [name |-> name, bind |-> STB_GLOBAL, shndx |-> "text", value |-> address]

\* The symbol table of the n-th object loaded.
SymbolTable(n, defs, refs) ==
    [i \in 0 .. (Len(defs) + Len(refs)) |->
        CASE i = 0 -> [name |-> "", bind |-> STB_LOCAL, shndx |-> SHN_UNDEF, value |-> NotFound]
          [] i \in DOMAIN defs -> Defined(defs[i], Address(n, i))
          [] OTHER -> Undefined(refs[i - Len(defs)])]

\* The symbols after all updates: those of the same name overwrite each other.
mutate_bindings(syms, updates) ==
    [i \in DOMAIN syms |->
        LET named == {k \in DOMAIN updates : updates[k].name = syms[i].name}
        IN  IF i # 0 /\ IsMutable(syms[i]) /\ named # {}
            THEN [syms[i] EXCEPT !.value = updates[Max(named)].address] ELSE syms[i]]

\* The symbols that an object gives to others, the last one first.
Given(syms) ==
    LET upto[k \in DOMAIN syms] ==
            IF k = 0 THEN <<>>
            ELSE IF IsImmutable(syms[k])
                 THEN <<[name |-> syms[k].name, address |-> syms[k].value]>> \o upto[k - 1]
                 ELSE upto[k - 1]
    IN  upto
immutable_bindings(syms) == Given(syms)[Max(DOMAIN syms)]

\* The addresses of what an object refers to, in the order of refs.  A name that
\* the object defines, for which symbols come first, stands for that definition.
Links(syms, refs) ==
    [k \in DOMAIN refs |-> syms[Min({i \in DOMAIN syms \ {0} : syms[i].name = refs[k]})].value]

\* The address of a symbol that a meta-expression refers to.
AddressOf(name) ==
    LET known == {i \in DOMAIN bindings : bindings[i].name = name}
    IN  IF known = {} THEN NotFound ELSE bindings[Min(known)].address

-----------------------------------------------------------------------------
(* Calls.  A frame of the stack is either the expansion of the meta-        *)
(* expressions in an expression, for the one that owner tells               *)
(*    try    try_generate_metas, at top level in evaluate_files,            *)
(*    init   init_function, for the thunk at the address at,                *)
(*    file   compile_files,                                                 *)
(* or a function that runs and has still to come to the calls in it.        *)

Expand(owner, at, expr, handler) ==
    [op |-> "expand", owner |-> owner, at |-> at, expr |-> expr, handler |-> handler,
     stage |-> "next", container |-> NotFound]
Run(calls) == [op |-> "run", calls |-> calls]

Thunk(function, handler) ==
    [type |-> "thunk", function |-> function, handler |-> handler, cache |-> NotFound]
Body(name, refs, links) == [type |-> "body", name |-> name, refs |-> refs, links |-> links]
Native(object) == [type |-> "native", object |-> object]
Builtin == [type |-> "builtin"]

\* The memory with more code in it.
With(new) ==
    [a \in DOMAIN code \union DOMAIN new |-> IF a \in DOMAIN new THEN new[a] ELSE code[a]]

\* What a call of the function at an address begins with.
frame_of(address) ==
    LET c == code[address]
    IN  CASE c.type = "builtin" -> Run(<<>>)
          [] c.type = "native" -> Run(Links(objects[c.object].syms, objects[c.object].refs))
          [] c.type = "body" -> Run(c.links)
          [] c.type = "thunk" /\ c.cache # NotFound -> Run(code[c.cache].links)
          [] OTHER -> Expand("init", address, c.function, c.handler)

Top == Head(stack)
Return == Tail(stack)
Called(address, frame) == <<frame_of(address), frame>> \o Return

\* Mutant: an undefined symbol is passed on as well.
Caught_none(type, handler) == FALSE

\* Mutant: the meta-expression is tried again at once.
Throw_again(type, handler) ==
    /\ stack' = <<>>
    /\ IF handler = "generate" /\ type = "undefined_symbol"
       THEN UNCHANGED <<pos, phase, error>>
       ELSE phase' = "error" /\ error' = type /\ UNCHANGED pos

\* In try_generate_metas an undefined symbol leaves the meta-expression alone;
\* all else is passed on to the handler of the whole run.
Caught(type, handler) == handler = "generate" /\ type = "undefined_symbol"

\* throw_* and the longjump to the handler.
Throw(type, handler) ==
    /\ stack' = <<>>
    /\ IF Caught(type, handler)
       THEN pos' = pos + 1 /\ UNCHANGED <<phase, error>>
       ELSE phase' = "error" /\ error' = type /\ UNCHANGED pos

\* Calling what is not a function.
Crash == phase' = "crash" /\ stack' = <<>>

-----------------------------------------------------------------------------
(* Preprocessing of an expression.                                          *)

\* The meta-expression that comes next in an expression.
NextMeta(expr) == IF expr.type = "meta" THEN expr ELSE Head(expr.metas)

HasMeta(expr) == expr.type = "meta" \/ expr.metas # <<>>

\* A constrain expression that has its signature is like any other.
Constrained(type) == IF type = "constrain" THEN "other" ELSE type

\* Mutant: what a macro returns is not preprocessed in turn.
replace_once(expr, out) ==
    IF expr.type = "meta" THEN out
    ELSE IF out.type = "meta"
    THEN [expr EXCEPT !.type = Constrained(@), !.metas = <<out>> \o Tail(@)]
    ELSE [expr EXCEPT !.type = Constrained(@), !.metas = Tail(@), !.refs = @ \o out.refs]

\* An expression after the next meta-expression in it has been replaced.
replace(expr, out) ==
    IF expr.type = "meta" THEN out
    ELSE IF out.type = "meta"
    THEN [expr EXCEPT !.type = Constrained(@), !.metas = <<out>> \o Tail(@)]
    ELSE [expr EXCEPT !.type = Constrained(@), !.metas = out.metas \o Tail(@),
                      !.refs = @ \o out.refs]

\* try_generate_metas asks for one expression that is no meta-expression, and
\* has its signature, the others for one that has no meta-expression in it.
Finished(frame) ==
    \/ ~HasMeta(frame.expr)
    \/ frame.owner = "try" /\ frame.expr.type \notin {"meta", "constrain"}

\* The macro of the next meta-expression is a symbol: call it.
CallMacro ==
    /\ stack # <<>> /\ Top.op = "expand" /\ Top.stage = "next" /\ ~Finished(Top)
    /\ NextMeta(Top.expr).container = <<>>
    /\ LET address == AddressOf(NextMeta(Top.expr).name)
       IN  IF address = NotFound
           THEN Throw("undefined_symbol", Top.handler)
           ELSE /\ stack' = Called(address, [Top EXCEPT !.stage = "macro"])
                /\ UNCHANGED <<phase, pos, error>>
    /\ UNCHANGED <<program, all_exprs, extension, file, bindings, objects, code, loads,
                   expanded, written>>

\* The macro is another expression: make a function of it and call that.
CallContainer ==
    /\ stack # <<>> /\ Top.op = "expand" /\ Top.stage = "next" /\ ~Finished(Top)
    /\ NextMeta(Top.expr).container # <<>>
    /\ LET meta    == NextMeta(Top.expr)
           address == Address(loads + 1, 1)
           holder  == Function("", meta.container[1].metas,
                               <<meta.name>> \o meta.container[1].refs)
       IN  /\ code' = With([a \in {address} |-> Thunk(holder, Top.handler)])
           /\ stack' = <<Expand("init", address, holder, Top.handler),
                         [Top EXCEPT !.stage = "container", !.container = address]>> \o Return
    /\ loads' = loads + 1
    /\ UNCHANGED <<program, phase, all_exprs, extension, pos, file, bindings, objects,
                   expanded, written, error>>

\* The function made of the expression has returned the macro: call it.
CallComputed ==
    /\ stack # <<>> /\ Top.op = "expand" /\ Top.stage = "container"
    /\ stack' = Called(Head(code[code[Top.container].cache].links),
                       [Top EXCEPT !.stage = "macro", !.container = NotFound])
    /\ UNCHANGED <<program, phase, all_exprs, extension, pos, file, bindings, objects, code,
                   loads, expanded, written, error>>

\* The macro has returned: what build_expression makes of that is the
\* replacement.
MacroReturns ==
    /\ stack # <<>> /\ Top.op = "expand" /\ Top.stage = "macro"
    /\ LET out == NextMeta(Top.expr).out
       IN  IF out.type = "malformed"
           THEN Throw("special_form", Top.handler)
           ELSE /\ stack' = <<[Top EXCEPT !.stage = "next", !.expr = replace(@, out)]>> \o Return
                /\ UNCHANGED <<phase, pos, error>>
    /\ UNCHANGED <<program, all_exprs, extension, file, bindings, objects, code, loads,
                   expanded, written>>

-----------------------------------------------------------------------------
(* Functions.                                                               *)

\* Mutant: what is missing is not looked for.
Missing_none(function) == {}

\* The names a function refers to that are not known.
Missing(function) ==
    {name \in Range(function.refs) : AddressOf(name) = NotFound} \ {function.name}

\* The symbols of a function that has been compiled, loaded and linked.
load_program_and_mutate(function) ==
    mutate_bindings(SymbolTable(loads + 1, <<function.name>>, function.refs), bindings)

\* The end of init_function: the body is compiled, linked and entered.  What
\* vfind_multiple_definitions looks at is not modelled: it may refuse any body.
InitFunction ==
    /\ stack # <<>> /\ Top.op = "expand" /\ Top.owner = "init" /\ Finished(Top)
    /\ LET function == Top.expr
       IN  \/ /\ Throw("multiple_definition", Top.handler)
              /\ UNCHANGED <<code, loads>>
           \/ /\ Missing(function) # {}
              /\ Throw("undefined_symbol", Top.handler)
              /\ UNCHANGED code
              /\ loads' = loads + 1
           \/ /\ Missing(function) = {}
              /\ LET links == Links(load_program_and_mutate(function), function.refs)
                     body  == Address(loads + 1, 1)
                 IN  /\ code' = With([a \in {body, Top.at} |->
                                    IF a = body THEN Body(function.name, function.refs, links)
                                    ELSE [code[a] EXCEPT !.cache = body]])
                     /\ stack' = <<Run(links)>> \o Return
              /\ loads' = loads + 1
              /\ UNCHANGED <<phase, pos, error>>
    /\ UNCHANGED <<program, all_exprs, extension, file, bindings, objects, expanded, written>>

\* A function that runs calls the functions it refers to one after the other,
\* or does without some of them.
CallFunction ==
    /\ stack # <<>> /\ Top.op = "run" /\ Top.calls # <<>>
    /\ LET address == Head(Top.calls)
       IN  IF address \in DOMAIN code
           THEN stack' = Called(address, Run(Tail(Top.calls))) /\ UNCHANGED phase
           ELSE Crash
    /\ UNCHANGED <<program, all_exprs, extension, pos, file, bindings, objects, code, loads,
                   expanded, written, error>>

SkipCall ==
    /\ stack # <<>> /\ Top.op = "run" /\ Top.calls # <<>>
    /\ stack' = <<Run(Tail(Top.calls))>> \o Return
    /\ UNCHANGED <<program, phase, all_exprs, extension, pos, file, bindings, objects, code,
                   loads, expanded, written, error>>

FunctionReturns ==
    /\ stack # <<>> /\ Top.op = "run" /\ Top.calls = <<>>
    /\ stack' = Return
    /\ UNCHANGED <<program, phase, all_exprs, extension, pos, file, bindings, objects, code,
                   loads, expanded, written, error>>

-----------------------------------------------------------------------------
(* evaluate_files.                                                          *)

\* static_bindings_arr in main, in the order of the list made of it.
static_bindings ==
    [k \in DOMAIN Interface |-> [name |-> Interface[k], address |-> Address(0, k)]]

Init ==
    /\ program \in Programs
    /\ phase = "load"
    /\ all_exprs = <<>> /\ extension = <<>> /\ pos = 1 /\ file = 1
    /\ bindings = static_bindings
    /\ code = [a \in {Address(0, k) : k \in DOMAIN Interface} |-> Builtin]
    /\ objects = <<>> /\ loads = 0
    /\ stack = <<>> /\ written = <<>>
    /\ expanded = [f \in DOMAIN program.files |-> <<>>]
    /\ error = "none"

\* Read the source files and load the object files.
LoadFiles ==
    /\ phase = "load"
    /\ phase' = "generate_metaprogram"
    /\ all_exprs' = FlattenSeq(program.files)
    /\ objects' = [n \in DOMAIN program.objects |->
                      [syms |-> SymbolTable(n, program.objects[n].defs, program.objects[n].refs),
                       refs |-> program.objects[n].refs]]
    /\ loads' = Len(program.objects)
    /\ LET new == FlattenSeq([n \in DOMAIN objects' |-> immutable_bindings(objects'[n].syms)])
       IN  /\ bindings' = bindings \o new
           /\ code' = With([a \in {b.address : b \in Range(new)} |-> Native(a[1])])
    /\ UNCHANGED <<program, extension, pos, file, stack, expanded, written, error>>

\* A file is not there, is no object file, or has a character out of place.
LoadFails ==
    /\ phase = "load"
    /\ phase' = "error"
    /\ error' \in {"missing_file", "object", "unexpected_character"}
    /\ UNCHANGED <<program, all_exprs, extension, pos, file, bindings, objects, code, loads,
                   stack, expanded, written>>

\* The functions among the first k expressions, and among all of them: each of
\* them gets a thunk.
FunctionsUpTo(exprs) ==
    LET upto[k \in 0 .. Len(exprs)] ==
            IF k = 0 THEN <<>>
            ELSE IF exprs[k].type = "function" THEN Append(upto[k - 1], exprs[k])
            ELSE upto[k - 1]
    IN  upto
Functions(exprs) == FunctionsUpTo(exprs)[Len(exprs)]

\* Mutant: only the object loaded last is linked to the new functions.
link_last(objs, updates) ==
    [n \in DOMAIN objs |->
        IF n = Len(objs) THEN [objs[n] EXCEPT !.syms = mutate_bindings(@, updates)] ELSE objs[n]]

\* mutate_bindings for every object that has been loaded.
link_objects(objs, updates) ==
    [n \in DOMAIN objs |-> [objs[n] EXCEPT !.syms = mutate_bindings(@, updates)]]

\* Load thunks for the functions, and tell all objects of them.
GenerateMetaprogram ==
    /\ phase = "generate_metaprogram"
    /\ phase' = "try_generate_metas"
    /\ LET functions == Functions(all_exprs)
           names     == [k \in DOMAIN functions |-> functions[k].name]
           syms      == SymbolTable(loads + 1, names, <<>>)
       IN  /\ bindings' = bindings \o immutable_bindings(syms)
           /\ objects' = link_objects(Append(objects, [syms |-> syms, refs |-> <<>>]), bindings')
           /\ code' = With([a \in {Address(loads + 1, k) : k \in DOMAIN functions} |->
                               Thunk(functions[a[2]], "evaluate")])
    /\ loads' = loads + 1
    /\ pos' = 1
    /\ extension' = <<>>
    /\ UNCHANGED <<program, all_exprs, file, stack, expanded, written, error>>

\* try_generate_metas comes to the next expression.
TryGenerateMeta ==
    /\ phase = "try_generate_metas" /\ stack = <<>> /\ pos \in DOMAIN all_exprs
    /\ IF all_exprs[pos].type = "meta"
       THEN stack' = <<Expand("try", NotFound, all_exprs[pos], "generate")>> /\ UNCHANGED pos
       ELSE pos' = pos + 1 /\ UNCHANGED stack
    /\ UNCHANGED <<program, phase, all_exprs, extension, file, bindings, objects, code, loads,
                   expanded, written, error>>

\* The meta-expression has become another expression.
TryFinished ==
    /\ stack # <<>> /\ Top.op = "expand" /\ Top.owner = "try" /\ Finished(Top)
    /\ extension' = <<Top.expr>> \o extension
    /\ pos' = pos + 1
    /\ stack' = <<>>
    /\ UNCHANGED <<program, phase, all_exprs, file, bindings, objects, code, loads, expanded,
                   written, error>>

\* Another round with the expressions that have come out, if there are any.
EndOfRound ==
    /\ phase = "try_generate_metas" /\ stack = <<>> /\ pos \notin DOMAIN all_exprs
    /\ all_exprs' = extension
    /\ phase' = IF extension = <<>> THEN "compile_files" ELSE "generate_metaprogram"
    /\ pos' = 1
    /\ UNCHANGED <<program, extension, file, bindings, objects, code, loads, stack, expanded,
                   written, error>>

-----------------------------------------------------------------------------
(* compile_files.                                                           *)

\* Read the files once more and preprocess the next expression.
GenerateMetas ==
    /\ phase = "compile_files" /\ stack = <<>> /\ file \in DOMAIN program.files
    /\ IF pos \in DOMAIN program.files[file]
       THEN /\ stack' = <<Expand("file", NotFound, program.files[file][pos], "evaluate")>>
            /\ UNCHANGED <<file, pos>>
       ELSE /\ file' = file + 1 /\ pos' = 1
            /\ UNCHANGED stack
    /\ UNCHANGED <<program, phase, all_exprs, extension, bindings, objects, code, loads,
                   expanded, written, error>>

GenerateFinished ==
    /\ stack # <<>> /\ Top.op = "expand" /\ Top.owner = "file" /\ Finished(Top)
    /\ expanded' = [expanded EXCEPT ![file] = Append(@, Top.expr)]
    /\ pos' = pos + 1
    /\ stack' = <<>>
    /\ UNCHANGED <<program, phase, all_exprs, extension, file, bindings, objects, code, loads,
                   written, error>>

\* infer_types, for all files together.
InferTypes ==
    /\ phase = "compile_files" /\ stack = <<>> /\ file \notin DOMAIN program.files
    /\ \/ phase' = "write" /\ file' = 1 /\ UNCHANGED error
       \/ phase' = "error" /\ error' = "unification" /\ UNCHANGED file
    /\ UNCHANGED <<program, all_exprs, extension, pos, bindings, objects, code, loads, stack,
                   expanded, written>>

\* Compile the next file and write it out.
WriteFile ==
    /\ phase = "write" /\ file \in DOMAIN expanded
    /\ \/ /\ written' = Append(written, expanded[file])
          /\ file' = file + 1
          /\ UNCHANGED <<phase, error>>
       \/ /\ phase' = "error" /\ error' = "multiple_definition"
          /\ UNCHANGED <<file, written>>
    /\ UNCHANGED <<program, all_exprs, extension, pos, bindings, objects, code, loads, stack,
                   expanded>>

AllWritten ==
    /\ phase = "write" /\ file \notin DOMAIN expanded
    /\ phase' = "done"
    /\ UNCHANGED <<program, all_exprs, extension, pos, file, bindings, objects, code, loads,
                   stack, expanded, written, error>>

-----------------------------------------------------------------------------
Next ==
    \/ LoadFiles \/ LoadFails \/ GenerateMetaprogram
    \/ TryGenerateMeta \/ TryFinished \/ EndOfRound
    \/ CallMacro \/ CallContainer \/ CallComputed \/ MacroReturns
    \/ InitFunction \/ CallFunction \/ SkipCall \/ FunctionReturns
    \/ GenerateMetas \/ GenerateFinished \/ InferTypes \/ WriteFile \/ AllWritten

\* The compiler runs on as long as it can; what it calls returns.
Spec == Init /\ [][Next]_vars /\ WF_vars(Next)

-----------------------------------------------------------------------------
(* Correctness.                                                             *)

\* An expression with every meta-expression in it replaced by what comes out,
\* said without the order in which the compiler does that.
Expansion[e \in Exprs] ==
    IF e.type = "meta" THEN Expansion[e.out]
    ELSE IF e.type = "malformed" THEN Other(<<>>, <<>>)
    ELSE [e EXCEPT !.type = Constrained(@), !.metas = <<>>,
                   !.refs = @ \o FlattenSeq([k \in DOMAIN e.metas |-> Expansion[e.metas[k]].refs])]

\* An object file refers to a name that nothing is bound to.  Its code has been
\* linked all the same, to the address 0.
Unresolved ==
    \E n \in DOMAIN objects : \E k \in DOMAIN objects[n].refs :
        AddressOf(objects[n].refs[k]) = NotFound

\* Code that runs while the compiler does (macros, and what they call) leads
\* to code: load_program_and_mutate enters no body before all its names have
\* been linked.  Only what evaluate_files has loaded from an object file may
\* call a name that has no address, and only as long as it has none.
NoWildCall ==
    /\ phase = "crash" => Unresolved
    /\ \A a \in DOMAIN code :
          code[a].type = "body" => Range(code[a].links) \subseteq DOMAIN code

BoundOnce == \A i, j \in DOMAIN bindings : bindings[i].name = bindings[j].name => i = j

\* From any object or compiled body, a name leads to the function that it has
\* as a macro, in whatever order they were loaded and linked, and from its own
\* body to that body, as long as no name is defined twice.
OneMeaning ==
    phase \notin {"load", "generate_metaprogram"} /\ BoundOnce =>
        /\ \A n \in DOMAIN objects : \A i \in DOMAIN objects[n].syms \ {0} :
              objects[n].syms[i].value = AddressOf(objects[n].syms[i].name)
        /\ \A a \in DOMAIN code : code[a].type = "body" => \A k \in DOMAIN code[a].refs :
              code[a].links[k] = IF code[a].refs[k] = code[a].name THEN a
                                 ELSE AddressOf(code[a].refs[k])

\* What is written is what the source files expand to, however much of it has
\* been preprocessed before as a part of the running program.
WritesExpansion ==
    \A f \in DOMAIN written :
        written[f] = [i \in DOMAIN program.files[f] |-> Expansion[program.files[f][i]]]
=============================================================================
