------------------------------ MODULE FileLists ------------------------------
(***************************************************************************)
(* The lists of a run of the compiler (main, evaluate_files, compile_files *)
(* and what they call), cell by cell.  Their cells move from one variable  *)
(* to another: the bindings grow by linking the list of every object that  *)
(* is loaded to their end, in place, while thunks hold their address; the  *)
(* expressions of a file become the end of those of all files; and the     *)
(* expressions of the next round are those that come out of this one.      *)
(* Nothing here restricts append and append_list to lists with cells of    *)
(* their own; what does is only where lists begin and go out of scope.     *)
(***************************************************************************)
EXTENDS Lists

CONSTANTS file_exprss,  \* for each source file, the variable with its expressions
          Objects,      \* how many object files there are
          MaxExprs,     \* bound: expressions in a source file
          MaxSyms,      \* bound: static bindings, symbols in an object
          MaxRounds     \* bound: rounds of evaluate_files

ASSUME FilesAssumption ==
    /\ file_exprss # <<>> /\ Objects \in Nat \ {0}
    /\ MaxExprs \in Nat /\ MaxSyms \in Nat /\ MaxRounds \in Nat
    /\ Holders = {"bndgs", "expressions", "all_exprs", "objects", "syms", "metaprogram",
                  "bindings", "extension", "exprs", "ms", "sccs", "order"} \union Range(file_exprss)

VARIABLES sizes,  \* how many expressions are in each source file
          at,     \* where the compiler is
          file,   \* the file it deals with
          rounds  \* the rounds of evaluate_files begun

control == <<sizes, at, file, rounds>>

\* Mutant: bindings goes on with the symbols of the object before.
Locals_kept(place) == CASE place = "made"     -> {"metaprogram"}
                        [] place = "linked"   -> {}
                        [] place = "appended" -> {"expressions"}
                        [] place = "linking"  -> {"ms"}
                        [] place = "filed"    -> {"exprs", "expressions"}
                        [] place = "next"     -> {"extension", "bindings"}
                        [] place = "returned" -> {"all_exprs", "objects"}
                        [] OTHER -> {}

\* The lists that go out of scope before the compiler leaves a place.
Locals(place) == CASE place = "made"     -> {"metaprogram"}
                   [] place = "linked"   -> {"syms"}
                   [] place = "appended" -> {"expressions"}
                   [] place = "linking"  -> {"ms"}
                   [] place = "filed"    -> {"exprs", "expressions"}
                   [] place = "next"     -> {"extension", "bindings"}
                   [] place = "returned" -> {"all_exprs", "objects"}
                   [] OTHER -> {}

\* Where only the number of items matters, this is one.
Item == CHOOSE d \in Data : TRUE

\* The compiler is at a place, with nothing left there that is out of scope,
\* and goes on to another one or stays.
At(place) == at = place /\ \A h \in Locals(place) : held[h] = nil
Go(place) == at' = place /\ UNCHANGED <<sizes, file, rounds>>
Stay      == UNCHANGED control

Drop ==
    /\ \E h \in Locals(at) : held[h] # nil
    /\ Clear(CHOOSE h \in Locals(at) : held[h] # nil)
    /\ Stay

\* The next one of several files, or, after the last one, the next place.
NextFile(files, place, next) ==
    /\ IF file < files THEN file' = file + 1 /\ at' = place ELSE file' = 1 /\ at' = next
    /\ UNCHANGED <<vars, sizes, rounds>>

-----------------------------------------------------------------------------
\* main: a list of the static bindings.
BindInterface ==
    /\ At("main")
    /\ IF length(held["bndgs"]) < MaxSyms
       THEN prepend(Item, "bndgs") /\ Stay
       ELSE Go("read") /\ UNCHANGED vars

\* read_expressions, called by evaluate_files and by compile_files.
AllRead == length(held["expressions"]) = sizes[file]
ReadExpressions ==
    /\ At("read") \/ At("reread")
    /\ length(held["expressions"]) < sizes[file]
    /\ append(Item, "expressions")
    /\ Stay

\* evaluate_files: the expressions of the file follow those of the others.
AppendExpressions ==
    \/ At("read") /\ AllRead /\ append_list("all_exprs", "expressions") /\ Go("appended")
    \/ At("appended") /\ NextFile(Len(file_exprss), "read", "load")

\* An object file, or what has been made of a metaprogram, has been loaded.
LoadObject ==
    /\ At("load") \/ At("thunks")
    /\ append(Item, "objects")
    /\ Go(IF at = "load" THEN "given" ELSE "made")

\* immutable_bindings: a list of the symbols of the object.
GiveSymbol ==
    /\ At("given") \/ At("made")
    /\ length(held["syms"]) < MaxSyms
    /\ \E d \in Data : prepend(d, "syms")
    /\ Stay

\* The bindings go on with the symbols of the object.
AppendBindings ==
    /\ At("given") \/ At("made")
    /\ append_list("bndgs", "syms")
    /\ at' = "linked"
    /\ rounds' = IF at = "made" THEN rounds + 1 ELSE rounds
    /\ UNCHANGED <<sizes, file>>
Linked ==
    /\ At("linked")
    /\ IF rounds = 0 THEN NextFile(Objects, "load", "thunks") ELSE Go("try") /\ UNCHANGED vars

\* generate_metaprogram: thunks for some of the expressions.
AppendThunk ==
    /\ At("thunks")
    /\ length(held["metaprogram"]) < length(held["all_exprs"])
    /\ append(Item, "metaprogram")
    /\ Stay

\* try_generate_metas gets the list of bindings and gives back one of new
\* expressions, of which there are at most as many as there were old ones.
TryGenerateMetas ==
    \/ At("try") /\ Assign("bindings", "bndgs") /\ Go("metas")
    \/ /\ At("metas") /\ rounds < MaxRounds
       /\ length(held["extension"]) < length(held["all_exprs"])
       /\ prepend(Item, "extension")
       /\ Stay
    \/ At("metas") /\ Assign("all_exprs", "extension") /\ Go("next")
    \/ At("next") /\ Go(IF held["all_exprs"] = nil THEN "returned" ELSE "thunks") /\ UNCHANGED vars
    \/ At("returned") /\ Go("reread") /\ UNCHANGED vars

\* load_program_and_mutate, called by a thunk: the names that a body refers to
\* must be among the bindings.
LinkBody ==
    \/ At("metas") /\ (\E d \in Data : lst(d, "ms", "ms")) /\ Go("body")
    \/ At("body") /\ not_subset("ms", "bindings") /\ Go("subset")
    \/ At("subset") /\ Go(IF found = <<>> THEN "linking" ELSE "error") /\ UNCHANGED vars
    \/ At("linking") /\ Go("metas") /\ UNCHANGED vars

\* compile_files: every expression of the file, preprocessed, comes before
\* those of all files and after those of its own one.
GenerateMetas ==
    \/ /\ At("reread") /\ AllRead /\ sizes[file] > 0
       /\ prepend(Item, "all_exprs")
       /\ Go("generated")
    \/ At("generated") /\ append(Items(held["all_exprs"])[1], "exprs") /\ Go("kept")
    \/ /\ At("kept") /\ length(held["exprs"]) < length(held["expressions"])
       /\ prepend(Item, "all_exprs")
       /\ Go("generated")
    \/ /\ (At("reread") /\ AllRead) \/ At("kept")
       /\ length(held["exprs"]) = length(held["expressions"])
       /\ Assign(file_exprss[file], "exprs") /\ Go("filed")
    \/ At("filed") /\ NextFile(Len(file_exprss), "reread", "infer")

\* infer_types: construct_sccs prepends the components to a list, which is
\* turned around; here, each expression is one.
InferTypes ==
    \/ /\ At("infer") /\ length(held["sccs"]) < length(held["all_exprs"])
       /\ prepend(Item, "sccs")
       /\ Stay
    \/ /\ At("infer") /\ length(held["sccs"]) = length(held["all_exprs"])
       /\ reverse("sccs", "order")
       /\ Go("done")

-----------------------------------------------------------------------------
FilesInit ==
    /\ Init
    /\ sizes \in [DOMAIN file_exprss -> 0 .. MaxExprs]
    /\ at = "main" /\ file = 1 /\ rounds = 0

FilesNext ==
    \/ Drop \/ BindInterface \/ ReadExpressions \/ AppendExpressions
    \/ LoadObject \/ GiveSymbol \/ AppendBindings \/ Linked
    \/ AppendThunk \/ TryGenerateMetas \/ LinkBody \/ GenerateMetas \/ InferTypes

FilesSpec == FilesInit /\ [][FilesNext]_<<vars, control>>
=============================================================================
