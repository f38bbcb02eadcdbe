----------------------------- MODULE MCFileLists -----------------------------
(***************************************************************************)
(* Two source files of up to two expressions, an object file, and two      *)
(* rounds: lists are linked to ones that have been linked before.          *)
(***************************************************************************)
EXTENDS FileLists

MCFiles == <<"file 1", "file 2">>
MCHolders == {"bndgs", "expressions", "all_exprs", "objects", "syms", "metaprogram",
              "bindings", "extension", "exprs", "ms", "sccs", "order"} \union Range(MCFiles)
=============================================================================
