------------------------------ MODULE Generator ------------------------------
(***************************************************************************)
(* The code generator of bootstrap/x86_64_generator.c and the resolution   *)
(* of labels by bootstrap/x86_64_assembler.c: from the terms of a program  *)
(* to a sequence of instructions.                                          *)
(*                                                                         *)
(* Offsets and sizes are counted in words of WORD_SIZE bytes.  Code,       *)
(* statics, the stack and the functions of other objects have addresses    *)
(* of their own; small numbers are left for what programs compute with.    *)
(***************************************************************************)
EXTENDS Analysis, FiniteSets

StaticBase == 1000
CodeBase   == 2000

\* The functions other object files define, and their addresses.
Externals == <<"get", "set", "subtract", "put", "put8", "callback">>
ExternalBase == 3000
ExternalAddress(n) == ExternalBase + SelectInSeq(Externals, LAMBDA e : e = n)

-----------------------------------------------------------------------------
(* Instructions.  Those with a label are completed by assemble.             *)

MOVQ_MDB_TO_REG(disp, base, reg) ==
    [op |-> "MOVQ_MDB_TO_REG", disp |-> disp, base |-> base, reg |-> reg]
MOVQ_REG_TO_MDB(reg, disp, base) ==
    [op |-> "MOVQ_REG_TO_MDB", disp |-> disp, base |-> base, reg |-> reg]
LEAQ_MDB_TO_REG(disp, base, reg) ==
    [op |-> "LEAQ_MDB_TO_REG", disp |-> disp, base |-> base, reg |-> reg]
MOVQ_IMM_TO_REG(imm, reg)   == [op |-> "MOVQ_IMM_TO_REG", imm |-> imm, reg |-> reg]
MOVQ_REF_TO_REG(label, reg) == [op |-> "MOVQ_IMM_TO_REG", label |-> label, reg |-> reg]
MOVQ_REG_TO_REG(src, reg)   == [op |-> "MOVQ_REG_TO_REG", src |-> src, reg |-> reg]
SUBQ_IMM_TO_REG(imm, reg)   == [op |-> "SUBQ_IMM_TO_REG", imm |-> imm, reg |-> reg]
ADDQ_IMM_TO_REG(imm, reg)   == [op |-> "ADDQ_IMM_TO_REG", imm |-> imm, reg |-> reg]
ORQ_REG_TO_REG(src, reg)    == [op |-> "ORQ_REG_TO_REG", src |-> src, reg |-> reg]
PUSHQ_REG(reg)  == [op |-> "PUSHQ_REG", reg |-> reg]
POPQ_REG(reg)   == [op |-> "POPQ_REG", reg |-> reg]
JMP_TO_REG(reg) == [op |-> "JMP_TO_REG", reg |-> reg]
CALL_REG(reg)   == [op |-> "CALL_REG", reg |-> reg]
JMP_REL(label)  == [op |-> "JMP_REL", label |-> label]
JE_REL(label)   == [op |-> "JE_REL", label |-> label]
LABEL(label)    == [op |-> "LABEL", label |-> label]
LEAVE == [op |-> "LEAVE"]
RET   == [op |-> "RET"]

\* A label is a pair of a path and a kind: the entry of a function is
\* <<p, Ref>>, the cont_instr_bndg of a continuation or with is <<p, Instr>>.
Instr     == -2
After     == -3
Alternate == -4
End       == -5

-----------------------------------------------------------------------------
(* Where bindings are stored.                                               *)

CONT_SIZE == 7
CONT_R15  == 6
CONT_R12  == 5
CONT_RBX  == 4
CONT_R13  == 3
CONT_R14  == 2
CONT_CIR  == 1
CONT_RBP  == 0

Slot(b, size) == [binding |-> b, size |-> size]

ParameterSlots(t, p) == [k \in DOMAIN t.parameters |-> Slot(<<p, k>>, 1)]

\* The buffer of a continuation that escapes, then its parameters, where a
\* jump that knows the buffer only will store the arguments.
ContinuationSlots(t, p, escapes) ==
    (IF p \in escapes THEN <<Slot(<<p, Ref>>, CONT_SIZE)>> ELSE <<>>)
        \o ParameterSlots(t, p)

\* The bindings that t appends to the frame, or to the statics, around it.
RECURSIVE layout_frames(_, _, _)
layout_frames(t, p, escapes) ==
    LET subs == Concatenate(Len(Subs(t)),
                            LAMBDA j : layout_frames(Subs(t)[j], Append(p, j), escapes))
    IN  CASE t.type = "function" -> <<>>
          [] t.type \in {"continuation", "with"} ->
               subs \o ContinuationSlots(t, p, escapes)
          [] t.type = "storage" -> Append(subs, Slot(<<p, Ref>>, Len(t.arguments)))
          [] t.type \in {"jump", "invoke"} /\ contains_flag(t) = CONTAINS_WITH ->
               Append(subs, Slot(<<p, Temp>>, Len(t.arguments)))
          [] OTHER -> subs

SizeOf(slots) == FoldLeft(LAMBDA n, s : n + s.size, 0, slots)

\* The frame of the function t, and the offsets of its slots from RBP.
Frame(t, p, escapes) == layout_frames(t.expression, Append(p, 1), escapes)
frame_offset(frame, i) == -SizeOf(SubSeq(frame, i, Len(frame)))

\* Mutant: only the slot appended last is reserved.
current_offset_last(frame) == IF frame = <<>> THEN 0 ELSE frame_offset(frame, Len(frame))

get_current_offset(frame) == IF frame = <<>> THEN 0 ELSE frame_offset(frame, 1)

\* The statics in the order in which write_elf gives them addresses: those of
\* local scope, then the storage expressions at top level.
Statics(exprs, escapes) ==
    LET all    == Concatenate(Len(exprs), LAMBDA i : layout_frames(exprs[i], <<i>>, escapes))
        Global(s) == Len(s.binding[1]) = 1 /\ s.binding[2] = Ref
                        /\ exprs[s.binding[1][1]].type = "storage"
    IN  SelectSeq(all, LAMBDA s : ~Global(s)) \o SelectSeq(all, Global)

Relative(offset) == [type |-> "frame_relative_storage", offset |-> offset]
Absolute(at)     == [type |-> "absolute_storage", offset |-> at]
TopRelative      == [type |-> "top_relative_storage", offset |-> 0]
Nil              == [type |-> "nil_storage"]
Parameter(k)     == Relative(k + 1)

\* The storage of every binding that has one.
Places(exprs, nodes, escapes) ==
    LET functions == {p \in DOMAIN nodes : nodes[p].type = "function"}
        calls     == {p \in DOMAIN nodes : nodes[p].type \in {"jump", "invoke"}}
        statics   == Statics(exprs, escapes)
    IN  AsFunction(
            UNION { {<< <<p, k>>, Parameter(k) >> : k \in DOMAIN nodes[p].parameters} :
                    p \in functions }
            \union
            UNION { LET frame == Frame(nodes[p], p, escapes)
                    IN  {<<frame[i].binding, Relative(frame_offset(frame, i))>> :
                         i \in DOMAIN frame} : p \in functions }
            \union
            {<<statics[i].binding, Absolute(StaticBase + SizeOf(SubSeq(statics, 1, i - 1)))>> :
                i \in DOMAIN statics}
            \union
            {<< <<p, Temp>>, IF contains_flag(nodes[p]) = CONTAINS_JUMP THEN Nil
                             ELSE TopRelative >> :
                p \in {q \in calls : contains_flag(nodes[q]) # CONTAINS_WITH}})

-----------------------------------------------------------------------------
(* Access to storage.                                                       *)

make_load(place, offset, dest, scratch) ==
    CASE place.type = "frame_relative_storage" ->
           <<MOVQ_MDB_TO_REG(place.offset + offset, "RBP", dest)>>
      [] place.type = "absolute_storage" ->
           <<MOVQ_IMM_TO_REG(place.offset + offset, scratch),
             MOVQ_MDB_TO_REG(0, scratch, dest)>>
      [] place.type = "top_relative_storage" ->
           <<MOVQ_MDB_TO_REG(place.offset + offset, "RSP", dest)>>
      [] place.type = "nil_storage" -> <<>>

make_store(src, place, offset, scratch) ==
    CASE place.type = "frame_relative_storage" ->
           <<MOVQ_REG_TO_MDB(src, place.offset + offset, "RBP")>>
      [] place.type = "absolute_storage" ->
           <<MOVQ_IMM_TO_REG(place.offset + offset, scratch),
             MOVQ_REG_TO_MDB(src, 0, scratch)>>
      [] place.type = "top_relative_storage" ->
           <<MOVQ_REG_TO_MDB(src, place.offset + offset, "RSP")>>
      [] place.type = "nil_storage" -> <<>>

make_load_address(place, dest) ==
    CASE place.type = "frame_relative_storage" ->
           <<LEAQ_MDB_TO_REG(place.offset, "RBP", dest)>>
      [] place.type = "absolute_storage" -> <<MOVQ_IMM_TO_REG(place.offset, dest)>>
      [] place.type = "top_relative_storage" ->
           <<LEAQ_MDB_TO_REG(place.offset, "RSP", dest)>>
      [] place.type = "nil_storage" -> <<>>

-----------------------------------------------------------------------------
(* The instructions of an expression t at path p.  What the passes of       *)
(* Analysis found out about the program is in g.  sub[j] below is the code  *)
(* of the j-th sub-expression.                                              *)

\* Mutant: R12 is not saved.
store_continuation_less(t, p, g) ==
    LET place == g.places[<<p, Ref>>]
    IN  make_store("RBX", place, CONT_RBX, "R11") \o make_store("R13", place, CONT_R13, "R11")
        \o make_store("R14", place, CONT_R14, "R11") \o make_store("R15", place, CONT_R15, "R11")
        \o <<MOVQ_REF_TO_REG(<<p, Instr>>, "R10")>>
        \o make_store("R10", place, CONT_CIR, "R11") \o make_store("RBP", place, CONT_RBP, "R11")

make_store_continuation(t, p, g) ==
    LET place == g.places[<<p, Ref>>]
        Store(reg, offset) == make_store(reg, place, offset, "R11")
    IN  Store("RBX", CONT_RBX) \o Store("R12", CONT_R12) \o Store("R13", CONT_R13)
        \o Store("R14", CONT_R14) \o Store("R15", CONT_R15)
        \o <<MOVQ_REF_TO_REG(<<p, Instr>>, "R10")>>
        \o Store("R10", CONT_CIR) \o Store("RBP", CONT_RBP)

cond_push_relative_storage(t, p, g) ==
    IF g.places[<<p, Temp>>].type = "top_relative_storage"
    THEN <<SUBQ_IMM_TO_REG(Len(t.arguments), "RSP")>> ELSE <<>>

cond_pop_relative_storage(t, p, g) ==
    IF g.places[<<p, Temp>>].type = "top_relative_storage"
    THEN <<ADDQ_IMM_TO_REG(Len(t.arguments), "RSP")>> ELSE <<>>

generate_buffer_to_dest(t, p, g, dest, offset) ==
    Concatenate(Len(t.arguments), LAMBDA i :
        make_load(g.places[<<p, Temp>>], i - 1, "RAX", "R10")
            \o <<MOVQ_REG_TO_MDB("RAX", offset + i - 1, dest)>>)

\* The last part of a jump to the continuation whose buffer R11 points to.
restore_continuation ==
    <<MOVQ_MDB_TO_REG(CONT_RBX, "R11", "RBX"), MOVQ_MDB_TO_REG(CONT_R12, "R11", "R12"),
      MOVQ_MDB_TO_REG(CONT_R13, "R11", "R13"), MOVQ_MDB_TO_REG(CONT_R14, "R11", "R14"),
      MOVQ_MDB_TO_REG(CONT_R15, "R11", "R15"), MOVQ_MDB_TO_REG(CONT_CIR, "R11", "R10"),
      MOVQ_MDB_TO_REG(CONT_RBP, "R11", "RBP"), JMP_TO_REG("R10")>>

ArgumentRegisters == <<"RDI", "RSI", "RDX", "RCX", "R8", "R9">>

\* Pop the first six arguments into registers.
pop_arguments(n) ==
    [i \in 1 .. (IF n < 6 THEN n ELSE 6) |-> POPQ_REG(ArgumentRegisters[i])]

\* Mutant: the arguments are pushed in the wrong order.
push_arguments_forward(t, p, g) ==
    Concatenate(Len(t.arguments), LAMBDA i :
        make_load(g.places[<<p, Temp>>], i - 1, "R11", "R10") \o <<PUSHQ_REG("R11")>>)

\* Push the arguments of an invoke that a sub-expression may return to.
push_arguments(t, p, g) ==
    LET n == Len(t.arguments)
    IN  Concatenate(Len(t.arguments), LAMBDA i :
            make_load(g.places[<<p, Temp>>], n - i, "R11", "R10") \o <<PUSHQ_REG("R11")>>)

function_prologue(frame) ==
    <<POPQ_REG("R11")>> \o Reverse([i \in 1 .. 6 |-> PUSHQ_REG(ArgumentRegisters[i])])
    \o <<PUSHQ_REG("R11"), PUSHQ_REG("RBP"), MOVQ_REG_TO_REG("RSP", "RBP"),
         SUBQ_IMM_TO_REG(-get_current_offset(frame), "RSP")>>

function_epilogue ==
    <<LEAVE, POPQ_REG("R11"), ADDQ_IMM_TO_REG(6, "RSP"), PUSHQ_REG("R11"), RET>>

sgenerate_symbols(t, p, g) ==
    LET b == g.bind[p]
    IN  CASE IsUndefined(b) -> <<MOVQ_IMM_TO_REG(ExternalAddress(b[1][2]), "RAX")>>
          [] ~IsUndefined(b) /\ b[2] # Ref -> make_load(g.places[b], 0, "RAX", "R11")
          [] ~IsUndefined(b) /\ b[2] = Ref /\ g.nodes[b[1]].type = "function" ->
               <<MOVQ_REF_TO_REG(b, "RAX")>>
          [] OTHER -> make_load_address(g.places[b], "RAX")

\* Sub-expression i of a storage expression is stored into its i-th word.
sgenerate_storage_expressions(t, p, g, sub) ==
    Concatenate(Len(t.arguments), LAMBDA i :
        sub[i] \o make_store("RAX", g.places[<<p, Ref>>], i - 1, "R11"))
    \o make_load_address(g.places[<<p, Ref>>], "RAX")

\* Mutant: the label of the end comes before the jump to it.
sgenerate_ifs_early(p, sub) ==
    sub[1] \o <<ORQ_REG_TO_REG("RAX", "RAX"), JE_REL(<<p, Alternate>>)>>
    \o sub[2] \o <<LABEL(<<p, End>>), JMP_REL(<<p, End>>), LABEL(<<p, Alternate>>)>>
    \o sub[3]

sgenerate_ifs(p, sub) ==
    sub[1] \o <<ORQ_REG_TO_REG("RAX", "RAX"), JE_REL(<<p, Alternate>>)>>
    \o sub[2] \o <<JMP_REL(<<p, End>>), LABEL(<<p, Alternate>>)>>
    \o sub[3] \o <<LABEL(<<p, End>>)>>

sgenerate_continuations(t, p, g, sub) ==
    (IF p \in g.escapes
     THEN make_load_address(g.places[<<p, Ref>>], "RAX") \o make_store_continuation(t, p, g)
     ELSE <<>>)
    \o <<JMP_REL(<<p, After>>), LABEL(<<p, Instr>>)>> \o sub[1] \o <<LABEL(<<p, After>>)>>

sgenerate_withs(t, p, g, sub) ==
    (IF p \in g.escapes THEN make_store_continuation(t, p, g) ELSE <<>>)
    \o sub[1] \o <<JMP_REL(<<p, End>>), LABEL(<<p, Instr>>)>>
    \o make_load(g.places[<<p, 1>>], 0, "RAX", "R10") \o <<LABEL(<<p, End>>)>>

\* The arguments of a jump or invoke are sub-expressions 2, 3, ...
generate_args_to_buffer(t, p, g, sub) ==
    Concatenate(Len(t.arguments), LAMBDA i :
        sub[i + 1] \o make_store("RAX", g.places[<<p, Temp>>], i - 1, "R10"))

sgenerate_jumps(t, p, g, sub) ==
    LET target == short_circuit(t, p, g.bind, g.nodes)
        Buffered(code) == cond_push_relative_storage(t, p, g)
                            \o generate_args_to_buffer(t, p, g, sub) \o code
                            \o cond_pop_relative_storage(t, p, g)
    IN  IF target # <<>>
        THEN (IF t.reference.type = "continuation" THEN sub[1] ELSE <<>>)
             \o (IF g.nodes[target].parameters = <<>> THEN <<>>
                 ELSE Buffered(make_load_address(g.places[<<target, 1>>], "R11")
                               \o generate_buffer_to_dest(t, p, g, "R11", 0)))
             \o <<JMP_REL(<<target, Instr>>)>>
        ELSE Buffered(sub[1] \o <<MOVQ_REG_TO_REG("RAX", "R11")>>
                      \o generate_buffer_to_dest(t, p, g, "R11", CONT_SIZE))
             \o restore_continuation

sgenerate_functions(t, p, g, sub) ==
    <<MOVQ_REF_TO_REG(<<p, Ref>>, "RAX"), JMP_REL(<<p, After>>), LABEL(<<p, Ref>>)>>
    \o function_prologue(Frame(t, p, g.escapes)) \o sub[1] \o function_epilogue
    \o <<LABEL(<<p, After>>)>>

sgenerate_invokes(t, p, g, sub) ==
    LET n == Len(t.arguments)
    IN  cond_push_relative_storage(t, p, g)
        \o generate_args_to_buffer(t, p, g, sub)
        \o (IF contains_flag(t) = CONTAINS_WITH THEN push_arguments(t, p, g) ELSE <<>>)
        \o sub[1] \o <<MOVQ_REG_TO_REG("RAX", "R11")>>
        \o pop_arguments(n)
        \o <<MOVQ_IMM_TO_REG(0, "RAX"), CALL_REG("R11")>>
        \o (IF n > 6 THEN <<ADDQ_IMM_TO_REG(n - 6, "RSP")>> ELSE <<>>)

RECURSIVE generate_expressions(_, _, _)
generate_expressions(t, p, g) ==
    LET sub == [j \in DOMAIN Subs(t) |-> generate_expressions(Subs(t)[j], Append(p, j), g)]
    IN  CASE t.type = "continuation" -> sgenerate_continuations(t, p, g, sub)
          [] t.type = "with"      -> sgenerate_withs(t, p, g, sub)
          [] t.type = "jump"      -> sgenerate_jumps(t, p, g, sub)
          [] t.type = "symbol"    -> sgenerate_symbols(t, p, g)
          [] t.type = "storage"   -> sgenerate_storage_expressions(t, p, g, sub)
          [] t.type = "if"        -> sgenerate_ifs(p, sub)
          [] t.type = "literal"   -> <<MOVQ_IMM_TO_REG(t.value, "RAX")>>
          [] t.type = "function"  -> sgenerate_functions(t, p, g, sub)
          [] t.type = "invoke"    -> sgenerate_invokes(t, p, g, sub)
          [] t.type = "constrain" -> sub[1]

-----------------------------------------------------------------------------
\* What the passes of compile_program find out before code is generated.
compile_program(exprs) ==
    LET nodes   == Nodes(exprs)
        bind    == Bindings(exprs)
        escapes == UNION {escape_analysis(exprs[i], <<i>>, TRUE, bind, nodes) : i \in DOMAIN exprs}
    IN  [nodes |-> nodes, bind |-> bind, escapes |-> escapes,
         places |-> Places(exprs, nodes, escapes), statics |-> SizeOf(Statics(exprs, escapes))]

generate_program(exprs, g) ==
    Concatenate(Len(exprs), LAMBDA i : generate_expressions(exprs[i], <<i>>, g))

\* The address of a label, which takes no space itself.
AddressOf(label, asms) ==
    LET at == CHOOSE i \in DOMAIN asms : asms[i] = LABEL(label)
    IN  CodeBase + 1 + Cardinality({i \in 1 .. at : asms[i].op # "LABEL"})

\* Every use of a label becomes the address it stands for.
assemble(asms) ==
    LET Resolved(i) ==
            IF "label" \notin DOMAIN i THEN i
            ELSE IF i.op = "MOVQ_IMM_TO_REG" THEN MOVQ_IMM_TO_REG(AddressOf(i.label, asms), i.reg)
            ELSE [op |-> i.op, imm |-> AddressOf(i.label, asms)]
        kept == SelectSeq(asms, LAMBDA i : i.op # "LABEL")
    IN  [n \in DOMAIN kept |-> Resolved(kept[n])]
=============================================================================
