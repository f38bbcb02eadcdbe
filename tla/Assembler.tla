------------------------------ MODULE Assembler ------------------------------
(***************************************************************************)
(* write_elf of bootstrap/x86_64_assembler.c: a list of instructions and   *)
(* the bindings they refer to become an object file.  The space for all    *)
(* parts of the file is measured beforehand, symbols are numbered before   *)
(* the code that gives them their values is assembled, and the section     *)
(* headers say where the parts are before these are written.               *)
(***************************************************************************)
EXTENDS Encoding

CONSTANTS
    Programs  \* what write_elf is given: records with the fields asms,
              \* undefined, statics and bindings (see ProgramsAssumption)

NULL == <<>>  \* the name of what has no name
NUL  == "NUL"  \* the character that ends a string

\* The values of the eight bytes of a literal, and of those that an instruction
\* has room for: the processor extends four bytes with their sign.
IsLiteral(v)  == v.type = "literal" /\ v.bytes \in [1 .. 8 -> 0 .. 255]
IsNarrow(v)   == IsLiteral(v) /\ v.bytes = SignExtend(SubSeq(v.bytes, 1, 4))

\* The instructions that the generator makes, with their arguments.
IsInstruction(n) ==
    LET a == n.arguments
        Reg(i) == a[i] \in 0 .. 15
    IN  CASE n.op \in {"LEAQ_MDB_TO_REG", "MOVQ_MDB_TO_REG"} -> IsNarrow(a[1]) /\ Reg(2) /\ Reg(3)
          [] n.op = "MOVQ_REG_TO_MDB" -> Reg(1) /\ IsNarrow(a[2]) /\ Reg(3)
          [] n.op \in {"MOVQ_REG_TO_REG", "ORQ_REG_TO_REG"} -> Reg(1) /\ Reg(2)
          [] n.op \in {"SUBQ_IMM_TO_REG", "ADDQ_IMM_TO_REG"} -> IsNarrow(a[1]) /\ Reg(2)
          [] n.op = "MOVQ_IMM_TO_REG" ->
               (IsLiteral(a[1]) \/ a[1].type \in {"symbol", "LNKR_ADD_OFF_TO_REF"}) /\ Reg(2)
          [] n.op \in {"PUSHQ_REG", "POPQ_REG", "JMP_TO_REG", "CALL_REG"} -> Reg(1)
          [] n.op \in {"JMP_REL", "JE_REL"} -> a[1].type = "LNKR_SUB_RIP_TO_REF"
          [] OTHER -> n.op \in {"LABEL", "LEAVE", "RET"}

BindingOf(n) == n.arguments[1].binding

IsSeq(s) == s \in Seq(Range(s))

\* asms are instructions; undefined and statics are sequences of bindings, and
\* bindings gives each of them, and each label, its name (a sequence of
\* characters), size, type, scope and state.  link_symbols makes undefined
\* bindings global, all others are defined (make_binding_aug), and labels are
\* not in the frame that layout_frames collects static bindings from.
ASSUME ProgramsAssumption ==
    \A p \in Programs :
        LET Bound(b) == /\ b \in DOMAIN p.bindings
                        /\ p.bindings[b].scope \in {"local_scope", "global_scope"}
                        /\ p.bindings[b].state \in {"defined_state", "undefined_state"}
                        /\ p.bindings[b].size \in Nat
                        /\ IsSeq(p.bindings[b].name)
        IN  /\ IsSeq(p.asms) /\ IsSeq(p.statics) /\ IsSeq(p.undefined)
            /\ \A k \in 1 .. Len(p.asms) : IsInstruction(p.asms[k])
            /\ \A k \in 1 .. Len(p.asms) :
                 p.asms[k].op = "LABEL" =>
                     /\ Bound(BindingOf(p.asms[k]))
                     /\ \A j \in 1 .. Len(p.statics) : p.statics[j] # BindingOf(p.asms[k])
            /\ \A k \in 1 .. Len(p.statics) :
                 Bound(p.statics[k]) /\ p.bindings[p.statics[k]].state = "defined_state"
            /\ \A k \in 1 .. Len(p.undefined) :
                 /\ Bound(p.undefined[k])
                 /\ p.bindings[p.undefined[k]].scope = "global_scope"
                 /\ p.bindings[p.undefined[k]].state = "undefined_state"

VARIABLES
    program,    \* the arguments of write_elf
    phase,      \* the loop that write_elf is in
    cursor,     \* how many steps of the loop are done
    syms,       \* the symbol table; its first entry is number 0
    strtab,     \* the characters of the string table
    bss_ptr,    \* how much of .bss is taken
    local_symbol_count,
    context,    \* the number of the symbol of each binding
    offset,     \* binding_aug.offset of each binding
    text,       \* the code so far
    relas,      \* the relocation entries so far
    starts,     \* history: where the code of each instruction starts
    headers,    \* the section headers
    image       \* the parts of the file, in the order they are written

vars == <<program, phase, cursor, syms, strtab, bss_ptr, local_symbol_count, context, offset,
          text, relas, starts, headers, image>>

-----------------------------------------------------------------------------
(* Sizes.                                                                   *)

MAX_INSTR_LEN    == 15
MAX_INSTR_FIELDS == 2
ALIGNMENT        == 8
WORD_SIZE        == 8
SH_COUNT         == 7
Elf64_Ehdr       == 64
Elf64_Shdr       == 64
Elf64_Sym        == 24
Elf64_Rela       == 24

pad_size(n, nearest) == n + (IF n % nearest = 0 THEN 0 ELSE nearest - (n % nearest))

\* The names of SHSTRTAB, their lengths and where they are in it.
SectionNames == <<".shstrtab", ".text", ".strtab", ".symtab", ".bss", ".rela.text">>
NameLength   == <<9, 5, 7, 7, 4, 10>>
NamePlace    == <<1, 11, 17, 25, 33, 38>>
SHSTRTAB_LEN == 49

Binding(b) == program.bindings[b]
IsLabel(n) == n.op = "LABEL"
Labels     == {BindingOf(program.asms[i]) : i \in {j \in 1 .. Len(program.asms) : IsLabel(program.asms[j])}}

NameSize(b) == IF Binding(b).name = NULL THEN 0 ELSE Len(Binding(b).name) + 1

\* The sums of the first 0, 1, 2 ... n values of f.
Sums(n, f) == LET upTo[i \in 0 .. n] == IF i = 0 THEN 0 ELSE upTo[i - 1] + f[i] IN upTo
Total(n, f) == Sums(n, f)[n]

\* What each element of a list adds to a table of names or of symbols.
NameSizes(bs)    == [i \in 1 .. Len(bs) |-> NameSize(bs[i])]
LabelNameSizes   == [i \in 1 .. Len(program.asms) |->
                       IF IsLabel(program.asms[i]) THEN NameSize(BindingOf(program.asms[i])) ELSE 0]
LabelCounts      == [i \in 1 .. Len(program.asms) |-> IF IsLabel(program.asms[i]) THEN 1 ELSE 0]
TotalNames(bs)   == Total(Len(bs), NameSizes(bs))

\* Mutant: the names of the labels are forgotten.
strtab_without_labels == 1 + TotalNames(program.undefined) + TotalNames(program.statics)

measure_strtab == 1 + TotalNames(program.undefined) + TotalNames(program.statics)
                    + Total(Len(program.asms), LabelNameSizes)

measure_symtab == 1 + Len(program.undefined) + Len(program.statics)
                    + Total(Len(program.asms), LabelCounts)

max_text_sec_len == pad_size(MAX_INSTR_LEN * Len(program.asms), ALIGNMENT)
max_rela_sec_len == MAX_INSTR_FIELDS * Len(program.asms) * Elf64_Rela

max_elf_size ==
    Elf64_Ehdr + Elf64_Shdr * SH_COUNT + pad_size(SHSTRTAB_LEN, ALIGNMENT) + max_text_sec_len
        + pad_size(measure_strtab, ALIGNMENT) + Elf64_Sym * measure_symtab + max_rela_sec_len

-----------------------------------------------------------------------------
\* The loops that give bindings their symbols, by what they go through.
Loops == <<"local statics", "local labels", "global statics", "undefined", "global labels">>

Symbol_(name, value, size, bind, shndx) ==
    [name |-> name, value |-> value, size |-> size, bind |-> bind, shndx |-> shndx]

Init ==
    /\ program \in Programs
    /\ phase = Loops[1]
    /\ cursor = 0
    /\ syms = <<Symbol_(0, 0, 0, "STB_LOCAL", 0)>>
    /\ strtab = <<NUL>>
    /\ bss_ptr = 0
    /\ local_symbol_count = 0
    /\ context = [b \in {} |-> 0]
    /\ offset = [b \in {} |-> 0]
    /\ text = <<>>
    /\ relas = <<>>
    /\ starts = <<>>
    /\ headers = <<>>
    /\ image = <<[part |-> "ehdr", at |-> 0, size |-> Elf64_Ehdr]>>

IsLocal(b)  == Binding(b).scope = "local_scope"
IsGlobal(b) == Binding(b).scope = "global_scope"

\* The field of x becomes v, for the bindings that have it and for x.
Assign(f, x, v) == [y \in DOMAIN f \union {x} |-> IF y = x THEN v ELSE f[y]]

\* The lists that the five loops go through, and what they pick from them.
ListOf(k) == IF k \in {1, 3} THEN program.statics
             ELSE IF k = 4 THEN program.undefined ELSE program.asms

BindingAt(k, i) == IF k \in {2, 5} THEN BindingOf(ListOf(k)[i]) ELSE ListOf(k)[i]

InLoop(k, i) ==
    LET b == BindingAt(k, i)
    IN  CASE k = 1 -> IsLocal(b)
          [] k = 2 -> IsLabel(ListOf(k)[i]) /\ IsLocal(b)
          [] k = 3 -> IsGlobal(b) /\ Binding(b).state = "defined_state"
          [] k = 4 -> IsGlobal(b) /\ Binding(b).state = "undefined_state"
          [] k = 5 -> IsLabel(ListOf(k)[i]) /\ IsGlobal(b)

IsStatics(k) == k \in {1, 3}
SectionOf(k) == IF IsStatics(k) THEN 5 ELSE IF k = 4 THEN 0 ELSE 2

\* Mutant: every static takes one word.
bss_word(size) == WORD_SIZE

bss_size(size) == pad_size(size, WORD_SIZE)

\* One step of the k-th loop that writes a symbol, and one that does not.
write_symbol(k) ==
    /\ phase = Loops[k]
    /\ cursor < Len(ListOf(k))
    /\ InLoop(k, cursor + 1)
    /\ LET b == BindingAt(k, cursor + 1)
           named == Binding(b).name # NULL
       IN  /\ syms' = Append(syms, Symbol_(IF named THEN Len(strtab) ELSE 0,
                                           IF IsStatics(k) THEN bss_ptr ELSE 0,
                                           IF IsStatics(k) THEN Binding(b).size ELSE 0,
                                           IF k <= 2 THEN "STB_LOCAL" ELSE "STB_GLOBAL",
                                           SectionOf(k)))
           /\ strtab' = IF named THEN strtab \o Append(Binding(b).name, NUL) ELSE strtab
           /\ bss_ptr' = IF IsStatics(k) THEN bss_ptr + bss_size(Binding(b).size) ELSE bss_ptr
           /\ offset' = IF IsStatics(k) THEN Assign(offset, b, bss_ptr) ELSE offset
           /\ context' = Assign(context, b, Len(syms))
    /\ cursor' = cursor + 1
    /\ UNCHANGED <<program, phase, local_symbol_count, text, relas, starts, headers, image>>

pass_over(k) ==
    /\ phase = Loops[k]
    /\ cursor < Len(ListOf(k))
    /\ ~InLoop(k, cursor + 1)
    /\ cursor' = cursor + 1
    /\ UNCHANGED <<program, phase, syms, strtab, bss_ptr, local_symbol_count, context, offset, text,
                   relas, starts, headers, image>>

end_symbols(k) ==
    /\ phase = Loops[k]
    /\ cursor = Len(ListOf(k))
    /\ phase' = IF k = 5 THEN "assemble" ELSE Loops[k + 1]
    /\ cursor' = 0
    /\ local_symbol_count' = IF k = 2 THEN Len(syms) ELSE local_symbol_count
    /\ UNCHANGED <<program, syms, strtab, bss_ptr, context, offset, text, relas, starts, headers,
                   image>>

\* One step of the loop of assemble.  A label has the position it stands at.
assemble ==
    /\ phase = "assemble"
    /\ cursor < Len(program.asms)
    /\ LET n == program.asms[cursor + 1]
           b == BindingOf(n)
           field == StaticField(n)
       IN  IF n.op = "LABEL"
           THEN /\ offset' = Assign(offset, b, Len(text))
                /\ syms' = [syms EXCEPT ![context[b] + 1].value = Len(text)]
                /\ UNCHANGED <<text, relas>>
           ELSE /\ text' = text \o Encode(n)
                /\ relas' = relas \o static_value_relas(field.value, field.bytes,
                                                        Len(text) + Len(Opcodes(n)), context)
                /\ UNCHANGED <<offset, syms>>
    /\ starts' = Append(starts, Len(text))
    /\ cursor' = cursor + 1
    /\ UNCHANGED <<program, phase, strtab, bss_ptr, local_symbol_count, context, headers, image>>

end_assemble ==
    /\ phase = "assemble"
    /\ cursor = Len(program.asms)
    /\ phase' = "headers"
    /\ UNCHANGED <<program, cursor, syms, strtab, bss_ptr, local_symbol_count, context, offset,
                   text, relas, starts, headers, image>>

Shdr(name, type, at, size, link, info) ==
    [name |-> name, type |-> type, offset |-> at, size |-> size, link |-> link, info |-> info]

\* The next part of the file.
pos == image[Len(image)].at + image[Len(image)].size
Write(part, size) == image' = Append(image, [part |-> part, at |-> pos, size |-> size])

\* The names and places of the sections are computed one from the other.
write_headers ==
    /\ phase = "headers"
    /\ LET shstrtab_name == 1
           text_name     == shstrtab_name + NameLength[1] + 1
           strtab_name   == text_name + NameLength[2] + 1
           symtab_name   == strtab_name + NameLength[3] + 1
           bss_name      == symtab_name + NameLength[4] + 1
           rela_name     == bss_name + NameLength[5] + 1
           shstrtab_at   == Elf64_Ehdr + SH_COUNT * Elf64_Shdr
           text_at       == shstrtab_at + pad_size(SHSTRTAB_LEN, ALIGNMENT)
           strtab_at     == text_at + max_text_sec_len
           symtab_at     == strtab_at + pad_size(measure_strtab, ALIGNMENT)
           bss_at        == symtab_at + Elf64_Sym * measure_symtab
       IN  headers' = <<Shdr(shstrtab_name, "SHT_STRTAB", shstrtab_at, SHSTRTAB_LEN, 0, 0),
                        Shdr(text_name, "SHT_PROGBITS", text_at, Len(text), 0, 0),
                        Shdr(strtab_name, "SHT_STRTAB", strtab_at, measure_strtab, 0, 0),
                        Shdr(symtab_name, "SHT_SYMTAB", symtab_at, Elf64_Sym * measure_symtab, 3,
                             local_symbol_count),
                        Shdr(bss_name, "SHT_NOBITS", bss_at, bss_ptr, 0, 0),
                        Shdr(rela_name, "SHT_RELA", bss_at, Elf64_Rela * Len(relas), 4, 2)>>
    /\ Write("shdrs", SH_COUNT * Elf64_Shdr)
    /\ phase' = "sections"
    /\ cursor' = 0
    /\ UNCHANGED <<program, syms, strtab, bss_ptr, local_symbol_count, context, offset, text, relas,
                   starts>>

\* Mutant: the code is written without the space reserved for more.
parts_unpadded ==
    <<[part |-> ".shstrtab", size |-> pad_size(SHSTRTAB_LEN, ALIGNMENT)],
      [part |-> ".text", size |-> pad_size(Len(text), ALIGNMENT)],
      [part |-> ".strtab", size |-> pad_size(measure_strtab, ALIGNMENT)],
      [part |-> ".symtab", size |-> Elf64_Sym * measure_symtab],
      [part |-> ".rela.text", size |-> Elf64_Rela * Len(relas)]>>

\* What is written after the headers.
Parts ==
    <<[part |-> ".shstrtab", size |-> pad_size(SHSTRTAB_LEN, ALIGNMENT)],
      [part |-> ".text", size |-> max_text_sec_len],
      [part |-> ".strtab", size |-> pad_size(measure_strtab, ALIGNMENT)],
      [part |-> ".symtab", size |-> Elf64_Sym * measure_symtab],
      [part |-> ".rela.text", size |-> Elf64_Rela * Len(relas)]>>

write_section ==
    /\ phase = "sections"
    /\ cursor < Len(Parts)
    /\ Write(Parts[cursor + 1].part, Parts[cursor + 1].size)
    /\ cursor' = cursor + 1
    /\ phase' = IF cursor' = Len(Parts) THEN "written" ELSE phase
    /\ UNCHANGED <<program, syms, strtab, bss_ptr, local_symbol_count, context, offset, text, relas,
                   starts, headers>>

Next ==
    \/ \E k \in 1 .. 5 : write_symbol(k) \/ pass_over(k) \/ end_symbols(k)
    \/ assemble
    \/ end_assemble
    \/ write_headers
    \/ write_section

Spec == Init /\ [][Next]_vars

-----------------------------------------------------------------------------
(* Correctness.                                                             *)

\* What the processor has to do at an instruction whose first byte is code[at].
Meaning(n, at) ==
    LET a == n.arguments
        Does(op, dst, src) == Is(op, dst, src, Len(Encode(n)))
        field == Relative(at + Len(Opcodes(n)))
        Value(v, size) == IF v.type = "literal" THEN v.bytes ELSE [i \in 1 .. size |-> 0]
    IN  CASE n.op = "LEAQ_MDB_TO_REG" -> Does("lea", Register(a[3]), Memory(a[2], a[1].bytes))
          [] n.op = "MOVQ_REG_TO_MDB" -> Does("mov", Memory(a[3], a[2].bytes), Register(a[1]))
          [] n.op = "MOVQ_MDB_TO_REG" -> Does("mov", Register(a[3]), Memory(a[2], a[1].bytes))
          [] n.op = "MOVQ_REG_TO_REG" -> Does("mov", Register(a[2]), Register(a[1]))
          [] n.op = "ORQ_REG_TO_REG"  -> Does("or", Register(a[2]), Register(a[1]))
          [] n.op = "SUBQ_IMM_TO_REG" -> Does("sub", Register(a[2]), a[1].bytes)
          [] n.op = "ADDQ_IMM_TO_REG" -> Does("add", Register(a[2]), a[1].bytes)
          [] n.op = "MOVQ_IMM_TO_REG" -> Does("mov", Register(a[2]), Value(a[1], 8))
          [] n.op = "PUSHQ_REG"  -> Does("push", Register(a[1]), <<>>)
          [] n.op = "POPQ_REG"   -> Does("pop", Register(a[1]), <<>>)
          [] n.op = "JMP_TO_REG" -> Does("jmp", Register(a[1]), <<>>)
          [] n.op = "CALL_REG"   -> Does("call", Register(a[1]), <<>>)
          [] n.op = "LEAVE"      -> Does("leave", <<>>, <<>>)
          [] n.op = "RET"        -> Does("ret", <<>>, <<>>)
          [] n.op = "JMP_REL"    -> Does("jmp", field, <<>>)
          [] n.op = "JE_REL"     -> Does("je", field, <<>>)

\* Once the code is assembled, the processor that starts at its first byte
\* finds the instructions of the program one after the other, each with the
\* registers, displacement and immediate value that it was given.
DecodesBack ==
    phase = "headers" =>
        \A k \in DOMAIN program.asms :
            LET n == program.asms[k]
                found == Decode(text, starts[k] + 1)
                end == IF k = Len(program.asms) THEN Len(text) ELSE starts[k + 1]
            IN  IF n.op = "LABEL" THEN end = starts[k]
                ELSE end = starts[k] + found.length /\ found = Meaning(n, starts[k] + 1)

\* Nothing is written behind the space that was measured for it: names,
\* symbols, code, relocation entries and the file itself.  The tables of names
\* and symbols are used up, as the file has them in their measured size.
FitsReserved ==
    /\ Len(strtab) <= measure_strtab
    /\ Len(syms) <= measure_symtab
    /\ Len(text) <= max_text_sec_len
    /\ Elf64_Rela * Len(relas) <= max_rela_sec_len
    /\ pos <= max_elf_size
    /\ phase = "assemble" => Len(strtab) = measure_strtab /\ Len(syms) = measure_symtab

\* The characters of the string that starts at place i of the string table.
StringAt(i) == LET end == Min({j \in DOMAIN strtab : j > i /\ strtab[j] = NUL})
               IN  SubSeq(strtab, i + 1, end - 1)

\* The words that two statics take in .bss do not overlap, and none lies
\* behind the end of the section.
StaticsApart ==
    phase = "written" =>
        \A b \in Range(program.statics) :
            /\ offset[b] % WORD_SIZE = 0
            /\ offset[b] + Binding(b).size <= headers[5].size
            /\ \A c \in Range(program.statics) \ {b} :
                 offset[b] + Binding(b).size <= offset[c] \/ offset[c] + Binding(c).size <= offset[b]

\* Whoever reads the file finds the headers and every section where the headers
\* say, under its name, and a section that is in the file at all lies within its
\* own part of it.
SectionsFound ==
    phase = "written" =>
        /\ image[2].part = "shdrs" /\ image[2].at = Elf64_Ehdr
        /\ \A n \in DOMAIN headers :
             /\ headers[n].name = NamePlace[n]
             /\ headers[n].type # "SHT_NOBITS" =>
                  \E k \in DOMAIN image :
                      /\ image[k].part = SectionNames[n]
                      /\ headers[n].offset = image[k].at
                      /\ headers[n].size <= image[k].size
=============================================================================
