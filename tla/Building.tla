------------------------------ MODULE Building -------------------------------
(***************************************************************************)
(* load_program of bootstrap/compile.c from write_elf on: the object that  *)
(* the assembler has written is read by the loader, relocated at the       *)
(* addresses its sections have, the bindings of the program are told their *)
(* addresses, and the symbols the program does not define get theirs from  *)
(* mutate_bindings, again and again.  Assembler and Loader are composed:   *)
(* the loader reads what the assembler's headers say, and nothing else.    *)
(***************************************************************************)
EXTENDS Assembler

CONSTANTS
    Bases,    \* the addresses that a section may be loaded at
    Updates,  \* the bindings that the loader is told of
    Modulus   \* Modulus[n]: how many values fit into n bytes

VARIABLES pc, file, segs, symbols, offsets, addends, fields, latest  \* the loader's

loader_vars == <<pc, file, segs, symbols, offsets, addends, fields, latest>>
all_vars    == <<vars, loader_vars>>

Loaded == {".text", ".bss"}

Loader == INSTANCE Loader WITH Files <- {}, Sections <- Loaded, syms <- symbols

NotLoaded ==
    /\ pc = "write_elf"
    /\ file = [syms |-> <<>>, relas |-> <<>>]
    /\ segs = [s \in Loaded |-> 0]
    /\ symbols = <<>>
    /\ offsets = <<>>
    /\ addends = <<>>
    /\ fields = <<>>
    /\ latest = {}

BuildingInit == Init /\ NotLoaded

write_elf == Next /\ UNCHANGED loader_vars

\* The section that a symbol's st_shndx stands for.
section_of(shndx) == IF shndx = 0 THEN Loader!SHN_UNDEF ELSE SectionNames[shndx]

\* The symbols and entries that read_object finds in the file.
FileSymbols ==
    [i \in 0 .. headers[4].size \div Elf64_Sym - 1 |->
        [name |-> StringAt(syms[i + 1].name), bind |-> syms[i + 1].bind,
         shndx |-> section_of(syms[i + 1].shndx), value |-> syms[i + 1].value,
         size |-> syms[i + 1].size]]
FileRelas ==
    [r \in 1 .. headers[6].size \div Elf64_Rela |->
        [type |-> relas[r].type, kind |-> "SHT_RELA", sym |-> relas[r].sym,
         section |-> SectionNames[headers[6].info], offset |-> relas[r].offset, addend |-> relas[r].addend, content |-> 0]]

read_object ==
    /\ pc = "write_elf"
    /\ phase = "written"
    /\ pc' = "read_object"
    /\ file' = [syms |-> FileSymbols, relas |-> FileRelas]
    /\ segs' \in [Loaded -> Bases]
    /\ segs'[".text"] # segs'[".bss"]
    /\ symbols' = FileSymbols
    /\ offsets' = [r \in DOMAIN FileRelas |-> FileRelas[r].offset]
    /\ addends' = [r \in DOMAIN FileRelas |-> 0]
    /\ fields' = [r \in DOMAIN FileRelas |-> FileRelas[r].content]
    /\ latest' = {}
    /\ UNCHANGED vars

load == (Loader!offsets_to_addresses \/ Loader!store_addends \/
            (pc = "store_addends" /\ Loader!do_relocations)) /\ UNCHANGED vars

\* Mutant: everything is in the segment of the code.
segment_text(b) == IF b \in DOMAIN offset THEN segs[".text"] ELSE 0

\* The segment that the offset of a binding counts from.
segment(b) ==
    CASE b \in Range(program.statics) /\ Binding(b).type = "absolute_storage"
            /\ Binding(b).state = "defined_state" -> segs[".bss"]
      [] b \in Labels -> segs[".text"]
      [] OTHER -> 0

binding_aug_offsets_to_addresses ==
    /\ pc = "loaded"
    /\ phase = "written"
    /\ phase' = "addresses"
    /\ offset' = [b \in DOMAIN offset |-> offset[b] + segment(b)]
    /\ UNCHANGED <<program, cursor, syms, strtab, bss_ptr, local_symbol_count, context, text, relas,
                   starts, headers, image, loader_vars>>

mutate_bindings ==
    /\ phase = "addresses"
    /\ \/ \E update \in Updates : Loader!mutate_bindings(update)
       \/ pc = "mutate_bindings" /\ Loader!do_relocations
    /\ UNCHANGED vars

BuildingNext ==
    \/ write_elf
    \/ read_object
    \/ load
    \/ binding_aug_offsets_to_addresses
    \/ mutate_bindings

BuildingSpec == BuildingInit /\ [][BuildingNext]_all_vars

-----------------------------------------------------------------------------
(* Correctness.                                                             *)

\* The code is in use: all fields are relocated.
Running == phase = "addresses" /\ pc = "loaded"

\* The address of what a binding names.
AddressOf(b) ==
    IF b \in Range(program.undefined)
    THEN LET known == {u \in latest : u.name = Binding(b).name}
         IN  IF known = {} THEN 0 ELSE (CHOOSE u \in known : TRUE).address
    ELSE offset[b]

\* What the processor finds in the field at place i of the code.
FieldAt(i) == LET at == {r \in DOMAIN fields : offsets[r] = segs[".text"] + i}
              IN  IF at = {} THEN 0 ELSE fields[CHOOSE r \in at : TRUE]

\* The number that the processor takes four bytes for.
Signed(value) == IF value < Modulus[4] \div 2 THEN value ELSE value - Modulus[4]

\* A jump of the running code goes to the instruction that its label stands
\* before, and an instruction that loads the address of a binding loads the
\* address that the compiler has noted for it, or that the most recent
\* binding of the name gives, plus the offset, wherever the sections are: the
\* distance of a jump fits into its four bytes and an address into its eight,
\* nothing is right only up to what a field has no room for.
CodeRefersRight ==
    Running =>
        \A k \in DOMAIN program.asms :
            LET n == program.asms[k]
                at == starts[k] + Len(Opcodes(n))
                end == segs[".text"] + starts[k] + Decode(text, starts[k] + 1).length
                v == StaticField(n).value
            IN  n.op # "LABEL" =>
                CASE v.type = "LNKR_SUB_RIP_TO_REF" ->
                        /\ end + Signed(FieldAt(at)) = AddressOf(v.binding)
                        /\ \E j \in DOMAIN program.asms :
                              /\ program.asms[j] = asm("LABEL", <<use_binding(v.binding)>>)
                              /\ AddressOf(v.binding) = segs[".text"] + starts[j]
                  [] v.type = "symbol" -> FieldAt(at) = AddressOf(v.binding)
                  [] v.type = "LNKR_ADD_OFF_TO_REF" ->
                        FieldAt(at) = AddressOf(v.binding) + v.offset
                  [] OTHER -> TRUE

\* What other objects are told of the program (immutable_bindings) is where
\* its own bindings have their addresses.
ExportsRight ==
    Running =>
        \A b \in DOMAIN context :
            /\ Loader!IsImmutable(symbols[context[b]]) <=>
                  ~IsLocal(b) /\ b \notin Range(program.undefined)
            /\ Loader!IsImmutable(symbols[context[b]]) =>
                  /\ symbols[context[b]].name = Binding(b).name
                  /\ symbols[context[b]].value = AddressOf(b)
=============================================================================
