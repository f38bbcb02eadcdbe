------------------------------- MODULE Loader --------------------------------
(***************************************************************************)
(* An object file is loaded and its bindings are mutated again and again   *)
(* (load and mutate_bindings of bootstrap/x86_64_object.c): every time,    *)
(* all relocations are done anew, into fields that the relocations before  *)
(* them have already written.                                              *)
(***************************************************************************)
EXTENDS Objects

CONSTANTS
    Files,      \* the object files: records with the fields syms and relas
    Sections,   \* the sections that have an address in memory
    Bases,      \* the addresses that sections may be loaded at
    Updates,    \* the bindings that the loader is told of
    Modulus     \* Modulus[n]: how many values fit into n bytes

RelocationTypes ==
    {"R_X86_64_NONE", "R_X86_64_64", "R_X86_64_PC32", "R_X86_64_GLOB_DAT",
     "R_X86_64_JUMP_SLOT", "R_X86_64_32", "R_X86_64_32S", "R_X86_64_16",
     "R_X86_64_PC16", "R_X86_64_8", "R_X86_64_PC8", "R_X86_64_SIZE32",
     "R_X86_64_SIZE64"}

\* The bytes that a relocation writes.
Bytes(type) ==
    CASE type \in {"R_X86_64_8", "R_X86_64_PC8"} -> 1
      [] type \in {"R_X86_64_16", "R_X86_64_PC16"} -> 2
      [] type \in {"R_X86_64_PC32", "R_X86_64_32", "R_X86_64_32S", "R_X86_64_SIZE32"} -> 4
      [] OTHER -> 8

Symbols ==
    [name : STRING, bind : {STB_LOCAL, STB_GLOBAL, STB_WEAK},
     shndx : Sections \union {SHN_UNDEF, SHN_COMMON, SHN_ABS}, value : Int, size : Int]

\* A relocation entry names the symbol it depends on and the field it writes,
\* by section and offset.  In a section of kind SHT_RELA it holds its addend,
\* and in one of kind SHT_REL the field does.  Content is what the file has in
\* the field.
Relocations ==
    [type : RelocationTypes, kind : {"SHT_RELA", "SHT_REL"}, sym : Nat, section : Sections,
     offset : Int, addend : Int, content : Int]

ASSUME FilesAssumption ==
    \A f \in Files :
        /\ f.syms \in [DOMAIN f.syms -> Symbols]
        /\ f.relas \in [DOMAIN f.relas -> Relocations]
        /\ \A r \in DOMAIN f.relas : f.relas[r].sym \in DOMAIN f.syms

ASSUME NumbersAssumption ==
    /\ Bases \subseteq Int
    /\ Sections \subseteq STRING
    /\ SHN_UNDEF \notin Sections /\ SHN_COMMON \notin Sections /\ SHN_ABS \notin Sections
    /\ \A u \in Updates : u.address \in Int
    /\ Modulus \in [{1, 2, 4, 8} -> Nat \ {0}]
    /\ \A n \in {1, 2, 4, 8} : Modulus[8] % Modulus[n] = 0

VARIABLES
    pc,       \* where load or mutate_bindings is
    file,     \* the object file
    segs,     \* the address of each section
    syms,     \* the symbols, with their current values
    offsets,  \* r_offset of each relocation entry
    addends,  \* the addends put aside by store_addends
    fields,   \* the memory that each relocation entry stands for
    latest    \* history: the updates applied, the most recent one of each name

vars == <<pc, file, segs, syms, offsets, addends, fields, latest>>

Relas == DOMAIN file.relas

\* The sections are in memory; symbols and entries are as in the file.
Init ==
    /\ pc = "read_object"
    /\ file \in Files
    /\ segs \in [Sections -> Bases]
    /\ syms = file.syms
    /\ offsets = [r \in Relas |-> file.relas[r].offset]
    /\ addends = [r \in Relas |-> 0]
    /\ fields = [r \in Relas |-> file.relas[r].content]
    /\ latest = {}

offsets_to_addresses ==
    /\ pc = "read_object"
    /\ pc' = "offsets_to_addresses"
    /\ offsets' = [r \in Relas |-> segs[file.relas[r].section] + offsets[r]]
    /\ syms' = [i \in DOMAIN syms |->
                    [syms[i] EXCEPT !.value =
                        CASE syms[i].shndx = SHN_ABS -> @
                          [] syms[i].shndx \in {SHN_COMMON, SHN_UNDEF} -> 0
                          [] OTHER -> segs[syms[i].shndx] + @]]
    /\ UNCHANGED <<file, segs, addends, fields, latest>>

\* store_addends knows no addend for an entry of this kind.
Unsupported(r) == file.relas[r].kind = "SHT_REL" /\ file.relas[r].type = "R_X86_64_NONE"

store_addends ==
    /\ pc = "offsets_to_addresses"
    /\ IF \E r \in Relas : Unsupported(r)
       THEN pc' = "throw_object" /\ UNCHANGED addends
       ELSE /\ pc' = "store_addends"
            /\ addends' = [r \in Relas |-> IF file.relas[r].kind = "SHT_RELA" THEN file.relas[r].addend
                                           ELSE fields[r]]
    /\ UNCHANGED <<file, segs, syms, offsets, fields, latest>>

\* What a relocation of this type computes: temp, as wide as an address.
Temp(type, sym, addend, place) ==
    (CASE type \in {"R_X86_64_PC32", "R_X86_64_PC16", "R_X86_64_PC8"} ->
            sym.value + addend - place
       [] type \in {"R_X86_64_GLOB_DAT", "R_X86_64_JUMP_SLOT"} -> sym.value
       [] type \in {"R_X86_64_SIZE32", "R_X86_64_SIZE64"} -> sym.size + addend
       [] OTHER -> sym.value + addend) % Modulus[8]

\* Mutant: the addend is read from the field instead of from where it was stored.
relocated_in_place(r) ==
    LET rela == file.relas[r]
    IN  IF rela.type = "R_X86_64_NONE" THEN fields[r]
        ELSE Temp(rela.type, syms[rela.sym],
                  IF rela.kind = "SHT_RELA" THEN addends[r] ELSE fields[r], offsets[r])
                % Modulus[Bytes(rela.type)]

\* The field of entry r after do_relocations: the low bytes of temp.
relocated(r) ==
    LET rela == file.relas[r]
    IN  IF rela.type = "R_X86_64_NONE" THEN fields[r]
        ELSE Temp(rela.type, syms[rela.sym], addends[r], offsets[r])
                % Modulus[Bytes(rela.type)]

do_relocations ==
    /\ pc \in {"store_addends", "loaded", "mutate_bindings"}
    /\ pc' = "loaded"
    /\ fields' = [r \in Relas |-> relocated(r)]
    /\ UNCHANGED <<file, segs, syms, offsets, addends, latest>>

\* One update of the list given to mutate_bindings, which ends in
\* do_relocations.
mutate_bindings(update) ==
    /\ pc \in {"loaded", "mutate_bindings"}
    /\ pc' = "mutate_bindings"
    /\ syms' = mutate_binding(syms, update)
    /\ latest' = {u \in latest : u.name # update.name} \union {update}
    /\ UNCHANGED <<file, segs, offsets, addends, fields>>

Next ==
    \/ offsets_to_addresses
    \/ store_addends
    \/ do_relocations
    \/ \E update \in Updates : mutate_bindings(update)

Spec == Init /\ [][Next]_vars

-----------------------------------------------------------------------------
(* Correctness.                                                             *)

\* Symbols differ from the file in their values only, and a field holds what
\* the file had there or as much of an address as fits into its bytes.
TypeOK ==
    /\ pc \in {"read_object", "offsets_to_addresses", "store_addends", "loaded",
               "mutate_bindings", "throw_object"}
    /\ file \in Files
    /\ segs \in [Sections -> Bases]
    /\ syms \in [DOMAIN file.syms -> Symbols]
    /\ \A i \in DOMAIN syms : syms[i] = [file.syms[i] EXCEPT !.value = syms[i].value]
    /\ offsets \in [Relas -> Int]
    /\ addends \in [Relas -> Int]
    /\ DOMAIN fields = Relas
    /\ \A r \in Relas : \/ fields[r] = file.relas[r].content
                         \/ fields[r] \in 0 .. (Modulus[Bytes(file.relas[r].type)] - 1)
    /\ latest \subseteq Updates

\* The address a symbol of the file stands for.
MeantValue(i) ==
    LET sym == file.syms[i]
    IN  CASE sym.shndx = SHN_ABS -> sym.value
          [] sym.shndx \in Sections -> segs[sym.shndx] + sym.value
          [] OTHER -> IF i # 0 /\ IsMutable(sym) /\ \E u \in latest : u.name = sym.name
                      THEN (CHOOSE u \in latest : u.name = sym.name).address
                      ELSE 0

\* The addend the file gives to an entry.
MeantAddend(r) ==
    IF file.relas[r].kind = "SHT_RELA" THEN file.relas[r].addend ELSE file.relas[r].content

\* What the field of an entry has to be, by the table of the System V ABI.
MeantField(r) ==
    LET rela == file.relas[r]
        S == MeantValue(rela.sym)
        A == MeantAddend(r)
        P == segs[rela.section] + rela.offset
        Z == file.syms[rela.sym].size
        meant == CASE rela.type \in {"R_X86_64_8", "R_X86_64_16", "R_X86_64_32", "R_X86_64_32S",
                                     "R_X86_64_64"} -> S + A
                   [] rela.type \in {"R_X86_64_PC8", "R_X86_64_PC16", "R_X86_64_PC32"} -> S + A - P
                   [] rela.type \in {"R_X86_64_SIZE32", "R_X86_64_SIZE64"} -> Z + A
                   [] OTHER -> S
    IN  IF rela.type = "R_X86_64_NONE" THEN rela.content
        ELSE meant % Modulus[Bytes(rela.type)]

\* Whenever load or mutate_bindings has returned, every relocated field is
\* what the file, the addresses of the sections and the most recent update of
\* each name make it, however often it was relocated before.
FieldsAsMeant ==
    pc = "loaded" => \A r \in Relas : fields[r] = MeantField(r)
=============================================================================
