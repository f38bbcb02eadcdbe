------------------------------- MODULE Objects -------------------------------
(***************************************************************************)
(* The symbol tables of the objects of bootstrap/x86_64_object.c, and how  *)
(* bindings (struct binding, a name and an address) are read from them and *)
(* written into them.                                                      *)
(*                                                                         *)
(* A symbol table is a function on 0 .. n; entry 0 is the mandatory        *)
(* undefined symbol, which no loop over the table looks at.                *)
(***************************************************************************)
EXTENDS Integers, Sequences

SHN_UNDEF  == "SHN_UNDEF"
SHN_COMMON == "SHN_COMMON"
SHN_ABS    == "SHN_ABS"

STB_LOCAL  == "STB_LOCAL"
STB_GLOBAL == "STB_GLOBAL"
STB_WEAK   == "STB_WEAK"

\* A symbol whose address another object has to give.
IsMutable(sym) ==
    /\ sym.shndx \in {SHN_UNDEF, SHN_COMMON}
    /\ sym.bind \in {STB_GLOBAL, STB_WEAK}

\* A symbol whose address this object gives to others.
IsImmutable(sym) ==
    /\ sym.shndx \notin {SHN_UNDEF, SHN_COMMON}
    /\ sym.bind \in {STB_GLOBAL, STB_WEAK}

\* The symbols after one round of the loop over the updates.
mutate_binding(syms, update) ==
    [i \in DOMAIN syms |->
        IF i # 0 /\ syms[i].name = update.name /\ IsMutable(syms[i])
        THEN [syms[i] EXCEPT !.value = update.address] ELSE syms[i]]
=============================================================================
