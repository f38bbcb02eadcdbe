------------------------------ MODULE MCLoader -------------------------------
(***************************************************************************)
(* Files with one relocation entry of every type and kind, on a symbol of  *)
(* every sort.  A byte has two bits here: the address 700 does not fit     *)
(* into a field of four bytes.                                             *)
(***************************************************************************)
EXTENDS Loader

Symbol(name, bind, shndx, value) ==
    [name |-> name, bind |-> bind, shndx |-> shndx, value |-> value, size |-> 5]

MCSyms ==
    [i \in 0 .. 5 |->
        CASE i = 0 -> Symbol("", STB_LOCAL, SHN_UNDEF, 0)
          [] i = 1 -> Symbol("f", STB_GLOBAL, "text", 3)
          [] i = 2 -> Symbol("g", STB_GLOBAL, SHN_UNDEF, 0)
          [] i = 3 -> Symbol("h", STB_WEAK, SHN_COMMON, 8)
          [] i = 4 -> Symbol("g", STB_LOCAL, "bss", 1)
          [] i = 5 -> Symbol("a", STB_GLOBAL, SHN_ABS, 7)]

Rela(type, kind, sym, addend) ==
    [type |-> type, sym |-> sym, section |-> "text", offset |-> 9, kind |-> kind,
     addend |-> IF kind = "SHT_RELA" THEN addend ELSE 0,
     content |-> IF kind = "SHT_RELA" THEN 0 ELSE addend % Modulus[Bytes(type)]]

MCFiles ==
    {[syms |-> MCSyms, relas |-> <<Rela(t, k, s, a)>>] :
        t \in RelocationTypes, s \in 0 .. 5, k \in {"SHT_RELA", "SHT_REL"}, a \in {-4, 2}}

MCSections == {"text", "bss"}
MCBases    == {100, 700}
MCUpdates  == [name : {"g", "h"}, address : {50, 800}] \union {[name |-> "f", address |-> 90]}
MCModulus  == [n \in {1, 2, 4, 8} |-> 2 ^ (2 * n)]
=============================================================================
