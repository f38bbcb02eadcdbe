---------------------------- MODULE LoaderProofs -----------------------------
(***************************************************************************)
(* Relocation is right for every object file, every load address and every *)
(* sequence of updates: the inductive invariant of Loader and its proof.   *)
(***************************************************************************)
EXTENDS Loader, TLAPS

\* Until the first relocation the fields are as in the file, so that the
\* addends that store_addends finds in them are the ones of the file.
Unwritten ==
    pc \in {"read_object", "offsets_to_addresses", "store_addends"} =>
        \A r \in Relas : fields[r] = file.relas[r].content

\* Before offsets_to_addresses, offsets are offsets, and afterwards addresses.
OffsetsRight ==
    \A r \in Relas :
        offsets[r] = IF pc = "read_object" THEN file.relas[r].offset
                     ELSE segs[file.relas[r].section] + file.relas[r].offset

\* Before offsets_to_addresses, symbols are as in the file, and afterwards
\* they have the value that the most recent updates give them.
SymsRight ==
    IF pc = "read_object" THEN syms = file.syms
    ELSE \A i \in DOMAIN file.syms : syms[i].value = MeantValue(i)

AddendsRight ==
    pc \in {"store_addends", "loaded", "mutate_bindings"} =>
        \A r \in Relas : addends[r] = MeantAddend(r)

\* A relocation of type R_X86_64_NONE leaves its field alone.
NoneKept ==
    \A r \in Relas : file.relas[r].type = "R_X86_64_NONE" => fields[r] = file.relas[r].content

\* There is one most recent update of a name, and none before the first one.
LatestUnique ==
    /\ \A u, v \in latest : u.name = v.name => u = v
    /\ pc \in {"read_object", "offsets_to_addresses", "store_addends"} => latest = {}

Inv ==
    /\ TypeOK
    /\ Unwritten
    /\ OffsetsRight
    /\ SymsRight
    /\ AddendsRight
    /\ NoneKept
    /\ LatestUnique
    /\ FieldsAsMeant

-----------------------------------------------------------------------------
(* Arithmetic.                                                              *)

\* The remainder is determined by its equation.
LEMMA RemainderUnique ==
    ASSUME NEW m \in Nat \ {0}, NEW q \in Int, NEW r \in 0 .. (m - 1)
    PROVE  (m * q + r) % m = r
<1> DEFINE a == m * q + r
<1>1. a \in Int  OBVIOUS
<1>2. a = m * (a \div m) + (a % m) /\ a % m \in 0 .. (m - 1)  BY <1>1
<1>3. m * (q - (a \div m)) = (a % m) - r  BY <1>2
<1> QED  BY <1>2, <1>3

\* Cutting a number down in two steps is the same as doing it in one: temp is
\* as wide as an address, and the field takes its low bytes.
LEMMA Truncate ==
    ASSUME NEW x \in Int, NEW m \in Nat \ {0}, NEW w \in Nat \ {0}, w % m = 0
    PROVE  (x % w) % m = x % m
<1>1. PICK k \in Int : w = m * k
  <2>1. w \div m \in Int /\ w = m * (w \div m)  OBVIOUS
  <2> QED  BY <2>1
<1>2. PICK q \in Int, y \in Int : y = x % w /\ x = w * q + y
  <2>1. x \div w \in Int /\ x % w \in Int /\ x = w * (x \div w) + (x % w)  OBVIOUS
  <2> QED  BY <2>1
<1>3. PICK d \in Int, e \in 0 .. (m - 1) : e = y % m /\ y = m * d + e
  <2>1. y \div m \in Int /\ y % m \in 0 .. (m - 1) /\ y = m * (y \div m) + (y % m)  OBVIOUS
  <2> QED  BY <2>1
<1>4. x = m * (k * q + d) + e
  <2>1. w * q = m * (k * q)  BY <1>1
  <2>2. m * (k * q + d) = m * (k * q) + m * d  OBVIOUS
  <2> QED  BY <1>2, <1>3, <2>1, <2>2
<1>5. k * q + d \in Int  OBVIOUS
<1>6. x % m = e  BY <1>4, <1>5, RemainderUnique
<1> QED  BY <1>2, <1>3, <1>6

-----------------------------------------------------------------------------
(* The invariant is inductive.                                              *)

\* What every file has.
LEMMA FileFacts ==
    ASSUME NEW f \in Files
    PROVE  /\ f.syms \in [DOMAIN f.syms -> Symbols]
           /\ f.relas \in [DOMAIN f.relas -> Relocations]
           /\ \A r \in DOMAIN f.relas : f.relas[r].sym \in DOMAIN f.syms
BY FilesAssumption

\* A symbol with another value is a symbol with that value.
LEMMA SetValue ==
    ASSUME NEW s \in Symbols, NEW v \in Int, NEW t, t = [s EXCEPT !.value = v]
    PROVE  t \in Symbols /\ t.value = v /\ t = [s EXCEPT !.value = t.value]
BY DEF Symbols

\* Every width is one of the widths that Modulus knows.
LEMMA BytesType ==
    ASSUME NEW type
    PROVE  /\ Bytes(type) \in {1, 2, 4, 8}
           /\ Modulus[Bytes(type)] \in Nat \ {0}
           /\ Modulus[8] \in Nat \ {0}
           /\ Modulus[8] % Modulus[Bytes(type)] = 0
<1>1. Bytes(type) \in {1, 2, 4, 8}  BY DEF Bytes
<1> QED  BY <1>1, NumbersAssumption

\* The values that symbols are meant to have are numbers.
LEMMA MeantValueType ==
    ASSUME TypeOK, NEW i \in DOMAIN file.syms
    PROVE  MeantValue(i) \in Int
<1>1. file.syms[i] \in Symbols  BY FileFacts DEF TypeOK
<1>2. ASSUME NEW u \in latest  PROVE u.address \in Int
  BY <1>2, NumbersAssumption DEF TypeOK
<1>3. \A s \in Sections : segs[s] \in Int  BY NumbersAssumption DEF TypeOK
<1> QED  BY <1>1, <1>2, <1>3 DEF MeantValue, Symbols

\* The addend that a relocation entry is meant to have is a number.
LEMMA MeantAddendType ==
    ASSUME TypeOK, NEW r \in Relas
    PROVE  MeantAddend(r) \in Int
BY FileFacts DEF TypeOK, Relas, Relocations, MeantAddend

\* The invariant holds when load is called.
LEMMA InitInv == Init => Inv
<1> SUFFICES ASSUME Init PROVE Inv  OBVIOUS
<1>1. /\ file.syms \in [DOMAIN file.syms -> Symbols]
      /\ file.relas \in [Relas -> Relocations]
  BY FileFacts DEF Init, Relas
<1>2. \A i \in DOMAIN file.syms :
        file.syms[i] = [file.syms[i] EXCEPT !.value = file.syms[i].value]
  BY <1>1 DEF Symbols
<1>3. TypeOK
  BY <1>1, <1>2 DEF Init, TypeOK, Relocations
<1> QED
  BY <1>3 DEF Inv, Init, Unwritten, OffsetsRight, SymsRight, AddendsRight, NoneKept,
              LatestUnique, FieldsAsMeant

\* Sections get addresses: from here on symbols and offsets are addresses.
LEMMA OffsetsStep ==
    ASSUME Inv, offsets_to_addresses
    PROVE  Inv'
<1> USE DEF offsets_to_addresses, Relas
<1>1. /\ file \in Files /\ segs \in [Sections -> Int]
      /\ file.syms \in [DOMAIN file.syms -> Symbols]
      /\ file.relas \in [DOMAIN file.relas -> Relocations]
      /\ syms = file.syms /\ latest = {}
      /\ \A r \in DOMAIN file.relas : offsets[r] = file.relas[r].offset
  BY FileFacts, NumbersAssumption DEF Inv, TypeOK, SymsRight, LatestUnique, OffsetsRight
<1>2. ASSUME NEW i \in DOMAIN file.syms
      PROVE  /\ syms'[i] = [file.syms[i] EXCEPT !.value = MeantValue(i)']
             /\ MeantValue(i)' \in Int
  <2>1. file.syms[i] \in Symbols  BY <1>1
  <2>2. MeantValue(i)' = CASE file.syms[i].shndx = SHN_ABS -> file.syms[i].value
                           [] file.syms[i].shndx \in {SHN_COMMON, SHN_UNDEF} -> 0
                           [] OTHER -> segs[file.syms[i].shndx] + file.syms[i].value
    BY <1>1, <2>1, NumbersAssumption DEF MeantValue, Symbols, SHN_ABS, SHN_UNDEF, SHN_COMMON
  <2>3. MeantValue(i)' \in Int
    BY <1>1, <2>1, <2>2, NumbersAssumption DEF Symbols
  <2> QED  BY <1>1, <2>1, <2>2, <2>3 DEF Symbols
<1>3. /\ syms' \in [DOMAIN file.syms -> Symbols]
      /\ \A i \in DOMAIN file.syms :
            /\ syms'[i].value = MeantValue(i)'
            /\ syms'[i] = [file.syms[i] EXCEPT !.value = syms'[i].value]
  <2>1. DOMAIN syms' = DOMAIN file.syms  BY <1>1
  <2>2. ASSUME NEW i \in DOMAIN file.syms
        PROVE  /\ syms'[i] \in Symbols
               /\ syms'[i].value = MeantValue(i)'
               /\ syms'[i] = [file.syms[i] EXCEPT !.value = syms'[i].value]
    <3>1. file.syms[i] \in Symbols  BY <1>1
    <3>2. syms'[i] = [file.syms[i] EXCEPT !.value = MeantValue(i)'] /\ MeantValue(i)' \in Int
      BY <1>2
    <3> HIDE DEF offsets_to_addresses
    <3> QED  BY ONLY <3>1, <3>2, SetValue
  <2>3. syms' = [i \in DOMAIN file.syms |-> syms'[i]]  BY <1>1
  <2> QED  BY <2>1, <2>2, <2>3
<1>4. /\ offsets' \in [DOMAIN file.relas -> Int]
      /\ \A r \in DOMAIN file.relas :
            offsets'[r] = segs[file.relas[r].section] + file.relas[r].offset
  <2>1. \A r \in DOMAIN file.relas : segs[file.relas[r].section] + file.relas[r].offset \in Int
    BY <1>1 DEF Relocations
  <2> QED  BY <1>1, <2>1
<1>5. TypeOK'  BY <1>1, <1>3, <1>4 DEF Inv, TypeOK
<1>6. Unwritten' /\ NoneKept' /\ LatestUnique' /\ AddendsRight' /\ FieldsAsMeant'
  BY <1>1 DEF Inv, Unwritten, NoneKept, LatestUnique, AddendsRight, FieldsAsMeant
<1>7. OffsetsRight'  BY <1>4 DEF OffsetsRight
<1>8. SymsRight'
  <2>1. pc' # "read_object" /\ file' = file  OBVIOUS
  <2>2. \A i \in DOMAIN file.syms : syms'[i].value = MeantValue(i)'  BY <1>3
  <2> QED  BY <2>1, <2>2 DEF SymsRight
<1> QED  BY <1>5, <1>6, <1>7, <1>8 DEF Inv

\* The addends that are stored are those of the file.
LEMMA AddendsStep ==
    ASSUME Inv, store_addends
    PROVE  Inv'
<1> USE DEF store_addends, Relas
<1>1. pc = "offsets_to_addresses" /\ pc' \in {"throw_object", "store_addends"}
  OBVIOUS
<1>2. \A i \in DOMAIN file.syms : MeantValue(i)' = MeantValue(i)  BY DEF MeantValue
<1>3. \A r \in DOMAIN file.relas : MeantAddend(r)' = MeantAddend(r) /\ MeantAddend(r) \in Int
  BY MeantAddendType DEF Inv, MeantAddend
<1>4. /\ pc' = "store_addends" => \A r \in DOMAIN file.relas : addends'[r] = MeantAddend(r)
      /\ addends' \in [DOMAIN file.relas -> Int]
  <2>1. CASE \E r \in Relas : Unsupported(r)  BY <2>1 DEF Inv, TypeOK
  <2>2. CASE ~ \E r \in Relas : Unsupported(r)
    <3>1. addends' = [r \in DOMAIN file.relas |-> MeantAddend(r)]
      BY <1>1, <2>2 DEF Inv, Unwritten, MeantAddend
    <3> QED  BY <1>3, <3>1
  <2> QED  BY <2>1, <2>2
<1>5. TypeOK'  BY <1>1, <1>4 DEF Inv, TypeOK
<1>6. Unwritten' /\ NoneKept' /\ LatestUnique' /\ FieldsAsMeant' /\ OffsetsRight'
  BY <1>1 DEF Inv, Unwritten, NoneKept, LatestUnique, FieldsAsMeant, OffsetsRight
<1>7. AddendsRight'  BY <1>1, <1>3, <1>4 DEF AddendsRight
<1>8. SymsRight'  BY <1>1, <1>2 DEF Inv, SymsRight
<1> QED  BY <1>5, <1>6, <1>7, <1>8 DEF Inv

\* With the right symbols, addends and offsets, the right field comes out.
LEMMA RelocatedRight ==
    ASSUME Inv, pc \in {"store_addends", "loaded", "mutate_bindings"}, NEW r \in Relas
    PROVE  /\ relocated(r) = MeantField(r)
           /\ \/ relocated(r) = file.relas[r].content
              \/ relocated(r) \in 0 .. (Modulus[Bytes(file.relas[r].type)] - 1)
<1> DEFINE rela == file.relas[r]
<1>1. /\ rela \in Relocations /\ rela.sym \in DOMAIN file.syms
      /\ file.syms[rela.sym] \in Symbols
  BY FileFacts DEF Inv, TypeOK, Relas
<1>2. /\ syms[rela.sym].value = MeantValue(rela.sym)
      /\ MeantValue(rela.sym) \in Int
      /\ syms[rela.sym].size = file.syms[rela.sym].size
      /\ file.syms[rela.sym].size \in Int
  <2>1. syms[rela.sym] = [file.syms[rela.sym] EXCEPT !.value = syms[rela.sym].value]
    BY <1>1 DEF Inv, TypeOK
  <2> QED  BY <1>1, <2>1, MeantValueType DEF Inv, SymsRight, Symbols
<1>3. addends[r] = MeantAddend(r) /\ MeantAddend(r) \in Int
  BY MeantAddendType DEF Inv, AddendsRight
<1>4. /\ offsets[r] = segs[rela.section] + rela.offset
      /\ offsets[r] \in Int
  BY DEF Inv, OffsetsRight, TypeOK
<1>5. CASE rela.type = "R_X86_64_NONE"
  BY <1>5 DEF relocated, MeantField, Inv, NoneKept
<1>6. CASE rela.type # "R_X86_64_NONE"
  <2> DEFINE S == MeantValue(rela.sym)
             A == MeantAddend(r)
             P == segs[rela.section] + rela.offset
             Z == file.syms[rela.sym].size
             meant == CASE rela.type \in {"R_X86_64_8", "R_X86_64_16", "R_X86_64_32",
                                           "R_X86_64_32S", "R_X86_64_64"} -> S + A
                        [] rela.type \in {"R_X86_64_PC8", "R_X86_64_PC16", "R_X86_64_PC32"} ->
                             S + A - P
                        [] rela.type \in {"R_X86_64_SIZE32", "R_X86_64_SIZE64"} -> Z + A
                        [] OTHER -> S
             m == Modulus[Bytes(rela.type)]
  <2>1. meant \in Int  BY <1>2, <1>3, <1>4
  <2>2. Temp(rela.type, syms[rela.sym], addends[r], offsets[r]) = meant % Modulus[8]
    BY <1>1, <1>2, <1>3, <1>4, <1>6 DEF Temp, Relocations, RelocationTypes
  <2>3. m \in Nat \ {0} /\ Modulus[8] \in Nat \ {0} /\ Modulus[8] % m = 0
    BY BytesType
  <2>4. (meant % Modulus[8]) % m = meant % m
    <3> HIDE DEF meant, m
    <3> QED  BY <2>1, <2>3, Truncate
  <2>5. relocated(r) = meant % m  BY <1>6, <2>2, <2>4 DEF relocated
  <2>6. MeantField(r) = meant % m  BY <1>6 DEF MeantField
  <2>7. meant % m \in 0 .. (m - 1)
    <3> HIDE DEF meant, m
    <3> QED  BY <2>1, <2>3
  <2> QED  BY <2>5, <2>6, <2>7
<1> QED  BY <1>5, <1>6

\* All fields are written from the symbols as they are now.
LEMMA RelocationsStep ==
    ASSUME Inv, do_relocations
    PROVE  Inv'
<1> USE DEF do_relocations
<1>1. /\ pc \in {"store_addends", "loaded", "mutate_bindings"} /\ pc' = "loaded"
      /\ Relas' = Relas
  BY DEF Relas
<1>2. /\ \A i \in DOMAIN file.syms : MeantValue(i)' = MeantValue(i)
      /\ \A r \in Relas : MeantAddend(r)' = MeantAddend(r)
      /\ \A r \in Relas : MeantField(r)' = MeantField(r)
  BY DEF MeantValue, MeantAddend, MeantField
<1>3. /\ DOMAIN fields' = Relas
      /\ \A r \in Relas : fields'[r] = relocated(r)
  OBVIOUS
<1>4. TypeOK'  BY <1>1, <1>3, RelocatedRight DEF Inv, TypeOK, Relas
<1>5. FieldsAsMeant'  BY <1>1, <1>2, <1>3, RelocatedRight DEF FieldsAsMeant
<1>6. NoneKept'  BY <1>1, <1>3 DEF Inv, NoneKept, relocated
<1>7. Unwritten' /\ OffsetsRight' /\ AddendsRight' /\ LatestUnique'
  BY <1>1, <1>2 DEF Inv, Unwritten, OffsetsRight, AddendsRight, LatestUnique
<1>8. SymsRight'  BY <1>1, <1>2 DEF Inv, SymsRight
<1> QED  BY <1>4, <1>5, <1>6, <1>7, <1>8 DEF Inv

\* One update changes the value of the symbols it is meant for, and is then
\* the most recent one of its name.
LEMMA MutateStep ==
    ASSUME Inv, NEW update \in Updates, mutate_bindings(update)
    PROVE  Inv'
<1> USE DEF mutate_bindings, Relas
<1>1. /\ pc \in {"loaded", "mutate_bindings"} /\ pc' = "mutate_bindings"
      /\ file \in Files /\ file' = file /\ segs' = segs
      /\ latest \subseteq Updates /\ update.address \in Int
      /\ file.syms \in [DOMAIN file.syms -> Symbols]
      /\ syms \in [DOMAIN file.syms -> Symbols]
  BY FileFacts, NumbersAssumption DEF Inv, TypeOK
<1>2. /\ latest' \subseteq Updates
      /\ \A u, v \in latest' : u.name = v.name => u = v
      /\ update \in latest'
      /\ \A u : u.name # update.name => (u \in latest' <=> u \in latest)
  BY <1>1 DEF Inv, LatestUnique
<1>3. ASSUME NEW i \in DOMAIN file.syms
      PROVE  /\ syms'[i] \in Symbols
             /\ syms'[i] = [file.syms[i] EXCEPT !.value = syms'[i].value]
             /\ syms'[i].value = MeantValue(i)'
  <2>1. /\ file.syms[i] \in Symbols /\ syms[i] \in Symbols
        /\ syms[i] = [file.syms[i] EXCEPT !.value = syms[i].value]
        /\ syms[i].value = MeantValue(i)
    BY <1>1 DEF Inv, TypeOK, SymsRight
  <2>2. /\ syms[i].name = file.syms[i].name /\ syms[i].bind = file.syms[i].bind
        /\ syms[i].shndx = file.syms[i].shndx
    BY <2>1 DEF Symbols
  <2>3. IsMutable(syms[i]) <=> IsMutable(file.syms[i])  BY <2>2 DEF IsMutable
  <2>4. syms'[i] = IF i # 0 /\ file.syms[i].name = update.name /\ IsMutable(file.syms[i])
                   THEN [syms[i] EXCEPT !.value = update.address] ELSE syms[i]
    BY <1>1, <2>2, <2>3 DEF mutate_binding
  <2>5. CASE i # 0 /\ file.syms[i].name = update.name /\ IsMutable(file.syms[i])
    <3>1. syms'[i] = [file.syms[i] EXCEPT !.value = update.address]
      BY <2>1, <2>4, <2>5 DEF Symbols
    <3>2. (CHOOSE u \in latest' : u.name = file.syms[i].name) = update
      BY <1>2, <2>5
    <3>3. file.syms[i].shndx \notin Sections /\ file.syms[i].shndx # SHN_ABS
      BY <2>5, NumbersAssumption DEF IsMutable, SHN_ABS, SHN_UNDEF, SHN_COMMON
    <3>4. MeantValue(i)' = update.address
      BY <1>1, <1>2, <2>5, <3>2, <3>3 DEF MeantValue
    <3> QED  BY <1>1, <2>1, <3>1, <3>4 DEF Symbols
  <2>6. CASE ~(i # 0 /\ file.syms[i].name = update.name /\ IsMutable(file.syms[i]))
    <3>1. MeantValue(i)' = MeantValue(i)
      <4>1. CASE i # 0 /\ IsMutable(file.syms[i])
        <5>1. file.syms[i].name # update.name  BY <2>6, <4>1
        <5>2. \A u : u.name = file.syms[i].name => (u \in latest' <=> u \in latest)
          BY <1>2, <5>1
        <5>3. (\E u \in latest' : u.name = file.syms[i].name)
                <=> (\E u \in latest : u.name = file.syms[i].name)
          BY <5>2
        <5>4. (CHOOSE u \in latest' : u.name = file.syms[i].name)
                = (CHOOSE u \in latest : u.name = file.syms[i].name)
          BY <5>2, Zenon
        <5> QED  BY <1>1, <5>3, <5>4 DEF MeantValue
      <4>2. CASE ~(i # 0 /\ IsMutable(file.syms[i]))
        BY <1>1, <4>2 DEF MeantValue
      <4> QED  BY <4>1, <4>2
    <3> QED  BY <2>1, <2>4, <2>6, <3>1
  <2> QED  BY <2>5, <2>6
<1>4. syms' \in [DOMAIN file.syms -> Symbols]
  <2>1. syms' = [i \in DOMAIN file.syms |-> syms'[i]]  BY <1>1 DEF mutate_binding
  <2> QED  BY <1>3, <2>1
<1>5. TypeOK'  BY <1>1, <1>2, <1>3, <1>4 DEF Inv, TypeOK
<1>6. SymsRight'  BY <1>1, <1>3 DEF SymsRight
<1>7. LatestUnique'  BY <1>1, <1>2 DEF LatestUnique
<1>8. \A r \in DOMAIN file.relas : MeantAddend(r)' = MeantAddend(r)
  BY <1>1 DEF MeantAddend
<1>9. Unwritten' /\ OffsetsRight' /\ AddendsRight' /\ NoneKept' /\ FieldsAsMeant'
  BY <1>1, <1>8 DEF Inv, Unwritten, OffsetsRight, AddendsRight, NoneKept, FieldsAsMeant
<1> QED  BY <1>5, <1>6, <1>7, <1>9 DEF Inv

\* Nothing but a step of the loader changes what the invariant is about.
LEMMA StutterStep ==
    ASSUME Inv, UNCHANGED vars
    PROVE  Inv'
<1>1. Relas' = Relas  BY DEF vars, Relas
<1>2. \A i : MeantValue(i)' = MeantValue(i)  BY DEF vars, MeantValue
<1>3. \A r : MeantAddend(r)' = MeantAddend(r)  BY DEF vars, MeantAddend
<1>4. \A r : MeantField(r)' = MeantField(r)  BY <1>2, <1>3 DEF vars, MeantField
<1>5. TypeOK' /\ Unwritten' /\ OffsetsRight' /\ NoneKept' /\ LatestUnique'
  BY <1>1 DEF Inv, vars, TypeOK, Unwritten, OffsetsRight, NoneKept, LatestUnique
<1>6. SymsRight'  BY <1>2 DEF Inv, vars, SymsRight
<1>7. AddendsRight'  BY <1>1, <1>3 DEF Inv, vars, AddendsRight
<1>8. FieldsAsMeant'  BY <1>1, <1>4 DEF Inv, vars, FieldsAsMeant
<1> QED  BY <1>5, <1>6, <1>7, <1>8 DEF Inv

\* The invariant holds in every reachable state.
LEMMA Invariance == Spec => []Inv
<1>1. Inv /\ [Next]_vars => Inv'
  BY OffsetsStep, AddendsStep, RelocationsStep, MutateStep, StutterStep DEF Next
<1> QED  BY <1>1, InitInv, PTL DEF Spec

\* Symbols keep all but their value, and a field never takes more than its
\* bytes, whatever is loaded (read_object to mutate_bindings).
THEOREM TypeCorrect == Spec => []TypeOK
<1>1. Inv => TypeOK  BY DEF Inv
<1> QED  BY <1>1, Invariance, PTL

\* Every field is what the ABI says whenever load or mutate_bindings returns,
\* after any number of relocations (do_relocations works from the addends that
\* store_addends has put aside).
THEOREM RelocationCorrect == Spec => []FieldsAsMeant
<1>1. Inv => FieldsAsMeant  BY DEF Inv
<1> QED  BY <1>1, Invariance, PTL
=============================================================================
