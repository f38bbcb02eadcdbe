--------------------------- MODULE AssemblerProofs ---------------------------
(***************************************************************************)
(* What write_elf guarantees for every program: the processor decodes what *)
(* was assembled, everything fits into the space measured for it, and      *)
(* sections and statics are where they are said to be.                     *)
(***************************************************************************)
EXTENDS EncodingProofs

-----------------------------------------------------------------------------
(* The inductive invariant.                                                 *)

\* The phases in their order.
StageOf(p) ==
    CASE p = "local statics"  -> 1
      [] p = "local labels"   -> 2
      [] p = "global statics" -> 3
      [] p = "undefined"      -> 4
      [] p = "global labels"  -> 5
      [] p = "assemble"       -> 6
      [] p = "headers"        -> 7
      [] p = "sections"       -> 8
      [] OTHER                -> 9
Stage == StageOf(phase)

N == Len(program.asms)

\* How far the k-th loop is.
Done(k) == IF Stage > k THEN Len(ListOf(k)) ELSE IF Stage = k THEN cursor ELSE 0

\* The control of write_elf, and that lists are lists.
Control ==
    /\ program \in Programs
    /\ cursor \in Nat
    /\ Stage <= 5 => cursor <= Len(ListOf(Stage))
    /\ Stage = 6 => cursor <= N
    /\ Stage = 7 => cursor = N
    /\ Stage = 8 => cursor < 5
    /\ Stage = 9 => cursor = 5 /\ phase = "written"
    /\ IsSeq(syms) /\ IsSeq(strtab) /\ IsSeq(relas)

\* The characters that the k-th loop writes for each element, and the symbols.
NamesIn(k)  == [i \in 1 .. Len(ListOf(k)) |-> IF InLoop(k, i) THEN NameSize(BindingAt(k, i)) ELSE 0]
CountsIn(k) == [i \in 1 .. Len(ListOf(k)) |-> IF InLoop(k, i) THEN 1 ELSE 0]

NamesDone(k)  == Sums(Len(ListOf(k)), NamesIn(k))[Done(k)]
CountsDone(k) == Sums(Len(ListOf(k)), CountsIn(k))[Done(k)]

\* The tables have what the loops have written so far.
Tables ==
    /\ Len(strtab) = 1 + NamesDone(1) + NamesDone(2) + NamesDone(3) + NamesDone(4) + NamesDone(5)
    /\ Len(syms) = 1 + CountsDone(1) + CountsDone(2) + CountsDone(3) + CountsDone(4) + CountsDone(5)

\* The code has the instructions so far, one behind the other.
End(k) == IF k = Len(starts) THEN Len(text) ELSE starts[k + 1]
CodeAt(k) ==
    /\ starts[k] \in Nat
    /\ IF IsLabel(program.asms[k]) THEN End(k) = starts[k]
       ELSE /\ End(k) = starts[k] + Len(Encode(program.asms[k]))
            /\ Has(text, starts[k] + 1, Encode(program.asms[k]))
Code ==
    /\ IsSeq(text) /\ IsSeq(starts)
    /\ Len(starts) = IF Stage <= 5 THEN 0 ELSE IF Stage = 6 THEN cursor ELSE N
    /\ Len(text) <= MAX_INSTR_LEN * Len(starts)
    /\ Len(relas) <= Len(starts)
    /\ Len(starts) = 0 => Len(text) = 0
    /\ \A k \in 1 .. Len(starts) : CodeAt(k)

\* The statics that have been given their places are apart and below bss_ptr.
IsPlaced(b) == \E k \in {1, 3} : \E i \in 1 .. Done(k) : InLoop(k, i) /\ BindingAt(k, i) = b
Apart(b, c) == \/ offset[b] + Binding(b).size <= offset[c]
               \/ offset[c] + Binding(c).size <= offset[b]
HasPlace(b) ==
    /\ b \in DOMAIN offset /\ offset[b] \in Nat /\ offset[b] % WORD_SIZE = 0
    /\ offset[b] + Binding(b).size <= bss_ptr
Bss ==
    /\ bss_ptr \in Nat /\ bss_ptr % WORD_SIZE = 0
    /\ \A b \in Range(program.statics) : IsPlaced(b) => HasPlace(b)
    /\ \A b, c \in Range(program.statics) : IsPlaced(b) /\ IsPlaced(c) /\ b # c => Apart(b, c)

\* Where the parts of the file are.
At1 == Elf64_Ehdr + SH_COUNT * Elf64_Shdr
At2 == At1 + pad_size(SHSTRTAB_LEN, ALIGNMENT)
At3 == At2 + max_text_sec_len
At4 == At3 + pad_size(measure_strtab, ALIGNMENT)
At5 == At4 + Elf64_Sym * measure_symtab
At6 == At5 + Elf64_Rela * Len(relas)
Places == <<At1, At2, At3, At4, At5, At6>>

PartAt(i) == image[i + 2] = [part |-> Parts[i].part, at |-> Places[i], size |-> Parts[i].size]
Headers ==
    <<Shdr(1, "SHT_STRTAB", At1, SHSTRTAB_LEN, 0, 0),
      Shdr(11, "SHT_PROGBITS", At2, Len(text), 0, 0),
      Shdr(17, "SHT_STRTAB", At3, measure_strtab, 0, 0),
      Shdr(25, "SHT_SYMTAB", At4, Elf64_Sym * measure_symtab, 3, local_symbol_count),
      Shdr(33, "SHT_NOBITS", At5, bss_ptr, 0, 0),
      Shdr(38, "SHT_RELA", At5, Elf64_Rela * Len(relas), 4, 2)>>

\* The parts of the file follow each other as the headers have it.
File ==
    /\ IsSeq(image)
    /\ Len(image) = IF Stage <= 7 THEN 1 ELSE cursor + 2
    /\ image[1] = [part |-> "ehdr", at |-> 0, size |-> Elf64_Ehdr]
    /\ Stage >= 8 =>
         /\ image[2] = [part |-> "shdrs", at |-> Elf64_Ehdr, size |-> SH_COUNT * Elf64_Shdr]
         /\ \A i \in 1 .. cursor : PartAt(i)
         /\ headers = Headers

IInv == Control /\ Tables /\ Code /\ Bss /\ File

-----------------------------------------------------------------------------
(* Sums.                                                                    *)

\* The recursive definition of Sums defines a function.
LEMMA SumsDef ==
    ASSUME NEW n \in Nat, NEW f
    PROVE  Sums(n, f) = [i \in 0 .. n |-> IF i = 0 THEN 0 ELSE Sums(n, f)[i - 1] + f[i]]
<1> DEFINE Upto(g, k) == g = [i \in 0 .. k |-> IF i = 0 THEN 0 ELSE g[i - 1] + f[i]]
           T == {k \in Nat : \E g : Upto(g, k)}
<1>1. 0 \in T
  <2>1. Upto([i \in 0 .. 0 |-> 0], 0)
    OBVIOUS
  <2>2. QED BY <2>1
<1>2. ASSUME NEW k \in T
      PROVE  k + 1 \in T
  <2>1. PICK g : Upto(g, k)
    OBVIOUS
  <2> DEFINE h == [i \in 0 .. (k + 1) |-> IF i = k + 1 THEN g[k] + f[k + 1] ELSE g[i]]
  <2>2. k \in Nat /\ \A i \in 0 .. k : g[i] = IF i = 0 THEN 0 ELSE g[i - 1] + f[i]
    BY <2>1
  <2>3. ASSUME NEW i \in 0 .. (k + 1)
        PROVE  h[i] = IF i = 0 THEN 0 ELSE h[i - 1] + f[i]
    <3>1. CASE i = k + 1
      <4>1. h[i] = g[k] + f[i] /\ h[i - 1] = g[k] /\ i # 0
        BY <2>2, <3>1
      <4>2. QED BY <4>1
    <3>2. CASE i \in 0 .. k /\ i # 0
      <4>1. h[i] = g[i] /\ h[i - 1] = g[i - 1]
        BY <2>2, <3>2
      <4>2. QED BY <2>2, <3>2, <4>1
    <3>3. CASE i = 0
      BY <2>2, <3>3
    <3>4. QED
      BY <2>2, <3>1, <3>2, <3>3
  <2>4. Upto(h, k + 1)
    <3> HIDE DEF h
    <3>1. h = [i \in 0 .. (k + 1) |-> h[i]]
      BY DEF h
    <3>2. QED
      BY <2>3, <3>1
  <2>5. QED
    <3> HIDE DEF Upto, h
    <3> QED BY <2>2, <2>4
<1>3. T = Nat
  <2> HIDE DEF T
  <2>1. T \in SUBSET Nat
    BY DEF T
  <2>2. QED
    BY <1>1, <1>2, <2>1, InductionSet
<1>4. \E g : Upto(g, n)
  BY <1>3
<1>5. Sums(n, f) = CHOOSE g : Upto(g, n)
  BY DEF Sums
<1>6. Upto(Sums(n, f), n)
  <2> HIDE DEF Upto
  <2> QED BY <1>4, <1>5
<1>7. QED
  BY <1>6

\* Its values, one after the other.
LEMMA SumsSteps ==
    ASSUME NEW n \in Nat, NEW f
    PROVE  /\ Sums(n, f)[0] = 0
           /\ \A i \in 0 .. (n - 1) : Sums(n, f)[i + 1] = Sums(n, f)[i] + f[i + 1]
<1> DEFINE s == Sums(n, f)
<1>1. s = [i \in 0 .. n |-> IF i = 0 THEN 0 ELSE s[i - 1] + f[i]]
  BY SumsDef
<1> HIDE DEF s
<1>2. \A i \in 0 .. n : s[i] = IF i = 0 THEN 0 ELSE s[i - 1] + f[i]
  BY <1>1
<1>3. ASSUME NEW i \in 0 .. (n - 1)
      PROVE  s[i + 1] = s[i] + f[i + 1]
  <2>1. i + 1 \in 0 .. n /\ i + 1 # 0 /\ (i + 1) - 1 = i
    OBVIOUS
  <2>2. QED
    BY <1>2, <2>1
<1>4. QED
  BY <1>2, <1>3 DEF s

\* What is summed up: n values in Nat.
Values(n, f) == n \in Nat /\ \A i \in 1 .. n : f[i] \in Nat

\* Sums of natural numbers are natural numbers that do not decrease.
LEMMA SumsGrow ==
    ASSUME NEW n, NEW f, Values(n, f)
    PROVE  \A i \in 0 .. n : Sums(n, f)[i] \in Nat /\ Sums(n, f)[i] <= Total(n, f)
<1> DEFINE s == Sums(n, f)
           T == {i \in Nat : i <= n => s[i] \in Nat}
           U == {i \in Nat : i <= n => s[n - i] <= s[n]}
<1>1. n \in Nat /\ \A i \in 1 .. n : f[i] \in Nat
  BY DEF Values
<1>2. s[0] = 0 /\ \A i \in 0 .. (n - 1) : s[i + 1] = s[i] + f[i + 1]
  BY <1>1, SumsSteps
<1>3. Total(n, f) = s[n]
  BY DEF Total
<1> HIDE DEF s
<1>4. ASSUME NEW i \in T
      PROVE  i + 1 \in T
  <2> SUFFICES ASSUME i + 1 <= n
               PROVE  s[i + 1] \in Nat
    OBVIOUS
  <2>1. i \in 0 .. (n - 1) /\ s[i] \in Nat /\ i + 1 \in 1 .. n
    BY <1>1
  <2>2. s[i + 1] = s[i] + f[i + 1] /\ f[i + 1] \in Nat
    BY <1>1, <1>2, <2>1
  <2>3. QED
    BY <2>1, <2>2
<1>5. T = Nat
  <2>1. T \in SUBSET Nat /\ 0 \in T
    BY <1>2
  <2> HIDE DEF T
  <2>2. QED
    BY <1>4, <2>1, InductionSet
<1>6. \A i \in 0 .. n : s[i] \in Nat
  BY <1>1, <1>5
<1>7. ASSUME NEW i \in U
      PROVE  i + 1 \in U
  <2> SUFFICES ASSUME i + 1 <= n
               PROVE  s[n - (i + 1)] <= s[n]
    OBVIOUS
  <2> DEFINE j == n - (i + 1)
  <2>1. j \in 0 .. (n - 1) /\ j \in 0 .. n /\ j + 1 \in 0 .. n /\ j + 1 = n - i /\ j + 1 \in 1 .. n
        /\ n \in 0 .. n /\ s[n - i] <= s[n]
    BY <1>1
  <2> HIDE DEF j
  <2>2. s[j + 1] = s[j] + f[j + 1] /\ f[j + 1] \in Nat
    BY <1>1, <1>2, <2>1
  <2>3. s[j] \in Nat /\ s[j + 1] \in Nat /\ s[n] \in Nat /\ s[j + 1] <= s[n]
    BY <1>6, <2>1
  <2>4. s[j] <= s[n]
    BY <2>2, <2>3
  <2>5. QED
    BY <2>4 DEF j
<1>8. U = Nat
  <2>1. U \in SUBSET Nat /\ 0 \in U
    BY <1>1, <1>6
  <2> HIDE DEF U
  <2>2. QED
    BY <1>7, <2>1, InductionSet
<1>9. ASSUME NEW i \in 0 .. n
      PROVE  s[i] <= s[n]
  <2>1. n - i \in Nat /\ n - i <= n /\ n - (n - i) = i
    BY <1>1
  <2>2. s[n - (n - i)] <= s[n]
    BY <1>8, <2>1
  <2>3. QED
    BY <2>1, <2>2
<1>10. QED
  BY <1>3, <1>6, <1>9 DEF s

\* The sum of what is the sum of two values each.
LEMMA SumsSplit ==
    ASSUME NEW n, NEW f, NEW g, NEW h, Values(n, f), Values(n, g), Values(n, h),
           \A i \in 1 .. n : h[i] = f[i] + g[i]
    PROVE  Total(n, h) = Total(n, f) + Total(n, g)
<1> DEFINE a == Sums(n, f)
           b == Sums(n, g)
           c == Sums(n, h)
           T == {i \in Nat : i <= n => c[i] = a[i] + b[i]}
<1>1. n \in Nat
  BY DEF Values
<1>2. /\ a[0] = 0 /\ \A i \in 0 .. (n - 1) : a[i + 1] = a[i] + f[i + 1]
      /\ b[0] = 0 /\ \A i \in 0 .. (n - 1) : b[i + 1] = b[i] + g[i + 1]
      /\ c[0] = 0 /\ \A i \in 0 .. (n - 1) : c[i + 1] = c[i] + h[i + 1]
  BY <1>1, SumsSteps
<1>3. \A i \in 0 .. n : a[i] \in Nat /\ b[i] \in Nat /\ c[i] \in Nat
  BY SumsGrow
<1>4. Total(n, h) = c[n] /\ Total(n, f) = a[n] /\ Total(n, g) = b[n]
  BY DEF Total
<1> HIDE DEF a, b, c
<1>5. ASSUME NEW i \in T
      PROVE  i + 1 \in T
  <2> SUFFICES ASSUME i + 1 <= n
               PROVE  c[i + 1] = a[i + 1] + b[i + 1]
    OBVIOUS
  <2>1. i \in 0 .. (n - 1) /\ i \in 0 .. n /\ i + 1 \in 1 .. n
    BY <1>1
  <2>2. f[i + 1] \in Nat /\ g[i + 1] \in Nat /\ h[i + 1] = f[i + 1] + g[i + 1]
    BY <2>1 DEF Values
  <2>3. a[i + 1] = a[i] + f[i + 1] /\ b[i + 1] = b[i] + g[i + 1] /\ c[i + 1] = c[i] + h[i + 1]
    BY <1>2, <2>1
  <2>4. a[i] \in Nat /\ b[i] \in Nat /\ c[i] \in Nat /\ c[i] = a[i] + b[i]
    BY <1>1, <1>3, <2>1
  <2>5. QED
    BY <2>2, <2>3, <2>4
<1>6. T = Nat
  <2>1. T \in SUBSET Nat /\ 0 \in T
    BY <1>2
  <2> HIDE DEF T
  <2>2. QED
    BY <1>5, <2>1, InductionSet
<1>7. QED
  BY <1>1, <1>4, <1>6

-----------------------------------------------------------------------------
(* Programs, and how far the loops are.                                     *)

IsBinding(b) ==
    /\ Binding(b).scope \in {"local_scope", "global_scope"}
    /\ Binding(b).size \in Nat
    /\ IsSeq(Binding(b).name)

\* What ProgramsAssumption says of the program that write_elf was given.
LEMMA ProgramFacts ==
    ASSUME program \in Programs
    PROVE  /\ IsSeq(program.asms) /\ IsSeq(program.statics) /\ IsSeq(program.undefined)
           /\ \A i \in 1 .. N : IsInstruction(program.asms[i])
           /\ \A i \in 1 .. N : IsLabel(program.asms[i]) =>
                /\ IsBinding(BindingOf(program.asms[i]))
                /\ \A j \in 1 .. Len(program.statics) :
                     program.statics[j] # BindingOf(program.asms[i])
           /\ \A i \in 1 .. Len(program.statics) :
                /\ IsBinding(program.statics[i])
                /\ Binding(program.statics[i]).state = "defined_state"
           /\ \A i \in 1 .. Len(program.undefined) :
                /\ IsBinding(program.undefined[i])
                /\ Binding(program.undefined[i]).scope = "global_scope"
                /\ Binding(program.undefined[i]).state = "undefined_state"
<1>1. /\ IsSeq(program.asms) /\ IsSeq(program.statics) /\ IsSeq(program.undefined)
      /\ \A i \in 1 .. N : IsInstruction(program.asms[i])
  BY ProgramsAssumption DEF N
<1>2. \A i \in 1 .. N : IsLabel(program.asms[i]) =>
        /\ IsBinding(BindingOf(program.asms[i]))
        /\ \A j \in 1 .. Len(program.statics) : program.statics[j] # BindingOf(program.asms[i])
  BY ProgramsAssumption DEF N, IsLabel, IsBinding, Binding
<1>3. \A i \in 1 .. Len(program.statics) :
        /\ IsBinding(program.statics[i])
        /\ Binding(program.statics[i]).state = "defined_state"
  BY ProgramsAssumption DEF IsBinding, Binding
<1>4. \A i \in 1 .. Len(program.undefined) :
        /\ IsBinding(program.undefined[i])
        /\ Binding(program.undefined[i]).scope = "global_scope"
        /\ Binding(program.undefined[i]).state = "undefined_state"
  BY ProgramsAssumption DEF IsBinding, Binding
<1>5. QED
  BY <1>1, <1>2, <1>3, <1>4

\* The loops go through lists, and what they pick are bindings.
LEMMA LoopFacts ==
    ASSUME program \in Programs, NEW k \in 1 .. 5
    PROVE  /\ Len(ListOf(k)) \in Nat
           /\ \A i \in 1 .. Len(ListOf(k)) : InLoop(k, i) => IsBinding(BindingAt(k, i))
           /\ k \in {1, 3} => \A i \in 1 .. Len(ListOf(k)) : BindingAt(k, i) = program.statics[i]
<1>1. Len(program.asms) \in Nat /\ Len(program.statics) \in Nat /\ Len(program.undefined) \in Nat
  BY ProgramFacts, SeqFacts
<1>2. Len(ListOf(k)) \in Nat
  BY <1>1 DEF ListOf
<1>3. ASSUME NEW i \in 1 .. Len(ListOf(k)), InLoop(k, i)
      PROVE  IsBinding(BindingAt(k, i))
  <2>1. CASE k \in {1, 3}
    BY <2>1, ProgramFacts DEF ListOf, BindingAt
  <2>2. CASE k \in {2, 5}
    <3>0. ListOf(k) = program.asms
      BY <2>2 DEF ListOf
    <3>1. IsLabel(ListOf(k)[i])
      <4>1. CASE k = 2
        BY <1>3, <4>1 DEF InLoop
      <4>2. CASE k = 5
        BY <1>3, <4>2 DEF InLoop
      <4>3. QED
        BY <2>2, <4>1, <4>2
    <3>2. QED
      BY <2>2, <3>0, <3>1, ProgramFacts DEF BindingAt, N
  <2>3. CASE k = 4
    BY <2>3, ProgramFacts DEF ListOf, BindingAt
  <2>4. QED
    BY <2>1, <2>2, <2>3
<1>4. k \in {1, 3} => \A i \in 1 .. Len(ListOf(k)) : BindingAt(k, i) = program.statics[i]
  BY DEF BindingAt, ListOf
<1>5. QED
  BY <1>2, <1>3, <1>4

\* What is computed from the program alone does not change with the rest.
LEMMA SameProgram ==
    ASSUME program' = program
    PROVE  /\ \A k : ListOf(k)' = ListOf(k)
           /\ \A k, i : BindingAt(k, i)' = BindingAt(k, i) /\ (InLoop(k, i)' <=> InLoop(k, i))
           /\ \A b : Binding(b)' = Binding(b) /\ NameSize(b)' = NameSize(b)
           /\ \A k : NamesIn(k)' = NamesIn(k) /\ CountsIn(k)' = CountsIn(k)
           /\ N' = N
           /\ measure_strtab' = measure_strtab /\ measure_symtab' = measure_symtab
           /\ max_text_sec_len' = max_text_sec_len
<1>1. \A k : ListOf(k)' = ListOf(k)
  BY DEF ListOf
<1>2. \A b : Binding(b)' = Binding(b)
  BY DEF Binding
<1>3. \A b : NameSize(b)' = NameSize(b)
  BY <1>2 DEF NameSize
<1>4. \A k, i : BindingAt(k, i)' = BindingAt(k, i)
  BY <1>1 DEF BindingAt
<1>5. \A k, i : InLoop(k, i)' <=> InLoop(k, i)
  BY <1>1, <1>2, <1>4 DEF InLoop, IsLocal, IsGlobal
<1>6. \A k : NamesIn(k)' = NamesIn(k) /\ CountsIn(k)' = CountsIn(k)
  BY <1>1, <1>3, <1>4, <1>5 DEF NamesIn, CountsIn
<1>7. LabelNameSizes' = LabelNameSizes /\ LabelCounts' = LabelCounts
  BY <1>3 DEF LabelNameSizes, LabelCounts
<1>8. \A bs : TotalNames(bs)' = TotalNames(bs)
  BY <1>3 DEF TotalNames, NameSizes
<1>9. measure_strtab' = measure_strtab /\ measure_symtab' = measure_symtab
  BY <1>7, <1>8 DEF measure_strtab, measure_symtab
<1>10. N' = N /\ max_text_sec_len' = max_text_sec_len
  BY DEF N, max_text_sec_len
<1>11. QED
  BY <1>1, <1>2, <1>3, <1>4, <1>5, <1>6, <1>9, <1>10

\* The stages of the phases.
LEMMA Stages ==
    /\ \A k \in 1 .. 5 : StageOf(Loops[k]) = k
    /\ StageOf("assemble") = 6 /\ StageOf("headers") = 7
    /\ StageOf("sections") = 8 /\ StageOf("written") = 9
    /\ \A p : StageOf(p) \in 1 .. 9
<1>1. /\ Loops[1] = "local statics" /\ Loops[2] = "local labels" /\ Loops[3] = "global statics"
      /\ Loops[4] = "undefined" /\ Loops[5] = "global labels"
  BY DEF Loops
<1>2. /\ StageOf("local statics") = 1 /\ StageOf("local labels") = 2
      /\ StageOf("global statics") = 3 /\ StageOf("undefined") = 4
      /\ StageOf("global labels") = 5
  BY DEF StageOf
<1>3. /\ StageOf("assemble") = 6 /\ StageOf("headers") = 7
      /\ StageOf("sections") = 8 /\ StageOf("written") = 9
  BY DEF StageOf
<1>4. \A p : StageOf(p) \in 1 .. 9
  BY DEF StageOf
<1>5. ASSUME NEW k \in 1 .. 5
      PROVE  StageOf(Loops[k]) = k
  <2>1. k = 1 \/ k = 2 \/ k = 3 \/ k = 4 \/ k = 5
    OBVIOUS
  <2>2. QED
    BY <1>1, <1>2, <2>1
<1>6. QED
  BY <1>3, <1>4, <1>5

\* A step of the k-th loop, its end, and everything after the loops.
InStep(k)  == /\ program' = program /\ phase = Loops[k] /\ phase' = phase
              /\ cursor < Len(ListOf(k)) /\ cursor' = cursor + 1
LoopEnds(k) == /\ program' = program /\ phase = Loops[k] /\ cursor = Len(ListOf(k)) /\ cursor' = 0
               /\ phase' = IF k = 5 THEN "assemble" ELSE Loops[k + 1]
Later == program' = program /\ Stage >= 6 /\ Stage' >= 6

\* How these change how far the loops are.
LEMMA DoneSteps ==
    ASSUME Control, NEW k \in 1 .. 5
    PROVE  /\ Done(k) \in 0 .. Len(ListOf(k))
           /\ InStep(k) => /\ Done(k) = cursor /\ Done(k)' = Done(k) + 1
                           /\ \A j \in 1 .. 5 : j # k => Done(j)' = Done(j)
           /\ LoopEnds(k) => \A j \in 1 .. 5 : Done(j)' = Done(j)
           /\ Later => Done(k)' = Done(k)
<1>1. \A j \in 1 .. 5 : Len(ListOf(j)) \in Nat
  BY LoopFacts DEF Control
<1>2. Stage \in 1 .. 9 /\ Stage' \in 1 .. 9
  BY Stages DEF Stage
<1>3. Done(k) \in 0 .. Len(ListOf(k))
  BY <1>1, <1>2 DEF Control, Done
<1>4. ASSUME InStep(k)
      PROVE  /\ Done(k) = cursor /\ Done(k)' = Done(k) + 1
             /\ \A j \in 1 .. 5 : j # k => Done(j)' = Done(j)
  <2>1. Stage = k /\ Stage' = k
    BY <1>4, Stages DEF InStep, Stage
  <2>2. \A j \in 1 .. 5 : ListOf(j)' = ListOf(j)
    BY <1>4, SameProgram DEF InStep
  <2>3. QED
    BY <1>1, <1>4, <2>1, <2>2 DEF InStep, Done
<1>5. ASSUME LoopEnds(k), NEW j \in 1 .. 5
      PROVE  Done(j)' = Done(j)
  <2>1. Stage = k /\ Stage' = k + 1
    <3>1. CASE k = 5
      BY <1>5, <3>1, Stages DEF LoopEnds, Stage
    <3>2. CASE k # 5
      <4>1. k + 1 \in 1 .. 5
        BY <3>2
      <4>2. QED
        BY <1>5, <3>2, <4>1, Stages DEF LoopEnds, Stage
    <3>3. QED
      BY <3>1, <3>2
  <2>2. ListOf(j)' = ListOf(j)
    BY <1>5, SameProgram DEF LoopEnds
  <2>3. QED
    BY <1>1, <1>5, <2>1, <2>2 DEF LoopEnds, Done
<1>6. ASSUME Later
      PROVE  Done(k)' = Done(k)
  <2>1. ListOf(k)' = ListOf(k)
    BY <1>6, SameProgram DEF Later
  <2>2. QED
    BY <1>2, <1>6, <2>1 DEF Later, Done
<1>7. QED
  BY <1>3, <1>4, <1>5, <1>6

\* Every step is a step of a loop, the end of one, or comes later.
LEMMA Steps ==
    ASSUME Control
    PROVE  /\ \A k \in 1 .. 5 : write_symbol(k) \/ pass_over(k) => InStep(k) /\ Stage = k /\ Stage' = k
           /\ \A k \in 1 .. 5 : end_symbols(k) => LoopEnds(k) /\ Stage = k /\ Stage' = k + 1
           /\ assemble => Later /\ Stage = 6 /\ Stage' = 6
           /\ end_assemble => Later /\ Stage = 6 /\ Stage' = 7
           /\ write_headers => Later /\ Stage = 7 /\ Stage' = 8
           /\ write_section => Later /\ Stage = 8 /\ Stage' \in {8, 9}
           /\ UNCHANGED vars /\ Stage >= 6 => Later
<1>1. ASSUME NEW k \in 1 .. 5, write_symbol(k) \/ pass_over(k)
      PROVE  InStep(k) /\ Stage = k /\ Stage' = k
  <2>1. InStep(k)
    BY <1>1 DEF write_symbol, pass_over, InStep
  <2>2. QED
    BY <2>1, Stages DEF InStep, Stage
<1>2. ASSUME NEW k \in 1 .. 5, end_symbols(k)
      PROVE  LoopEnds(k) /\ Stage = k /\ Stage' = k + 1
  <2>1. LoopEnds(k)
    BY <1>2 DEF end_symbols, LoopEnds
  <2>2. CASE k = 5
    BY <2>1, <2>2, Stages DEF LoopEnds, Stage
  <2>3. CASE k # 5
    <3>1. k + 1 \in 1 .. 5
      BY <2>3
    <3>2. QED
      BY <2>1, <2>3, <3>1, Stages DEF LoopEnds, Stage
  <2>4. QED
    BY <2>1, <2>2, <2>3
<1>3. assemble => Later /\ Stage = 6 /\ Stage' = 6
  BY Stages DEF assemble, Later, Stage
<1>4. end_assemble => Later /\ Stage = 6 /\ Stage' = 7
  BY Stages DEF end_assemble, Later, Stage
<1>5. write_headers => Later /\ Stage = 7 /\ Stage' = 8
  BY Stages DEF write_headers, Later, Stage
<1>6. write_section => Later /\ Stage = 8 /\ Stage' \in {8, 9}
  BY Stages DEF write_section, Later, Stage
<1>7. UNCHANGED vars /\ Stage >= 6 => Later
  BY DEF vars, Later, Stage
<1>8. QED
  BY <1>1, <1>2, <1>3, <1>4, <1>5, <1>6, <1>7

-----------------------------------------------------------------------------
(* Control.                                                                 *)

\* A sequence with some elements replaced.
LEMMA Replaced ==
    ASSUME NEW s, IsSeq(s), NEW t, t = [i \in DOMAIN s |-> t[i]]
    PROVE  IsSeq(t) /\ Len(t) = Len(s)
<1>1. Len(s) \in Nat /\ DOMAIN s = 1 .. Len(s)
  BY SeqFacts
<1>2. t \in [1 .. Len(s) -> Range(t)]
  BY <1>1 DEF Range
<1>3. t \in Seq(Range(t)) /\ Len(t) = Len(s)
  BY <1>1, <1>2, FunctionIs
<1>4. QED
  BY <1>3 DEF IsSeq

\* A field has at most one relocation entry.
LEMMA RelasOfField ==
    ASSUME NEW v, NEW bytes, NEW at, NEW c
    PROVE  LET r == static_value_relas(v, bytes, at, c) IN IsSeq(r) /\ Len(r) \in 0 .. 1
<1> DEFINE Rela(type, addend) == [offset |-> at, sym |-> c[v.binding], type |-> type, addend |-> addend]
           r == static_value_relas(v, bytes, at, c)
<1>1. r = <<>> \/ \E type, addend : r = <<Rela(type, addend)>>
  BY DEF static_value_relas
<1> HIDE DEF Rela, r
<1>2. ASSUME r = <<>>
      PROVE  IsSeq(r) /\ Len(r) = 0
  <2>1. r \in Seq({}) /\ Len(r) = 0
    BY <1>2
  <2>2. QED
    BY <2>1, SeqIs
<1>3. ASSUME NEW e, r = <<e>>
      PROVE  IsSeq(r) /\ Len(r) = 1
  BY <1>3, One
<1>4. QED
  BY <1>1, <1>2, <1>3 DEF r

\* There are five parts behind the headers.
LEMMA FiveParts == Len(Parts) = 5
  BY DEF Parts

\* Nothing but what is meant happens to the control of write_elf.
LEMMA ControlKept ==
    ASSUME Control, [Next]_vars
    PROVE  Control'
<1>1. program \in Programs /\ cursor \in Nat /\ IsSeq(syms) /\ IsSeq(strtab) /\ IsSeq(relas)
  BY DEF Control
<1>2. \A k \in 1 .. 5 : Len(ListOf(k)) \in Nat
  BY LoopFacts, <1>1
<1>3. N \in Nat
  BY <1>1, ProgramFacts, SeqFacts DEF N
<1>4. ASSUME NEW k \in 1 .. 5, write_symbol(k)
      PROVE  Control'
  <2>1. InStep(k) /\ Stage = k /\ Stage' = k
    BY <1>4, Steps
  <2>2. program' = program /\ cursor' = cursor + 1 /\ cursor < Len(ListOf(k)) /\ ListOf(k)' = ListOf(k)
    BY <2>1, SameProgram DEF InStep
  <2>3. IsSeq(syms') /\ relas' = relas
    BY <1>1, <1>4, Appended DEF write_symbol
  <2>4. IsSeq(strtab')
    <3> DEFINE b == BindingAt(k, cursor + 1)
    <3>1. cursor + 1 \in 1 .. Len(ListOf(k)) /\ InLoop(k, cursor + 1)
      BY <1>1, <1>2, <1>4, <2>2 DEF write_symbol
    <3>2. IsSeq(Binding(b).name)
      BY <1>1, <3>1, LoopFacts DEF IsBinding
    <3>3. strtab' = strtab \/ strtab' = strtab \o Append(Binding(b).name, NUL)
      BY <1>4 DEF write_symbol
    <3> HIDE DEF b
    <3>4. IsSeq(Append(Binding(b).name, NUL))
      BY <3>2, Appended
    <3>5. IsSeq(strtab \o Append(Binding(b).name, NUL))
      BY <1>1, <3>4, Cat
    <3>6. QED
      BY <1>1, <3>3, <3>5
  <2>5. QED
    BY <1>1, <1>2, <2>1, <2>2, <2>3, <2>4 DEF Control
<1>5. ASSUME NEW k \in 1 .. 5, pass_over(k)
      PROVE  Control'
  <2>1. InStep(k) /\ Stage = k /\ Stage' = k
    BY <1>5, Steps
  <2>2. program' = program /\ cursor' = cursor + 1 /\ cursor < Len(ListOf(k)) /\ ListOf(k)' = ListOf(k)
    BY <2>1, SameProgram DEF InStep
  <2>3. syms' = syms /\ relas' = relas /\ strtab' = strtab
    BY <1>5 DEF pass_over
  <2>4. QED
    BY <1>1, <1>2, <2>1, <2>2, <2>3 DEF Control
<1>6. ASSUME NEW k \in 1 .. 5, end_symbols(k)
      PROVE  Control'
  <2>1. LoopEnds(k) /\ Stage = k /\ Stage' = k + 1
    BY <1>6, Steps
  <2>2. program' = program /\ cursor' = 0 /\ N' = N /\ \A j \in 1 .. 5 : ListOf(j)' = ListOf(j)
    BY <2>1, SameProgram DEF LoopEnds
  <2>3. syms' = syms /\ relas' = relas /\ strtab' = strtab
    BY <1>6 DEF end_symbols
  <2>4. Stage' <= 5 => cursor' <= Len(ListOf(Stage))'
    BY <1>2, <2>1, <2>2
  <2>5. QED
    BY <1>1, <1>3, <2>1, <2>2, <2>3, <2>4 DEF Control
<1>7. CASE assemble
  <2>1. program' = program /\ Stage' = 6 /\ N' = N
    BY <1>7, Steps, SameProgram DEF Later
  <2>2. cursor < N /\ cursor' = cursor + 1 /\ strtab' = strtab
    BY <1>7 DEF assemble, N
  <2>3. IsSeq(syms')
    <3>1. \/ syms' = syms
          \/ \E j, v : syms' = [syms EXCEPT ![j].value = v]
      BY <1>7 DEF assemble
    <3>2. syms' = [i \in DOMAIN syms |-> syms'[i]]
      BY <1>1, <3>1 DEF IsSeq
    <3>3. QED
      BY <1>1, <3>2, Replaced
  <2>4. IsSeq(relas')
    <3>1. relas' = relas \/ \E v, by, at, c : relas' = relas \o static_value_relas(v, by, at, c)
      BY <1>7 DEF assemble
    <3>2. ASSUME NEW v, NEW by, NEW at, NEW c
          PROVE  IsSeq(relas \o static_value_relas(v, by, at, c))
      BY <1>1, RelasOfField, Cat
    <3>3. QED
      BY <1>1, <3>1, <3>2
  <2>5. QED
    BY <1>1, <1>3, <2>1, <2>2, <2>3, <2>4 DEF Control
<1>8. CASE end_assemble
  <2>1. program' = program /\ Stage' = 7 /\ N' = N
    BY <1>8, Steps, SameProgram DEF Later
  <2>2. cursor' = N /\ syms' = syms /\ relas' = relas /\ strtab' = strtab
    BY <1>8 DEF end_assemble, N
  <2>3. QED
    BY <1>1, <1>3, <2>1, <2>2 DEF Control
<1>9. CASE write_headers
  <2>1. program' = program /\ Stage' = 8
    BY <1>9, Steps DEF Later
  <2>2. cursor' = 0 /\ syms' = syms /\ relas' = relas /\ strtab' = strtab
    BY <1>9 DEF write_headers
  <2>3. QED
    BY <1>1, <2>1, <2>2 DEF Control
<1>10. CASE write_section
  <2>1. program' = program /\ Stage' \in {8, 9} /\ cursor < 5
    BY <1>10, Steps DEF Later, Control
  <2>2. cursor' = cursor + 1 /\ syms' = syms /\ relas' = relas /\ strtab' = strtab
    BY <1>10 DEF write_section
  <2>3. phase = "sections" /\ phase' = IF cursor' = 5 THEN "written" ELSE phase
    BY <1>10, FiveParts DEF write_section
  <2>4. (Stage' = 8 => cursor' < 5) /\ (Stage' = 9 => cursor' = 5 /\ phase' = "written")
    BY <1>1, <2>1, <2>2, <2>3, Stages DEF Stage
  <2>5. QED
    BY <1>1, <2>1, <2>2, <2>4 DEF Control
<1>11. CASE UNCHANGED vars
  <2>1. program' = program /\ phase' = phase /\ cursor' = cursor /\ Stage' = Stage
        /\ syms' = syms /\ relas' = relas /\ strtab' = strtab
    BY <1>11 DEF vars, Stage
  <2>2. N' = N /\ \A k : ListOf(k)' = ListOf(k)
    BY <2>1, SameProgram
  <2>3. QED
    BY <2>1, <2>2 DEF Control
<1>12. QED
  BY <1>4, <1>5, <1>6, <1>7, <1>8, <1>9, <1>10, <1>11 DEF Next

-----------------------------------------------------------------------------
(* The tables of names and symbols.                                         *)

\* What the loops write can be summed up.
LEMMA LoopValues ==
    ASSUME program \in Programs, NEW k \in 1 .. 5
    PROVE  /\ Values(Len(ListOf(k)), NamesIn(k)) /\ Values(Len(ListOf(k)), CountsIn(k))
           /\ \A i \in 1 .. Len(ListOf(k)) : InLoop(k, i) =>
                /\ NamesIn(k)[i] = NameSize(BindingAt(k, i)) /\ NamesIn(k)[i] \in Nat
                /\ CountsIn(k)[i] = 1
           /\ \A i \in 1 .. Len(ListOf(k)) : ~InLoop(k, i) => NamesIn(k)[i] = 0 /\ CountsIn(k)[i] = 0
<1>1. \A b : IsBinding(b) => NameSize(b) \in Nat
  BY SeqFacts DEF IsBinding, NameSize
<1>2. ASSUME NEW i \in 1 .. Len(ListOf(k)), InLoop(k, i)
      PROVE  /\ NamesIn(k)[i] = NameSize(BindingAt(k, i)) /\ NamesIn(k)[i] \in Nat
             /\ CountsIn(k)[i] = 1
  <2>1. NameSize(BindingAt(k, i)) \in Nat
    BY <1>1, <1>2, LoopFacts
  <2>2. QED
    BY <1>2, <2>1 DEF NamesIn, CountsIn
<1>3. ASSUME NEW i \in 1 .. Len(ListOf(k)), ~InLoop(k, i)
      PROVE  NamesIn(k)[i] = 0 /\ CountsIn(k)[i] = 0
  BY <1>3 DEF NamesIn, CountsIn
<1>4. Len(ListOf(k)) \in Nat
  BY LoopFacts
<1>5. Values(Len(ListOf(k)), NamesIn(k)) /\ Values(Len(ListOf(k)), CountsIn(k))
  BY <1>2, <1>3, <1>4 DEF Values
<1>6. QED
  BY <1>2, <1>3, <1>5

\* What a step of the k-th loop adds to what the loops have written.
LEMMA LoopAdds ==
    ASSUME Control, NEW k \in 1 .. 5, InStep(k)
    PROVE  /\ NamesDone(k)' = NamesDone(k) + NamesIn(k)[cursor + 1]
           /\ CountsDone(k)' = CountsDone(k) + CountsIn(k)[cursor + 1]
           /\ \A j \in 1 .. 5 : j # k => NamesDone(j)' = NamesDone(j) /\ CountsDone(j)' = CountsDone(j)
<1> DEFINE n == Len(ListOf(k))
<1>1. program \in Programs /\ cursor \in Nat /\ cursor < n /\ program' = program
  BY DEF Control, InStep
<1>2. n \in Nat
  BY <1>1, LoopFacts
<1>3. /\ Done(k) = cursor /\ Done(k)' = cursor + 1
      /\ \A j \in 1 .. 5 : j # k => Done(j)' = Done(j)
  BY DoneSteps
<1>4. \A j : ListOf(j)' = ListOf(j) /\ NamesIn(j)' = NamesIn(j) /\ CountsIn(j)' = CountsIn(j)
  BY <1>1, SameProgram
<1>5. cursor \in 0 .. (n - 1)
  BY <1>1, <1>2
<1>6. /\ Sums(n, NamesIn(k))[cursor + 1] = Sums(n, NamesIn(k))[cursor] + NamesIn(k)[cursor + 1]
      /\ Sums(n, CountsIn(k))[cursor + 1] = Sums(n, CountsIn(k))[cursor] + CountsIn(k)[cursor + 1]
  <2> HIDE DEF n
  <2> QED BY <1>2, <1>5, SumsSteps
<1>7. /\ NamesDone(k)' = Sums(n, NamesIn(k))[cursor + 1]
      /\ CountsDone(k)' = Sums(n, CountsIn(k))[cursor + 1]
      /\ NamesDone(k) = Sums(n, NamesIn(k))[cursor]
      /\ CountsDone(k) = Sums(n, CountsIn(k))[cursor]
  BY <1>3, <1>4 DEF NamesDone, CountsDone
<1>8. \A j \in 1 .. 5 : j # k => NamesDone(j)' = NamesDone(j) /\ CountsDone(j)' = CountsDone(j)
  BY <1>3, <1>4 DEF NamesDone, CountsDone
<1>9. QED
  BY <1>6, <1>7, <1>8

\* What is not a step of a loop adds nothing.
LEMMA NothingAdded ==
    ASSUME Control, program' = program, \A j \in 1 .. 5 : Done(j)' = Done(j)
    PROVE  \A j \in 1 .. 5 : NamesDone(j)' = NamesDone(j) /\ CountsDone(j)' = CountsDone(j)
  BY SameProgram DEF NamesDone, CountsDone

\* How far the loops are are numbers.
LEMMA DoneNat ==
    ASSUME program \in Programs, \A j \in 1 .. 5 : Done(j) \in 0 .. Len(ListOf(j))
    PROVE  \A j \in 1 .. 5 : /\ NamesDone(j) \in Nat /\ CountsDone(j) \in Nat
                             /\ NamesDone(j) <= Total(Len(ListOf(j)), NamesIn(j))
                             /\ CountsDone(j) <= Total(Len(ListOf(j)), CountsIn(j))
<1> SUFFICES ASSUME NEW j \in 1 .. 5
             PROVE  /\ NamesDone(j) \in Nat /\ CountsDone(j) \in Nat
                    /\ NamesDone(j) <= Total(Len(ListOf(j)), NamesIn(j))
                    /\ CountsDone(j) <= Total(Len(ListOf(j)), CountsIn(j))
  OBVIOUS
<1> DEFINE n == Len(ListOf(j))
           f == NamesIn(j)
           g == CountsIn(j)
<1>1. Values(n, f) /\ Values(n, g) /\ Done(j) \in 0 .. n
  BY LoopValues
<1>2. NamesDone(j) = Sums(n, f)[Done(j)] /\ CountsDone(j) = Sums(n, g)[Done(j)]
  BY DEF NamesDone, CountsDone
<1> HIDE DEF n, f, g
<1>3. /\ \A i \in 0 .. n : Sums(n, f)[i] \in Nat /\ Sums(n, f)[i] <= Total(n, f)
      /\ \A i \in 0 .. n : Sums(n, g)[i] \in Nat /\ Sums(n, g)[i] <= Total(n, g)
  BY <1>1, SumsGrow
<1>4. QED
  BY <1>1, <1>2, <1>3 DEF n, f, g

\* Five sums of two.
LEMMA FiveSums ==
    ASSUME NEW a \in Nat, NEW b \in Nat, NEW c \in Nat, NEW d \in Nat, NEW e \in Nat,
           NEW p \in Nat, NEW q \in Nat, NEW r \in Nat, NEW s \in Nat, NEW t \in Nat
    PROVE  (1 + a + b + c + d + e) + (p + q + r + s + t)
             = 1 + (a + p) + (b + q) + (c + r) + (d + s) + (e + t)
  OBVIOUS

\* The tables grow by what the loops write.
LEMMA TablesKept ==
    ASSUME Control, Tables, [Next]_vars
    PROVE  Tables'
<1>1. program \in Programs /\ cursor \in Nat /\ IsSeq(syms) /\ IsSeq(strtab)
      /\ Len(syms) \in Nat /\ Len(strtab) \in Nat
  BY SeqFacts DEF Control
<1>2. \A j \in 1 .. 5 : NamesDone(j) \in Nat /\ CountsDone(j) \in Nat
  BY <1>1, DoneSteps, DoneNat
<1>3. ASSUME NEW k \in 1 .. 5, write_symbol(k)
      PROVE  Tables'
  <2> DEFINE b == BindingAt(k, cursor + 1)
  <2>1. InStep(k)
    BY <1>3, Steps
  <2>2. cursor + 1 \in 1 .. Len(ListOf(k)) /\ InLoop(k, cursor + 1)
    <3>1. cursor < Len(ListOf(k)) /\ InLoop(k, cursor + 1)
      BY <1>3 DEF write_symbol
    <3>2. Len(ListOf(k)) \in Nat
      BY <1>1, LoopFacts
    <3>3. QED
      BY <1>1, <3>1, <3>2
  <2>3. NamesIn(k)[cursor + 1] = NameSize(b) /\ NameSize(b) \in Nat /\ CountsIn(k)[cursor + 1] = 1
    BY <1>1, <2>2, LoopValues
  <2>4. /\ NamesDone(k)' = NamesDone(k) + NameSize(b) /\ CountsDone(k)' = CountsDone(k) + 1
        /\ \A j \in 1 .. 5 : j # k => NamesDone(j)' = NamesDone(j) /\ CountsDone(j)' = CountsDone(j)
    BY <2>1, <2>3, LoopAdds
  <2>5. Len(syms') = Len(syms) + 1
    BY <1>1, <1>3, Appended DEF write_symbol
  <2>6. Len(strtab') = Len(strtab) + NameSize(b)
    <3>1. IsSeq(Binding(b).name)
      BY <1>1, <2>2, LoopFacts DEF IsBinding
    <3>2. strtab' = IF Binding(b).name # NULL THEN strtab \o Append(Binding(b).name, NUL) ELSE strtab
      BY <1>3 DEF write_symbol
    <3>3. NameSize(b) = IF Binding(b).name # NULL THEN Len(Binding(b).name) + 1 ELSE 0
      BY DEF NameSize
    <3> HIDE DEF b
    <3>4. IsSeq(Append(Binding(b).name, NUL)) /\ Len(Append(Binding(b).name, NUL)) = Len(Binding(b).name) + 1
      BY <3>1, Appended
    <3>5. Len(strtab \o Append(Binding(b).name, NUL)) = Len(strtab) + (Len(Binding(b).name) + 1)
      BY <1>1, <3>4, Cat
    <3>6. QED
      BY <1>1, <3>2, <3>3, <3>5
  <2> HIDE DEF b
  <2>7. k \in {1, 2, 3, 4, 5} /\ \A j \in {1, 2, 3, 4, 5} : j \in 1 .. 5
    OBVIOUS
  <2>8. Len(strtab)' = 1 + NamesDone(1)' + NamesDone(2)' + NamesDone(3)' + NamesDone(4)' + NamesDone(5)'
    <3> DEFINE d(j) == IF j = k THEN NameSize(b) ELSE 0
    <3>1. \A j \in {1, 2, 3, 4, 5} : NamesDone(j) \in Nat /\ NamesDone(j)' = NamesDone(j) + d(j)
      BY <1>2, <2>3, <2>4, <2>7
    <3>2. d(1) + d(2) + d(3) + d(4) + d(5) = NameSize(b) /\ \A j \in {1, 2, 3, 4, 5} : d(j) \in Nat
      BY <2>3, <2>7
    <3> HIDE DEF d
    <3>3. /\ NamesDone(1)' = NamesDone(1) + d(1) /\ NamesDone(1) \in Nat /\ d(1) \in Nat
          /\ NamesDone(2)' = NamesDone(2) + d(2) /\ NamesDone(2) \in Nat /\ d(2) \in Nat
          /\ NamesDone(3)' = NamesDone(3) + d(3) /\ NamesDone(3) \in Nat /\ d(3) \in Nat
          /\ NamesDone(4)' = NamesDone(4) + d(4) /\ NamesDone(4) \in Nat /\ d(4) \in Nat
          /\ NamesDone(5)' = NamesDone(5) + d(5) /\ NamesDone(5) \in Nat /\ d(5) \in Nat
      BY <3>1, <3>2
    <3>4. Len(strtab) = 1 + NamesDone(1) + NamesDone(2) + NamesDone(3) + NamesDone(4) + NamesDone(5)
      BY DEF Tables
    <3>5. (1 + NamesDone(1) + NamesDone(2) + NamesDone(3) + NamesDone(4) + NamesDone(5))
            + (d(1) + d(2) + d(3) + d(4) + d(5))
            = 1 + (NamesDone(1) + d(1)) + (NamesDone(2) + d(2)) + (NamesDone(3) + d(3)) + (NamesDone(4) + d(4)) + (NamesDone(5) + d(5))
      BY <3>3, FiveSums
    <3>6. QED
      BY <2>6, <3>2, <3>3, <3>4, <3>5, Zenon
  <2>9. Len(syms)' = 1 + CountsDone(1)' + CountsDone(2)' + CountsDone(3)' + CountsDone(4)' + CountsDone(5)'
    <3> DEFINE d(j) == IF j = k THEN 1 ELSE 0
    <3>1. \A j \in {1, 2, 3, 4, 5} : CountsDone(j) \in Nat /\ CountsDone(j)' = CountsDone(j) + d(j)
      BY <1>2, <2>4, <2>7
    <3>2. d(1) + d(2) + d(3) + d(4) + d(5) = 1 /\ \A j \in {1, 2, 3, 4, 5} : d(j) \in Nat
      BY <2>7
    <3> HIDE DEF d
    <3>3. /\ CountsDone(1)' = CountsDone(1) + d(1) /\ CountsDone(1) \in Nat /\ d(1) \in Nat
          /\ CountsDone(2)' = CountsDone(2) + d(2) /\ CountsDone(2) \in Nat /\ d(2) \in Nat
          /\ CountsDone(3)' = CountsDone(3) + d(3) /\ CountsDone(3) \in Nat /\ d(3) \in Nat
          /\ CountsDone(4)' = CountsDone(4) + d(4) /\ CountsDone(4) \in Nat /\ d(4) \in Nat
          /\ CountsDone(5)' = CountsDone(5) + d(5) /\ CountsDone(5) \in Nat /\ d(5) \in Nat
      BY <3>1, <3>2
    <3>4. Len(syms) = 1 + CountsDone(1) + CountsDone(2) + CountsDone(3) + CountsDone(4) + CountsDone(5)
      BY DEF Tables
    <3>5. (1 + CountsDone(1) + CountsDone(2) + CountsDone(3) + CountsDone(4) + CountsDone(5))
            + (d(1) + d(2) + d(3) + d(4) + d(5))
            = 1 + (CountsDone(1) + d(1)) + (CountsDone(2) + d(2)) + (CountsDone(3) + d(3)) + (CountsDone(4) + d(4)) + (CountsDone(5) + d(5))
      BY <3>3, FiveSums
    <3>6. QED
      BY <2>5, <3>2, <3>3, <3>4, <3>5, Zenon
  <2>10. QED
    BY <2>8, <2>9 DEF Tables
<1>4. ASSUME NEW k \in 1 .. 5, pass_over(k)
      PROVE  Tables'
  <2>1. InStep(k)
    BY <1>4, Steps
  <2>2. cursor + 1 \in 1 .. Len(ListOf(k)) /\ ~InLoop(k, cursor + 1)
    BY <1>1, <1>4, LoopFacts DEF pass_over
  <2>3. NamesIn(k)[cursor + 1] = 0 /\ CountsIn(k)[cursor + 1] = 0
    BY <1>1, <2>2, LoopValues
  <2>4. \A j \in 1 .. 5 : NamesDone(j)' = NamesDone(j) /\ CountsDone(j)' = CountsDone(j)
    BY <1>2, <2>1, <2>3, LoopAdds
  <2>5. syms' = syms /\ strtab' = strtab
    BY <1>4 DEF pass_over
  <2>6. QED
    BY <2>4, <2>5 DEF Tables
<1>5. ASSUME NEW k \in 1 .. 5, end_symbols(k)
      PROVE  Tables'
  <2>1. LoopEnds(k)
    BY <1>5, Steps
  <2>2. program' = program /\ \A j \in 1 .. 5 : Done(j)' = Done(j)
    BY <2>1, DoneSteps DEF LoopEnds
  <2>3. \A j \in 1 .. 5 : NamesDone(j)' = NamesDone(j) /\ CountsDone(j)' = CountsDone(j)
    BY <2>2, NothingAdded
  <2>4. syms' = syms /\ strtab' = strtab
    BY <1>5 DEF end_symbols
  <2>5. QED
    BY <2>3, <2>4 DEF Tables
<1>6. CASE assemble \/ end_assemble \/ write_headers \/ write_section
  <2>1. Later
    BY <1>6, Steps
  <2>2. program' = program /\ \A j \in 1 .. 5 : Done(j)' = Done(j)
    BY <2>1, DoneSteps DEF Later
  <2>3. \A j \in 1 .. 5 : NamesDone(j)' = NamesDone(j) /\ CountsDone(j)' = CountsDone(j)
    BY <2>2, NothingAdded
  <2>4. strtab' = strtab /\ Len(syms') = Len(syms)
    <3>1. CASE assemble
      <4>1. \/ syms' = syms
            \/ \E j, v : syms' = [syms EXCEPT ![j].value = v]
        BY <3>1 DEF assemble
      <4>2. syms' = [i \in DOMAIN syms |-> syms'[i]]
        BY <1>1, <4>1 DEF IsSeq
      <4>3. QED
        BY <1>1, <3>1, <4>2, Replaced DEF assemble
    <3>2. CASE end_assemble \/ write_headers \/ write_section
      BY <3>2 DEF end_assemble, write_headers, write_section
    <3>3. QED
      BY <1>6, <3>1, <3>2
  <2>5. QED
    BY <2>3, <2>4 DEF Tables
<1>7. CASE UNCHANGED vars
  <2>1. program' = program /\ phase' = phase /\ cursor' = cursor /\ strtab' = strtab /\ syms' = syms
    BY <1>7 DEF vars
  <2>2. \A k : ListOf(k)' = ListOf(k)
    BY <2>1, SameProgram
  <2>3. \A j \in 1 .. 5 : Done(j)' = Done(j)
    BY <2>1, <2>2 DEF Done, Stage
  <2>4. \A j \in 1 .. 5 : NamesDone(j)' = NamesDone(j) /\ CountsDone(j)' = CountsDone(j)
    BY <2>1, <2>3, NothingAdded
  <2>5. QED
    BY <2>1, <2>4 DEF Tables
<1>8. QED
  BY <1>3, <1>4, <1>5, <1>6, <1>7 DEF Next

\* The sum of n ones.
LEMMA SumsOnes ==
    ASSUME NEW n \in Nat, NEW f, \A i \in 1 .. n : f[i] = 1
    PROVE  Total(n, f) = n
<1> DEFINE s == Sums(n, f)
           T == {i \in Nat : i <= n => s[i] = i}
<1>1. s[0] = 0 /\ \A i \in 0 .. (n - 1) : s[i + 1] = s[i] + f[i + 1]
  BY SumsSteps
<1>2. Total(n, f) = s[n]
  BY DEF Total
<1> HIDE DEF s
<1>3. ASSUME NEW i \in T
      PROVE  i + 1 \in T
  <2> SUFFICES ASSUME i + 1 <= n
               PROVE  s[i + 1] = i + 1
    OBVIOUS
  <2>1. i \in 0 .. (n - 1) /\ s[i] = i /\ i + 1 \in 1 .. n
    OBVIOUS
  <2>2. s[i + 1] = s[i] + f[i + 1] /\ f[i + 1] = 1
    BY <1>1, <2>1
  <2>3. QED
    BY <2>1, <2>2
<1>4. T = Nat
  <2>1. T \in SUBSET Nat /\ 0 \in T
    BY <1>1
  <2> HIDE DEF T
  <2>2. QED
    BY <1>3, <2>1, InductionSet
<1>5. QED
  BY <1>2, <1>4

\* Statics and labels are in one of the loops that go through their list, by
\* their scope, and undefined bindings are in the one that goes through theirs.
LEMMA InOneLoop ==
    ASSUME program \in Programs
    PROVE  /\ \A k \in {1, 3} : ListOf(k) = program.statics
           /\ \A k \in {2, 5} : ListOf(k) = program.asms
           /\ ListOf(4) = program.undefined
           /\ \A i \in 1 .. Len(program.statics) :
                /\ InLoop(1, i) <=> Binding(program.statics[i]).scope = "local_scope"
                /\ InLoop(3, i) <=> Binding(program.statics[i]).scope # "local_scope"
           /\ \A i \in 1 .. N :
                /\ InLoop(2, i) <=> /\ IsLabel(program.asms[i])
                                    /\ Binding(BindingOf(program.asms[i])).scope = "local_scope"
                /\ InLoop(5, i) <=> /\ IsLabel(program.asms[i])
                                    /\ Binding(BindingOf(program.asms[i])).scope # "local_scope"
           /\ \A i \in 1 .. Len(program.undefined) : InLoop(4, i)
<1>1. /\ ListOf(1) = program.statics /\ ListOf(3) = program.statics
      /\ ListOf(2) = program.asms /\ ListOf(5) = program.asms /\ ListOf(4) = program.undefined
  BY DEF ListOf
<1>2. /\ \A i : BindingAt(1, i) = program.statics[i] /\ BindingAt(3, i) = program.statics[i]
      /\ \A i : BindingAt(2, i) = BindingOf(program.asms[i]) /\ BindingAt(5, i) = BindingOf(program.asms[i])
      /\ \A i : BindingAt(4, i) = program.undefined[i]
  BY <1>1 DEF BindingAt
<1>3. \A i : InLoop(1, i) <=> Binding(program.statics[i]).scope = "local_scope"
  BY <1>2 DEF InLoop, IsLocal
<1>4. ASSUME NEW i \in 1 .. Len(program.statics)
      PROVE  InLoop(3, i) <=> Binding(program.statics[i]).scope # "local_scope"
  <2>1. /\ Binding(program.statics[i]).scope \in {"local_scope", "global_scope"}
        /\ Binding(program.statics[i]).state = "defined_state"
    BY ProgramFacts DEF IsBinding
  <2>2. QED
    BY <1>2, <2>1 DEF InLoop, IsGlobal
<1>5. \A i : InLoop(2, i) <=> /\ IsLabel(program.asms[i])
                              /\ Binding(BindingOf(program.asms[i])).scope = "local_scope"
  BY <1>1, <1>2 DEF InLoop, IsLocal
<1>6. ASSUME NEW i \in 1 .. N
      PROVE  InLoop(5, i) <=> /\ IsLabel(program.asms[i])
                              /\ Binding(BindingOf(program.asms[i])).scope # "local_scope"
  <2>1. InLoop(5, i) <=> IsLabel(program.asms[i]) /\ Binding(BindingOf(program.asms[i])).scope = "global_scope"
    BY <1>1, <1>2 DEF InLoop, IsGlobal
  <2>2. IsLabel(program.asms[i]) =>
          Binding(BindingOf(program.asms[i])).scope \in {"local_scope", "global_scope"}
    BY ProgramFacts DEF IsBinding
  <2>3. QED
    BY <2>1, <2>2
<1>7. ASSUME NEW i \in 1 .. Len(program.undefined)
      PROVE  InLoop(4, i)
  BY <1>2, ProgramFacts DEF InLoop, IsGlobal
<1>8. QED
  BY <1>1, <1>3, <1>4, <1>5, <1>6, <1>7

\* All names that are measured are written, and all symbols.
LEMMA Measured ==
    ASSUME program \in Programs
    PROVE  LET names(j)  == Total(Len(ListOf(j)), NamesIn(j))
               counts(j) == Total(Len(ListOf(j)), CountsIn(j))
           IN  /\ measure_strtab = 1 + names(1) + names(2) + names(3) + names(4) + names(5)
               /\ measure_symtab = 1 + counts(1) + counts(2) + counts(3) + counts(4) + counts(5)
               /\ \A j \in 1 .. 5 : names(j) \in Nat /\ counts(j) \in Nat
<1> DEFINE S == Len(program.statics)
           U == Len(program.undefined)
           names(j)  == Total(Len(ListOf(j)), NamesIn(j))
           counts(j) == Total(Len(ListOf(j)), CountsIn(j))
           nameOf(j, i)  == NamesIn(j)[i]
           countOf(j, i) == CountsIn(j)[i]
<1>1. /\ ListOf(1) = program.statics /\ ListOf(3) = program.statics
      /\ ListOf(2) = program.asms /\ ListOf(5) = program.asms /\ ListOf(4) = program.undefined
  BY InOneLoop
<1>2. \A j \in {1, 2, 3, 4, 5} :
        Values(Len(ListOf(j)), NamesIn(j)) /\ Values(Len(ListOf(j)), CountsIn(j))
  BY LoopValues
<1>3. /\ Values(S, NamesIn(1)) /\ Values(S, NamesIn(3)) /\ Values(S, CountsIn(1)) /\ Values(S, CountsIn(3))
      /\ Values(N, NamesIn(2)) /\ Values(N, NamesIn(5)) /\ Values(N, CountsIn(2)) /\ Values(N, CountsIn(5))
      /\ Values(U, NamesIn(4)) /\ Values(U, CountsIn(4))
  BY <1>1, <1>2 DEF N
<1>4. S \in Nat /\ N \in Nat /\ U \in Nat
  BY <1>3 DEF Values
<1>5. \A j \in 1 .. 5 : names(j) \in Nat /\ counts(j) \in Nat
  <2> SUFFICES ASSUME NEW j \in 1 .. 5
               PROVE  names(j) \in Nat /\ counts(j) \in Nat
    OBVIOUS
  <2> DEFINE n == Len(ListOf(j))
             f == NamesIn(j)
             g == CountsIn(j)
  <2>1. Values(n, f) /\ Values(n, g)
    BY LoopValues
  <2> HIDE DEF n, f, g
  <2>2. n \in 0 .. n
    BY <2>1 DEF Values
  <2>3. Sums(n, f)[n] \in Nat /\ Sums(n, g)[n] \in Nat
    BY <2>1, <2>2, SumsGrow
  <2>4. QED
    BY <2>3 DEF n, f, g, Total
<1>6. ASSUME NEW i \in 1 .. S
      PROVE  /\ NameSizes(program.statics)[i] = NamesIn(1)[i] + NamesIn(3)[i]
             /\ CountsIn(1)[i] + CountsIn(3)[i] = 1
             /\ NameSizes(program.statics)[i] \in Nat
  <2>1. NameSizes(program.statics)[i] = NameSize(program.statics[i])
    BY DEF NameSizes
  <2>2. BindingAt(1, i) = program.statics[i] /\ BindingAt(3, i) = program.statics[i]
    BY <1>1 DEF BindingAt
  <2>3. /\ InLoop(1, i) => NamesIn(1)[i] = NameSize(program.statics[i]) /\ CountsIn(1)[i] = 1
                           /\ NameSize(program.statics[i]) \in Nat
        /\ ~InLoop(1, i) => NamesIn(1)[i] = 0 /\ CountsIn(1)[i] = 0
        /\ InLoop(3, i) => NamesIn(3)[i] = NameSize(program.statics[i]) /\ CountsIn(3)[i] = 1
                           /\ NameSize(program.statics[i]) \in Nat
        /\ ~InLoop(3, i) => NamesIn(3)[i] = 0 /\ CountsIn(3)[i] = 0
    <3>1. 1 \in 1 .. 5 /\ 3 \in 1 .. 5 /\ i \in 1 .. Len(ListOf(1)) /\ i \in 1 .. Len(ListOf(3))
      BY <1>1
    <3>2. /\ InLoop(1, i) => NamesIn(1)[i] = NameSize(BindingAt(1, i)) /\ CountsIn(1)[i] = 1
                             /\ NamesIn(1)[i] \in Nat
          /\ ~InLoop(1, i) => NamesIn(1)[i] = 0 /\ CountsIn(1)[i] = 0
      BY <3>1, LoopValues
    <3>3. /\ InLoop(3, i) => NamesIn(3)[i] = NameSize(BindingAt(3, i)) /\ CountsIn(3)[i] = 1
                             /\ NamesIn(3)[i] \in Nat
          /\ ~InLoop(3, i) => NamesIn(3)[i] = 0 /\ CountsIn(3)[i] = 0
      BY <3>1, LoopValues
    <3>4. QED
      BY <2>2, <3>2, <3>3
  <2>4. InLoop(1, i) <=> ~InLoop(3, i)
    BY InOneLoop
  <2>5. QED
    BY <2>1, <2>3, <2>4
<1>7. ASSUME NEW i \in 1 .. N
      PROVE  /\ LabelNameSizes[i] = NamesIn(2)[i] + NamesIn(5)[i]
             /\ LabelCounts[i] = CountsIn(2)[i] + CountsIn(5)[i]
             /\ LabelNameSizes[i] \in Nat /\ LabelCounts[i] \in Nat
  <2> DEFINE b == BindingOf(program.asms[i])
  <2>1. /\ LabelNameSizes[i] = IF IsLabel(program.asms[i]) THEN NameSize(b) ELSE 0
        /\ LabelCounts[i] = IF IsLabel(program.asms[i]) THEN 1 ELSE 0
    BY DEF LabelNameSizes, LabelCounts, N
  <2>2. BindingAt(2, i) = b /\ BindingAt(5, i) = b
    BY <1>1 DEF BindingAt
  <2>3. /\ InLoop(2, i) => NamesIn(2)[i] = NameSize(b) /\ CountsIn(2)[i] = 1 /\ NameSize(b) \in Nat
        /\ ~InLoop(2, i) => NamesIn(2)[i] = 0 /\ CountsIn(2)[i] = 0
        /\ InLoop(5, i) => NamesIn(5)[i] = NameSize(b) /\ CountsIn(5)[i] = 1 /\ NameSize(b) \in Nat
        /\ ~InLoop(5, i) => NamesIn(5)[i] = 0 /\ CountsIn(5)[i] = 0
    <3>1. 2 \in 1 .. 5 /\ 5 \in 1 .. 5 /\ i \in 1 .. Len(ListOf(2)) /\ i \in 1 .. Len(ListOf(5))
      BY <1>1 DEF N
    <3>2. QED
      BY <2>2, <3>1, LoopValues
  <2>4. /\ IsLabel(program.asms[i]) => (InLoop(2, i) <=> ~InLoop(5, i))
        /\ ~IsLabel(program.asms[i]) => ~InLoop(2, i) /\ ~InLoop(5, i)
    BY InOneLoop
  <2> HIDE DEF b
  <2>5. QED
    BY <2>1, <2>3, <2>4
<1>8. ASSUME NEW i \in 1 .. U
      PROVE  /\ NamesIn(4)[i] = NameSize(program.undefined[i])
             /\ CountsIn(4)[i] = 1
  <2>1. 4 \in 1 .. 5 /\ i \in 1 .. Len(ListOf(4)) /\ BindingAt(4, i) = program.undefined[i] /\ InLoop(4, i)
    BY <1>1, InOneLoop DEF BindingAt
  <2>2. QED
    BY <2>1, LoopValues
<1>9. TotalNames(program.statics) = names(1) + names(3)
  <2> DEFINE f == NamesIn(1)
             g == NamesIn(3)
             h == NameSizes(program.statics)
  <2>1. Values(S, f) /\ Values(S, g) /\ Values(S, h) /\ \A i \in 1 .. S : h[i] = f[i] + g[i]
    BY <1>3, <1>4, <1>6 DEF Values
  <2>2. TotalNames(program.statics) = Total(S, h) /\ names(1) = Total(S, f) /\ names(3) = Total(S, g)
    BY <1>1 DEF TotalNames
  <2> HIDE DEF S, f, g, h, names
  <2>3. QED
    BY <2>1, <2>2, SumsSplit
<1>10. Total(N, LabelNameSizes) = names(2) + names(5) /\ Total(N, LabelCounts) = counts(2) + counts(5)
  <2>1. Values(N, LabelNameSizes) /\ Values(N, LabelCounts)
    BY <1>4, <1>7 DEF Values
  <2>2. /\ names(2) = Total(N, NamesIn(2)) /\ names(5) = Total(N, NamesIn(5))
        /\ counts(2) = Total(N, CountsIn(2)) /\ counts(5) = Total(N, CountsIn(5))
    BY <1>1 DEF N
  <2>3. Total(N, LabelNameSizes) = Total(N, NamesIn(2)) + Total(N, NamesIn(5))
    BY <1>3, <1>7, <2>1, SumsSplit
  <2>4. Total(N, LabelCounts) = Total(N, CountsIn(2)) + Total(N, CountsIn(5))
    BY <1>3, <1>7, <2>1, SumsSplit
  <2>5. QED
    BY <2>2, <2>3, <2>4
<1>11. TotalNames(program.undefined) = names(4)
  <2>1. NamesIn(4) = NameSizes(program.undefined)
    <3>1. NamesIn(4) = [i \in 1 .. U |-> NamesIn(4)[i]]
      BY <1>1 DEF NamesIn
    <3>2. QED
      BY <1>8, <3>1 DEF NameSizes
  <2>2. QED
    BY <1>1, <2>1 DEF TotalNames
<1>12. counts(4) = U
  <2>1. counts(4) = Total(U, CountsIn(4))
    BY <1>1
  <2>2. Total(U, CountsIn(4)) = U
    <3> HIDE DEF U
    <3> QED BY <1>4, <1>8, SumsOnes
  <2>3. QED
    BY <2>1, <2>2
<1>13. counts(1) + counts(3) = S
  <2> DEFINE f == CountsIn(1)
             g == CountsIn(3)
             h == [i \in 1 .. S |-> 1]
  <2>1. Values(S, f) /\ Values(S, g) /\ Values(S, h) /\ \A i \in 1 .. S : h[i] = f[i] + g[i] /\ h[i] = 1
    BY <1>3, <1>4, <1>6 DEF Values
  <2>2. counts(1) = Total(S, f) /\ counts(3) = Total(S, g)
    BY <1>1
  <2> HIDE DEF S, f, g, h, counts
  <2>3. Total(S, h) = Total(S, f) + Total(S, g)
    BY <2>1, SumsSplit
  <2>4. Total(S, h) = S
    BY <1>4, <2>1, SumsOnes
  <2>5. QED
    BY <2>2, <2>3, <2>4
<1> HIDE DEF names, counts
<1>14. measure_strtab = 1 + names(1) + names(2) + names(3) + names(4) + names(5)
  <2>1. measure_strtab = 1 + names(4) + (names(1) + names(3)) + (names(2) + names(5))
    BY <1>9, <1>10, <1>11 DEF measure_strtab, N
  <2>2. names(1) \in Nat /\ names(2) \in Nat /\ names(3) \in Nat /\ names(4) \in Nat /\ names(5) \in Nat
    BY <1>5
  <2>3. QED
    BY <2>1, <2>2
<1>15. measure_symtab = 1 + counts(1) + counts(2) + counts(3) + counts(4) + counts(5)
  <2>1. measure_symtab = 1 + counts(4) + (counts(1) + counts(3)) + (counts(2) + counts(5))
    BY <1>10, <1>12, <1>13 DEF measure_symtab, N
  <2>2. counts(1) \in Nat /\ counts(2) \in Nat /\ counts(3) \in Nat /\ counts(4) \in Nat /\ counts(5) \in Nat
    BY <1>5
  <2>3. QED
    BY <2>1, <2>2
<1>16. QED
  BY <1>5, <1>14, <1>15 DEF names, counts

-----------------------------------------------------------------------------
(* The code.                                                                *)

\* What is in the code stays where it is when something is put behind it,
\* which is then at the end.
LEMMA HasKept ==
    ASSUME NEW code, IsSeq(code), NEW more, IsSeq(more)
    PROVE  /\ \A at, bytes : Has(code, at, bytes) => Has(code \o more, at, bytes)
           /\ Has(code \o more, Len(code) + 1, more)
<1> DEFINE all == code \o more
<1>1. /\ IsSeq(all) /\ Len(all) = Len(code) + Len(more)
      /\ \A i \in 1 .. Len(code) : all[i] = code[i]
      /\ \A i \in 1 .. Len(more) : all[Len(code) + i] = more[i]
  BY Cat
<1>2. /\ Len(code) \in Nat /\ Len(more) \in Nat /\ DOMAIN code = 1 .. Len(code)
      /\ DOMAIN all = 1 .. Len(all)
  BY <1>1, SeqFacts
<1> HIDE DEF all
<1>3. ASSUME NEW at, NEW bytes, Has(code, at, bytes)
      PROVE  Has(all, at, bytes)
  <2> SUFFICES ASSUME NEW i \in 1 .. Len(bytes)
               PROVE  at + i - 1 \in DOMAIN all /\ all[at + i - 1] = bytes[i]
    BY DEF Has
  <2> DEFINE p == at + i - 1
  <2>1. p \in DOMAIN code /\ code[p] = bytes[i]
    BY <1>3 DEF Has
  <2> HIDE DEF p
  <2>2. p \in DOMAIN all /\ all[p] = bytes[i]
    BY <1>1, <1>2, <2>1
  <2>3. QED
    BY <2>2 DEF p
<1>4. Has(all, Len(code) + 1, more)
  <2> SUFFICES ASSUME NEW i \in 1 .. Len(more)
               PROVE  Len(code) + 1 + i - 1 \in DOMAIN all /\ all[Len(code) + 1 + i - 1] = more[i]
    BY DEF Has
  <2>1. Len(code) + 1 + i - 1 = Len(code) + i /\ Len(code) + i \in DOMAIN all
    BY <1>1, <1>2
  <2>2. QED
    BY <1>1, <2>1
<1>5. QED
  BY <1>3, <1>4 DEF all

\* What a step of the loop of assemble does.
LEMMA AssembleStep ==
    ASSUME Control, Code, assemble
    PROVE  /\ program' = program /\ cursor \in Nat /\ cursor < N /\ cursor' = cursor + 1
           /\ IsSeq(starts') /\ Len(starts) = cursor /\ Len(starts') = cursor + 1
           /\ \A k \in 1 .. cursor : starts'[k] = starts[k]
           /\ starts'[cursor + 1] = Len(text)
           /\ IsSeq(relas') /\ Len(relas') <= Len(relas) + 1
           /\ IsLabel(program.asms[cursor + 1]) => text' = text
           /\ ~IsLabel(program.asms[cursor + 1]) => text' = text \o Encode(program.asms[cursor + 1])
<1>1. program' = program /\ cursor \in Nat /\ cursor < N /\ cursor' = cursor + 1
  BY DEF Control, assemble, N
<1>2. Stage = 6 /\ IsSeq(starts) /\ Len(starts) = cursor /\ starts' = Append(starts, Len(text))
  <2>1. Stage = 6
    BY Steps
  <2>2. QED
    BY <2>1 DEF Code, assemble
<1>3. /\ IsSeq(starts') /\ Len(starts') = cursor + 1
      /\ \A k \in 1 .. cursor : starts'[k] = starts[k]
      /\ starts'[cursor + 1] = Len(text)
  BY <1>2, Appended
<1>4. /\ IsLabel(program.asms[cursor + 1]) => text' = text
      /\ ~IsLabel(program.asms[cursor + 1]) => text' = text \o Encode(program.asms[cursor + 1])
  BY DEF assemble, IsLabel
<1>5. IsSeq(relas') /\ Len(relas') <= Len(relas) + 1
  <2>1. relas' = relas \/ \E v, by, at, c : relas' = relas \o static_value_relas(v, by, at, c)
    BY DEF assemble
  <2>2. IsSeq(relas) /\ Len(relas) \in Nat
    BY SeqFacts DEF Control
  <2>3. ASSUME NEW v, NEW by, NEW at, NEW c
        PROVE  /\ IsSeq(relas \o static_value_relas(v, by, at, c))
               /\ Len(relas \o static_value_relas(v, by, at, c)) <= Len(relas) + 1
    <3> DEFINE r == static_value_relas(v, by, at, c)
    <3>1. IsSeq(r) /\ Len(r) \in 0 .. 1
      BY RelasOfField
    <3> HIDE DEF r
    <3>2. IsSeq(relas \o r) /\ Len(relas \o r) = Len(relas) + Len(r)
      BY <2>2, <3>1, Cat
    <3>3. Len(relas) + Len(r) <= Len(relas) + 1
      <4>1. Len(r) \in Int /\ Len(r) <= 1
        BY <3>1
      <4>2. QED
        BY <2>2, <4>1
    <3>4. IsSeq(relas \o r) /\ Len(relas \o r) <= Len(relas) + 1
      BY <3>2, <3>3
    <3>5. QED
      BY <3>4 DEF r
  <2>4. Len(relas) <= Len(relas) + 1
    BY <2>2
  <2>5. CASE relas' = relas
    BY <2>2, <2>4, <2>5
  <2>6. ASSUME NEW v, NEW by, NEW at, NEW c, relas' = relas \o static_value_relas(v, by, at, c)
        PROVE  IsSeq(relas') /\ Len(relas') <= Len(relas) + 1
    BY <2>3, <2>6
  <2>7. QED
    BY <2>1, <2>5, <2>6
<1>6. QED
  BY <1>1, <1>2, <1>3, <1>4, <1>5

\* The code is put together instruction by instruction.
LEMMA CodeAssembled ==
    ASSUME Control, Code, assemble
    PROVE  Code'
<1> DEFINE n == program.asms[cursor + 1]
           e == IF IsLabel(n) THEN <<>> ELSE Encode(n)
<1>1. /\ program' = program /\ cursor \in Nat /\ cursor < N /\ cursor' = cursor + 1
      /\ IsSeq(starts') /\ Len(starts) = cursor /\ Len(starts') = cursor + 1
      /\ \A k \in 1 .. cursor : starts'[k] = starts[k]
      /\ starts'[cursor + 1] = Len(text)
      /\ IsSeq(relas') /\ Len(relas') <= Len(relas) + 1
      /\ IsLabel(n) => text' = text
      /\ ~IsLabel(n) => text' = text \o Encode(n)
  BY AssembleStep
<1>2. IsSeq(text) /\ Len(text) \in Nat /\ Len(relas) \in Nat /\ Len(relas') \in Nat /\ N \in Nat
  <2>1. IsSeq(text) /\ IsSeq(relas) /\ IsSeq(program.asms)
    BY ProgramFacts DEF Code, Control
  <2>2. QED
    BY <1>1, <2>1, SeqFacts DEF N
<1>3. cursor + 1 \in 1 .. N
  BY <1>1, <1>2
<1>4. ASSUME ~IsLabel(n)
      PROVE  /\ IsSeq(Encode(n)) /\ Len(Encode(n)) \in 1 .. MAX_INSTR_LEN
             /\ IsSeq(text') /\ Len(text') = Len(text) + Len(Encode(n))
             /\ Has(text', Len(text) + 1, Encode(n))
             /\ \A at, bytes : Has(text, at, bytes) => Has(text', at, bytes)
  <2>1. IsInstruction(n)
    BY <1>3, ProgramFacts DEF Control
  <2>2. IsSeq(Encode(n)) /\ Len(Encode(n)) \in 1 .. MAX_INSTR_LEN
    BY <1>4, <2>1, EncodeLength
  <2> HIDE DEF n
  <2>3. IsSeq(text \o Encode(n)) /\ Len(text \o Encode(n)) = Len(text) + Len(Encode(n))
    BY <1>2, <2>2, Cat
  <2>4. /\ Has(text \o Encode(n), Len(text) + 1, Encode(n))
        /\ \A at, bytes : Has(text, at, bytes) => Has(text \o Encode(n), at, bytes)
    BY <1>2, <2>2, HasKept
  <2>5. QED
    BY <1>1, <1>4, <2>2, <2>3, <2>4
<1>5. /\ IsSeq(text') /\ Len(text') \in Nat /\ Len(text) <= Len(text')
      /\ Len(text') <= Len(text) + MAX_INSTR_LEN
      /\ \A at, bytes : Has(text, at, bytes) => Has(text', at, bytes)
  <2>1. CASE IsLabel(n)
    BY <1>1, <1>2, <2>1 DEF MAX_INSTR_LEN
  <2>2. CASE ~IsLabel(n)
    <3> DEFINE l == Len(Encode(n))
    <3>1. /\ l \in 1 .. 15 /\ IsSeq(text') /\ Len(text') = Len(text) + l
          /\ \A at, bytes : Has(text, at, bytes) => Has(text', at, bytes)
      BY <1>4, <2>2 DEF MAX_INSTR_LEN
    <3> HIDE DEF l, n
    <3>2. Len(text') \in Nat /\ Len(text) <= Len(text') /\ Len(text') <= Len(text) + 15
      BY <1>2, <3>1
    <3>3. QED
      BY <3>1, <3>2 DEF MAX_INSTR_LEN
  <2>3. QED
    BY <2>1, <2>2
<1>6. /\ Len(text') <= MAX_INSTR_LEN * Len(starts') /\ Len(relas') <= Len(starts')
  <2>1. Len(text) <= MAX_INSTR_LEN * cursor /\ Len(relas) <= cursor
    BY <1>1 DEF Code
  <2>2. QED
    BY <1>1, <1>2, <1>5, <2>1 DEF MAX_INSTR_LEN
<1>7. ASSUME NEW k \in 1 .. cursor
      PROVE  CodeAt(k)'
  <2>1. CodeAt(k)
    BY <1>1 DEF Code
  <2>2. starts'[k] = starts[k] /\ program' = program
    BY <1>1
  <2>3. End(k)' = End(k)
    <3>1. CASE k = cursor
      BY <1>1, <3>1 DEF End
    <3>2. CASE k # cursor
      <4>1. k + 1 \in 1 .. cursor /\ k # Len(starts) /\ k # Len(starts')
        BY <1>1, <3>2
      <4>2. QED
        BY <1>1, <4>1 DEF End
    <3>3. QED
      BY <3>1, <3>2
  <2>4. QED
    BY <1>5, <2>1, <2>2, <2>3 DEF CodeAt
<1>8. PICK c : c = cursor + 1
  OBVIOUS
<1>9. CodeAt(c)'
  <2>1. End(c)' = Len(text') /\ starts'[c] = Len(text) /\ program'.asms[c] = n
    BY <1>1, <1>8 DEF End
  <2>2. CASE IsLabel(n)
    <3>1. starts'[c] \in Nat /\ End(c)' = starts'[c] /\ IsLabel(program'.asms[c])
      BY <1>1, <1>2, <2>1, <2>2
    <3>2. QED
      BY <3>1 DEF CodeAt
  <2>3. CASE ~IsLabel(n)
    <3>1. /\ starts'[c] \in Nat /\ End(c)' = starts'[c] + Len(Encode(n))
          /\ ~IsLabel(n) /\ Has(text', starts'[c] + 1, Encode(n))
      BY <1>2, <1>4, <2>1, <2>3
    <3>2. QED
      BY <2>1, <3>1 DEF CodeAt
  <2>4. QED
    BY <2>2, <2>3
<1>10. \A k \in 1 .. Len(starts') : CodeAt(k)'
  <2> SUFFICES ASSUME NEW k \in 1 .. Len(starts')
               PROVE  CodeAt(k)'
    OBVIOUS
  <2>1. k \in 1 .. cursor \/ k = c
    BY <1>1, <1>8
  <2>2. QED
    BY <1>7, <1>9, <2>1
<1>11. Stage' = 6
  BY Steps
<1>12. Len(starts') # 0
  BY <1>1
<1>13. QED
  BY <1>1, <1>5, <1>6, <1>10, <1>11, <1>12 DEF Code

\* Only assemble touches the code.
LEMMA CodeKept ==
    ASSUME Control, Code, [Next]_vars
    PROVE  Code'
<1>1. CASE assemble
  BY <1>1, CodeAssembled
<1>2. ASSUME program' = program, text' = text, starts' = starts, relas' = relas,
             Len(starts) = IF Stage' <= 5 THEN 0 ELSE IF Stage' = 6 THEN cursor' ELSE N
      PROVE  Code'
  <2>1. N' = N
    BY <1>2 DEF N
  <2>2. \A k : CodeAt(k)' <=> CodeAt(k)
    BY <1>2 DEF CodeAt, End
  <2>3. QED
    BY <1>2, <2>1, <2>2 DEF Code
<1>3. Len(starts) = IF Stage <= 5 THEN 0 ELSE IF Stage = 6 THEN cursor ELSE N
  BY DEF Code
<1>4. ASSUME NEW k \in 1 .. 5, write_symbol(k) \/ pass_over(k)
      PROVE  Code'
  <2>1. program' = program /\ text' = text /\ starts' = starts /\ relas' = relas
    BY <1>4 DEF write_symbol, pass_over
  <2>2. Stage = k /\ Stage' = k
    BY <1>4, Steps
  <2>3. QED
    BY <1>2, <1>3, <2>1, <2>2
<1>5. ASSUME NEW k \in 1 .. 5, end_symbols(k)
      PROVE  Code'
  <2>1. program' = program /\ text' = text /\ starts' = starts /\ relas' = relas /\ cursor' = 0
    BY <1>5 DEF end_symbols
  <2>2. Stage \in 1 .. 5 /\ Stage' \in 2 .. 6
    BY <1>5, Steps
  <2>3. Len(starts) = IF Stage' <= 5 THEN 0 ELSE IF Stage' = 6 THEN cursor' ELSE N
    <3>1. Len(starts) = 0 /\ cursor' = 0
      BY <1>3, <2>1, <2>2
    <3>2. Stage' <= 5 \/ Stage' = 6
      BY <2>2
    <3>3. QED
      BY <3>1, <3>2
  <2>4. QED
    BY <1>2, <2>1, <2>3
<1>6. CASE end_assemble
  <2>1. program' = program /\ text' = text /\ starts' = starts /\ relas' = relas /\ cursor = N
    BY <1>6 DEF end_assemble, N
  <2>2. Stage = 6 /\ Stage' = 7
    BY <1>6, Steps
  <2>3. QED
    BY <1>2, <1>3, <2>1, <2>2
<1>7. CASE write_headers \/ write_section
  <2>1. program' = program /\ text' = text /\ starts' = starts /\ relas' = relas
    BY <1>7 DEF write_headers, write_section
  <2>2. Stage \in {7, 8} /\ Stage' \in {8, 9}
    BY <1>7, Steps
  <2>3. QED
    BY <1>2, <1>3, <2>1, <2>2
<1>8. CASE UNCHANGED vars
  <2>1. program' = program /\ text' = text /\ starts' = starts /\ relas' = relas /\ cursor' = cursor
        /\ Stage' = Stage
    BY <1>8 DEF vars, Stage
  <2>2. QED
    BY <1>2, <1>3, <2>1
<1>9. QED
  BY <1>1, <1>4, <1>5, <1>6, <1>7, <1>8 DEF Next

-----------------------------------------------------------------------------
(* The places of statics.                                                   *)

\* What is padded is whole words.
LEMMA Padded ==
    ASSUME NEW n \in Nat
    PROVE  pad_size(n, 8) \in Nat /\ n <= pad_size(n, 8) /\ pad_size(n, 8) % 8 = 0
  BY DEF pad_size

\* Words behind words.
LEMMA WordsAdd ==
    ASSUME NEW m \in Nat, NEW n \in Nat, m % 8 = 0, n % 8 = 0
    PROVE  (m + n) % 8 = 0
  OBVIOUS

\* A step of a loop places at most the static that it is at.
LEMMA PlacedStep ==
    ASSUME Control, NEW k \in 1 .. 5, InStep(k), NEW b, IsPlaced(b)'
    PROVE  IsPlaced(b) \/ (k \in {1, 3} /\ InLoop(k, cursor + 1) /\ BindingAt(k, cursor + 1) = b)
<1>1. program' = program /\ cursor \in Nat
  BY DEF InStep, Control
<1>2. PICK j \in {1, 3} : \E i \in 1 .. Done(j)' : InLoop(j, i)' /\ BindingAt(j, i)' = b
  BY DEF IsPlaced
<1>3. PICK i \in 1 .. Done(j)' : InLoop(j, i)' /\ BindingAt(j, i)' = b
  BY <1>2
<1>4. InLoop(j, i) /\ BindingAt(j, i) = b
  BY <1>1, <1>3, SameProgram
<1>5. CASE i \in 1 .. Done(j)
  BY <1>4, <1>5 DEF IsPlaced
<1>6. CASE ~(i \in 1 .. Done(j))
  <2>1. j = k
    <3>1. j \in 1 .. 5
      OBVIOUS
    <3>2. j # k => Done(j)' = Done(j)
      BY <3>1, DoneSteps
    <3>3. QED
      BY <1>6, <3>2
  <2>2. Done(j) = cursor /\ Done(j)' = cursor + 1
    BY <2>1, DoneSteps
  <2>3. i = cursor + 1
    BY <1>1, <1>6, <2>2
  <2>4. QED
    BY <1>4, <2>1, <2>3
<1>7. QED
  BY <1>5, <1>6

\* A step that leaves how far the loops are as it is places nothing.
LEMMA NothingPlaced ==
    ASSUME program' = program, \A j \in 1 .. 5 : Done(j)' = Done(j), NEW b, IsPlaced(b)'
    PROVE  IsPlaced(b)
<1>1. PICK j \in {1, 3} : \E i \in 1 .. Done(j)' : InLoop(j, i)' /\ BindingAt(j, i)' = b
  BY DEF IsPlaced
<1>2. Done(j)' = Done(j)
  OBVIOUS
<1>3. QED
  BY <1>1, <1>2, SameProgram DEF IsPlaced

\* Statics stay where they are as long as nothing of them changes.
LEMMA BssSame ==
    ASSUME Bss, program' = program, bss_ptr' = bss_ptr,
           \A b \in Range(program.statics) : IsPlaced(b)' => IsPlaced(b),
           \A b \in Range(program.statics) :
               b \in DOMAIN offset => b \in DOMAIN offset' /\ offset'[b] = offset[b]
    PROVE  Bss'
<1>1. \A b : Binding(b)' = Binding(b)
  BY SameProgram
<1>2. ASSUME NEW b \in Range(program.statics), IsPlaced(b)'
      PROVE  HasPlace(b)' /\ HasPlace(b) /\ offset'[b] = offset[b] /\ IsPlaced(b)
  <2>1. HasPlace(b) /\ IsPlaced(b)
    BY <1>2 DEF Bss
  <2>2. b \in DOMAIN offset' /\ offset'[b] = offset[b]
    BY <2>1 DEF HasPlace
  <2>3. QED
    BY <1>1, <2>1, <2>2 DEF HasPlace
<1>3. ASSUME NEW b \in Range(program.statics), NEW c \in Range(program.statics),
             IsPlaced(b)', IsPlaced(c)', b # c
      PROVE  Apart(b, c)'
  <2>1. Apart(b, c) /\ offset'[b] = offset[b] /\ offset'[c] = offset[c]
    BY <1>2, <1>3 DEF Bss
  <2>2. QED
    BY <1>1, <2>1 DEF Apart
<1>4. QED
  BY <1>2, <1>3 DEF Bss

\* The next static is placed behind the others.
LEMMA BssGrows ==
    ASSUME Control, Bss, NEW k \in {1, 3}, write_symbol(k)
    PROVE  Bss'
<1> DEFINE d == BindingAt(k, cursor + 1)
           p == pad_size(Binding(d).size, 8)
<1>1. k \in 1 .. 5 /\ InStep(k) /\ program' = program
  BY Steps DEF write_symbol
<1>2. bss_ptr' = bss_ptr + p /\ offset' = Assign(offset, d, bss_ptr)
  BY DEF write_symbol, IsStatics, bss_size, WORD_SIZE
<1>3. Binding(d).size \in Nat
  <2>1. cursor < Len(ListOf(k)) /\ InLoop(k, cursor + 1) /\ cursor \in Nat
    BY DEF write_symbol, Control
  <2>2. program \in Programs /\ Len(ListOf(k)) \in Nat
    BY <1>1, LoopFacts DEF Control
  <2>3. cursor + 1 \in 1 .. Len(ListOf(k))
    BY <2>1, <2>2
  <2>4. QED
    BY <1>1, <2>1, <2>2, <2>3, LoopFacts DEF IsBinding
<1>4. p \in Nat /\ Binding(d).size <= p /\ p % 8 = 0
  BY <1>3, Padded
<1>5. bss_ptr \in Nat /\ bss_ptr % 8 = 0
  BY DEF Bss, WORD_SIZE
<1>6. \A b : Binding(b)' = Binding(b)
  BY <1>1, SameProgram
<1>7. \A b : IsPlaced(b)' => IsPlaced(b) \/ b = d
  BY <1>1, PlacedStep
<1> HIDE DEF d, p
<1>8. bss_ptr' \in Nat /\ bss_ptr' % 8 = 0 /\ bss_ptr <= bss_ptr'
  BY <1>2, <1>4, <1>5, WordsAdd
<1>9. /\ d \in DOMAIN offset' /\ offset'[d] = bss_ptr
      /\ \A b : b # d /\ b \in DOMAIN offset => b \in DOMAIN offset' /\ offset'[b] = offset[b]
  BY <1>2 DEF Assign
<1>10. offset'[d] + Binding(d).size <= bss_ptr'
  BY <1>2, <1>3, <1>4, <1>5, <1>9
<1>11. ASSUME NEW b \in Range(program.statics), IsPlaced(b)', b # d
       PROVE  /\ b \in DOMAIN offset' /\ offset'[b] = offset[b] /\ offset[b] \in Nat
              /\ offset[b] % 8 = 0 /\ offset[b] + Binding(b).size <= bss_ptr
  <2>1. HasPlace(b)
    BY <1>7, <1>11 DEF Bss
  <2>2. QED
    BY <1>9, <1>11, <2>1 DEF HasPlace, WORD_SIZE
<1>12. \A b \in Range(program.statics) : Binding(b).size \in Nat
  <2>1. DOMAIN program.statics = 1 .. Len(program.statics)
    BY ProgramFacts, SeqFacts DEF Control
  <2>2. \A i \in 1 .. Len(program.statics) : Binding(program.statics[i]).size \in Nat
    BY ProgramFacts DEF Control, IsBinding
  <2>3. QED
    BY <2>1, <2>2 DEF Range
<1>13. ASSUME NEW b \in Range(program.statics), IsPlaced(b)'
       PROVE  HasPlace(b)'
  <2>1. CASE b = d
    BY <1>5, <1>6, <1>9, <1>10, <2>1 DEF HasPlace, WORD_SIZE
  <2>2. CASE b # d
    <3>1. Binding(b).size \in Nat
      BY <1>12
    <3>2. offset'[b] + Binding(b).size <= bss_ptr'
      BY <1>5, <1>8, <1>11, <1>13, <2>2, <3>1
    <3>3. QED
      BY <1>6, <1>11, <1>13, <2>2, <3>2 DEF HasPlace, WORD_SIZE
  <2>3. QED
    BY <2>1, <2>2
<1>14. ASSUME NEW b \in Range(program.statics), NEW c \in Range(program.statics),
              IsPlaced(b)', IsPlaced(c)', b # c
       PROVE  Apart(b, c)'
  <2>1. CASE b = d
    BY <1>6, <1>9, <1>11, <1>14, <2>1 DEF Apart
  <2>2. CASE c = d
    BY <1>6, <1>9, <1>11, <1>14, <2>2 DEF Apart
  <2>3. CASE b # d /\ c # d
    <3>1. IsPlaced(b) /\ IsPlaced(c)
      BY <1>7, <1>14, <2>3
    <3>2. Apart(b, c)
      BY <1>14, <3>1 DEF Bss
    <3>3. QED
      BY <1>6, <1>11, <1>14, <2>3, <3>2 DEF Apart
  <2>4. QED
    BY <2>1, <2>2, <2>3
<1>15. Range(program.statics)' = Range(program.statics)
  BY <1>1
<1>16. QED
  BY <1>1, <1>8, <1>13, <1>14, <1>15 DEF Bss, WORD_SIZE

\* The label at the next instruction is not a static.
LEMMA LabelNotStatic ==
    ASSUME Control, assemble, IsLabel(program.asms[cursor + 1])
    PROVE  \A b \in Range(program.statics) : b # BindingOf(program.asms[cursor + 1])
<1>1. program \in Programs /\ cursor \in Nat /\ cursor < N
  BY DEF Control, assemble, N
<1>2. N \in Nat /\ DOMAIN program.statics = 1 .. Len(program.statics)
  BY <1>1, ProgramFacts, SeqFacts DEF N
<1>3. cursor + 1 \in 1 .. N
  BY <1>1, <1>2
<1>4. \A j \in 1 .. Len(program.statics) : program.statics[j] # BindingOf(program.asms[cursor + 1])
  BY <1>1, <1>3, ProgramFacts
<1>5. QED
  BY <1>2, <1>4 DEF Range

\* Statics are placed behind each other, and nothing moves them.
LEMMA BssKept ==
    ASSUME Control, Bss, [Next]_vars
    PROVE  Bss'
<1>1. ASSUME NEW k \in {1, 3}, write_symbol(k)
      PROVE  Bss'
  BY <1>1, BssGrows
<1>2. ASSUME NEW k \in {2, 4, 5}, write_symbol(k)
      PROVE  Bss'
  <2>1. k \in 1 .. 5 /\ InStep(k) /\ program' = program
    BY <1>2, Steps DEF write_symbol
  <2>2. \A b : IsPlaced(b)' => IsPlaced(b)
    BY <2>1, PlacedStep
  <2>3. bss_ptr' = bss_ptr /\ offset' = offset
    BY <1>2 DEF write_symbol, IsStatics
  <2>4. QED
    BY <2>1, <2>2, <2>3, BssSame
<1>3. ASSUME NEW k \in 1 .. 5, pass_over(k)
      PROVE  Bss'
  <2>1. InStep(k) /\ program' = program /\ ~InLoop(k, cursor + 1)
    BY <1>3, Steps DEF pass_over
  <2>2. \A b : IsPlaced(b)' => IsPlaced(b)
    BY <2>1, PlacedStep
  <2>3. bss_ptr' = bss_ptr /\ offset' = offset
    BY <1>3 DEF pass_over
  <2>4. QED
    BY <2>1, <2>2, <2>3, BssSame
<1>4. ASSUME program' = program, \A j \in 1 .. 5 : Done(j)' = Done(j), bss_ptr' = bss_ptr,
             \A b \in Range(program.statics) :
               b \in DOMAIN offset => b \in DOMAIN offset' /\ offset'[b] = offset[b]
      PROVE  Bss'
  <2>1. \A b : IsPlaced(b)' => IsPlaced(b)
    BY <1>4, NothingPlaced
  <2>2. QED
    BY <1>4, <2>1, BssSame
<1>5. ASSUME NEW k \in 1 .. 5, end_symbols(k)
      PROVE  Bss'
  <2>1. LoopEnds(k) /\ program' = program /\ bss_ptr' = bss_ptr /\ offset' = offset
    BY <1>5, Steps DEF end_symbols
  <2>2. \A j \in 1 .. 5 : Done(j)' = Done(j)
    BY <2>1, DoneSteps
  <2>3. QED
    BY <1>4, <2>1, <2>2
<1>6. CASE assemble
  <2>1. Later /\ program' = program /\ bss_ptr' = bss_ptr
    BY <1>6, Steps DEF assemble
  <2>2. \A j \in 1 .. 5 : Done(j)' = Done(j)
    BY <2>1, DoneSteps
  <2>3. ASSUME NEW b \in Range(program.statics), b \in DOMAIN offset
        PROVE  b \in DOMAIN offset' /\ offset'[b] = offset[b]
    <3>1. CASE IsLabel(program.asms[cursor + 1])
      <4>1. offset' = Assign(offset, BindingOf(program.asms[cursor + 1]), Len(text))
        BY <1>6, <3>1 DEF assemble, IsLabel
      <4>2. b # BindingOf(program.asms[cursor + 1])
        BY <1>6, <3>1, LabelNotStatic
      <4>3. QED
        BY <2>3, <4>1, <4>2 DEF Assign
    <3>2. CASE ~IsLabel(program.asms[cursor + 1])
      BY <1>6, <2>3, <3>2 DEF assemble, IsLabel
    <3>3. QED
      BY <3>1, <3>2
  <2>4. QED
    BY <1>4, <2>1, <2>2, <2>3
<1>7. CASE end_assemble \/ write_headers \/ write_section
  <2>1. Later /\ program' = program /\ bss_ptr' = bss_ptr /\ offset' = offset
    BY <1>7, Steps DEF end_assemble, write_headers, write_section
  <2>2. \A j \in 1 .. 5 : Done(j)' = Done(j)
    BY <2>1, DoneSteps
  <2>3. QED
    BY <1>4, <2>1, <2>2
<1>8. CASE UNCHANGED vars
  <2>1. program' = program /\ phase' = phase /\ cursor' = cursor /\ bss_ptr' = bss_ptr /\ offset' = offset
    BY <1>8 DEF vars
  <2>2. \A k : ListOf(k)' = ListOf(k)
    BY <2>1, SameProgram
  <2>3. \A j \in 1 .. 5 : Done(j)' = Done(j)
    BY <2>1, <2>2 DEF Done, Stage
  <2>4. QED
    BY <1>4, <2>1, <2>3
<1>9. \A k \in 1 .. 5 : k \in {1, 3} \/ k \in {2, 4, 5}
  OBVIOUS
<1>10. QED
  BY <1>1, <1>2, <1>3, <1>5, <1>6, <1>7, <1>8, <1>9 DEF Next

-----------------------------------------------------------------------------
(* The file.                                                                *)

\* Where the parts are depends on the program and the relocation entries, and
\* the headers on the code and the statics besides.
LEMMA SameFile ==
    ASSUME program' = program, relas' = relas
    PROVE  /\ Parts' = Parts /\ Places' = Places
           /\ text' = text /\ bss_ptr' = bss_ptr /\ local_symbol_count' = local_symbol_count
                => Headers' = Headers
<1>1. /\ measure_strtab' = measure_strtab /\ measure_symtab' = measure_symtab
      /\ max_text_sec_len' = max_text_sec_len
  BY SameProgram
<1>2. Parts' = Parts
  BY <1>1 DEF Parts
<1>3. At1' = At1 /\ At2' = At2 /\ At3' = At3 /\ At4' = At4 /\ At5' = At5 /\ At6' = At6
  BY <1>1 DEF At1, At2, At3, At4, At5, At6
<1>4. Places' = Places
  BY <1>3 DEF Places
<1>5. text' = text /\ bss_ptr' = bss_ptr /\ local_symbol_count' = local_symbol_count
        => Headers' = Headers
  BY <1>1, <1>3 DEF Headers
<1>6. QED
  BY <1>2, <1>4, <1>5

\* The place of the first part of the file behind the headers, and of the next
\* ones.
LEMMA NextPlace ==
    /\ Places[1] = 512
    /\ \A i \in 1 .. 4 : Places[i + 1] = Places[i] + Parts[i].size
<1>1. Places[1] = 512
  BY DEF Places, At1, Elf64_Ehdr, SH_COUNT, Elf64_Shdr
<1>2. ASSUME NEW i \in 1 .. 4
      PROVE  Places[i + 1] = Places[i] + Parts[i].size
  <2>1. CASE i = 1
    BY <2>1 DEF Places, Parts, At2
  <2>2. CASE i = 2
    BY <2>2 DEF Places, Parts, At3
  <2>3. CASE i = 3
    BY <2>3 DEF Places, Parts, At4
  <2>4. CASE i = 4
    BY <2>4 DEF Places, Parts, At5
  <2>5. QED
    BY <2>1, <2>2, <2>3, <2>4
<1>3. QED
  BY <1>1, <1>2

\* The headers that are written.
LEMMA HeadersWritten ==
    ASSUME Control, File, write_headers
    PROVE  File'
<1>1. Stage = 7 /\ Stage' = 8 /\ program' = program /\ relas' = relas /\ cursor' = 0
      /\ text' = text /\ bss_ptr' = bss_ptr /\ local_symbol_count' = local_symbol_count
  BY Steps DEF write_headers
<1>2. IsSeq(image) /\ Len(image) = 1 /\ image[1] = [part |-> "ehdr", at |-> 0, size |-> Elf64_Ehdr]
  BY <1>1 DEF File
<1>3. pos = 64
  BY <1>2 DEF pos, Elf64_Ehdr
<1>4. image' = Append(image, [part |-> "shdrs", at |-> 64, size |-> SH_COUNT * Elf64_Shdr])
  BY <1>3 DEF write_headers, Write
<1>5. /\ IsSeq(image') /\ Len(image') = 2 /\ image'[1] = image[1]
      /\ image'[2] = [part |-> "shdrs", at |-> 64, size |-> SH_COUNT * Elf64_Shdr]
  <2> DEFINE e == [part |-> "shdrs", at |-> 64, size |-> SH_COUNT * Elf64_Shdr]
  <2> HIDE DEF e
  <2>1. /\ IsSeq(Append(image, e)) /\ Len(Append(image, e)) = Len(image) + 1
        /\ \A i \in 1 .. Len(image) : Append(image, e)[i] = image[i]
        /\ Append(image, e)[Len(image) + 1] = e
    <3>1. IsSeq(image)
      BY <1>2
    <3>2. QED
      BY <3>1, Appended
  <2>2. /\ IsSeq(Append(image, e)) /\ Len(Append(image, e)) = 2
        /\ Append(image, e)[1] = image[1] /\ Append(image, e)[2] = e
    BY <1>2, <2>1
  <2>3. QED
    BY <1>4, <2>2 DEF e
<1>6. headers' = Headers
  <2>1. /\ NameLength[1] = 9 /\ NameLength[2] = 5 /\ NameLength[3] = 7 /\ NameLength[4] = 7
        /\ NameLength[5] = 4
    BY DEF NameLength
  <2>2. 1 + 9 + 1 = 11 /\ 11 + 5 + 1 = 17 /\ 17 + 7 + 1 = 25 /\ 25 + 7 + 1 = 33 /\ 33 + 4 + 1 = 38
    OBVIOUS
  <2>3. QED
    BY <2>1, <2>2 DEF write_headers, Headers, At1, At2, At3, At4, At5
<1>7. Headers' = Headers
  BY <1>1, SameFile
<1>8. QED
  BY <1>1, <1>2, <1>5, <1>6, <1>7 DEF File, Elf64_Ehdr

\* The next part is written behind the others, where the headers have it.
LEMMA PartWritten ==
    ASSUME Control, File, write_section
    PROVE  File'
<1>1. Stage = 8 /\ Stage' \in {8, 9} /\ program' = program /\ relas' = relas /\ cursor' = cursor + 1
      /\ text' = text /\ bss_ptr' = bss_ptr /\ local_symbol_count' = local_symbol_count
      /\ headers' = headers
  BY Steps DEF write_section
<1>2. cursor \in Nat /\ cursor < 5
  BY <1>1 DEF Control
<1>3. /\ IsSeq(image) /\ Len(image) = cursor + 2
      /\ image[1] = [part |-> "ehdr", at |-> 0, size |-> Elf64_Ehdr]
      /\ image[2] = [part |-> "shdrs", at |-> Elf64_Ehdr, size |-> SH_COUNT * Elf64_Shdr]
      /\ \A i \in 1 .. cursor : PartAt(i)
      /\ headers = Headers
  BY <1>1 DEF File
<1>4. pos = Places[cursor + 1]
  <2>1. CASE cursor = 0
    <3>1. pos = image[2].at + image[2].size
      BY <1>3, <2>1 DEF pos
    <3>2. QED
      BY <1>3, <2>1, <3>1, NextPlace DEF Elf64_Ehdr, SH_COUNT, Elf64_Shdr
  <2>2. CASE cursor # 0
    <3>1. cursor \in 1 .. 4 /\ cursor \in 1 .. cursor
      BY <1>2, <2>2
    <3>2. PartAt(cursor)
      BY <1>3, <3>1
    <3>3. image[cursor + 2].at = Places[cursor] /\ image[cursor + 2].size = Parts[cursor].size
      BY <3>2 DEF PartAt
    <3>4. pos = Places[cursor] + Parts[cursor].size
      BY <1>3, <3>3 DEF pos
    <3>5. QED
      BY <3>1, <3>4, NextPlace
  <2>3. QED
    BY <2>1, <2>2
<1>5. PICK c : c = cursor + 1
  OBVIOUS
<1>6. image' = Append(image, [part |-> Parts[c].part, at |-> Places[c], size |-> Parts[c].size])
  BY <1>4, <1>5 DEF write_section, Write
<1>7. /\ IsSeq(image') /\ Len(image') = c + 2
      /\ \A i \in 1 .. (c + 1) : image'[i] = image[i]
      /\ image'[c + 2] = [part |-> Parts[c].part, at |-> Places[c], size |-> Parts[c].size]
  <2>1. Len(image) = c + 1 /\ (c + 1) + 1 = c + 2
    BY <1>2, <1>3, <1>5
  <2>2. QED
    BY <1>3, <1>6, <2>1, Appended
<1>8. Parts' = Parts /\ Places' = Places /\ Headers' = Headers
  BY <1>1, SameFile
<1>9. ASSUME NEW i \in 1 .. c
      PROVE  PartAt(i)'
  <2>1. CASE i = c
    BY <1>7, <1>8, <2>1 DEF PartAt
  <2>2. CASE i # c
    <3>1. i \in 1 .. cursor /\ i + 2 \in 1 .. (c + 1)
      BY <1>2, <1>5, <2>2
    <3>2. PartAt(i) /\ image'[i + 2] = image[i + 2]
      BY <1>3, <1>7, <3>1
    <3>3. QED
      BY <1>8, <3>2 DEF PartAt
  <2>3. QED
    BY <2>1, <2>2
<1>10. image'[1] = image[1] /\ image'[2] = image[2]
  <2>1. 1 \in 1 .. (c + 1) /\ 2 \in 1 .. (c + 1)
    BY <1>2, <1>5
  <2>2. QED
    BY <1>7, <2>1
<1>11. /\ IsSeq(image)' /\ Len(image)' = IF Stage' <= 7 THEN 1 ELSE cursor' + 2
       /\ headers' = Headers' /\ \A i \in 1 .. cursor' : PartAt(i)'
  BY <1>1, <1>3, <1>5, <1>7, <1>8, <1>9
<1>12. QED
  BY <1>3, <1>10, <1>11 DEF File

\* The file is written part by part.
LEMMA FileKept ==
    ASSUME Control, File, [Next]_vars
    PROVE  File'
<1>1. ASSUME image' = image, Stage <= 7, Stage' <= 7
      PROVE  File'
  <2>1. Stage \in 1 .. 9 /\ Stage' \in 1 .. 9
    BY Stages DEF Stage
  <2>2. ~(Stage' >= 8)
    BY <1>1, <2>1
  <2>3. QED
    BY <1>1, <2>2 DEF File
<1>2. ASSUME NEW k \in 1 .. 5, write_symbol(k) \/ pass_over(k) \/ end_symbols(k)
      PROVE  File'
  <2>1. image' = image
    BY <1>2 DEF write_symbol, pass_over, end_symbols
  <2>2. Stage = k /\ Stage' \in {k, k + 1}
    BY <1>2, Steps
  <2>3. Stage <= 7 /\ Stage' <= 7
    BY <2>2
  <2>4. QED
    BY <1>1, <2>1, <2>3
<1>3. CASE assemble \/ end_assemble
  <2>1. image' = image
    BY <1>3 DEF assemble, end_assemble
  <2>2. Stage = 6 /\ Stage' \in {6, 7}
    BY <1>3, Steps
  <2>3. QED
    BY <1>1, <2>1, <2>2
<1>4. CASE write_headers
  BY <1>4, HeadersWritten
<1>5. CASE write_section
  BY <1>5, PartWritten
<1>6. CASE UNCHANGED vars
  <2>1. program' = program /\ relas' = relas /\ text' = text /\ bss_ptr' = bss_ptr /\ cursor' = cursor
        /\ local_symbol_count' = local_symbol_count /\ image' = image /\ headers' = headers
        /\ Stage' = Stage
    BY <1>6 DEF vars, Stage
  <2>2. Parts' = Parts /\ Places' = Places /\ Headers' = Headers
    BY <2>1, SameFile
  <2>3. \A i : PartAt(i)' <=> PartAt(i)
    BY <2>1, <2>2 DEF PartAt
  <2>4. QED
    BY <2>1, <2>2, <2>3 DEF File
<1>7. QED
  BY <1>2, <1>3, <1>4, <1>5, <1>6 DEF Next

-----------------------------------------------------------------------------
(* The invariant holds.                                                     *)

\* write_elf starts so.
LEMMA InitIInv ==
    ASSUME Init
    PROVE  IInv
<1>1. program \in Programs /\ phase = Loops[1] /\ cursor = 0
  BY DEF Init
<1>2. Stage = 1
  BY <1>1, Stages DEF Stage
<1>3. \A j \in 1 .. 5 : Len(ListOf(j)) \in Nat
  BY <1>1, LoopFacts
<1>4. \A j \in 1 .. 5 : Done(j) = 0
  BY <1>1, <1>2 DEF Done
<1>5. IsSeq(<<>>) /\ Len(<<>>) = 0
  <2>1. <<>> \in Seq({}) /\ Len(<<>>) = 0
    OBVIOUS
  <2>2. QED
    BY <2>1, SeqIs
<1>6. /\ IsSeq(syms) /\ Len(syms) = 1 /\ IsSeq(strtab) /\ Len(strtab) = 1
      /\ relas = <<>> /\ text = <<>> /\ starts = <<>>
  BY One DEF Init
<1>7. Control
  BY <1>1, <1>2, <1>3, <1>5, <1>6 DEF Control
<1>8. Tables
  <2>1. \A j \in 1 .. 5 : NamesDone(j) = 0 /\ CountsDone(j) = 0
    BY <1>3, <1>4, SumsSteps DEF NamesDone, CountsDone
  <2>2. QED
    BY <1>6, <2>1 DEF Tables
<1>9. Code
  BY <1>2, <1>5, <1>6 DEF Code, MAX_INSTR_LEN
<1>10. Bss
  <2>1. \A b : ~IsPlaced(b)
    BY <1>4 DEF IsPlaced
  <2>2. bss_ptr = 0
    BY DEF Init
  <2>3. QED
    BY <2>1, <2>2 DEF Bss, WORD_SIZE
<1>11. File
  <2>1. image = <<[part |-> "ehdr", at |-> 0, size |-> Elf64_Ehdr]>>
    BY DEF Init
  <2>2. QED
    BY <1>2, <2>1, One DEF File
<1>12. QED
  BY <1>7, <1>8, <1>9, <1>10, <1>11 DEF IInv

\* write_elf keeps its control, its tables, its code, the places of statics and
\* the file as IInv has them.
THEOREM SpecIInv == Spec => []IInv
<1>1. Init => IInv
  BY InitIInv
<1>2. IInv /\ [Next]_vars => IInv'
  BY ControlKept, TablesKept, CodeKept, BssKept, FileKept DEF IInv
<1>3. QED
  BY <1>1, <1>2, PTL DEF Spec

-----------------------------------------------------------------------------
(* What it is good for.                                                     *)

\* Whatever program is assembled, the processor decodes its code to its
\* instructions, one behind the other.
THEOREM CodeIsDecoded == Spec => []DecodesBack
<1>1. ASSUME IInv
      PROVE  DecodesBack
  <2> SUFFICES ASSUME phase = "headers", NEW k \in DOMAIN program.asms
               PROVE  LET n == program.asms[k]
                          found == Decode(text, starts[k] + 1)
                          end == IF k = Len(program.asms) THEN Len(text) ELSE starts[k + 1]
                      IN  IF n.op = "LABEL" THEN end = starts[k]
                          ELSE end = starts[k] + found.length /\ found = Meaning(n, starts[k] + 1)
    BY DEF DecodesBack
  <2> DEFINE n == program.asms[k]
             at == starts[k] + 1
  <2>1. Control /\ Code
    BY <1>1 DEF IInv
  <2>2. Stage = 7
    BY Stages DEF Stage
  <2>3. program \in Programs /\ Len(starts) = N
    BY <2>1, <2>2 DEF Control, Code
  <2>4. k \in 1 .. N /\ IsInstruction(n)
    BY <2>3, ProgramFacts, SeqFacts DEF N
  <2>5. CodeAt(k)
    BY <2>1, <2>3, <2>4 DEF Code
  <2>6. End(k) = IF k = Len(program.asms) THEN Len(text) ELSE starts[k + 1]
    BY <2>3 DEF End, N
  <2>7. CASE IsLabel(n)
    BY <2>5, <2>6, <2>7 DEF CodeAt, IsLabel
  <2>8. CASE ~IsLabel(n)
    <3>1. /\ at \in Nat /\ Has(text, at, Encode(n)) /\ End(k) = starts[k] + Len(Encode(n))
      BY <2>5, <2>8 DEF CodeAt
    <3>2. Decoded(n, text, at)
      BY <2>4, <2>8, <3>1, DecodeEncode
    <3>3. Decode(text, at) = Meaning(n, at) /\ Decode(text, at).length = Len(Encode(n))
      BY <3>2 DEF Decoded
    <3>4. QED
      BY <2>6, <2>8, <3>1, <3>3 DEF IsLabel
  <2>9. QED
    BY <2>7, <2>8
<1>2. QED
  BY <1>1, SpecIInv, PTL

\* The sizes that are measured beforehand are numbers, and padding only adds.
LEMMA Sizes ==
    ASSUME program \in Programs
    PROVE  /\ N \in Nat /\ measure_strtab \in Nat /\ measure_symtab \in Nat
           /\ max_text_sec_len \in Nat /\ MAX_INSTR_LEN * N <= max_text_sec_len
           /\ pad_size(measure_strtab, ALIGNMENT) \in Nat
           /\ measure_strtab <= pad_size(measure_strtab, ALIGNMENT)
           /\ pad_size(SHSTRTAB_LEN, ALIGNMENT) = 56
<1>1. N \in Nat
  BY ProgramFacts, SeqFacts DEF N
<1>2. measure_strtab \in Nat /\ measure_symtab \in Nat
  <2> DEFINE names(j)  == Total(Len(ListOf(j)), NamesIn(j))
             counts(j) == Total(Len(ListOf(j)), CountsIn(j))
  <2>1. /\ measure_strtab = 1 + names(1) + names(2) + names(3) + names(4) + names(5)
        /\ measure_symtab = 1 + counts(1) + counts(2) + counts(3) + counts(4) + counts(5)
        /\ \A j \in 1 .. 5 : names(j) \in Nat /\ counts(j) \in Nat
    BY Measured
  <2> HIDE DEF names, counts
  <2>2. QED
    BY <2>1
<1>3. MAX_INSTR_LEN * N \in Nat
  BY <1>1 DEF MAX_INSTR_LEN
<1>4. max_text_sec_len = pad_size(MAX_INSTR_LEN * N, 8)
  BY DEF max_text_sec_len, ALIGNMENT, N
<1>5. pad_size(SHSTRTAB_LEN, ALIGNMENT) = 56
  BY DEF pad_size, SHSTRTAB_LEN, ALIGNMENT
<1>6. QED
  BY <1>1, <1>2, <1>3, <1>4, <1>5, Padded DEF ALIGNMENT

\* The code and the relocation entries keep to their space.
LEMMA CodeFits ==
    ASSUME IInv
    PROVE  /\ Len(text) \in Nat /\ Len(text) <= max_text_sec_len
           /\ Len(relas) \in Nat /\ Elf64_Rela * Len(relas) <= max_rela_sec_len
<1>1. Control /\ Code /\ program \in Programs
  BY DEF IInv, Control
<1>2. Len(text) \in Nat /\ Len(relas) \in Nat /\ N \in Nat
  BY <1>1, SeqFacts, Sizes DEF Code, Control
<1>3. Len(starts) \in Nat /\ Len(starts) <= N
  BY <1>1, <1>2 DEF Code, Control
<1>4. Len(text) <= 15 * Len(starts) /\ Len(relas) <= Len(starts)
  BY <1>1 DEF Code, MAX_INSTR_LEN
<1>5. Len(text) <= 15 * N /\ Len(relas) <= N
  BY <1>2, <1>3, <1>4
<1>6. max_text_sec_len \in Nat /\ 15 * N <= max_text_sec_len
  BY <1>1, Sizes DEF MAX_INSTR_LEN
<1>7. max_rela_sec_len = 2 * N * 24
  BY DEF max_rela_sec_len, MAX_INSTR_FIELDS, Elf64_Rela, N
<1>8. QED
  BY <1>2, <1>5, <1>6, <1>7 DEF Elf64_Rela

\* Sums of five numbers with a bound each.
LEMMA FiveBounds ==
    ASSUME NEW a \in Nat, NEW b \in Nat, NEW c \in Nat, NEW d \in Nat, NEW e \in Nat,
           NEW p \in Nat, NEW q \in Nat, NEW r \in Nat, NEW s \in Nat, NEW t \in Nat,
           a <= p, b <= q, c <= r, d <= s, e <= t
    PROVE  1 + a + b + c + d + e <= 1 + p + q + r + s + t
  OBVIOUS

\* So do the names and the symbols, which use theirs up.
LEMMA TablesFit ==
    ASSUME IInv
    PROVE  /\ Len(strtab) <= measure_strtab /\ Len(syms) <= measure_symtab
           /\ phase = "assemble" => Len(strtab) = measure_strtab /\ Len(syms) = measure_symtab
<1> DEFINE names(j)  == Total(Len(ListOf(j)), NamesIn(j))
           counts(j) == Total(Len(ListOf(j)), CountsIn(j))
<1>1. Control /\ Tables /\ program \in Programs
  BY DEF IInv, Control
<1>2. /\ measure_strtab = 1 + names(1) + names(2) + names(3) + names(4) + names(5)
      /\ measure_symtab = 1 + counts(1) + counts(2) + counts(3) + counts(4) + counts(5)
      /\ \A j \in 1 .. 5 : names(j) \in Nat /\ counts(j) \in Nat
  BY <1>1, Measured
<1>3. \A j \in 1 .. 5 : /\ NamesDone(j) \in Nat /\ CountsDone(j) \in Nat
                        /\ NamesDone(j) <= names(j) /\ CountsDone(j) <= counts(j)
  BY <1>1, DoneSteps, DoneNat
<1>4. phase = "assemble" => \A j \in 1 .. 5 : NamesDone(j) = names(j) /\ CountsDone(j) = counts(j)
  <2> SUFFICES ASSUME phase = "assemble", NEW j \in 1 .. 5
               PROVE  NamesDone(j) = names(j) /\ CountsDone(j) = counts(j)
    OBVIOUS
  <2>1. Stage = 6
    BY Stages DEF Stage
  <2>2. Done(j) = Len(ListOf(j))
    BY <2>1 DEF Done
  <2>3. QED
    BY <2>2 DEF NamesDone, CountsDone, Total
<1> HIDE DEF names, counts
<1>5. Len(strtab) = 1 + NamesDone(1) + NamesDone(2) + NamesDone(3) + NamesDone(4) + NamesDone(5)
  BY <1>1 DEF Tables
<1>6. Len(syms) = 1 + CountsDone(1) + CountsDone(2) + CountsDone(3) + CountsDone(4) + CountsDone(5)
  BY <1>1 DEF Tables
<1>7. Len(strtab) <= measure_strtab
  <2>1. \A j \in {1, 2, 3, 4, 5} : NamesDone(j) \in Nat /\ names(j) \in Nat /\ NamesDone(j) <= names(j)
    BY <1>2, <1>3
  <2>2. 1 + NamesDone(1) + NamesDone(2) + NamesDone(3) + NamesDone(4) + NamesDone(5)
          <= 1 + names(1) + names(2) + names(3) + names(4) + names(5)
    BY <2>1, FiveBounds
  <2>3. QED
    BY <1>2, <1>5, <2>2
<1>8. Len(syms) <= measure_symtab
  <2>1. \A j \in {1, 2, 3, 4, 5} : CountsDone(j) \in Nat /\ counts(j) \in Nat /\ CountsDone(j) <= counts(j)
    BY <1>2, <1>3
  <2>2. 1 + CountsDone(1) + CountsDone(2) + CountsDone(3) + CountsDone(4) + CountsDone(5)
          <= 1 + counts(1) + counts(2) + counts(3) + counts(4) + counts(5)
    BY <2>1, FiveBounds
  <2>3. QED
    BY <1>2, <1>6, <2>2
<1>9. ASSUME phase = "assemble"
      PROVE  Len(strtab) = measure_strtab /\ Len(syms) = measure_symtab
  <2>1. /\ NamesDone(1) = names(1) /\ NamesDone(2) = names(2) /\ NamesDone(3) = names(3)
        /\ NamesDone(4) = names(4) /\ NamesDone(5) = names(5)
        /\ CountsDone(1) = counts(1) /\ CountsDone(2) = counts(2) /\ CountsDone(3) = counts(3)
        /\ CountsDone(4) = counts(4) /\ CountsDone(5) = counts(5)
    BY <1>4, <1>9
  <2>2. QED
    BY <1>2, <1>5, <1>6, <2>1
<1>10. QED
  BY <1>7, <1>8, <1>9

\* The file keeps to its space.
LEMMA FileFits ==
    ASSUME IInv
    PROVE  pos <= max_elf_size
<1> DEFINE t == max_text_sec_len
           n == pad_size(measure_strtab, 8)
           y == 24 * measure_symtab
           r == 24 * Len(relas)
           m == max_rela_sec_len
<1>1. Control /\ File /\ program \in Programs
  BY DEF IInv, Control
<1>2. t \in Nat /\ n \in Nat /\ y \in Nat /\ r \in Nat
  BY <1>1, Sizes, CodeFits DEF ALIGNMENT
<1>3. m \in Nat /\ r <= m
  <2>1. N \in Nat
    BY <1>1, Sizes
  <2>2. m = 2 * N * 24
    BY DEF max_rela_sec_len, MAX_INSTR_FIELDS, Elf64_Rela, N
  <2>3. QED
    BY <2>1, <2>2, CodeFits DEF Elf64_Rela
<1>4. max_elf_size = 64 + 64 * 7 + 56 + t + n + y + m
  BY <1>1, Sizes DEF max_elf_size, Elf64_Ehdr, Elf64_Shdr, SH_COUNT, ALIGNMENT, Elf64_Sym
<1>5. /\ Places[1] = 512 /\ Places[2] = Places[1] + 56 /\ Places[3] = Places[2] + t
      /\ Places[4] = Places[3] + n /\ Places[5] = Places[4] + y
      /\ Parts[5].size = r
  <2>1. /\ Parts[1].size = 56 /\ Parts[2].size = t /\ Parts[3].size = n /\ Parts[4].size = y
        /\ Parts[5].size = r
    BY <1>1, Sizes DEF Parts, ALIGNMENT, Elf64_Sym, Elf64_Rela
  <2>2. /\ Places[1] = 512 /\ Places[1 + 1] = Places[1] + Parts[1].size
        /\ Places[2 + 1] = Places[2] + Parts[2].size
        /\ Places[3 + 1] = Places[3] + Parts[3].size /\ Places[4 + 1] = Places[4] + Parts[4].size
    BY NextPlace
  <2>3. QED
    BY <2>1, <2>2
<1>6. Stage \in 1 .. 9
  BY Stages DEF Stage
<1> HIDE DEF t, n, y, r, m
<1>7. /\ Places[1] = 512 /\ Places[2] = 568 /\ Places[3] = 568 + t /\ Places[4] = 568 + t + n
      /\ Places[5] = 568 + t + n + y
  BY <1>2, <1>5
<1>8. max_elf_size = 568 + t + n + y + m
  BY <1>2, <1>3, <1>4
<1>9. CASE Stage <= 7
  <2>1. Len(image) = 1 /\ image[1].at = 0 /\ image[1].size = 64
    BY <1>1, <1>9 DEF File, Elf64_Ehdr
  <2>2. pos = 64
    BY <2>1 DEF pos
  <2>3. QED
    BY <1>2, <1>3, <1>8, <2>2
<1>10. CASE Stage >= 8
  <2>1. /\ Len(image) = cursor + 2 /\ cursor \in 0 .. 5
        /\ image[2].at = 64 /\ image[2].size = 448
        /\ \A i \in 1 .. cursor : PartAt(i)
    BY <1>1, <1>6, <1>10 DEF File, Control, Elf64_Ehdr, SH_COUNT, Elf64_Shdr
  <2>2. CASE cursor = 0
    <3>1. pos = 512
      BY <2>1, <2>2 DEF pos
    <3>2. QED
      BY <1>2, <1>3, <1>8, <3>1
  <2>3. CASE cursor # 0
    <3>1. PartAt(cursor) /\ cursor \in 1 .. 5
      BY <2>1, <2>3
    <3>2. pos = Places[cursor] + Parts[cursor].size
      <4>1. image[cursor + 2].at = Places[cursor] /\ image[cursor + 2].size = Parts[cursor].size
        BY <3>1 DEF PartAt
      <4>2. QED
        BY <2>1, <4>1 DEF pos
    <3>3. cursor \in 1 .. 4 => pos = Places[cursor + 1]
      BY <3>2, NextPlace
    <3>4. CASE cursor = 5
      <4>1. pos = 568 + t + n + y + r
        BY <1>5, <1>7, <3>2, <3>4
      <4>2. QED
        BY <1>2, <1>3, <1>8, <4>1
    <3>5. CASE cursor \in 1 .. 4
      <4>1. cursor + 1 \in {2, 3, 4, 5}
        BY <3>5
      <4>2. pos \in {568, 568 + t, 568 + t + n, 568 + t + n + y}
        BY <1>7, <3>3, <3>5, <4>1
      <4>3. QED
        BY <1>2, <1>3, <1>8, <4>2
    <3>6. QED
      BY <3>1, <3>4, <3>5
  <2>4. QED
    BY <2>2, <2>3
<1>11. QED
  BY <1>6, <1>9, <1>10

\* Whatever program is assembled, nothing is written behind the space that was
\* measured for it, and the tables of names and symbols are used up.
THEOREM SpaceSuffices == Spec => []FitsReserved
<1>1. IInv => FitsReserved
  BY CodeFits, TablesFit, FileFits DEF FitsReserved
<1>2. QED
  BY <1>1, SpecIInv, PTL

\* Whatever program is assembled, statics have words of their own in .bss.
THEOREM StaticsHavePlaces == Spec => []StaticsApart
<1>1. ASSUME IInv
      PROVE  StaticsApart
  <2> SUFFICES ASSUME phase = "written"
               PROVE  \A b \in Range(program.statics) :
                        /\ offset[b] % WORD_SIZE = 0
                        /\ offset[b] + Binding(b).size <= headers[5].size
                        /\ \A c \in Range(program.statics) \ {b} :
                             \/ offset[b] + Binding(b).size <= offset[c]
                             \/ offset[c] + Binding(c).size <= offset[b]
    BY DEF StaticsApart
  <2>1. Control /\ Bss /\ File /\ program \in Programs
    BY <1>1 DEF IInv, Control
  <2>2. Stage = 9
    BY Stages DEF Stage
  <2>3. headers[5].size = bss_ptr
    BY <2>1, <2>2 DEF File, Headers, Shdr
  <2>4. ASSUME NEW b \in Range(program.statics)
        PROVE  IsPlaced(b)
    <3>1. DOMAIN program.statics = 1 .. Len(program.statics)
      BY <2>1, ProgramFacts, SeqFacts
    <3>2. PICK i \in 1 .. Len(program.statics) : b = program.statics[i]
      BY <3>1 DEF Range
    <3>3. Done(1) = Len(program.statics) /\ Done(3) = Len(program.statics)
      BY <2>2 DEF Done, ListOf
    <3>4. BindingAt(1, i) = b /\ BindingAt(3, i) = b
      BY <3>2 DEF BindingAt, ListOf
    <3>5. InLoop(1, i) \/ InLoop(3, i)
      BY <2>1, InOneLoop
    <3>6. QED
      BY <3>3, <3>4, <3>5 DEF IsPlaced
  <2>5. QED
    BY <2>1, <2>3, <2>4 DEF Bss, HasPlace, Apart
<1>2. QED
  BY <1>1, SpecIInv, PTL

\* Whatever program is assembled, every section of the file is where its header
\* says, under its name, and within its part of the file.
THEOREM SectionsAreFound == Spec => []SectionsFound
<1>1. ASSUME IInv
      PROVE  SectionsFound
  <2> SUFFICES ASSUME phase = "written"
               PROVE  /\ image[2].part = "shdrs" /\ image[2].at = Elf64_Ehdr
                      /\ \A n \in DOMAIN headers :
                           /\ headers[n].name = NamePlace[n]
                           /\ headers[n].type # "SHT_NOBITS" =>
                                \E k \in DOMAIN image :
                                  /\ image[k].part = SectionNames[n]
                                  /\ headers[n].offset = image[k].at
                                  /\ headers[n].size <= image[k].size
    BY DEF SectionsFound
  <2>1. Control /\ File /\ program \in Programs
    BY <1>1 DEF IInv, Control
  <2>2. Stage = 9
    BY Stages DEF Stage
  <2>3. cursor = 5
    BY <2>1, <2>2 DEF Control
  <2>4. /\ IsSeq(image) /\ Len(image) = 7 /\ headers = Headers
        /\ image[2].part = "shdrs" /\ image[2].at = Elf64_Ehdr
        /\ \A i \in 1 .. 5 : PartAt(i)
    BY <2>1, <2>2, <2>3 DEF File
  <2>5. DOMAIN image = 1 .. 7
    BY <2>4, SeqFacts
  <2>6. /\ image[3] = [part |-> ".shstrtab", at |-> At1, size |-> 56]
        /\ image[4] = [part |-> ".text", at |-> At2, size |-> max_text_sec_len]
        /\ image[5] = [part |-> ".strtab", at |-> At3, size |-> pad_size(measure_strtab, ALIGNMENT)]
        /\ image[6] = [part |-> ".symtab", at |-> At4, size |-> Elf64_Sym * measure_symtab]
        /\ image[7] = [part |-> ".rela.text", at |-> At5, size |-> Elf64_Rela * Len(relas)]
    <3>1. PartAt(1) /\ PartAt(2) /\ PartAt(3) /\ PartAt(4) /\ PartAt(5)
      BY <2>4
    <3>2. QED
      BY <2>1, <3>1, Sizes DEF PartAt, Parts, Places
  <2>7. /\ Len(text) <= max_text_sec_len
        /\ measure_strtab <= pad_size(measure_strtab, ALIGNMENT)
        /\ Elf64_Sym * measure_symtab \in Nat /\ Elf64_Rela * Len(relas) \in Nat
    BY <1>1, <2>1, Sizes, CodeFits DEF Elf64_Sym, Elf64_Rela
  <2>8. ASSUME NEW n \in DOMAIN headers
        PROVE  /\ headers[n].name = NamePlace[n]
               /\ headers[n].type # "SHT_NOBITS" =>
                    \E k \in DOMAIN image :
                      /\ image[k].part = SectionNames[n]
                      /\ headers[n].offset = image[k].at
                      /\ headers[n].size <= image[k].size
    <3>1. n \in {1, 2, 3, 4, 5, 6}
      BY <2>4 DEF Headers
    <3>2. CASE n = 1
      <4>1. headers[1].name = 1 /\ headers[1].offset = At1 /\ headers[1].size = 49
        BY <2>4 DEF Headers, Shdr, SHSTRTAB_LEN
      <4>2. NamePlace[1] = 1 /\ SectionNames[1] = ".shstrtab"
        BY DEF NamePlace, SectionNames
      <4>3. 3 \in DOMAIN image /\ image[3].part = ".shstrtab" /\ image[3].at = At1 /\ 49 <= image[3].size
        BY <2>5, <2>6
      <4>4. QED
        BY <3>2, <4>1, <4>2, <4>3
    <3>3. CASE n = 2
      <4>1. headers[2].name = 11 /\ headers[2].offset = At2 /\ headers[2].size = Len(text)
        BY <2>4 DEF Headers, Shdr
      <4>2. NamePlace[2] = 11 /\ SectionNames[2] = ".text"
        BY DEF NamePlace, SectionNames
      <4>3. 4 \in DOMAIN image /\ image[4].part = ".text" /\ image[4].at = At2 /\ Len(text) <= image[4].size
        BY <2>5, <2>6, <2>7
      <4>4. QED
        BY <3>3, <4>1, <4>2, <4>3
    <3>4. CASE n = 3
      <4>1. headers[3].name = 17 /\ headers[3].offset = At3 /\ headers[3].size = measure_strtab
        BY <2>4 DEF Headers, Shdr
      <4>2. NamePlace[3] = 17 /\ SectionNames[3] = ".strtab"
        BY DEF NamePlace, SectionNames
      <4>3. 5 \in DOMAIN image /\ image[5].part = ".strtab" /\ image[5].at = At3
            /\ measure_strtab <= image[5].size
        BY <2>5, <2>6, <2>7
      <4>4. QED
        BY <3>4, <4>1, <4>2, <4>3
    <3>5. CASE n = 4
      <4>1. headers[4].name = 25 /\ headers[4].offset = At4 /\ headers[4].size = Elf64_Sym * measure_symtab
        BY <2>4 DEF Headers, Shdr
      <4>2. NamePlace[4] = 25 /\ SectionNames[4] = ".symtab"
        BY DEF NamePlace, SectionNames
      <4>3. 6 \in DOMAIN image /\ image[6].part = ".symtab" /\ image[6].at = At4
            /\ Elf64_Sym * measure_symtab <= image[6].size
        BY <2>5, <2>6, <2>7
      <4>4. QED
        BY <3>5, <4>1, <4>2, <4>3
    <3>6. CASE n = 5
      <4>1. headers[5].name = 33 /\ headers[5].type = "SHT_NOBITS"
        BY <2>4 DEF Headers, Shdr
      <4>2. NamePlace[5] = 33
        BY DEF NamePlace
      <4>3. QED
        BY <3>6, <4>1, <4>2
    <3>7. CASE n = 6
      <4>1. headers[6].name = 38 /\ headers[6].offset = At5 /\ headers[6].size = Elf64_Rela * Len(relas)
        BY <2>4 DEF Headers, Shdr
      <4>2. NamePlace[6] = 38 /\ SectionNames[6] = ".rela.text"
        BY DEF NamePlace, SectionNames
      <4>3. 7 \in DOMAIN image /\ image[7].part = ".rela.text" /\ image[7].at = At5
            /\ Elf64_Rela * Len(relas) <= image[7].size
        BY <2>5, <2>6, <2>7
      <4>4. QED
        BY <3>7, <4>1, <4>2, <4>3
    <3>8. QED
      BY <3>1, <3>2, <3>3, <3>4, <3>5, <3>6, <3>7
  <2>9. QED
    BY <2>4, <2>8
<1>2. QED
  BY <1>1, SpecIInv, PTL
=============================================================================
