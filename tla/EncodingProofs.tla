--------------------------- MODULE EncodingProofs ----------------------------
(***************************************************************************)
(* The bytes that assemble writes for one instruction are decoded by the   *)
(* processor to that instruction, whatever its registers and values are,   *)
(* and wherever in the code they stand.                                    *)
(***************************************************************************)
EXTENDS Assembler, Induction, TLAPS

-----------------------------------------------------------------------------
(* Sequences.                                                               *)

\* What is known of a sequence.
LEMMA SeqFacts ==
    ASSUME NEW s, IsSeq(s)
    PROVE  Len(s) \in Nat /\ DOMAIN s = 1 .. Len(s)
  BY DEF IsSeq

\* Sequences of any elements can be told from their elements.
LEMMA SeqIs ==
    ASSUME NEW S, NEW s \in Seq(S)
    PROVE  IsSeq(s)
<1>1. Len(s) \in Nat /\ DOMAIN s = 1 .. Len(s) /\ s \in [1 .. Len(s) -> S]
  OBVIOUS
<1>2. s \in [1 .. Len(s) -> Range(s)]
  BY <1>1 DEF Range
<1>3. QED
  BY <1>1, <1>2 DEF IsSeq

\* One sequence behind another.
LEMMA Cat ==
    ASSUME NEW s, NEW t, IsSeq(s), IsSeq(t)
    PROVE  /\ IsSeq(s \o t)
           /\ Len(s \o t) = Len(s) + Len(t)
           /\ \A i \in 1 .. Len(s) : (s \o t)[i] = s[i]
           /\ \A i \in 1 .. Len(t) : (s \o t)[Len(s) + i] = t[i]
<1> DEFINE S == Range(s) \union Range(t)
<1>1. s \in Seq(S) /\ t \in Seq(S)
  <2>1. /\ Len(s) \in Nat /\ DOMAIN s = 1 .. Len(s) /\ s \in [1 .. Len(s) -> Range(s)]
        /\ Len(t) \in Nat /\ DOMAIN t = 1 .. Len(t) /\ t \in [1 .. Len(t) -> Range(t)]
    BY DEF IsSeq
  <2>2. s \in [1 .. Len(s) -> S] /\ t \in [1 .. Len(t) -> S]
    BY <2>1
  <2>3. QED
    BY <2>1, <2>2
<1> HIDE DEF S
<1>2. s \o t \in Seq(S) /\ Len(s \o t) = Len(s) + Len(t)
  BY <1>1
<1>3. \A i \in 1 .. Len(s) : (s \o t)[i] = s[i]
  BY <1>1
<1>4. \A i \in 1 .. Len(t) : (s \o t)[Len(s) + i] = t[i]
  BY <1>1
<1>5. QED
  BY <1>2, <1>3, <1>4, SeqIs

\* An element behind a sequence.
LEMMA Appended ==
    ASSUME NEW s, NEW e, IsSeq(s)
    PROVE  /\ IsSeq(Append(s, e))
           /\ Len(Append(s, e)) = Len(s) + 1
           /\ \A i \in 1 .. Len(s) : Append(s, e)[i] = s[i]
           /\ Append(s, e)[Len(s) + 1] = e
<1> DEFINE S == Range(s) \union {e}
<1>1. s \in Seq(S)
  <2>1. Len(s) \in Nat /\ DOMAIN s = 1 .. Len(s) /\ s \in [1 .. Len(s) -> Range(s)]
    BY DEF IsSeq
  <2>2. s \in [1 .. Len(s) -> S]
    BY <2>1
  <2>3. QED
    BY <2>1, <2>2
<1>2. e \in S
  OBVIOUS
<1> HIDE DEF S
<1>3. Append(s, e) \in Seq(S) /\ Len(Append(s, e)) = Len(s) + 1
  BY <1>1, <1>2
<1>4. /\ \A i \in 1 .. Len(s) : Append(s, e)[i] = s[i]
      /\ Append(s, e)[Len(s) + 1] = e
  BY <1>1, <1>2
<1>5. QED
  BY <1>3, <1>4, SeqIs

\* A sequence of one element.
LEMMA One ==
    ASSUME NEW e
    PROVE  IsSeq(<<e>>) /\ Len(<<e>>) = 1 /\ <<e>>[1] = e
<1>1. <<e>> \in Seq({e}) /\ Len(<<e>>) = 1 /\ <<e>>[1] = e
  OBVIOUS
<1>2. QED
  BY <1>1, SeqIs

\* Two elements.
LEMMA Two ==
    ASSUME NEW e, NEW f
    PROVE  IsSeq(<<e, f>>) /\ Len(<<e, f>>) = 2 /\ <<e, f>>[1] = e /\ <<e, f>>[2] = f
<1>1. <<e, f>> \in Seq({e, f}) /\ Len(<<e, f>>) = 2 /\ <<e, f>>[1] = e /\ <<e, f>>[2] = f
  OBVIOUS
<1>2. QED
  BY <1>1, SeqIs

\* A function on 1 .. n is a sequence.
LEMMA FunctionIs ==
    ASSUME NEW S, NEW n \in Nat, NEW f \in [1 .. n -> S]
    PROVE  f \in Seq(S) /\ Len(f) = n
<1>1. f \in Seq(S)
  OBVIOUS
<1>2. DOMAIN f = 1 .. Len(f) /\ Len(f) \in Nat /\ DOMAIN f = 1 .. n
  BY <1>1
<1>3. QED
  BY <1>1, <1>2

\* A function from 1 .. 8 to bytes is a sequence of eight.
LEMMA EightBytes ==
    ASSUME NEW f, f \in [1 .. 8 -> 0 .. 255]
    PROVE  f \in Seq(0 .. 255) /\ Len(f) = 8
<1> DEFINE S == 0 .. 255
           n == 8
<1>1. f \in [1 .. n -> S] /\ n \in Nat
  OBVIOUS
<1> HIDE DEF S, n
<1>2. f \in Seq(S) /\ Len(f) = n
  BY <1>1, FunctionIs
<1>3. QED
  BY <1>2 DEF S, n

\* The first n elements of a sequence.
LEMMA FirstElements ==
    ASSUME NEW S, NEW s \in Seq(S), NEW n \in Nat, n <= Len(s)
    PROVE  /\ SubSeq(s, 1, n) \in Seq(S) /\ Len(SubSeq(s, 1, n)) = n
           /\ \A i \in 1 .. n : SubSeq(s, 1, n)[i] = s[i]
  OBVIOUS

\* A sequence of four elements is its elements.
LEMMA FourElements ==
    ASSUME NEW S, NEW s \in Seq(S), Len(s) = 4
    PROVE  s = <<s[1], s[2], s[3], s[4]>>
  OBVIOUS

\* The code has the bytes at the place at.
Has(code, at, bytes) ==
    \A i \in 1 .. Len(bytes) : at + i - 1 \in DOMAIN code /\ code[at + i - 1] = bytes[i]

-----------------------------------------------------------------------------
(* The bytes of an instruction with a ModRM byte.                           *)

ModRM(t, a, b) == t * 64 + a * 8 + b
Rex(w, a, b)   == 64 + w * 8 + a * 4 + b

\* What write_mr_instr is given: an opcode, two registers, the bits for a
\* register (3) or memory (2), and the one for eight bytes.
Fields(opcode, reg, rm, t, w) ==
    opcode \in 0 .. 255 /\ reg \in 0 .. 15 /\ rm \in 0 .. 15 /\ t \in 2 .. 3 /\ w \in 0 .. 1

\* write_mr_instr, with numbers for its last two arguments.
MR(opcode, reg, rm, t, w) == write_mr_instr(opcode, reg, rm, t = 2, w = 1)

\* MR is write_mr_instr with numbers in place of truth values.
LEMMA MRIs ==
    ASSUME NEW opcode, NEW reg, NEW rm
    PROVE  /\ write_mr_instr(opcode, reg, rm, TRUE, TRUE) = MR(opcode, reg, rm, 2, 1)
           /\ write_mr_instr(opcode, reg, rm, FALSE, TRUE) = MR(opcode, reg, rm, 3, 1)
           /\ write_mr_instr(opcode, reg, rm, FALSE, FALSE) = MR(opcode, reg, rm, 3, 0)
  BY DEF MR, write_mr_instr

\* An instruction without REX.W, which addresses a register.
LEMMA MRNarrow ==
    ASSUME NEW opcode, NEW reg, NEW rm
    PROVE  write_mr_instr(opcode, reg, rm, FALSE, FALSE) = MR(opcode, reg, rm, 3, 0)
  BY MRIs

\* The fields of a ModRM byte can be taken apart again.
LEMMA ModRMFields ==
    ASSUME NEW t \in 2 .. 3, NEW a \in 0 .. 7, NEW b \in 0 .. 7
    PROVE  /\ ModRM(t, a, b) \in Nat
           /\ ModRM(t, a, b) \div 64 = t
           /\ (ModRM(t, a, b) \div 8) % 8 = a
           /\ ModRM(t, a, b) % 8 = b
<1> DEFINE modrm == t * 64 + a * 8 + b
<1>1. modrm \in Nat
  OBVIOUS
<1>2. modrm \div 64 = t
  OBVIOUS
<1>3. modrm \div 8 = t * 8 + a /\ modrm % 8 = b
  OBVIOUS
<1>4. (t * 8 + a) % 8 = a
  OBVIOUS
<1>5. QED
  BY <1>1, <1>2, <1>3, <1>4 DEF ModRM

\* So can those of a prefix.
LEMMA RexFields ==
    ASSUME NEW w \in 0 .. 1, NEW a \in 0 .. 1, NEW b \in 0 .. 1
    PROVE  /\ Rex(w, a, b) \in 64 .. 79
           /\ (Rex(w, a, b) \div 8) % 2 = w
           /\ (Rex(w, a, b) \div 4) % 2 = a
           /\ (Rex(w, a, b) \div 2) % 2 = 0
           /\ Rex(w, a, b) % 2 = b
  BY DEF Rex

\* A register is its low bits and its high bit.
LEMMA LowHigh ==
    ASSUME NEW reg \in 0 .. 15
    PROVE  /\ Low(reg) \in 0 .. 7 /\ High(reg) \in 0 .. 1
           /\ reg = Low(reg) + 8 * High(reg)
           /\ has_SIB(reg) <=> Low(reg) = 4
  BY DEF Low, High, has_SIB, RSP, R12

\* The bytes of write_mr_instr one by one.
LEMMA MRBytes ==
    ASSUME NEW opcode, NEW reg, NEW rm, NEW t, NEW w, Fields(opcode, reg, rm, t, w)
    PROVE  /\ IsSeq(MR(opcode, reg, rm, t, w))
           /\ Len(MR(opcode, reg, rm, t, w)) = IF t = 2 /\ Low(rm) = 4 THEN 4 ELSE 3
           /\ MR(opcode, reg, rm, t, w)[1] = Rex(w, High(reg), High(rm))
           /\ MR(opcode, reg, rm, t, w)[2] = opcode
           /\ MR(opcode, reg, rm, t, w)[3] = ModRM(t, Low(reg), Low(rm))
           /\ t = 2 /\ Low(rm) = 4 => MR(opcode, reg, rm, t, w)[4] = 36
<1> DEFINE modrm == (IF t = 2 THEN 2 ELSE 3) * MOD_ + Low(reg) * REG + Low(rm)
           rex   == REX + (IF w = 1 THEN REX_W ELSE 0) + High(reg) * REX_R + High(rm) * REX_B
           head  == <<rex, opcode, modrm>>
           sib   == <<4 * INDEX + Low(rm)>>
           bytes == MR(opcode, reg, rm, t, w)
<1>0. opcode \in 0 .. 255 /\ reg \in 0 .. 15 /\ rm \in 0 .. 15 /\ t \in 2 .. 3 /\ w \in 0 .. 1
  BY DEF Fields
<1>1. bytes = head \o (IF t = 2 /\ has_SIB(rm) THEN sib ELSE <<>>)
  BY DEF MR, write_mr_instr
<1>2. modrm = ModRM(t, Low(reg), Low(rm))
  BY <1>0 DEF MOD_, REG, ModRM
<1>3. rex = Rex(w, High(reg), High(rm))
  BY <1>0, LowHigh DEF REX, REX_W, REX_R, REX_B, Rex
<1>4. modrm \in Nat /\ rex \in Nat
  BY <1>0, <1>2, <1>3, LowHigh DEF ModRM, Rex
<1>5. Low(rm) = 4 => sib = <<36>>
  BY DEF INDEX
<1>6. has_SIB(rm) <=> Low(rm) = 4
  BY <1>0, LowHigh
<1> HIDE DEF modrm, rex, sib, bytes
<1>7. /\ head \in Seq(Nat) /\ Len(head) = 3
      /\ head[1] = rex /\ head[2] = opcode /\ head[3] = modrm
  BY <1>0, <1>4
<1>8. IsSeq(head)
  BY <1>7, SeqIs
<1> HIDE DEF head
<1>9. CASE t = 2 /\ Low(rm) = 4
  <2>1. <<36>> \in Seq(Nat) /\ Len(<<36>>) = 1 /\ <<36>>[1] = 36
    OBVIOUS
  <2>2. sib \in Seq(Nat) /\ Len(sib) = 1 /\ sib[1] = 36
    BY <1>5, <1>9, <2>1, Zenon
  <2>3. bytes = head \o sib
    BY <1>1, <1>6, <1>9
  <2>4. IsSeq(sib)
    BY <2>2, SeqIs
  <2>5. /\ IsSeq(bytes) /\ Len(bytes) = Len(head) + Len(sib)
        /\ \A i \in 1 .. Len(head) : bytes[i] = head[i]
        /\ \A i \in 1 .. Len(sib) : bytes[Len(head) + i] = sib[i]
    BY <1>8, <2>3, <2>4, Cat
  <2>6. 1 \in 1 .. Len(sib) /\ Len(head) + 1 = 4
    BY <1>7, <2>2
  <2>7. bytes[Len(head) + 1] = sib[1]
    BY <2>5, <2>6
  <2>8. /\ IsSeq(bytes) /\ Len(bytes) = 4 /\ bytes[4] = sib[1]
        /\ bytes[1] = head[1] /\ bytes[2] = head[2] /\ bytes[3] = head[3]
    BY <1>7, <2>2, <2>5, <2>6, <2>7
  <2>9. QED
    BY <1>2, <1>3, <1>7, <1>9, <2>2, <2>8 DEF bytes
<1>10. CASE ~(t = 2 /\ Low(rm) = 4)
  <2>1. bytes = head \o <<>>
    BY <1>1, <1>6, <1>10
  <2>2. bytes = head
    BY <1>7, <2>1
  <2>3. QED
    BY <1>2, <1>3, <1>7, <1>8, <1>10, <2>2 DEF bytes
<1>11. QED
  BY <1>9, <1>10

\* Bytes that the code has are found there.
LEMMA HasByte ==
    ASSUME NEW code, NEW at, NEW bytes, Has(code, at, bytes)
    PROVE  \A i \in 1 .. Len(bytes) : Byte(code, at + i - 1) = bytes[i]
  BY DEF Has, Byte

\* The code has such a ModRM byte at the place at and whatever follows at end.
Holds(reg, rm, t, w, rex, code, at, end) ==
    /\ rex = Rex(w, High(reg), High(rm))
    /\ at \in Nat
    /\ Byte(code, at) = ModRM(t, Low(reg), Low(rm))
    /\ t = 2 /\ Low(rm) = 4 => Byte(code, at + 1) = 36
    /\ end = IF t = 2 /\ Low(rm) = 4 THEN at + 2 ELSE at + 1

\* A prefix and a ModRM byte, as the processor takes them apart.
LEMMA TakeApart ==
    ASSUME NEW opcode, NEW reg, NEW rm, NEW t, NEW w, Fields(opcode, reg, rm, t, w),
           NEW rex, NEW code, NEW at, NEW end, Holds(reg, rm, t, w, rex, code, at, end)
    PROVE  /\ rex \in 64 .. 79 /\ (rex \div 8) % 2 = w
           /\ IsReg(code, at) <=> t = 3
           /\ Known(rex, code, at)
           /\ RegOf(rex, code, at) = reg
           /\ t = 2 => OperandOf(rex, code, at) = Memory(rm, SignExtend(Four(code, end)))
           /\ t = 3 => OperandOf(rex, code, at) = Register(rm)
           /\ AfterOperand(code, at) = (IF t = 2 THEN end + 4 ELSE end)
<1> DEFINE modrm == Byte(code, at)
<1>0. reg \in 0 .. 15 /\ rm \in 0 .. 15 /\ t \in 2 .. 3 /\ w \in 0 .. 1
  BY DEF Fields
<1>1. Low(reg) \in 0 .. 7 /\ High(reg) \in 0 .. 1 /\ Low(rm) \in 0 .. 7 /\ High(rm) \in 0 .. 1
  BY <1>0, LowHigh
<1>2. reg = Low(reg) + 8 * High(reg) /\ rm = Low(rm) + 8 * High(rm)
  BY <1>0, LowHigh
<1> USE <1>0 DEF Holds
<1>3. /\ modrm \in Nat /\ modrm \div 64 = t
      /\ (modrm \div 8) % 8 = Low(reg) /\ modrm % 8 = Low(rm)
  BY <1>1, ModRMFields
<1>4. /\ rex \in 64 .. 79 /\ (rex \div 8) % 2 = w /\ (rex \div 4) % 2 = High(reg)
      /\ (rex \div 2) % 2 = 0 /\ rex % 2 = High(rm)
  BY <1>1, RexFields
<1>5. IsReg(code, at) <=> t = 3
  BY <1>3 DEF IsReg
<1>6. HasSIB(code, at) <=> t = 2 /\ Low(rm) = 4
  BY <1>3, <1>5 DEF HasSIB
<1>7. Behind(code, at) = end
  BY <1>6 DEF Behind
<1>8. Known(rex, code, at)
  <2>1. CASE t = 3
    BY <1>5, <2>1 DEF Known
  <2>2. CASE t = 2
    <3>1. HasSIB(code, at) => Byte(code, at + 1) = 36
      BY <1>6
    <3>2. (36 \div 8) % 8 = 4
      OBVIOUS
    <3>3. QED
      BY <1>3, <1>4, <2>2, <3>1, <3>2 DEF Known
  <2>3. QED
    BY <2>1, <2>2
<1>9. RegOf(rex, code, at) = reg
  BY <1>1, <1>2, <1>3, <1>4 DEF RegOf
<1>10. (IF HasSIB(code, at) THEN Byte(code, at + 1) % 8 ELSE Byte(code, at) % 8) + 8 * (rex % 2) = rm
  <2>1. HasSIB(code, at) => Byte(code, at + 1) = 36 /\ Low(rm) = 4
    BY <1>6
  <2>2. 36 % 8 = 4
    OBVIOUS
  <2>3. QED
    BY <1>1, <1>2, <1>3, <1>4, <2>1, <2>2
<1>11. /\ t = 2 => OperandOf(rex, code, at) = Memory(rm, SignExtend(Four(code, end)))
       /\ t = 3 => OperandOf(rex, code, at) = Register(rm)
  BY <1>5, <1>7, <1>10 DEF OperandOf
<1>12. AfterOperand(code, at) = (IF t = 2 THEN end + 4 ELSE end)
  BY <1>5, <1>7 DEF AfterOperand
<1>13. QED
  BY <1>4, <1>5, <1>8, <1>9, <1>11, <1>12

\* What the processor reads at the place at, up to end: a prefix, an opcode, a
\* register and a second operand.
MRRead(opcode, reg, rm, t, w, code, at, end) ==
    LET rex == Byte(code, at)
    IN  /\ rex \in 64 .. 79 /\ (rex \div 8) % 2 = w
        /\ Byte(code, at + 1) = opcode
        /\ IsReg(code, at + 2) <=> t = 3
        /\ Known(rex, code, at + 2)
        /\ RegOf(rex, code, at + 2) = reg
        /\ OperandOf(rex, code, at + 2)
             = IF t = 2 THEN Memory(rm, SignExtend(Four(code, end))) ELSE Register(rm)
        /\ AfterOperand(code, at + 2) = (IF t = 2 THEN end + 4 ELSE end)

\* The bytes of write_mr_instr are read so.
LEMMA DecodeMR ==
    ASSUME NEW opcode, NEW reg, NEW rm, NEW t, NEW w, Fields(opcode, reg, rm, t, w),
           NEW code, NEW at, at \in Nat, Has(code, at, MR(opcode, reg, rm, t, w))
    PROVE  MRRead(opcode, reg, rm, t, w, code, at, at + Len(MR(opcode, reg, rm, t, w)))
<1> DEFINE bytes == MR(opcode, reg, rm, t, w)
           end == at + Len(bytes)
           rex == Byte(code, at)
<1>1. /\ Len(bytes) = IF t = 2 /\ Low(rm) = 4 THEN 4 ELSE 3
      /\ bytes[1] = Rex(w, High(reg), High(rm))
      /\ bytes[2] = opcode
      /\ bytes[3] = ModRM(t, Low(reg), Low(rm))
      /\ t = 2 /\ Low(rm) = 4 => bytes[4] = 36
  BY MRBytes
<1>2. \A i \in 1 .. Len(bytes) : Byte(code, at + i - 1) = bytes[i]
  BY HasByte
<1> HIDE DEF bytes
<1>3. /\ 1 \in 1 .. Len(bytes) /\ 2 \in 1 .. Len(bytes) /\ 3 \in 1 .. Len(bytes)
      /\ t = 2 /\ Low(rm) = 4 => 4 \in 1 .. Len(bytes)
  BY <1>1
<1>4. at + 1 - 1 = at /\ at + 2 - 1 = at + 1 /\ at + 3 - 1 = at + 2 /\ at + 4 - 1 = (at + 2) + 1
  OBVIOUS
<1>5. /\ rex = Rex(w, High(reg), High(rm))
      /\ Byte(code, at + 1) = opcode
      /\ Byte(code, at + 2) = ModRM(t, Low(reg), Low(rm))
      /\ t = 2 /\ Low(rm) = 4 => Byte(code, (at + 2) + 1) = 36
  <2>1. /\ Byte(code, at + 1 - 1) = bytes[1] /\ Byte(code, at + 2 - 1) = bytes[2]
        /\ Byte(code, at + 3 - 1) = bytes[3]
    BY <1>2, <1>3
  <2>2. t = 2 /\ Low(rm) = 4 => Byte(code, at + 4 - 1) = bytes[4]
    BY <1>2, <1>3
  <2>3. QED
    BY <1>1, <1>4, <2>1, <2>2
<1>6. at + 2 \in Nat /\ end = IF t = 2 /\ Low(rm) = 4 THEN (at + 2) + 2 ELSE (at + 2) + 1
  BY <1>1
<1>7. Holds(reg, rm, t, w, rex, code, at + 2, end)
  BY <1>5, <1>6 DEF Holds
<1> HIDE DEF end, rex
<1>8. /\ rex \in 64 .. 79 /\ (rex \div 8) % 2 = w
      /\ IsReg(code, at + 2) <=> t = 3
      /\ Known(rex, code, at + 2)
      /\ RegOf(rex, code, at + 2) = reg
      /\ t = 2 => OperandOf(rex, code, at + 2) = Memory(rm, SignExtend(Four(code, end)))
      /\ t = 3 => OperandOf(rex, code, at + 2) = Register(rm)
      /\ AfterOperand(code, at + 2) = (IF t = 2 THEN end + 4 ELSE end)
  BY <1>7, TakeApart
<1>9. t \in 2 .. 3
  BY DEF Fields
<1>10. MRRead(opcode, reg, rm, t, w, code, at, end)
  BY <1>5, <1>8, <1>9 DEF MRRead, rex
<1>11. QED
  BY <1>10 DEF end, bytes

\* The instructions that begin with a ModRM byte.
LEMMA ReadsMR ==
    ASSUME NEW opcode, NEW reg, NEW rm, NEW t, NEW w, Fields(opcode, reg, rm, t, w),
           NEW code, NEW at, at \in Nat, NEW end, end \in Nat,
           MRRead(opcode, reg, rm, t, w, code, at, end)
    PROVE  LET memory    == Memory(rm, SignExtend(Four(code, end)))
               immediate == SignExtend(Four(code, end))
           IN  /\ opcode = 141 /\ t = 2 /\ w = 1 =>
                     Decode(code, at) = Is("lea", Register(reg), memory, (end + 4) - at)
               /\ opcode = 137 /\ t = 2 /\ w = 1 =>
                     Decode(code, at) = Is("mov", memory, Register(reg), (end + 4) - at)
               /\ opcode = 139 /\ t = 2 /\ w = 1 =>
                     Decode(code, at) = Is("mov", Register(reg), memory, (end + 4) - at)
               /\ opcode = 139 /\ t = 3 /\ w = 1 =>
                     Decode(code, at) = Is("mov", Register(reg), Register(rm), end - at)
               /\ opcode = 11 /\ t = 3 /\ w = 1 =>
                     Decode(code, at) = Is("or", Register(reg), Register(rm), end - at)
               /\ opcode = 129 /\ t = 3 /\ w = 1 /\ reg = 5 =>
                     Decode(code, at) = Is("sub", Register(rm), immediate, (end + 4) - at)
               /\ opcode = 129 /\ t = 3 /\ w = 1 /\ reg = 0 =>
                     Decode(code, at) = Is("add", Register(rm), immediate, (end + 4) - at)
               /\ opcode = 255 /\ t = 3 /\ reg = 4 =>
                     Decode(code, at) = Is("jmp", Register(rm), <<>>, end - at)
               /\ opcode = 255 /\ t = 3 /\ reg = 2 =>
                     Decode(code, at) = Is("call", Register(rm), <<>>, end - at)
<1> DEFINE rex == Byte(code, at)
           memory    == Memory(rm, SignExtend(Four(code, end)))
           immediate == SignExtend(Four(code, end))
<1> DEFINE mr == opcode \in {11, 129, 137, 139, 141, 255}
<1>1. mr => Decode(code, at) = OperationMR(rex, code, at + 1, at)
  <2>1. Decode(code, at) = Operation(rex, code, at + 1, at)
    BY DEF MRRead, Decode
  <2>2. Byte(code, at + 1) = opcode
    BY DEF MRRead
  <2>3. QED
    BY <2>1, <2>2 DEF Operation
<1>2. /\ (rex \div 8) % 2 = w
      /\ Byte(code, at + 1) = opcode
      /\ IsReg(code, (at + 1) + 1) <=> t = 3
      /\ Known(rex, code, (at + 1) + 1)
      /\ RegOf(rex, code, (at + 1) + 1) = reg
      /\ OperandOf(rex, code, (at + 1) + 1) = IF t = 2 THEN memory ELSE Register(rm)
      /\ AfterOperand(code, (at + 1) + 1) = (IF t = 2 THEN end + 4 ELSE end)
  <2>1. (at + 1) + 1 = at + 2
    OBVIOUS
  <2>2. QED
    BY <2>1 DEF MRRead
<1> HIDE DEF rex, memory, immediate
<1>3. opcode = 141 /\ t = 2 /\ w = 1 =>
         Decode(code, at) = Is("lea", Register(reg), memory, (end + 4) - at)
  BY <1>1, <1>2 DEF OperationMR, Wide
<1>4. opcode = 137 /\ t = 2 /\ w = 1 =>
         Decode(code, at) = Is("mov", memory, Register(reg), (end + 4) - at)
  BY <1>1, <1>2 DEF OperationMR, Wide
<1>5. opcode = 139 /\ t = 2 /\ w = 1 =>
         Decode(code, at) = Is("mov", Register(reg), memory, (end + 4) - at)
  BY <1>1, <1>2 DEF OperationMR, Wide
<1>6. opcode = 139 /\ t = 3 /\ w = 1 =>
         Decode(code, at) = Is("mov", Register(reg), Register(rm), end - at)
  BY <1>1, <1>2 DEF OperationMR, Wide
<1>7. opcode = 11 /\ t = 3 /\ w = 1 =>
         Decode(code, at) = Is("or", Register(reg), Register(rm), end - at)
  BY <1>1, <1>2 DEF OperationMR, Wide
<1>8. opcode = 129 /\ t = 3 /\ w = 1 /\ reg = 5 =>
         Decode(code, at) = Is("sub", Register(rm), immediate, (end + 4) - at)
  BY <1>1, <1>2 DEF OperationMR, Wide, immediate
<1>9. opcode = 129 /\ t = 3 /\ w = 1 /\ reg = 0 =>
         Decode(code, at) = Is("add", Register(rm), immediate, (end + 4) - at)
  BY <1>1, <1>2 DEF OperationMR, Wide, immediate
<1>10. opcode = 255 /\ t = 3 /\ reg = 4 => Decode(code, at) = Is("jmp", Register(rm), <<>>, end - at)
  BY <1>1, <1>2 DEF OperationMR, Wide
<1>11. opcode = 255 /\ t = 3 /\ reg = 2 => Decode(code, at) = Is("call", Register(rm), <<>>, end - at)
  BY <1>1, <1>2 DEF OperationMR, Wide
<1>12. QED
  BY <1>3, <1>4, <1>5, <1>6, <1>7, <1>8, <1>9, <1>10, <1>11 DEF memory, immediate

-----------------------------------------------------------------------------
(* The other instructions.                                                  *)

\* The bytes of write_o_instr one by one.
LEMMA OBytes ==
    ASSUME NEW opcode \in {80, 88}, NEW reg \in 0 .. 15
    PROVE  /\ IsSeq(write_o_instr(opcode, reg))
           /\ High(reg) = 1 => /\ Len(write_o_instr(opcode, reg)) = 2
                              /\ write_o_instr(opcode, reg)[1] = 65
                              /\ write_o_instr(opcode, reg)[2] = opcode + Low(reg)
           /\ High(reg) = 0 => /\ Len(write_o_instr(opcode, reg)) = 1
                              /\ write_o_instr(opcode, reg)[1] = opcode + Low(reg)
<1> DEFINE bytes == write_o_instr(opcode, reg)
           o == opcode + Low(reg)
<1>1. o \in Nat
  BY LowHigh
<1>2. REX + REX_B = 65
  BY DEF REX, REX_B
<1>3. bytes = (IF High(reg) = 1 THEN <<65>> ELSE <<>>) \o <<o>>
  BY <1>2 DEF write_o_instr
<1> HIDE DEF bytes, o
<1>4. CASE High(reg) = 1
  <2>1. bytes = <<65>> \o <<o>>
    BY <1>3, <1>4
  <2>2. /\ IsSeq(<<65>>) /\ Len(<<65>>) = 1 /\ <<65>>[1] = 65
        /\ IsSeq(<<o>>) /\ Len(<<o>>) = 1 /\ <<o>>[1] = o
    BY One
  <2> DEFINE s == <<65>>
             t == <<o>>
  <2> HIDE DEF s, t
  <2>3. /\ IsSeq(bytes) /\ Len(bytes) = Len(s) + Len(t)
        /\ \A i \in 1 .. Len(s) : bytes[i] = s[i]
        /\ \A i \in 1 .. Len(t) : bytes[Len(s) + i] = t[i]
    BY <2>1, <2>2, Cat DEF s, t
  <2>4. Len(s) = 1 /\ s[1] = 65 /\ Len(t) = 1 /\ t[1] = o
    BY <2>2 DEF s, t
  <2>5. bytes[Len(s) + 1] = t[1] /\ bytes[1] = s[1]
    BY <2>3, <2>4
  <2>6. QED
    BY <1>4, <2>3, <2>4, <2>5 DEF bytes, o
<1>5. CASE High(reg) # 1
  <2>1. <<>> \o <<o>> = <<o>>
    BY <1>1
  <2>2. bytes = <<o>>
    BY <1>3, <1>5, <2>1
  <2>3. bytes \in Seq(Nat) /\ Len(bytes) = 1 /\ bytes[1] = o
    BY <1>1, <2>2
  <2>4. QED
    BY <1>5, <2>3, SeqIs DEF bytes, o
<1>6. QED
  BY <1>4, <1>5

\* The processor finds the register in them.
LEMMA ReadsO ==
    ASSUME NEW opcode \in {80, 88}, NEW reg \in 0 .. 15, NEW code, NEW at \in Nat,
           Has(code, at, write_o_instr(opcode, reg))
    PROVE  Decode(code, at) = Is(IF opcode = 80 THEN "push" ELSE "pop", Register(reg), <<>>,
                                 Len(write_o_instr(opcode, reg)))
<1> DEFINE bytes == write_o_instr(opcode, reg)
           o == opcode + Low(reg)
           op == IF opcode = 80 THEN "push" ELSE "pop"
<1>1. Low(reg) \in 0 .. 7 /\ High(reg) \in 0 .. 1 /\ reg = Low(reg) + 8 * High(reg)
  BY LowHigh
<1>2. /\ High(reg) = 1 => Len(bytes) = 2 /\ bytes[1] = 65 /\ bytes[2] = o
      /\ High(reg) = 0 => Len(bytes) = 1 /\ bytes[1] = o
  BY OBytes
<1>3. \A i \in 1 .. Len(bytes) : Byte(code, at + i - 1) = bytes[i]
  BY HasByte
<1> HIDE DEF bytes
<1>4. o \in Nat /\ o % 8 = Low(reg) /\ o \in 80 .. 95 /\ ~(o \in {11, 129, 137, 139, 141, 255})
  BY <1>1
<1>5. (opcode = 80 => o \in 80 .. 87) /\ (opcode = 88 => o \in 88 .. 95 /\ ~(o \in 80 .. 87))
  BY <1>1
<1>6. at + 1 - 1 = at /\ at + 2 - 1 = at + 1
  OBVIOUS
<1> HIDE DEF o
<1>7. ASSUME NEW rex, NEW p, Byte(code, p) = o, rex % 2 = High(reg)
      PROVE  Operation(rex, code, p, at) = Is(op, Register(reg), <<>>, p + 1 - at)
  <2>1. Operation(rex, code, p, at) = OperationO(rex, code, p, at)
    BY <1>4, <1>7 DEF Operation
  <2>2. (o % 8) + 8 * (rex % 2) = reg
    BY <1>1, <1>4, <1>7
  <2>3. CASE opcode = 80
    <3>1. o \in 80 .. 87 /\ ~(o \in 88 .. 95) /\ ~(o \in 184 .. 191)
      BY <1>5, <2>3
    <3>2. OperationO(rex, code, p, at) = Is("push", Register((o % 8) + 8 * (rex % 2)), <<>>, p + 1 - at)
      BY <1>7, <3>1 DEF OperationO
    <3>3. QED
      BY <2>1, <2>2, <2>3, <3>2
  <2>4. CASE opcode = 88
    <3>1. ~(o \in 80 .. 87) /\ o \in 88 .. 95 /\ ~(o \in 184 .. 191)
      BY <1>5, <2>4
    <3>2. OperationO(rex, code, p, at) = Is("pop", Register((o % 8) + 8 * (rex % 2)), <<>>, p + 1 - at)
      BY <1>7, <3>1 DEF OperationO
    <3>3. QED
      BY <2>1, <2>2, <2>4, <3>2
  <2>5. QED
    BY <2>3, <2>4
<1>8. CASE High(reg) = 1
  <2>1. Byte(code, at) = 65 /\ Byte(code, at + 1) = o
    <3>1. 1 \in 1 .. Len(bytes) /\ 2 \in 1 .. Len(bytes)
      BY <1>2, <1>8
    <3>2. Byte(code, at + 1 - 1) = bytes[1] /\ Byte(code, at + 2 - 1) = bytes[2]
      BY <1>3, <3>1
    <3>3. QED
      BY <1>2, <1>6, <1>8, <3>2
  <2>2. Decode(code, at) = Operation(65, code, at + 1, at)
    BY <2>1 DEF Decode
  <2>3. 65 % 2 = High(reg) /\ at + 1 \in Nat /\ (at + 1) + 1 - at = Len(bytes)
    BY <1>2, <1>8
  <2>4. Operation(65, code, at + 1, at) = Is(op, Register(reg), <<>>, (at + 1) + 1 - at)
    BY <1>7, <2>1, <2>3
  <2>5. QED
    BY <2>2, <2>3, <2>4 DEF bytes
<1>9. CASE High(reg) = 0
  <2>1. Byte(code, at) = o
    <3>1. 1 \in 1 .. Len(bytes)
      BY <1>2, <1>9
    <3>2. Byte(code, at + 1 - 1) = bytes[1]
      BY <1>3, <3>1
    <3>3. QED
      BY <1>2, <1>6, <1>9, <3>2
  <2>2. Decode(code, at) = Operation(0, code, at, at)
    BY <1>4, <2>1 DEF Decode
  <2>3. 0 % 2 = High(reg) /\ at + 1 - at = Len(bytes)
    BY <1>2, <1>9
  <2>4. Operation(0, code, at, at) = Is(op, Register(reg), <<>>, at + 1 - at)
    BY <1>7, <2>1, <2>3
  <2>5. QED
    BY <2>2, <2>3, <2>4 DEF bytes
<1>10. QED
  BY <1>1, <1>8, <1>9

-----------------------------------------------------------------------------
(* The fields.                                                              *)

\* What the code has behind what it has.
LEMMA HasParts ==
    ASSUME NEW code, NEW at, at \in Nat, NEW s, NEW t, IsSeq(s), IsSeq(t), Has(code, at, s \o t)
    PROVE  Has(code, at, s) /\ Has(code, at + Len(s), t)
<1>1. /\ Len(s) \in Nat /\ Len(t) \in Nat /\ Len(s \o t) = Len(s) + Len(t)
      /\ \A i \in 1 .. Len(s) : (s \o t)[i] = s[i]
      /\ \A i \in 1 .. Len(t) : (s \o t)[Len(s) + i] = t[i]
  BY Cat, SeqFacts
<1>2. \A i \in 1 .. Len(s \o t) :
          at + i - 1 \in DOMAIN code /\ code[at + i - 1] = (s \o t)[i]
  BY DEF Has
<1>3. Has(code, at, s)
  <2>1. \A i \in 1 .. Len(s) : i \in 1 .. Len(s \o t)
    BY <1>1
  <2>2. QED
    BY <1>1, <1>2, <2>1 DEF Has
<1>4. Has(code, at + Len(s), t)
  <2> SUFFICES ASSUME NEW i \in 1 .. Len(t)
               PROVE  /\ at + Len(s) + i - 1 \in DOMAIN code
                      /\ code[at + Len(s) + i - 1] = t[i]
    BY DEF Has
  <2>1. Len(s) + i \in 1 .. Len(s \o t) /\ at + (Len(s) + i) - 1 = at + Len(s) + i - 1
    BY <1>1
  <2>2. QED
    BY <1>1, <1>2, <2>1
<1>5. QED
  BY <1>3, <1>4

\* The field of a static value: its bytes in it, or zeros.
IsValue(v) == IsLiteral(v) \/ v.type # "literal"
ValueByte(v, i) == IF v.type = "literal" THEN v.bytes[i] ELSE 0

\* The bytes of a field that write_static_value leaves, one by one.
LEMMA FieldBytes ==
    ASSUME NEW v, IsValue(v), NEW size \in {4, 8}
    PROVE  /\ IsSeq(write_static_value(v, size))
           /\ Len(write_static_value(v, size)) = size
           /\ \A i \in 1 .. size : write_static_value(v, size)[i] = ValueByte(v, i)
<1>1. CASE v.type = "literal"
  <2>1. v.bytes \in [1 .. 8 -> 0 .. 255]
    BY <1>1 DEF IsValue, IsLiteral
  <2>2. v.bytes \in Seq(0 .. 255) /\ Len(v.bytes) = 8
    BY <2>1, EightBytes
  <2>3. /\ SubSeq(v.bytes, 1, size) \in Seq(0 .. 255) /\ Len(SubSeq(v.bytes, 1, size)) = size
        /\ \A i \in 1 .. size : SubSeq(v.bytes, 1, size)[i] = v.bytes[i]
    <3>1. size \in Nat /\ size <= Len(v.bytes)
      BY <2>2
    <3>2. QED
      BY <2>2, <3>1, FirstElements
  <2>4. QED
    BY <1>1, <2>3, SeqIs DEF write_static_value, ValueByte
<1>2. CASE v.type # "literal"
  <2>1. /\ [i \in 1 .. size |-> 0] \in Seq({0}) /\ Len([i \in 1 .. size |-> 0]) = size
        /\ \A j \in 1 .. size : [i \in 1 .. size |-> 0][j] = 0
    OBVIOUS
  <2>2. QED
    BY <1>2, <2>1, SeqIs DEF write_static_value, ValueByte
<1>3. QED
  BY <1>1, <1>2

\* What is read from a field of four bytes.
LEMMA FourRead ==
    ASSUME NEW v, IsNarrow(v), NEW code, NEW at, at \in Nat,
           Has(code, at, write_static_value(v, 4))
    PROVE  SignExtend(Four(code, at)) = v.bytes
<1> DEFINE bytes == write_static_value(v, 4)
<1>1. v.type = "literal" /\ v.bytes \in [1 .. 8 -> 0 .. 255] /\ IsValue(v)
  BY DEF IsNarrow, IsLiteral, IsValue
<1>2. v.bytes = SignExtend(SubSeq(v.bytes, 1, 4))
  BY DEF IsNarrow
<1>3. /\ Len(bytes) = 4 /\ \A i \in 1 .. 4 : bytes[i] = v.bytes[i]
      /\ bytes = SubSeq(v.bytes, 1, 4)
  BY <1>1, FieldBytes DEF ValueByte, write_static_value
<1>4. \A i \in 1 .. Len(bytes) : Byte(code, at + i - 1) = bytes[i]
  BY HasByte
<1> HIDE DEF bytes
<1>5. /\ Byte(code, at) = v.bytes[1] /\ Byte(code, at + 1) = v.bytes[2]
      /\ Byte(code, at + 2) = v.bytes[3] /\ Byte(code, at + 3) = v.bytes[4]
  <2>1. /\ Byte(code, at + 1 - 1) = v.bytes[1] /\ Byte(code, at + 2 - 1) = v.bytes[2]
        /\ Byte(code, at + 3 - 1) = v.bytes[3] /\ Byte(code, at + 4 - 1) = v.bytes[4]
    BY <1>3, <1>4
  <2>2. at + 1 - 1 = at /\ at + 2 - 1 = at + 1 /\ at + 3 - 1 = at + 2 /\ at + 4 - 1 = at + 3
    OBVIOUS
  <2>3. QED
    BY <2>1, <2>2
<1>6. Four(code, at) = <<v.bytes[1], v.bytes[2], v.bytes[3], v.bytes[4]>>
  BY <1>5 DEF Four
<1>7. <<v.bytes[1], v.bytes[2], v.bytes[3], v.bytes[4]>> = SubSeq(v.bytes, 1, 4)
  <2>1. v.bytes \in Seq(0 .. 255) /\ Len(v.bytes) = 8
    BY <1>1, EightBytes
  <2> DEFINE first == SubSeq(v.bytes, 1, 4)
  <2>2. /\ first \in Seq(0 .. 255) /\ Len(first) = 4
        /\ \A i \in 1 .. 4 : first[i] = v.bytes[i]
    <3>1. 4 \in Nat /\ 4 <= Len(v.bytes)
      BY <2>1
    <3>2. QED
      BY <2>1, <3>1, FirstElements
  <2> HIDE DEF first
  <2>3. first = <<first[1], first[2], first[3], first[4]>>
    BY <2>2, FourElements
  <2>4. QED
    BY <2>2, <2>3 DEF first
<1>8. QED
  BY <1>2, <1>6, <1>7

\* What is read from a field of eight bytes.
LEMMA EightRead ==
    ASSUME NEW v, IsValue(v), NEW code, NEW at, at \in Nat,
           Has(code, at, write_static_value(v, 8))
    PROVE  Eight(code, at) = IF v.type = "literal" THEN v.bytes ELSE [i \in 1 .. 8 |-> 0]
<1> DEFINE bytes == write_static_value(v, 8)
           value == [i \in 1 .. 8 |-> ValueByte(v, i)]
<1>1. Len(bytes) = 8 /\ \A i \in 1 .. 8 : bytes[i] = ValueByte(v, i)
  BY FieldBytes
<1>2. \A i \in 1 .. Len(bytes) : Byte(code, at + i - 1) = bytes[i]
  BY HasByte
<1> HIDE DEF bytes
<1>3. \A i \in 1 .. 8 : Byte(code, at + i - 1) = ValueByte(v, i)
  BY <1>1, <1>2
<1>4. /\ Four(code, at) = <<ValueByte(v, 1), ValueByte(v, 2), ValueByte(v, 3), ValueByte(v, 4)>>
      /\ Four(code, at + 4) = <<ValueByte(v, 5), ValueByte(v, 6), ValueByte(v, 7), ValueByte(v, 8)>>
  <2>1. /\ Byte(code, at + 1 - 1) = ValueByte(v, 1) /\ Byte(code, at + 2 - 1) = ValueByte(v, 2)
        /\ Byte(code, at + 3 - 1) = ValueByte(v, 3) /\ Byte(code, at + 4 - 1) = ValueByte(v, 4)
        /\ Byte(code, at + 5 - 1) = ValueByte(v, 5) /\ Byte(code, at + 6 - 1) = ValueByte(v, 6)
        /\ Byte(code, at + 7 - 1) = ValueByte(v, 7) /\ Byte(code, at + 8 - 1) = ValueByte(v, 8)
    BY <1>3
  <2>2. /\ at + 1 - 1 = at /\ at + 2 - 1 = at + 1 /\ at + 3 - 1 = at + 2 /\ at + 4 - 1 = at + 3
        /\ at + 5 - 1 = at + 4 /\ at + 6 - 1 = (at + 4) + 1 /\ at + 7 - 1 = (at + 4) + 2
        /\ at + 8 - 1 = (at + 4) + 3
    OBVIOUS
  <2>3. QED
    BY <2>1, <2>2 DEF Four
<1>5. Eight(code, at) = value
  <2> DEFINE low == <<ValueByte(v, 1), ValueByte(v, 2), ValueByte(v, 3), ValueByte(v, 4)>>
             high == <<ValueByte(v, 5), ValueByte(v, 6), ValueByte(v, 7), ValueByte(v, 8)>>
             S == {ValueByte(v, i) : i \in 1 .. 8}
  <2>1. ValueByte(v, 1) \in S /\ ValueByte(v, 2) \in S /\ ValueByte(v, 3) \in S /\ ValueByte(v, 4) \in S
    OBVIOUS
  <2>2. ValueByte(v, 5) \in S /\ ValueByte(v, 6) \in S /\ ValueByte(v, 7) \in S /\ ValueByte(v, 8) \in S
    OBVIOUS
  <2> HIDE DEF S
  <2>3. /\ low \in Seq(S) /\ Len(low) = 4
        /\ \A i \in 1 .. 4 : low[i] = ValueByte(v, i)
    BY <2>1
  <2>4. /\ high \in Seq(S) /\ Len(high) = 4
        /\ \A i \in 1 .. 4 : high[i] = ValueByte(v, 4 + i)
    BY <2>2
  <2>5. Eight(code, at) = low \o high
    BY <1>4 DEF Eight
  <2> HIDE DEF low, high
  <2>6. IsSeq(low) /\ IsSeq(high)
    BY <2>3, <2>4, SeqIs
  <2>7. /\ IsSeq(low \o high) /\ Len(low \o high) = 8
        /\ \A i \in 1 .. 4 : (low \o high)[i] = low[i]
        /\ \A i \in 1 .. 4 : (low \o high)[4 + i] = high[i]
    <3>1. /\ IsSeq(low \o high) /\ Len(low \o high) = Len(low) + Len(high)
          /\ \A i \in 1 .. Len(low) : (low \o high)[i] = low[i]
          /\ \A i \in 1 .. Len(high) : (low \o high)[Len(low) + i] = high[i]
      BY <2>6, Cat
    <3>2. QED
      BY <2>3, <2>4, <3>1
  <2>8. \A i \in 1 .. 8 : (low \o high)[i] = ValueByte(v, i)
    <3>1. \A i \in 1 .. 8 : i \in 1 .. 4 \/ (i - 4 \in 1 .. 4 /\ 4 + (i - 4) = i)
      OBVIOUS
    <3>2. QED
      BY <2>3, <2>4, <2>7, <3>1
  <2> DEFINE both == low \o high
  <2> HIDE DEF both
  <2>9. both \in Seq(Range(both)) /\ Len(both) = 8
    BY <2>7 DEF IsSeq, both
  <2>10. both = [i \in 1 .. 8 |-> both[i]]
    BY <2>9
  <2>11. QED
    BY <2>5, <2>8, <2>10 DEF both
<1>6. v.type = "literal" => value = v.bytes
  BY DEF IsValue, IsLiteral, ValueByte
<1>7. v.type # "literal" => value = [i \in 1 .. 8 |-> 0]
  BY DEF ValueByte
<1>8. QED
  BY <1>5, <1>6, <1>7

-----------------------------------------------------------------------------
(* Instruction by instruction.                                              *)

\* The code has the bytes of write_mr_instr and behind them a field of four.
WithField(opcode, reg, rm, t, w, v, bytes, code, at) ==
    /\ Fields(opcode, reg, rm, t, w)
    /\ IsNarrow(v)
    /\ at \in Nat
    /\ bytes = MR(opcode, reg, rm, t, w) \o write_static_value(v, 4)
    /\ Has(code, at, bytes)

\* What the processor reads then.
FieldRead(opcode, reg, rm, t, w, v, bytes, code, at) ==
    \E end \in Nat :
        /\ MRRead(opcode, reg, rm, t, w, code, at, end)
        /\ SignExtend(Four(code, end)) = v.bytes
        /\ (end + 4) - at = Len(bytes)

\* An instruction with a ModRM byte and a field of four bytes behind it is read
\* with that field as displacement or immediate value.
LEMMA MRWithField ==
    ASSUME NEW opcode, NEW reg, NEW rm, NEW t, NEW w, NEW v, NEW bytes, NEW code, NEW at,
           WithField(opcode, reg, rm, t, w, v, bytes, code, at)
    PROVE  /\ IsSeq(bytes) /\ Len(bytes) \in 1 .. 15
           /\ FieldRead(opcode, reg, rm, t, w, v, bytes, code, at)
<1> DEFINE first == MR(opcode, reg, rm, t, w)
           field == write_static_value(v, 4)
           end == at + Len(first)
<1>0. Fields(opcode, reg, rm, t, w) /\ IsNarrow(v) /\ at \in Nat
  BY DEF WithField
<1>1. IsSeq(first) /\ Len(first) \in 3 .. 4
  BY <1>0, MRBytes
<1>2. IsValue(v)
  BY <1>0 DEF IsNarrow, IsValue
<1>3. IsSeq(field) /\ Len(field) = 4
  BY <1>2, FieldBytes
<1>4. bytes = first \o field /\ Has(code, at, bytes)
  BY DEF WithField
<1> HIDE DEF first, field
<1>5. IsSeq(bytes) /\ Len(bytes) = Len(first) + Len(field)
  BY <1>1, <1>3, <1>4, Cat
<1>6. Has(code, at, first) /\ Has(code, at + Len(first), field)
  BY <1>0, <1>1, <1>3, <1>4, HasParts
<1>7. end \in Nat /\ (end + 4) - at = Len(bytes) /\ Len(bytes) \in 1 .. 15
  <2>1. PICK p \in 3 .. 4 : p = Len(first)
    BY <1>1
  <2>2. Len(bytes) = p + 4 /\ end = at + p
    BY <1>3, <1>5, <2>1
  <2>3. at + p \in Nat /\ (at + p + 4) - at = p + 4 /\ p + 4 \in 1 .. 15
    BY <1>0
  <2> HIDE DEF end
  <2>4. QED
    BY <2>2, <2>3
<1>8. MRRead(opcode, reg, rm, t, w, code, at, end)
  BY <1>0, <1>6, DecodeMR DEF first
<1>9. SignExtend(Four(code, end)) = v.bytes
  BY <1>0, <1>6, <1>7, FourRead DEF field
<1> HIDE DEF end
<1>10. QED
  BY <1>5, <1>7, <1>8, <1>9 DEF FieldRead

\* The same without a field.
LEMMA MRWithout ==
    ASSUME NEW opcode, NEW reg, NEW rm, NEW t, NEW w, NEW code, NEW at, at \in Nat,
           Fields(opcode, reg, rm, t, w), Has(code, at, MR(opcode, reg, rm, t, w))
    PROVE  /\ IsSeq(MR(opcode, reg, rm, t, w)) /\ Len(MR(opcode, reg, rm, t, w)) \in 1 .. 15
           /\ \E end \in Nat :
                /\ MRRead(opcode, reg, rm, t, w, code, at, end)
                /\ end - at = Len(MR(opcode, reg, rm, t, w))
<1> DEFINE bytes == MR(opcode, reg, rm, t, w)
           end == at + Len(bytes)
<1>1. IsSeq(bytes) /\ Len(bytes) \in 3 .. 4
  BY MRBytes
<1>2. MRRead(opcode, reg, rm, t, w, code, at, end)
  BY DecodeMR
<1> HIDE DEF bytes
<1>3. end \in Nat /\ end - at = Len(bytes) /\ Len(bytes) \in 1 .. 15
  BY <1>1
<1> HIDE DEF end
<1>4. QED
  BY <1>1, <1>2, <1>3 DEF bytes

\* The bytes of an instruction without a field.
LEMMA Alone ==
    ASSUME NEW n, StaticField(n) = NoField, IsSeq(Opcodes(n))
    PROVE  Encode(n) = Opcodes(n)
<1>1. write_static_value(NoField.value, NoField.bytes) = <<>>
  BY DEF NoField, literal, write_static_value
<1>2. Encode(n) = Opcodes(n) \o <<>>
  BY <1>1 DEF Encode
<1> DEFINE S == Range(Opcodes(n))
<1>3. Opcodes(n) \in Seq(S)
  BY DEF IsSeq
<1> HIDE DEF S
<1>4. QED
  BY <1>2, <1>3

\* That the bytes of n at the place at are n to the processor.
Decoded(n, code, at) ==
    /\ IsSeq(Encode(n))
    /\ Len(Encode(n)) \in 1 .. MAX_INSTR_LEN
    /\ Decode(code, at) = Meaning(n, at)
    /\ Decode(code, at).length = Len(Encode(n))

\* What has to be shown of an instruction.
LEMMA IsDecoded ==
    ASSUME NEW n, NEW code, NEW at, NEW op, NEW dst, NEW src,
           IsSeq(Encode(n)), Len(Encode(n)) \in 1 .. 15,
           Decode(code, at) = Is(op, dst, src, Len(Encode(n))),
           Meaning(n, at) = Is(op, dst, src, Len(Encode(n)))
    PROVE  Decoded(n, code, at)
<1>1. Is(op, dst, src, Len(Encode(n))).length = Len(Encode(n))
  BY DEF Is
<1>2. QED
  BY <1>1 DEF Decoded, MAX_INSTR_LEN

\* The case LEAQ_MDB_TO_REG of assemble.
LEMMA DecodeLea ==
    ASSUME NEW n, IsInstruction(n), n.op = "LEAQ_MDB_TO_REG",
           NEW code, NEW at, at \in Nat, Has(code, at, Encode(n))
    PROVE  Decoded(n, code, at)
<1> DEFINE a == n.arguments
<1>1. IsNarrow(a[1]) /\ a[2] \in 0 .. 15 /\ a[3] \in 0 .. 15
  BY DEF IsInstruction
<1>2. Fields(141, a[3], a[2], 2, 1)
  BY <1>1 DEF Fields
<1>3. Encode(n) = MR(141, a[3], a[2], 2, 1) \o write_static_value(a[1], 4)
  BY MRIs DEF Encode, Opcodes, StaticField, Field
<1>4. Meaning(n, at) = Is("lea", Register(a[3]), Memory(a[2], a[1].bytes), Len(Encode(n)))
  BY DEF Meaning
<1> HIDE DEF a
<1>5. WithField(141, a[3], a[2], 2, 1, a[1], Encode(n), code, at)
  BY <1>1, <1>2, <1>3 DEF WithField
<1>6. /\ IsSeq(Encode(n)) /\ Len(Encode(n)) \in 1 .. 15
      /\ FieldRead(141, a[3], a[2], 2, 1, a[1], Encode(n), code, at)
  BY <1>5, MRWithField
<1>7. PICK end \in Nat : /\ MRRead(141, a[3], a[2], 2, 1, code, at, end)
                         /\ SignExtend(Four(code, end)) = a[1].bytes
                         /\ (end + 4) - at = Len(Encode(n))
  BY <1>6 DEF FieldRead
<1>8. Decode(code, at) = Is("lea", Register(a[3]), Memory(a[2], SignExtend(Four(code, end))), (end + 4) - at)
  BY <1>2, <1>7, ReadsMR
<1>9. QED
  BY <1>4, <1>6, <1>7, <1>8, IsDecoded

\* The case MOVQ_REG_TO_MDB of assemble.
LEMMA DecodeStore ==
    ASSUME NEW n, IsInstruction(n), n.op = "MOVQ_REG_TO_MDB",
           NEW code, NEW at, at \in Nat, Has(code, at, Encode(n))
    PROVE  Decoded(n, code, at)
<1> DEFINE a == n.arguments
<1>1. a[1] \in 0 .. 15 /\ IsNarrow(a[2]) /\ a[3] \in 0 .. 15
  BY DEF IsInstruction
<1>2. Fields(137, a[1], a[3], 2, 1)
  BY <1>1 DEF Fields
<1>3. Encode(n) = MR(137, a[1], a[3], 2, 1) \o write_static_value(a[2], 4)
  BY MRIs DEF Encode, Opcodes, StaticField, Field
<1>4. Meaning(n, at) = Is("mov", Memory(a[3], a[2].bytes), Register(a[1]), Len(Encode(n)))
  BY DEF Meaning
<1> HIDE DEF a
<1>5. WithField(137, a[1], a[3], 2, 1, a[2], Encode(n), code, at)
  BY <1>1, <1>2, <1>3 DEF WithField
<1>6. /\ IsSeq(Encode(n)) /\ Len(Encode(n)) \in 1 .. 15
      /\ FieldRead(137, a[1], a[3], 2, 1, a[2], Encode(n), code, at)
  BY <1>5, MRWithField
<1>7. PICK end \in Nat : /\ MRRead(137, a[1], a[3], 2, 1, code, at, end)
                         /\ SignExtend(Four(code, end)) = a[2].bytes
                         /\ (end + 4) - at = Len(Encode(n))
  BY <1>6 DEF FieldRead
<1>8. Decode(code, at) = Is("mov", Memory(a[3], SignExtend(Four(code, end))), Register(a[1]), (end + 4) - at)
  BY <1>2, <1>7, ReadsMR
<1>9. QED
  BY <1>4, <1>6, <1>7, <1>8, IsDecoded

\* The case MOVQ_MDB_TO_REG of assemble.
LEMMA DecodeLoad ==
    ASSUME NEW n, IsInstruction(n), n.op = "MOVQ_MDB_TO_REG",
           NEW code, NEW at, at \in Nat, Has(code, at, Encode(n))
    PROVE  Decoded(n, code, at)
<1> DEFINE a == n.arguments
<1>1. IsNarrow(a[1]) /\ a[2] \in 0 .. 15 /\ a[3] \in 0 .. 15
  BY DEF IsInstruction
<1>2. Fields(139, a[3], a[2], 2, 1)
  BY <1>1 DEF Fields
<1>3. Encode(n) = MR(139, a[3], a[2], 2, 1) \o write_static_value(a[1], 4)
  BY MRIs DEF Encode, Opcodes, StaticField, Field
<1>4. Meaning(n, at) = Is("mov", Register(a[3]), Memory(a[2], a[1].bytes), Len(Encode(n)))
  BY DEF Meaning
<1> HIDE DEF a
<1>5. WithField(139, a[3], a[2], 2, 1, a[1], Encode(n), code, at)
  BY <1>1, <1>2, <1>3 DEF WithField
<1>6. /\ IsSeq(Encode(n)) /\ Len(Encode(n)) \in 1 .. 15
      /\ FieldRead(139, a[3], a[2], 2, 1, a[1], Encode(n), code, at)
  BY <1>5, MRWithField
<1>7. PICK end \in Nat : /\ MRRead(139, a[3], a[2], 2, 1, code, at, end)
                         /\ SignExtend(Four(code, end)) = a[1].bytes
                         /\ (end + 4) - at = Len(Encode(n))
  BY <1>6 DEF FieldRead
<1>8. Decode(code, at) = Is("mov", Register(a[3]), Memory(a[2], SignExtend(Four(code, end))), (end + 4) - at)
  BY <1>2, <1>7, ReadsMR
<1>9. QED
  BY <1>4, <1>6, <1>7, <1>8, IsDecoded

\* The case SUBQ_IMM_TO_REG of assemble.
LEMMA DecodeSub ==
    ASSUME NEW n, IsInstruction(n), n.op = "SUBQ_IMM_TO_REG",
           NEW code, NEW at, at \in Nat, Has(code, at, Encode(n))
    PROVE  Decoded(n, code, at)
<1> DEFINE a == n.arguments
<1>1. IsNarrow(a[1]) /\ a[2] \in 0 .. 15
  BY DEF IsInstruction
<1>2. Fields(129, 5, a[2], 3, 1)
  BY <1>1 DEF Fields
<1>3. Encode(n) = MR(129, 5, a[2], 3, 1) \o write_static_value(a[1], 4)
  BY MRIs DEF Encode, Opcodes, StaticField, Field
<1>4. Meaning(n, at) = Is("sub", Register(a[2]), a[1].bytes, Len(Encode(n)))
  BY DEF Meaning
<1> HIDE DEF a
<1>5. WithField(129, 5, a[2], 3, 1, a[1], Encode(n), code, at)
  BY <1>1, <1>2, <1>3 DEF WithField
<1>6. /\ IsSeq(Encode(n)) /\ Len(Encode(n)) \in 1 .. 15
      /\ FieldRead(129, 5, a[2], 3, 1, a[1], Encode(n), code, at)
  BY <1>5, MRWithField
<1>7. PICK end \in Nat : /\ MRRead(129, 5, a[2], 3, 1, code, at, end)
                         /\ SignExtend(Four(code, end)) = a[1].bytes
                         /\ (end + 4) - at = Len(Encode(n))
  BY <1>6 DEF FieldRead
<1>8. Decode(code, at) = Is("sub", Register(a[2]), SignExtend(Four(code, end)), (end + 4) - at)
  BY <1>2, <1>7, ReadsMR
<1>9. QED
  BY <1>4, <1>6, <1>7, <1>8, IsDecoded

\* The case ADDQ_IMM_TO_REG of assemble.
LEMMA DecodeAdd ==
    ASSUME NEW n, IsInstruction(n), n.op = "ADDQ_IMM_TO_REG",
           NEW code, NEW at, at \in Nat, Has(code, at, Encode(n))
    PROVE  Decoded(n, code, at)
<1> DEFINE a == n.arguments
<1>1. IsNarrow(a[1]) /\ a[2] \in 0 .. 15
  BY DEF IsInstruction
<1>2. Fields(129, 0, a[2], 3, 1)
  BY <1>1 DEF Fields
<1>3. Encode(n) = MR(129, 0, a[2], 3, 1) \o write_static_value(a[1], 4)
  BY MRIs DEF Encode, Opcodes, StaticField, Field
<1>4. Meaning(n, at) = Is("add", Register(a[2]), a[1].bytes, Len(Encode(n)))
  BY DEF Meaning
<1> HIDE DEF a
<1>5. WithField(129, 0, a[2], 3, 1, a[1], Encode(n), code, at)
  BY <1>1, <1>2, <1>3 DEF WithField
<1>6. /\ IsSeq(Encode(n)) /\ Len(Encode(n)) \in 1 .. 15
      /\ FieldRead(129, 0, a[2], 3, 1, a[1], Encode(n), code, at)
  BY <1>5, MRWithField
<1>7. PICK end \in Nat : /\ MRRead(129, 0, a[2], 3, 1, code, at, end)
                         /\ SignExtend(Four(code, end)) = a[1].bytes
                         /\ (end + 4) - at = Len(Encode(n))
  BY <1>6 DEF FieldRead
<1>8. Decode(code, at) = Is("add", Register(a[2]), SignExtend(Four(code, end)), (end + 4) - at)
  BY <1>2, <1>7, ReadsMR
<1>9. QED
  BY <1>4, <1>6, <1>7, <1>8, IsDecoded

\* The case MOVQ_REG_TO_REG of assemble.
LEMMA DecodeMove ==
    ASSUME NEW n, IsInstruction(n), n.op = "MOVQ_REG_TO_REG",
           NEW code, NEW at, at \in Nat, Has(code, at, Encode(n))
    PROVE  Decoded(n, code, at)
<1> DEFINE a == n.arguments
<1>1. a[1] \in 0 .. 15 /\ a[2] \in 0 .. 15
  BY DEF IsInstruction
<1>2. Fields(139, a[2], a[1], 3, 1)
  BY <1>1 DEF Fields
<1>3. Opcodes(n) = MR(139, a[2], a[1], 3, 1) /\ StaticField(n) = NoField
  BY MRIs DEF Opcodes, StaticField
<1>4. Encode(n) = MR(139, a[2], a[1], 3, 1)
  BY <1>2, <1>3, MRBytes, Alone
<1>5. Meaning(n, at) = Is("mov", Register(a[2]), Register(a[1]), Len(Encode(n)))
  BY DEF Meaning
<1> HIDE DEF a
<1>6. IsSeq(Encode(n)) /\ Len(Encode(n)) \in 1 .. 15
  BY <1>2, <1>4, MRWithout
<1>7. PICK end \in Nat : /\ MRRead(139, a[2], a[1], 3, 1, code, at, end)
                         /\ end - at = Len(Encode(n))
  BY <1>2, <1>4, MRWithout
<1>8. Decode(code, at) = Is("mov", Register(a[2]), Register(a[1]), end - at)
  BY <1>2, <1>7, ReadsMR
<1>9. QED
  BY <1>5, <1>6, <1>7, <1>8, IsDecoded

\* The case ORQ_REG_TO_REG of assemble.
LEMMA DecodeOr ==
    ASSUME NEW n, IsInstruction(n), n.op = "ORQ_REG_TO_REG",
           NEW code, NEW at, at \in Nat, Has(code, at, Encode(n))
    PROVE  Decoded(n, code, at)
<1> DEFINE a == n.arguments
<1>1. a[1] \in 0 .. 15 /\ a[2] \in 0 .. 15
  BY DEF IsInstruction
<1>2. Fields(11, a[2], a[1], 3, 1)
  BY <1>1 DEF Fields
<1>3. Opcodes(n) = MR(11, a[2], a[1], 3, 1) /\ StaticField(n) = NoField
  BY MRIs DEF Opcodes, StaticField
<1>4. Encode(n) = MR(11, a[2], a[1], 3, 1)
  BY <1>2, <1>3, MRBytes, Alone
<1>5. Meaning(n, at) = Is("or", Register(a[2]), Register(a[1]), Len(Encode(n)))
  BY DEF Meaning
<1> HIDE DEF a
<1>6. IsSeq(Encode(n)) /\ Len(Encode(n)) \in 1 .. 15
  BY <1>2, <1>4, MRWithout
<1>7. PICK end \in Nat : /\ MRRead(11, a[2], a[1], 3, 1, code, at, end)
                         /\ end - at = Len(Encode(n))
  BY <1>2, <1>4, MRWithout
<1>8. Decode(code, at) = Is("or", Register(a[2]), Register(a[1]), end - at)
  BY <1>2, <1>7, ReadsMR
<1>9. QED
  BY <1>5, <1>6, <1>7, <1>8, IsDecoded

\* The case JMP_TO_REG of assemble.
LEMMA DecodeJump ==
    ASSUME NEW n, IsInstruction(n), n.op = "JMP_TO_REG",
           NEW code, NEW at, at \in Nat, Has(code, at, Encode(n))
    PROVE  Decoded(n, code, at)
<1> DEFINE a == n.arguments
<1>1. a[1] \in 0 .. 15
  BY DEF IsInstruction
<1>2. Fields(255, 4, a[1], 3, 0)
  BY <1>1 DEF Fields
<1>3. Opcodes(n) = MR(255, 4, a[1], 3, 0) /\ StaticField(n) = NoField
  <2>1. Opcodes(n) = write_mr_instr(255, 4, a[1], FALSE, FALSE)
    BY DEF Opcodes
  <2>2. StaticField(n) = NoField
    BY DEF StaticField
  <2> HIDE DEF a
  <2>3. write_mr_instr(255, 4, a[1], FALSE, FALSE) = MR(255, 4, a[1], 3, 0)
    BY MRNarrow, Zenon
  <2>4. QED
    BY <2>1, <2>2, <2>3, Zenon
<1>4. Encode(n) = MR(255, 4, a[1], 3, 0)
  BY <1>2, <1>3, MRBytes, Alone
<1>5. Meaning(n, at) = Is("jmp", Register(a[1]), <<>>, Len(Encode(n)))
  BY DEF Meaning
<1> HIDE DEF a
<1>6. IsSeq(Encode(n)) /\ Len(Encode(n)) \in 1 .. 15
  BY <1>2, <1>4, MRWithout
<1>7. PICK end \in Nat : /\ MRRead(255, 4, a[1], 3, 0, code, at, end)
                         /\ end - at = Len(Encode(n))
  BY <1>2, <1>4, MRWithout
<1>8. Decode(code, at) = Is("jmp", Register(a[1]), <<>>, end - at)
  BY <1>2, <1>7, ReadsMR
<1>9. QED
  BY <1>5, <1>6, <1>7, <1>8, IsDecoded

\* The case CALL_REG of assemble.
LEMMA DecodeCall ==
    ASSUME NEW n, IsInstruction(n), n.op = "CALL_REG",
           NEW code, NEW at, at \in Nat, Has(code, at, Encode(n))
    PROVE  Decoded(n, code, at)
<1> DEFINE a == n.arguments
<1>1. a[1] \in 0 .. 15
  BY DEF IsInstruction
<1>2. Fields(255, 2, a[1], 3, 0)
  BY <1>1 DEF Fields
<1>3. Opcodes(n) = MR(255, 2, a[1], 3, 0) /\ StaticField(n) = NoField
  <2>1. Opcodes(n) = write_mr_instr(255, 2, a[1], FALSE, FALSE)
    BY DEF Opcodes
  <2>2. StaticField(n) = NoField
    BY DEF StaticField
  <2> HIDE DEF a
  <2>3. write_mr_instr(255, 2, a[1], FALSE, FALSE) = MR(255, 2, a[1], 3, 0)
    BY MRNarrow, Zenon
  <2>4. QED
    BY <2>1, <2>2, <2>3, Zenon
<1>4. Encode(n) = MR(255, 2, a[1], 3, 0)
  BY <1>2, <1>3, MRBytes, Alone
<1>5. Meaning(n, at) = Is("call", Register(a[1]), <<>>, Len(Encode(n)))
  BY DEF Meaning
<1> HIDE DEF a
<1>6. IsSeq(Encode(n)) /\ Len(Encode(n)) \in 1 .. 15
  BY <1>2, <1>4, MRWithout
<1>7. PICK end \in Nat : /\ MRRead(255, 2, a[1], 3, 0, code, at, end)
                         /\ end - at = Len(Encode(n))
  BY <1>2, <1>4, MRWithout
<1>8. Decode(code, at) = Is("call", Register(a[1]), <<>>, end - at)
  BY <1>2, <1>7, ReadsMR
<1>9. QED
  BY <1>5, <1>6, <1>7, <1>8, IsDecoded

\* The case PUSHQ_REG of assemble.
LEMMA DecodePush ==
    ASSUME NEW n, IsInstruction(n), n.op = "PUSHQ_REG",
           NEW code, NEW at, at \in Nat, Has(code, at, Encode(n))
    PROVE  Decoded(n, code, at)
<1> DEFINE r == n.arguments[1]
<1>1. r \in 0 .. 15
  BY DEF IsInstruction
<1>2. Opcodes(n) = write_o_instr(80, r) /\ StaticField(n) = NoField
  BY DEF Opcodes, StaticField
<1>3. Meaning(n, at) = Is("push", Register(r), <<>>, Len(Encode(n)))
  BY DEF Meaning
<1> HIDE DEF r
<1>4. IsSeq(write_o_instr(80, r)) /\ Len(write_o_instr(80, r)) \in 1 .. 15
  BY <1>1, OBytes, LowHigh
<1>5. Encode(n) = write_o_instr(80, r)
  BY <1>2, <1>4, Alone
<1>6. Decode(code, at) = Is("push", Register(r), <<>>, Len(write_o_instr(80, r)))
  BY <1>1, <1>5, ReadsO
<1>7. QED
  BY <1>3, <1>4, <1>5, <1>6, IsDecoded

\* The case POPQ_REG of assemble.
LEMMA DecodePop ==
    ASSUME NEW n, IsInstruction(n), n.op = "POPQ_REG",
           NEW code, NEW at, at \in Nat, Has(code, at, Encode(n))
    PROVE  Decoded(n, code, at)
<1> DEFINE r == n.arguments[1]
<1>1. r \in 0 .. 15
  BY DEF IsInstruction
<1>2. Opcodes(n) = write_o_instr(88, r) /\ StaticField(n) = NoField
  BY DEF Opcodes, StaticField
<1>3. Meaning(n, at) = Is("pop", Register(r), <<>>, Len(Encode(n)))
  BY DEF Meaning
<1> HIDE DEF r
<1>4. IsSeq(write_o_instr(88, r)) /\ Len(write_o_instr(88, r)) \in 1 .. 15
  BY <1>1, OBytes, LowHigh
<1>5. Encode(n) = write_o_instr(88, r)
  BY <1>2, <1>4, Alone
<1>6. Decode(code, at) = Is("pop", Register(r), <<>>, Len(write_o_instr(88, r)))
  BY <1>1, <1>5, ReadsO
<1>7. QED
  BY <1>3, <1>4, <1>5, <1>6, IsDecoded

\* The case LEAVE of assemble.
LEMMA DecodeLeave ==
    ASSUME NEW n, IsInstruction(n), n.op = "LEAVE",
           NEW code, NEW at, at \in Nat, Has(code, at, Encode(n))
    PROVE  Decoded(n, code, at)
<1>1. Opcodes(n) = <<201>> /\ StaticField(n) = NoField
  BY DEF Opcodes, StaticField
<1>2. Meaning(n, at) = Is("leave", <<>>, <<>>, Len(Encode(n)))
  BY DEF Meaning
<1>3. IsSeq(<<201>>) /\ Len(<<201>>) = 1 /\ <<201>>[1] = 201
  BY One
<1>4. Encode(n) = <<201>>
  BY <1>1, <1>3, Alone
<1>5. IsSeq(Encode(n)) /\ Len(Encode(n)) = 1 /\ Encode(n)[1] = 201
  BY <1>3, <1>4, Zenon
<1>6. Byte(code, at) = 201
  <2>1. 1 \in 1 .. Len(Encode(n)) /\ at + 1 - 1 = at
    BY <1>5
  <2>2. Byte(code, at + 1 - 1) = Encode(n)[1]
    BY <2>1, HasByte
  <2>3. QED
    BY <1>5, <2>1, <2>2
<1>7. Decode(code, at) = Is("leave", <<>>, <<>>, at + 1 - at)
  <2>1. Decode(code, at) = Operation(0, code, at, at)
    BY <1>6 DEF Decode
  <2>2. Operation(0, code, at, at) = OperationPlain(code, at, at)
    BY <1>6 DEF Operation
  <2>3. QED
    BY <1>6, <2>1, <2>2 DEF OperationPlain
<1>8. at + 1 - at = Len(Encode(n)) /\ Len(Encode(n)) \in 1 .. 15
  BY <1>5
<1>9. Decode(code, at) = Is("leave", <<>>, <<>>, Len(Encode(n)))
  BY <1>7, <1>8, Zenon
<1>10. QED
  BY <1>2, <1>5, <1>8, <1>9, IsDecoded

\* The case RET of assemble.
LEMMA DecodeRet ==
    ASSUME NEW n, IsInstruction(n), n.op = "RET",
           NEW code, NEW at, at \in Nat, Has(code, at, Encode(n))
    PROVE  Decoded(n, code, at)
<1>1. Opcodes(n) = <<195>> /\ StaticField(n) = NoField
  BY DEF Opcodes, StaticField
<1>2. Meaning(n, at) = Is("ret", <<>>, <<>>, Len(Encode(n)))
  BY DEF Meaning
<1>3. IsSeq(<<195>>) /\ Len(<<195>>) = 1 /\ <<195>>[1] = 195
  BY One
<1>4. Encode(n) = <<195>>
  BY <1>1, <1>3, Alone
<1>5. IsSeq(Encode(n)) /\ Len(Encode(n)) = 1 /\ Encode(n)[1] = 195
  BY <1>3, <1>4, Zenon
<1>6. Byte(code, at) = 195
  <2>1. 1 \in 1 .. Len(Encode(n)) /\ at + 1 - 1 = at
    BY <1>5
  <2>2. Byte(code, at + 1 - 1) = Encode(n)[1]
    BY <2>1, HasByte
  <2>3. QED
    BY <1>5, <2>1, <2>2
<1>7. Decode(code, at) = Is("ret", <<>>, <<>>, at + 1 - at)
  <2>1. Decode(code, at) = Operation(0, code, at, at)
    BY <1>6 DEF Decode
  <2>2. Operation(0, code, at, at) = OperationPlain(code, at, at)
    BY <1>6 DEF Operation
  <2>3. QED
    BY <1>6, <2>1, <2>2 DEF OperationPlain
<1>8. at + 1 - at = Len(Encode(n)) /\ Len(Encode(n)) \in 1 .. 15
  BY <1>5
<1>9. Decode(code, at) = Is("ret", <<>>, <<>>, Len(Encode(n)))
  BY <1>7, <1>8, Zenon
<1>10. QED
  BY <1>2, <1>5, <1>8, <1>9, IsDecoded

\* The case JMP_REL of assemble.
LEMMA DecodeJmpRel ==
    ASSUME NEW n, IsInstruction(n), n.op = "JMP_REL",
           NEW code, NEW at, at \in Nat, Has(code, at, Encode(n))
    PROVE  Decoded(n, code, at)
<1> DEFINE v == n.arguments[1]
           first == <<233>>
           field == write_static_value(v, 4)
<1>1. v.type = "LNKR_SUB_RIP_TO_REF"
  BY DEF IsInstruction
<1>2. Opcodes(n) = first /\ StaticField(n) = Field(v, 4)
  BY DEF Opcodes, StaticField
<1>3. Meaning(n, at) = Is("jmp", Relative(at + Len(Opcodes(n))), <<>>, Len(Encode(n)))
  BY DEF Meaning
<1>4. Encode(n) = first \o field
  BY <1>2 DEF Encode, Field
<1>5. IsSeq(first) /\ Len(first) = 1 /\ first[1] = 233
  BY One
<1>6. IsSeq(field) /\ Len(field) = 4
  <2> HIDE DEF v
  <2>1. IsValue(v)
    BY <1>1 DEF IsValue
  <2>2. QED
    BY <2>1, FieldBytes
<1> HIDE DEF v, first, field
<1>7. IsSeq(Encode(n)) /\ Len(Encode(n)) = 5 /\ Has(code, at, first)
  <2>1. IsSeq(Encode(n)) /\ Len(Encode(n)) = Len(first) + Len(field)
    <3>1. IsSeq(first) /\ IsSeq(field)
      BY <1>5, <1>6
    <3>2. IsSeq(first \o field) /\ Len(first \o field) = Len(first) + Len(field)
      BY <3>1, Cat
    <3>3. QED
      BY <1>4, <3>2
  <2>2. Has(code, at, first)
    BY <1>4, <1>5, <1>6, HasParts
  <2>3. QED
    BY <1>5, <1>6, <2>1, <2>2
<1>8. Byte(code, at) = 233
  <2>1. 1 \in 1 .. Len(first) /\ at + 1 - 1 = at
    BY <1>5
  <2>2. Byte(code, at + 1 - 1) = first[1]
    BY <1>7, <2>1, HasByte
  <2>3. QED
    BY <1>5, <2>1, <2>2
<1>9. Decode(code, at) = Is("jmp", Relative(at + 1), <<>>, at + 5 - at)
  <2>1. Decode(code, at) = Operation(0, code, at, at)
    BY <1>8 DEF Decode
  <2>2. Operation(0, code, at, at) = OperationPlain(code, at, at)
    BY <1>8 DEF Operation
  <2>3. QED
    BY <1>8, <2>1, <2>2 DEF OperationPlain
<1>10. at + 5 - at = Len(Encode(n)) /\ Len(Encode(n)) \in 1 .. 15 /\ Len(Opcodes(n)) = 1
  BY <1>2, <1>5, <1>7
<1>11. /\ Decode(code, at) = Is("jmp", Relative(at + 1), <<>>, Len(Encode(n)))
       /\ Meaning(n, at) = Is("jmp", Relative(at + 1), <<>>, Len(Encode(n)))
  BY <1>3, <1>9, <1>10, Zenon
<1>12. QED
  BY <1>7, <1>10, <1>11, IsDecoded

\* The case JE_REL of assemble.
LEMMA DecodeJeRel ==
    ASSUME NEW n, IsInstruction(n), n.op = "JE_REL",
           NEW code, NEW at, at \in Nat, Has(code, at, Encode(n))
    PROVE  Decoded(n, code, at)
<1> DEFINE v == n.arguments[1]
           first == <<15, 132>>
           field == write_static_value(v, 4)
<1>1. v.type = "LNKR_SUB_RIP_TO_REF"
  BY DEF IsInstruction
<1>2. Opcodes(n) = first /\ StaticField(n) = Field(v, 4)
  BY DEF Opcodes, StaticField
<1>3. Meaning(n, at) = Is("je", Relative(at + Len(Opcodes(n))), <<>>, Len(Encode(n)))
  BY DEF Meaning
<1>4. Encode(n) = first \o field
  BY <1>2 DEF Encode, Field
<1>5. IsSeq(first) /\ Len(first) = 2 /\ first[1] = 15 /\ first[2] = 132
  BY Two
<1>6. IsSeq(field) /\ Len(field) = 4
  <2> HIDE DEF v
  <2>1. IsValue(v)
    BY <1>1 DEF IsValue
  <2>2. QED
    BY <2>1, FieldBytes
<1> HIDE DEF v, first, field
<1>7. IsSeq(Encode(n)) /\ Len(Encode(n)) = 6 /\ Has(code, at, first)
  <2>1. IsSeq(Encode(n)) /\ Len(Encode(n)) = Len(first) + Len(field)
    <3>1. IsSeq(first) /\ IsSeq(field)
      BY <1>5, <1>6
    <3>2. IsSeq(first \o field) /\ Len(first \o field) = Len(first) + Len(field)
      BY <3>1, Cat
    <3>3. QED
      BY <1>4, <3>2
  <2>2. Has(code, at, first)
    BY <1>4, <1>5, <1>6, HasParts
  <2>3. QED
    BY <1>5, <1>6, <2>1, <2>2
<1>8. Byte(code, at) = 15 /\ Byte(code, at + 1) = 132
  <2>1. 1 \in 1 .. Len(first) /\ 2 \in 1 .. Len(first) /\ at + 1 - 1 = at /\ at + 2 - 1 = at + 1
    BY <1>5
  <2>2. Byte(code, at + 1 - 1) = first[1] /\ Byte(code, at + 2 - 1) = first[2]
    BY <1>7, <2>1, HasByte
  <2>3. QED
    BY <1>5, <2>1, <2>2
<1>9. Decode(code, at) = Is("je", Relative(at + 2), <<>>, at + 6 - at)
  <2>1. Decode(code, at) = Operation(0, code, at, at)
    BY <1>8 DEF Decode
  <2>2. Operation(0, code, at, at) = OperationPlain(code, at, at)
    BY <1>8 DEF Operation
  <2>3. QED
    BY <1>8, <2>1, <2>2 DEF OperationPlain
<1>10. at + 6 - at = Len(Encode(n)) /\ Len(Encode(n)) \in 1 .. 15 /\ Len(Opcodes(n)) = 2
  BY <1>2, <1>5, <1>7
<1>11. /\ Decode(code, at) = Is("je", Relative(at + 2), <<>>, Len(Encode(n)))
       /\ Meaning(n, at) = Is("je", Relative(at + 2), <<>>, Len(Encode(n)))
  BY <1>3, <1>9, <1>10, Zenon
<1>12. QED
  BY <1>7, <1>10, <1>11, IsDecoded

\* The case MOVQ_IMM_TO_REG of assemble, with a field of eight bytes.
LEMMA DecodeImmediate ==
    ASSUME NEW n, IsInstruction(n), n.op = "MOVQ_IMM_TO_REG",
           NEW code, NEW at, at \in Nat, Has(code, at, Encode(n))
    PROVE  Decoded(n, code, at)
<1> DEFINE v == n.arguments[1]
           r == n.arguments[2]
           rex == 72 + High(r)
           o == 184 + Low(r)
           first == <<rex, o>>
           field == write_static_value(v, 8)
           value == IF v.type = "literal" THEN v.bytes ELSE [i \in 1 .. 8 |-> 0]
<1>1. IsValue(v) /\ r \in 0 .. 15
  BY DEF IsInstruction, IsValue
<1>2. StaticField(n) = Field(v, 8)
  BY DEF StaticField
<1>3. Meaning(n, at) = Is("mov", Register(r), value, Len(Encode(n)))
  BY DEF Meaning
<1>4. Low(r) \in 0 .. 7 /\ High(r) \in 0 .. 1 /\ r = Low(r) + 8 * High(r)
  BY <1>1, LowHigh
<1>5. Opcodes(n) = first
  <2>1. Opcodes(n) = <<REX + REX_W + High(r) * REX_B, 184 + Low(r)>>
    BY DEF Opcodes
  <2> HIDE DEF r
  <2>2. REX + REX_W + High(r) * REX_B = 72 + High(r)
    BY <1>4 DEF REX, REX_W, REX_B
  <2>3. QED
    BY <2>1, <2>2
<1>6. Encode(n) = first \o field
  BY <1>2, <1>5 DEF Encode, Field
<1> HIDE DEF v, r, value
<1>7. /\ rex \in 64 .. 79 /\ Wide(rex) /\ rex % 2 = High(r)
      /\ o \in 184 .. 191 /\ o % 8 = Low(r)
  BY <1>4 DEF Wide
<1> HIDE DEF rex, o
<1>8. IsSeq(first) /\ Len(first) = 2 /\ first[1] = rex /\ first[2] = o
  BY Two
<1>9. IsSeq(field) /\ Len(field) = 8
  BY <1>1, FieldBytes
<1> HIDE DEF first, field
<1>10. IsSeq(Encode(n)) /\ Len(Encode(n)) = 10 /\ Has(code, at, first) /\ Has(code, at + 2, field)
  <2>1. IsSeq(Encode(n)) /\ Len(Encode(n)) = Len(first) + Len(field)
    <3>1. IsSeq(first) /\ IsSeq(field)
      BY <1>8, <1>9
    <3>2. IsSeq(first \o field) /\ Len(first \o field) = Len(first) + Len(field)
      BY <3>1, Cat
    <3>3. QED
      BY <1>6, <3>2
  <2>2. Has(code, at, first) /\ Has(code, at + Len(first), field)
    BY <1>6, <1>8, <1>9, HasParts
  <2>3. QED
    BY <1>8, <1>9, <2>1, <2>2
<1>11. Byte(code, at) = rex /\ Byte(code, at + 1) = o
  <2>1. 1 \in 1 .. Len(first) /\ 2 \in 1 .. Len(first) /\ at + 1 - 1 = at /\ at + 2 - 1 = at + 1
    BY <1>8
  <2>2. Byte(code, at + 1 - 1) = first[1] /\ Byte(code, at + 2 - 1) = first[2]
    BY <1>10, <2>1, HasByte
  <2>3. QED
    BY <1>8, <2>1, <2>2
<1>12. Eight(code, at + 2) = value
  <2>1. at + 2 \in Nat
    OBVIOUS
  <2>2. QED
    BY <1>1, <1>10, <2>1, EightRead DEF field, value
<1>13. Decode(code, at) = Is("mov", Register(r), value, at + 10 - at)
  <2>1. Decode(code, at) = Operation(rex, code, at + 1, at)
    BY <1>7, <1>11 DEF Decode
  <2>2. ~(o \in {11, 129, 137, 139, 141, 255}) /\ ~(o \in 80 .. 87) /\ ~(o \in 88 .. 95)
    BY <1>7
  <2>3. Operation(rex, code, at + 1, at) = OperationO(rex, code, at + 1, at)
    BY <1>7, <1>11, <2>2 DEF Operation
  <2>4. (o % 8) + 8 * (rex % 2) = r /\ (at + 1) + 1 = at + 2 /\ (at + 1) + 9 - at = at + 10 - at
    BY <1>4, <1>7
  <2>5. OperationO(rex, code, at + 1, at)
          = Is("mov", Register((o % 8) + 8 * (rex % 2)), Eight(code, (at + 1) + 1), (at + 1) + 9 - at)
    BY <1>7, <1>11, <2>2 DEF OperationO
  <2>6. QED
    BY <1>12, <2>1, <2>3, <2>4, <2>5
<1>14. at + 10 - at = Len(Encode(n)) /\ Len(Encode(n)) \in 1 .. 15
  BY <1>10
<1>15. Decode(code, at) = Is("mov", Register(r), value, Len(Encode(n)))
  BY <1>13, <1>14, Zenon
<1>16. QED
  BY <1>3, <1>10, <1>14, <1>15, IsDecoded

\* The processor decodes what assemble writes for an instruction of the
\* generator, wherever it is put, to that instruction and its length.
THEOREM DecodeEncode ==
    ASSUME NEW n, IsInstruction(n), ~IsLabel(n),
           NEW code, NEW at, at \in Nat, Has(code, at, Encode(n))
    PROVE  Decoded(n, code, at)
<1>1. n.op \in {"LEAQ_MDB_TO_REG", "MOVQ_MDB_TO_REG", "MOVQ_REG_TO_MDB", "MOVQ_REG_TO_REG",
               "ORQ_REG_TO_REG", "SUBQ_IMM_TO_REG", "ADDQ_IMM_TO_REG", "MOVQ_IMM_TO_REG",
               "PUSHQ_REG", "POPQ_REG", "JMP_TO_REG", "CALL_REG", "JMP_REL", "JE_REL",
               "LEAVE", "RET"}
  BY DEF IsInstruction, IsLabel
<1>2. QED
  BY <1>1, DecodeLea, DecodeLoad, DecodeStore, DecodeMove, DecodeOr, DecodeSub, DecodeAdd,
     DecodeImmediate, DecodePush, DecodePop, DecodeJump, DecodeCall, DecodeJmpRel, DecodeJeRel,
     DecodeLeave, DecodeRet

\* An instruction has bytes, and at most as many as are reserved for it.
LEMMA EncodeLength ==
    ASSUME NEW n, IsInstruction(n), ~IsLabel(n)
    PROVE  IsSeq(Encode(n)) /\ Len(Encode(n)) \in 1 .. MAX_INSTR_LEN
<1> DEFINE code == [i \in Int |-> Encode(n)[i]]
<1>1. Has(code, 1, Encode(n))
  <2> SUFFICES ASSUME NEW i \in 1 .. Len(Encode(n))
               PROVE  1 + i - 1 \in DOMAIN code /\ code[1 + i - 1] = Encode(n)[i]
    BY DEF Has
  <2>1. i \in Int /\ 1 + i - 1 = i
    OBVIOUS
  <2>2. QED
    BY <2>1
<1> HIDE DEF code
<1>2. Decoded(n, code, 1)
  BY <1>1, DecodeEncode
<1>3. QED
  BY <1>2 DEF Decoded
=============================================================================
