------------------------------ MODULE Encoding -------------------------------
(***************************************************************************)
(* How assemble of bootstrap/x86_64_assembler.c turns one instruction into *)
(* bytes and relocation entries, and how the processor takes the bytes of  *)
(* an instruction apart again.                                             *)
(*                                                                         *)
(* An instruction is its opcode and its arguments, in the order of the     *)
(* code.  A register is its number.  A static value is a literal, given by *)
(* the eight bytes it has in memory, or it refers to a binding.            *)
(***************************************************************************)
EXTENDS Integers, Sequences, SequencesExt

RSP == 4
R12 == 12

asm(op, arguments)  == [op |-> op, arguments |-> arguments]
literal(bytes)      == [type |-> "literal", bytes |-> bytes]
use_binding(b)      == [type |-> "symbol", binding |-> b]
LNKR_ADD_OFF_TO_REF(b, off) == [type |-> "LNKR_ADD_OFF_TO_REF", binding |-> b, offset |-> off]
LNKR_SUB_RIP_TO_REF(b)      == [type |-> "LNKR_SUB_RIP_TO_REF", binding |-> b]

\* The bytes of a small number in memory, lowest first.
Fill(v)   == IF v < 0 THEN 255 ELSE 0
Bytes8(v) == [i \in 1 .. 8 |-> IF i <= 3 THEN (v \div 256^(i - 1)) % 256 ELSE Fill(v)]
SmallNumber(v) == v \in -(2^23) .. 2^23 - 1

-----------------------------------------------------------------------------
(* The writers.  Every one gives the bytes it writes.                       *)

\* What a shift to the place of a field multiplies by.
MOD_  == 64
REG   == 8
INDEX == 8
REX_W == 8
REX_R == 4
REX_B == 1
REX   == 4 * 16

Low(reg)  == reg % 8     \* reg & 0x7
High(reg) == reg \div 8  \* reg & 0x8

\* Mutant: only RSP itself is given a SIB byte.
sib_for_rsp(rm) == rm = RSP

\* The registers whose low bits say that a SIB byte follows.
has_SIB(rm) == rm = RSP \/ rm = R12

write_mr_instr(opcode, reg, rm, m, rexw) ==
    LET modrm == (IF m THEN 2 ELSE 3) * MOD_ + Low(reg) * REG + Low(rm)
        rex   == REX + (IF rexw THEN REX_W ELSE 0) + High(reg) * REX_R + High(rm) * REX_B
    IN  <<rex, opcode, modrm>> \o (IF m /\ has_SIB(rm) THEN <<4 * INDEX + Low(rm)>> ELSE <<>>)

write_o_instr(opcode, reg) ==
    (IF High(reg) = 1 THEN <<REX + REX_B>> ELSE <<>>) \o <<opcode + Low(reg)>>

\* A field of 4 or 8 bytes.  What is no literal is left to a relocation.
write_static_value(value, bytes) ==
    IF value.type = "literal" THEN SubSeq(value.bytes, 1, bytes) ELSE [i \in 1 .. bytes |-> 0]

\* Mutant: a jump is relative to the field and not to the end of it.
addend_of_field(bytes) == 0

\* A jump is relative to the end of its field, a relocation to the start.
rip_addend(bytes) == -bytes

\* The relocation entry for a field at pos, if it needs one.  context is the
\* number of the symbol of each binding.
static_value_relas(value, bytes, pos, context) ==
    LET Rela(type, addend) == <<[offset |-> pos, sym |-> context[value.binding],
                                 type |-> type, addend |-> addend]>>
    IN  CASE value.type = "symbol" /\ bytes = 8 -> Rela("R_X86_64_64", 0)
          [] value.type = "LNKR_ADD_OFF_TO_REF" /\ bytes = 8 -> Rela("R_X86_64_64", value.offset)
          [] value.type = "LNKR_SUB_RIP_TO_REF" /\ bytes = 4 ->
               Rela("R_X86_64_PC32", rip_addend(bytes))
          [] OTHER -> <<>>

NoField == [value |-> literal(<<>>), bytes |-> 0]
Field(value, bytes) == [value |-> value, bytes |-> bytes]

\* What an instruction other than LABEL begins with, and the field it ends in.
Opcodes(n) ==
    LET a == n.arguments
    IN  CASE n.op = "LEAQ_MDB_TO_REG" -> write_mr_instr(141, a[3], a[2], TRUE, TRUE)
          [] n.op = "MOVQ_REG_TO_MDB" -> write_mr_instr(137, a[1], a[3], TRUE, TRUE)
          [] n.op = "MOVQ_MDB_TO_REG" -> write_mr_instr(139, a[3], a[2], TRUE, TRUE)
          [] n.op = "JMP_REL"         -> <<233>>
          [] n.op = "JE_REL"          -> <<15, 132>>
          [] n.op = "PUSHQ_REG"       -> write_o_instr(80, a[1])
          [] n.op = "POPQ_REG"        -> write_o_instr(88, a[1])
          [] n.op = "MOVQ_REG_TO_REG" -> write_mr_instr(139, a[2], a[1], FALSE, TRUE)
          [] n.op = "ORQ_REG_TO_REG"  -> write_mr_instr(11, a[2], a[1], FALSE, TRUE)
          [] n.op = "SUBQ_IMM_TO_REG" -> write_mr_instr(129, 5, a[2], FALSE, TRUE)
          [] n.op = "ADDQ_IMM_TO_REG" -> write_mr_instr(129, 0, a[2], FALSE, TRUE)
          [] n.op = "JMP_TO_REG"      -> write_mr_instr(255, 4, a[1], FALSE, FALSE)
          [] n.op = "CALL_REG"        -> write_mr_instr(255, 2, a[1], FALSE, FALSE)
          [] n.op = "MOVQ_IMM_TO_REG" -> <<REX + REX_W + High(a[2]) * REX_B, 184 + Low(a[2])>>
          [] n.op = "LEAVE"           -> <<201>>
          [] n.op = "RET"             -> <<195>>

StaticField(n) ==
    LET a == n.arguments
    IN  CASE n.op \in {"LEAQ_MDB_TO_REG", "MOVQ_MDB_TO_REG", "JMP_REL", "JE_REL",
                       "SUBQ_IMM_TO_REG", "ADDQ_IMM_TO_REG"} -> Field(a[1], 4)
          [] n.op = "MOVQ_REG_TO_MDB" -> Field(a[2], 4)
          [] n.op = "MOVQ_IMM_TO_REG" -> Field(a[1], 8)
          [] OTHER -> NoField

Encode(n) == Opcodes(n) \o write_static_value(StaticField(n).value, StaticField(n).bytes)

-----------------------------------------------------------------------------
(* The processor, as its manual has it: prefix, opcode, ModRM, SIB, field.  *)

\* The operands: a register, memory, or a relative address in the field at i.
Register(r) == [reg |-> r]
Memory(base, disp) == [base |-> base, disp |-> disp]
Relative(i) == [field |-> i]

\* Four bytes extended to eight with their sign.
SignExtend(bytes) == bytes \o [i \in 1 .. 4 |-> IF bytes[4] >= 128 THEN 255 ELSE 0]

Byte(code, i) == IF i \in DOMAIN code THEN code[i] ELSE 0
Four(code, i)  == <<Byte(code, i), Byte(code, i + 1), Byte(code, i + 2), Byte(code, i + 3)>>
Eight(code, i) == Four(code, i) \o Four(code, i + 4)

\* What the ModRM byte at place m says: whether its second operand is a register,
\* whether it is followed by a SIB byte, and where what follows these bytes is.
IsReg(code, m)  == Byte(code, m) \div 64 = 3
HasSIB(code, m) == ~IsReg(code, m) /\ Byte(code, m) % 8 = 4
Behind(code, m) == IF HasSIB(code, m) THEN m + 2 ELSE m + 1

\* The two operands, with the bits that the prefix rex adds, and where what
\* follows the second one is.  An index register is not known here.
RegOf(rex, code, m) == ((Byte(code, m) \div 8) % 8) + 8 * ((rex \div 4) % 2)
OperandOf(rex, code, m) ==
    LET rm == (IF HasSIB(code, m) THEN Byte(code, m + 1) % 8 ELSE Byte(code, m) % 8) + 8 * (rex % 2)
    IN  IF IsReg(code, m) THEN Register(rm) ELSE Memory(rm, SignExtend(Four(code, Behind(code, m))))
AfterOperand(code, m) == IF IsReg(code, m) THEN Behind(code, m) ELSE Behind(code, m) + 4
Known(rex, code, m) ==
    \/ IsReg(code, m)
    \/ /\ Byte(code, m) \div 64 = 2
       /\ HasSIB(code, m) => (Byte(code, m + 1) \div 8) % 8 = 4 /\ (rex \div 2) % 2 = 0

\* The instruction at the place at, with its opcode at the place o behind a
\* prefix rex (0 for none): those with a ModRM byte, those with a register in
\* the opcode, and the others.
Is(op, dst, src, length) == [op |-> op, dst |-> dst, src |-> src, length |-> length]
Wide(rex) == (rex \div 8) % 2 = 1

OperationMR(rex, code, o, at) ==
    LET opcode  == Byte(code, o)
        known   == Wide(rex) /\ Known(rex, code, o + 1)
        isReg   == IsReg(code, o + 1)
        reg     == RegOf(rex, code, o + 1)
        operand == OperandOf(rex, code, o + 1)
        after   == AfterOperand(code, o + 1)
    IN  CASE opcode = 141 /\ known /\ ~isReg -> Is("lea", Register(reg), operand, after - at)
          [] opcode = 137 /\ known -> Is("mov", operand, Register(reg), after - at)
          [] opcode = 139 /\ known -> Is("mov", Register(reg), operand, after - at)
          [] opcode = 11 /\ known -> Is("or", Register(reg), operand, after - at)
          [] opcode = 129 /\ known /\ isReg /\ reg % 8 = 5 ->
               Is("sub", operand, SignExtend(Four(code, after)), after + 4 - at)
          [] opcode = 129 /\ known /\ isReg /\ reg % 8 = 0 ->
               Is("add", operand, SignExtend(Four(code, after)), after + 4 - at)
          [] opcode = 255 /\ isReg /\ reg % 8 = 4 -> Is("jmp", operand, <<>>, after - at)
          [] opcode = 255 /\ isReg /\ reg % 8 = 2 -> Is("call", operand, <<>>, after - at)
          [] OTHER -> Is("unknown", <<>>, <<>>, 1)

OperationO(rex, code, o, at) ==
    LET opcode == Byte(code, o)
        reg    == Register((opcode % 8) + 8 * (rex % 2))
    IN  CASE opcode \in 80 .. 87 -> Is("push", reg, <<>>, o + 1 - at)
          [] opcode \in 88 .. 95 -> Is("pop", reg, <<>>, o + 1 - at)
          [] opcode \in 184 .. 191 /\ Wide(rex) -> Is("mov", reg, Eight(code, o + 1), o + 9 - at)
          [] OTHER -> Is("unknown", <<>>, <<>>, 1)

OperationPlain(code, o, at) ==
    LET opcode == Byte(code, o)
    IN  CASE opcode = 201 -> Is("leave", <<>>, <<>>, o + 1 - at)
          [] opcode = 195 -> Is("ret", <<>>, <<>>, o + 1 - at)
          [] opcode = 233 -> Is("jmp", Relative(o + 1), <<>>, o + 5 - at)
          [] opcode = 15 /\ Byte(code, o + 1) = 132 -> Is("je", Relative(o + 2), <<>>, o + 6 - at)
          [] OTHER -> Is("unknown", <<>>, <<>>, 1)

Operation(rex, code, o, at) ==
    LET opcode == Byte(code, o)
    IN  IF opcode \in {11, 129, 137, 139, 141, 255} THEN OperationMR(rex, code, o, at)
        ELSE IF opcode \in 80 .. 95 \/ opcode \in 184 .. 191 THEN OperationO(rex, code, o, at)
        ELSE OperationPlain(code, o, at)

\* The instruction whose first byte is code[at].
Decode(code, at) ==
    IF Byte(code, at) \in 64 .. 79 THEN Operation(Byte(code, at), code, at + 1, at)
    ELSE Operation(0, code, at, at)
=============================================================================
