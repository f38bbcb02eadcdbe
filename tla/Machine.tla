------------------------------- MODULE Machine -------------------------------
(***************************************************************************)
(* The processor executing the code that Generator makes of a program,     *)
(* from its first instruction to its last one, beside the functions of     *)
(* bootstrap/x86_64.s and two functions that stand for C code: put, whose  *)
(* calls are what is observed of a program, and callback, which calls the  *)
(* function it is given.                                                   *)
(*                                                                         *)
(* The functions in C keep to the calling convention and no more: they     *)
(* leave nothing to rely on in the registers a callee need not preserve    *)
(* and in the stack below RSP.                                             *)
(***************************************************************************)
EXTENDS Generator

CONSTANTS Programs,    \* the programs to compile and run
          StackSize,   \* words of stack
          Fuel         \* bound on the evaluation steps of the reference

Reference == INSTANCE Semantics

ASSUME SizeAssumption == StackSize \in 1 .. 390 /\ Fuel \in Nat

VARIABLES compiled,  \* the size of the statics, and where functions are
          expected,  \* what the reference semantics says is observed
          code,      \* the instructions
          pc,        \* the address of the next instruction
          regs,      \* register -> word
          mem,       \* address -> word
          log,       \* the calls of put so far
          status     \* "run" or "halt"

vars == <<compiled, expected, code, pc, regs, mem, log, status>>
unit == <<compiled, expected, code>>

\* A word nothing may depend on.
Junk == -1000

CalleeSaved == {"RBX", "R12", "R13", "R14", "R15"}
CallerSaved == {"RAX", "RCX", "RDX", "RSI", "RDI", "R8", "R9", "R10", "R11"}
Registers   == CalleeSaved \union CallerSaved \union {"RSP", "RBP", "ZF"}

\* What the callee-saved registers hold when the program starts.
Saved == [r \in CalleeSaved |->
            500 + (CHOOSE n \in 1 .. 5 : <<"RBX", "R12", "R13", "R14", "R15">>[n] = r)]

StackBase == 600
Stack == StackBase .. (StackBase + StackSize - 1)
StackTop == StackBase + StackSize
StaticArea == StaticBase .. (StaticBase + compiled.statics - 1)

CodeAddresses == (CodeBase + 1) .. (CodeBase + Len(code))
CodeEnd == CodeBase + Len(code) + 1
ExternalAddresses == (ExternalBase + 1) .. (ExternalBase + Len(Externals))

\* The address to which a function that callback calls returns.
CallbackReturn == ExternalBase

\* The first and last addresses of the function at p and of its body, and the
\* size of its frame.
Extent(p, asms, g) ==
    LET frame == Frame(g.nodes[p], p, g.escapes)
        entry == AddressOf(<<p, Ref>>, asms)
        after == AddressOf(<<p, After>>, asms)
    IN  [entry |-> entry, exit |-> after - 1,
         first |-> entry + Len(function_prologue(frame)),
         last  |-> after - Len(function_epilogue) - 1,
         size  |-> SizeOf(frame)]

\* The programs are those the reference semantics gives a meaning.
Init ==
    /\ \E p \in Programs :
       \E g \in {compile_program(p)} :
       \E asms \in {generate_program(p, g)} :
       \E end \in {Reference!Steps(Reference!Start(p), p, g, Fuel)} :
          /\ end.mode = "done"
          /\ compiled = [statics |-> g.statics, functions |->
                {Extent(q, asms, g) :
                    q \in {q \in DOMAIN g.nodes : g.nodes[q].type = "function"}}]
          /\ expected = end.log
          /\ code = assemble(asms)
    /\ pc = CodeBase + 1
    /\ regs = [r \in Registers |-> CASE r \in CalleeSaved -> Saved[r]
                                     [] r = "RSP" -> StackTop
                                     [] OTHER -> Junk]
    /\ mem = [a \in Stack \union StaticArea |-> IF a \in Stack THEN Junk ELSE 0]
    /\ log = <<>>
    /\ status = "run"

-----------------------------------------------------------------------------
(* Instructions.                                                            *)

At(op) == status = "run" /\ pc \in CodeAddresses /\ code[pc - CodeBase].op = op
instr  == code[pc - CodeBase]

\* The address an instruction with a displacement means.
effective == regs[instr.base] + instr.disp

Onward == pc' = pc + 1
Goto(a) == pc' = a

Load == /\ At("MOVQ_MDB_TO_REG")
        /\ effective \in DOMAIN mem
        /\ regs' = [regs EXCEPT ![instr.reg] = mem[effective]]
        /\ Onward
        /\ UNCHANGED <<mem, log, status, unit>>

Store == /\ At("MOVQ_REG_TO_MDB")
         /\ effective \in DOMAIN mem
         /\ mem' = [mem EXCEPT ![effective] = regs[instr.reg]]
         /\ Onward
         /\ UNCHANGED <<regs, log, status, unit>>

LoadAddress == /\ At("LEAQ_MDB_TO_REG")
               /\ regs' = [regs EXCEPT ![instr.reg] = effective]
               /\ Onward
               /\ UNCHANGED <<mem, log, status, unit>>

MoveImmediate == /\ At("MOVQ_IMM_TO_REG")
                 /\ regs' = [regs EXCEPT ![instr.reg] = instr.imm]
                 /\ Onward
                 /\ UNCHANGED <<mem, log, status, unit>>

Move == /\ At("MOVQ_REG_TO_REG")
        /\ regs' = [regs EXCEPT ![instr.reg] = regs[instr.src]]
        /\ Onward
        /\ UNCHANGED <<mem, log, status, unit>>

Subtract == /\ At("SUBQ_IMM_TO_REG")
            /\ regs' = [regs EXCEPT ![instr.reg] = @ - instr.imm]
            /\ Onward
            /\ UNCHANGED <<mem, log, status, unit>>

Add == /\ At("ADDQ_IMM_TO_REG")
       /\ regs' = [regs EXCEPT ![instr.reg] = @ + instr.imm]
       /\ Onward
       /\ UNCHANGED <<mem, log, status, unit>>

Or_ == /\ At("ORQ_REG_TO_REG")
       /\ regs[instr.reg] # Junk
       /\ regs' = [regs EXCEPT !.ZF = IF regs[instr.reg] = 0 THEN 1 ELSE 0]
       /\ Onward
       /\ UNCHANGED <<mem, log, status, unit>>

PushWord == /\ At("PUSHQ_REG")
            /\ regs.RSP - 1 \in Stack
            /\ mem' = [mem EXCEPT ![regs.RSP - 1] = regs[instr.reg]]
            /\ regs' = [regs EXCEPT !.RSP = @ - 1]
            /\ Onward
            /\ UNCHANGED <<log, status, unit>>

PopWord == /\ At("POPQ_REG")
           /\ regs.RSP \in Stack
           /\ regs' = [regs EXCEPT !.RSP = @ + 1, ![instr.reg] = mem[regs.RSP]]
           /\ Onward
           /\ UNCHANGED <<mem, log, status, unit>>

Leave == /\ At("LEAVE")
         /\ regs.RBP \in Stack
         /\ regs' = [regs EXCEPT !.RSP = regs.RBP + 1, !.RBP = mem[regs.RBP]]
         /\ Onward
         /\ UNCHANGED <<mem, log, status, unit>>

\* Pop the return address, with other registers set as the function r says.
Return(r) ==
    /\ r.RSP \in Stack
    /\ regs' = [r EXCEPT !.RSP = @ + 1]
    /\ Goto(mem[r.RSP])

Ret == /\ At("RET")
       /\ Return(regs)
       /\ UNCHANGED <<mem, log, status, unit>>

JumpRelative == /\ At("JMP_REL")
                /\ Goto(instr.imm)
                /\ UNCHANGED <<regs, mem, log, status, unit>>

JumpIfZero == /\ At("JE_REL")
              /\ IF regs.ZF = 1 THEN Goto(instr.imm) ELSE Onward
              /\ UNCHANGED <<regs, mem, log, status, unit>>

JumpToRegister == /\ At("JMP_TO_REG")
                  /\ Goto(regs[instr.reg])
                  /\ UNCHANGED <<regs, mem, log, status, unit>>

Call == /\ At("CALL_REG")
        /\ regs.RSP - 1 \in Stack
        /\ mem' = [mem EXCEPT ![regs.RSP - 1] = pc + 1]
        /\ regs' = [regs EXCEPT !.RSP = @ - 1]
        /\ Goto(regs[instr.reg])
        /\ UNCHANGED <<log, status, unit>>

-----------------------------------------------------------------------------
(* Functions of other objects.                                              *)

Entered(name) == status = "run" /\ pc = ExternalAddress(name)

get == /\ Entered("get")
       /\ regs.RDI \in DOMAIN mem
       /\ Return([regs EXCEPT !.RAX = mem[regs.RDI]])
       /\ UNCHANGED <<mem, log, status, unit>>

set == /\ Entered("set")
       /\ regs.RDI \in DOMAIN mem
       /\ Return(regs)
       /\ mem' = [mem EXCEPT ![regs.RDI] = regs.RSI]
       /\ UNCHANGED <<log, status, unit>>

subtract == /\ Entered("subtract")
            /\ Junk \notin {regs.RDI, regs.RSI}
            /\ Return([regs EXCEPT !.RAX = regs.RDI - regs.RSI])
            /\ UNCHANGED <<mem, log, status, unit>>

\* What a function in C may leave behind.
Clobbered(r) == [x \in Registers |-> IF x \in CallerSaved \union {"ZF"} THEN Junk ELSE r[x]]
BelowLost(m, rsp) == [a \in DOMAIN m |-> IF a \in Stack /\ a < rsp THEN Junk ELSE m[a]]

Observed(w) == CASE w \in -499 .. 499 -> w
                 [] w = Junk -> Junk
                 [] OTHER -> Reference!Address

\* put takes one argument, put8 takes eight, the last two on the stack.
put(name, n) ==
    /\ Entered(name)
    /\ \A i \in 7 .. n : regs.RSP + i - 6 \in Stack
    /\ log' = Append(log, <<name,
                [i \in 1 .. n |-> Observed(IF i <= 6 THEN regs[ArgumentRegisters[i]]
                                           ELSE mem[regs.RSP + i - 6])]>>)
    /\ Return([Clobbered(regs) EXCEPT !.RAX = regs.RDI])
    /\ mem' = BelowLost(mem, regs.RSP)
    /\ UNCHANGED <<status, unit>>

\* callback saves the registers it uses, uses them, and calls its argument.
callback ==
    /\ Entered("callback")
    /\ regs.RSP - 7 \in Stack
    /\ mem' = [BelowLost(mem, regs.RSP) EXCEPT
                  ![regs.RSP - 1] = regs.RBX, ![regs.RSP - 2] = regs.R12,
                  ![regs.RSP - 3] = regs.R13, ![regs.RSP - 4] = regs.R14,
                  ![regs.RSP - 5] = regs.R15, ![regs.RSP - 6] = CallbackReturn]
    /\ regs' = [r \in Registers |->
                  CASE r = "RSP" -> regs.RSP - 6 [] r = "RBP" -> regs.RBP [] OTHER -> Junk]
    /\ Goto(regs.RDI)
    /\ UNCHANGED <<log, status, unit>>

\* The function it called has returned: callback returns the same value.
callback_return ==
    /\ status = "run" /\ pc = CallbackReturn
    /\ regs.RSP + 5 \in Stack
    /\ Return([Clobbered(regs) EXCEPT
                  !.RAX = regs.RAX, !.RSP = @ + 5,
                  !.RBX = mem[regs.RSP + 4], !.R12 = mem[regs.RSP + 3],
                  !.R13 = mem[regs.RSP + 2], !.R14 = mem[regs.RSP + 1],
                  !.R15 = mem[regs.RSP]])
    /\ UNCHANGED <<mem, log, status, unit>>

-----------------------------------------------------------------------------
Execute ==
    \/ Load \/ Store \/ LoadAddress \/ MoveImmediate \/ Move \/ Subtract \/ Add \/ Or_
    \/ PushWord \/ PopWord \/ Leave \/ Ret \/ JumpRelative \/ JumpIfZero \/ JumpToRegister
    \/ Call \/ get \/ set \/ subtract \/ put("put", 1) \/ put("put8", 8)
    \/ callback \/ callback_return

\* The code falls through to that of the next object file.
Halt == /\ status = "run" /\ pc = CodeEnd
        /\ status' = "halt"
        /\ UNCHANGED <<pc, regs, mem, log, unit>>

Next == Execute \/ Halt \/ (status # "run" /\ UNCHANGED vars)

Spec == Init /\ [][Next]_vars /\ WF_vars(Execute \/ Halt)

-----------------------------------------------------------------------------
(* The code behaves as the program means: the calls of put and their         *)
(* arguments are those of the reference semantics, one after the other, and *)
(* all of them when the code has run to its end.  Arguments that wait in    *)
(* temporary storage while a later one calls, jumps or is jumped back into  *)
(* reach the function unharmed (sgenerate_invokes, sgenerate_jumps).        *)
BehavesAsMeant ==
    /\ IsPrefix(log, expected)
    /\ status = "halt" => log = expected

(* No instruction uses a word that nothing defined: control never leaves    *)
(* the code, memory is only accessed where it exists, no branch depends on  *)
(* what a called function left behind.                                      *)
NoFault == status = "run" => pc = CodeEnd \/ ENABLED Execute

(* The registers that belong to callers have their first values at the end, *)
(* although continuations may have been left for without the functions in   *)
(* between restoring them (make_store_continuation, sgenerate_jumps).       *)
RegistersKept == status = "halt" => \A r \in CalleeSaved : regs[r] = Saved[r]

(* While the body of a function runs, also after a jump into it from a      *)
(* function it called, the stack pointer is below the frame: no push and    *)
(* no call touches a slot that layout_frames has reserved.  (Just before    *)
(* JMP_TO_REG RBP already points to the other frame.)                       *)
StackBelowFrame ==
    \A f \in compiled.functions :
        (/\ pc \in f.first .. f.last /\ ~At("JMP_TO_REG")
         /\ \A h \in compiled.functions : pc \in h.entry .. h.exit => h.entry <= f.entry)
        => regs.RSP <= regs.RBP - f.size

\* The code of a program that has an end comes to it.
Halts == <>(status = "halt")
=============================================================================
