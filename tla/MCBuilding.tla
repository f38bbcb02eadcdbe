----------------------------- MODULE MCBuilding ------------------------------
(***************************************************************************)
(* Every instruction with every register, between labels and jumps, and    *)
(* statics in every order: assembled, loaded and told of bindings.         *)
(***************************************************************************)
EXTENDS Building

Bound(name, size, scope, state) ==
    [name |-> name, size |-> size, type |-> "absolute_storage", scope |-> scope, state |-> state]

\* f is a function, with a nested function g that has no name and a label l;
\* s, t and u are statics, and h is defined by another object.
MCBindings ==
    [b \in {"f", "g", "l", "s", "t", "u", "h"} |->
        CASE b = "f" -> Bound(<<"f", "o">>, 0, "global_scope", "defined_state")
          [] b = "g" -> Bound(NULL, 0, "local_scope", "defined_state")
          [] b = "l" -> Bound(<<"l">>, 0, "local_scope", "defined_state")
          [] b = "s" -> Bound(<<"s">>, 8, "local_scope", "defined_state")
          [] b = "t" -> Bound(<<"t", "t", "t">>, 24, "global_scope", "defined_state")
          [] b = "u" -> Bound(NULL, 0, "local_scope", "defined_state")
          [] b = "h" -> Bound(<<"h">>, 0, "global_scope", "undefined_state")]

Displacements == {literal(Bytes8(v)) : v \in {-8, 0, 4096}}
Immediates == Displacements \union {use_binding("f"), use_binding("h"),
    LNKR_ADD_OFF_TO_REF("t", 8), literal(<<1, 2, 3, 4, 5, 6, 7, 200>>)}
Registers == 0 .. 15

\* Every instruction that the generator may give to assemble.
Instructions ==
    {asm(op, <<d, r, q>>) : op \in {"LEAQ_MDB_TO_REG", "MOVQ_MDB_TO_REG"},
                            d \in Displacements, r, q \in Registers}
    \union {asm("MOVQ_REG_TO_MDB", <<r, d, q>>) : d \in Displacements, r, q \in Registers}
    \union {asm(op, <<r, q>>) : op \in {"MOVQ_REG_TO_REG", "ORQ_REG_TO_REG"}, r, q \in Registers}
    \union {asm(op, <<d, r>>) : op \in {"SUBQ_IMM_TO_REG", "ADDQ_IMM_TO_REG"},
                                d \in Displacements, r \in Registers}
    \union {asm("MOVQ_IMM_TO_REG", <<v, r>>) : v \in Immediates, r \in Registers}
    \union {asm(op, <<r>>) : op \in {"PUSHQ_REG", "POPQ_REG", "JMP_TO_REG", "CALL_REG"},
                             r \in Registers}
    \union {asm(op, <<>>) : op \in {"LEAVE", "RET"}}
    \union {asm(op, <<LNKR_SUB_RIP_TO_REF(b)>>) : op \in {"JMP_REL", "JE_REL"}, b \in {"f", "g", "l"}}

LABEL(b) == asm("LABEL", <<use_binding(b)>>)
JMP(b)   == asm("JMP_REL", <<LNKR_SUB_RIP_TO_REF(b)>>)

\* The instruction between labels and jumps, back and forth.
Around(n) == <<JMP("l"), LABEL("f"), n, LABEL("g"), asm("JE_REL", <<LNKR_SUB_RIP_TO_REF("g")>>),
               LABEL("l"), asm("RET", <<>>)>>

Program(asms, statics, undefined) ==
    [asms |-> asms, statics |-> statics, undefined |-> undefined, bindings |-> MCBindings]

\* All instructions, and all orders of some of the bindings.
MCPrograms ==
    {Program(Around(n), <<"t", "s", "u">>, <<"h">>) : n \in Instructions}
    \union {Program(asms, statics, undefined) :
               asms \in {<<>>, Around(asm("LEAVE", <<>>))}, undefined \in {<<>>, <<"h">>},
               statics \in UNION {SetToSeqs(S) : S \in SUBSET {"s", "t", "u"}}}

\* An address may be too large for a field of four bytes.
MCBases   == {1000, 70000}
MCUpdates == [name : {<<"h">>}, address : {50, 80000}] \union {[name |-> <<"f", "o">>, address |-> 90]}
MCModulus == [n \in {1, 2, 4, 8} |-> 2 ^ (2 + 2 * n)]
=============================================================================
