------------------------------- MODULE Arena -------------------------------
(***************************************************************************)
(* What a region promises to its clients: every allocation returns a block *)
(* of memory of the requested length that nothing else holds,              *)
(* the block stays where it is until its region is destroyed, and          *)
(* destroying a region gives up all of its blocks and no other.            *)
(* Region.tla is shown to implement this specification.                    *)
(***************************************************************************)
EXTENDS Naturals

CONSTANT Lens                   \* the lengths clients ask for

VARIABLES live,                 \* handles of the regions in use
          blocks                \* blocks handed out: [reg, addr, len]

avars == <<live, blocks>>

\* The bytes of two blocks do not meet.
Apart(b, c) == b.addr + b.len <= c.addr \/ c.addr + c.len <= b.addr

AInit == live = {} /\ blocks = {}

ACreate == /\ \E r \in live' : r \notin live /\ live' = live \union {r}
           /\ UNCHANGED blocks

\* The block is as long as was asked for, anywhere where nothing else is.
AAlloc == /\ \E new \in blocks' :
               /\ new.reg \in live
               /\ new.len \in Lens
               /\ \A b \in blocks : Apart(b, new)
               /\ blocks' = blocks \union {new}
          /\ UNCHANGED live

ADestroy == \E r \in live :
               /\ live' = live \ {r}
               /\ blocks' = {b \in blocks : b.reg # r}

ANext == ACreate \/ AAlloc \/ ADestroy

ASpec == AInit /\ [][ANext]_avars
=============================================================================
