------------------------------- MODULE Region -------------------------------
(***************************************************************************)
(* The region allocator of bootstrap/x86_64_linux_interface.c, on which    *)
(* every other part of the compiler allocates.  A region is a chain of     *)
(* mapped segments.  Each segment starts with a header of five words       *)
(*                                                                         *)
(*   [0] next     the following segment, or NULL                           *)
(*   [1] current  in the first segment: the segment allocations come from  *)
(*   [2] ptr      the first free byte                                      *)
(*   [3] end      the byte after the segment                               *)
(*   [4] a magic number (not modelled: no code but a disabled check reads  *)
(*       it)                                                               *)
(*                                                                         *)
(* and allocation moves ptr.  The handle of a region is the address of its *)
(* first segment.                                                          *)
(***************************************************************************)
EXTENDS Integers, FiniteSets

CONSTANTS PageSize,             \* PAGE_SIZE
          Alignment,            \* ALIGNMENT
          HeaderSize,           \* 5 * sizeof(void *)
          MaxAddr,              \* the end of the address space
          Caps,                 \* min_capacity arguments of create_region
          Lens,                 \* len arguments of region_alloc
          MaxRegions,           \* bound: regions in use at a time
          MaxBlocks             \* bound: blocks handed out at a time

ASSUME SizesAssumption ==
    /\ PageSize \in Nat \ {0}
    /\ Alignment \in Nat \ {0}
    /\ HeaderSize \in Nat \ {0}
    /\ MaxAddr \in Nat
    /\ MaxRegions \in Nat
    /\ MaxBlocks \in Nat

ASSUME AlignmentAssumption ==
    /\ PageSize % Alignment = 0
    /\ HeaderSize % Alignment = 0

ASSUME RequestsAssumption == Caps \subseteq Nat /\ Lens \subseteq Nat

VARIABLES segs,                 \* the mapped segments, by address
          live,                 \* handles of the regions in use
          doomed,               \* where a destroy_region under way stands, or NULL
          blocks                \* history: the blocks clients hold

vars == <<segs, live, doomed, blocks>>

NULL == 0

\* own is a history field: the region a segment was mapped for.
Segment == [next : Nat, cur : Nat, ptr : Nat, end : Nat, own : Nat]

Block == [reg : Nat, addr : Nat, len : Nat]

-----------------------------------------------------------------------------
\* Mutant: rounds down.
pad_size_down(x, nearest) == x - (x % nearest)

pad_size(x, nearest) ==
    LET rem == x % nearest
    IN  x + (IF rem # 0 THEN nearest - rem ELSE 0)

\* The addresses at which the kernel may map len bytes: whole pages that no
\* mapped segment occupies, never page zero.
mmap(len) ==
    {a \in 1..MaxAddr : /\ a % PageSize = 0
                        /\ a + len <= MaxAddr
                        /\ \A s \in DOMAIN segs :
                              a + len <= s \/ segs[s].end <= a}

\* The length create_region(min_capacity) maps.
SegmentLen(min_capacity) == pad_size(min_capacity + HeaderSize, PageSize)

\* The header create_region writes at address a.
NewSegment(a, len, own) ==
    [next |-> NULL, cur |-> a, ptr |-> a + HeaderSize, end |-> a + len, own |-> own]

Init == /\ segs = [a \in {} |-> NULL]
        /\ live = {}
        /\ doomed = NULL
        /\ blocks = {}

create_region(min_capacity) ==
    /\ doomed = NULL
    /\ Cardinality(live) < MaxRegions
    /\ LET len == SegmentLen(min_capacity)
       IN  \E a \in mmap(len) :
             /\ segs' = [s \in DOMAIN segs \union {a} |->
                           IF s = a THEN NewSegment(a, len, a) ELSE segs[s]]
             /\ live' = live \union {a}
    /\ UNCHANGED <<doomed, blocks>>

\* region_alloc when the current segment has room; n is the padded len.
AllocHere(reg, len, n) ==
    LET c == segs[reg].cur
    IN  /\ segs[c].ptr + n <= segs[c].end
        /\ segs' = [segs EXCEPT ![c].ptr = @ + n]
        /\ blocks' = blocks \union
                       {[reg |-> reg, addr |-> segs[c].ptr, len |-> len]}

\* region_alloc when it has not: a segment more than twice as long is
\* linked behind the current one, becomes current and serves the request.
AllocGrow(reg, len, n) ==
    LET c    == segs[reg].cur
        size == SegmentLen(n + 2 * (segs[c].end - c))
    IN  /\ segs[c].ptr + n > segs[c].end
        /\ \E a \in mmap(size) :
             /\ segs' = [s \in DOMAIN segs \union {a} |->
                          IF s = a
                          THEN [NewSegment(a, size, reg) EXCEPT !.ptr = @ + n]
                          ELSE [segs[s] EXCEPT
                                  !.next = IF s = c THEN a ELSE @,
                                  !.cur  = IF s = reg THEN a ELSE @]]
             /\ blocks' = blocks \union
                            {[reg |-> reg, addr |-> a + HeaderSize, len |-> len]}

region_alloc(reg, len) ==
    /\ doomed = NULL
    /\ Cardinality(blocks) < MaxBlocks
    /\ LET n == pad_size(len, Alignment)
       IN  AllocHere(reg, len, n) \/ AllocGrow(reg, len, n)
    /\ UNCHANGED <<live, doomed>>

\* Mutant: the loop ends after one turn.
UnmapOnce(s) ==
    /\ doomed' = NULL
    /\ segs' = [t \in DOMAIN segs \ {s} |-> segs[t]]

\* Mutant: the segment the region allocates from is taken for its successor.
UnmapCur(s) ==
    /\ doomed' = segs[s].cur
    /\ segs' = [t \in DOMAIN segs \ {s} |-> segs[t]]

\* Mutant: the loop does not advance.
UnmapStuck(s) == doomed' = s /\ UNCHANGED segs

\* One turn of the loop of destroy_region: the link is read, then the
\* segment is unmapped.
Unmap(s) ==
    /\ doomed' = segs[s].next
    /\ segs' = [t \in DOMAIN segs \ {s} |-> segs[t]]

\* The first turn; the client has given up the blocks of the region.
destroy_region(reg) ==
    /\ doomed = NULL
    /\ Unmap(reg)
    /\ live' = live \ {reg}
    /\ blocks' = {b \in blocks : b.reg # reg}

\* The following turns.
DestroyNext ==
    /\ doomed # NULL
    /\ Unmap(doomed)
    /\ UNCHANGED <<live, blocks>>

Next == \/ \E cap \in Caps : create_region(cap)
        \/ \E reg \in live, len \in Lens : region_alloc(reg, len)
        \/ \E reg \in live : destroy_region(reg)
        \/ DestroyNext

\* destroy_region is a loop of one thread: it does not stop half-way.
Spec == Init /\ [][Next]_vars /\ WF_vars(DestroyNext)

-----------------------------------------------------------------------------
\* Every variable has its type, and the handles of regions in use are mapped.
TypeOK ==
    /\ DOMAIN segs \subseteq Nat \ {NULL}
    /\ segs \in [DOMAIN segs -> Segment]
    /\ live \subseteq DOMAIN segs
    /\ doomed \in Nat
    /\ blocks \subseteq Block

\* No byte belongs to two blocks: region_alloc never hands out memory that
\* it, or a region_alloc on another region, handed out before.
Apart(b, c) == b.addr + b.len <= c.addr \/ c.addr + c.len <= b.addr

BlocksApart == \A b, c \in blocks : b # c => Apart(b, c)

\* Every block lies in a mapped segment of its own region, behind the header
\* and below ptr: writing to it reaches neither the links that region_alloc
\* and destroy_region follow nor memory that a destroy_region has unmapped.
BlocksOwned ==
    \A b \in blocks : \E s \in DOMAIN segs :
        /\ segs[s].own = b.reg
        /\ s + HeaderSize <= b.addr
        /\ b.addr + b.len <= segs[s].ptr
        /\ segs[s].ptr <= segs[s].end

\* Every block starts at a multiple of ALIGNMENT.
BlocksAligned == \A b \in blocks : b.addr % Alignment = 0

\* region_alloc and destroy_region only follow links into mapped memory: the
\* current segment of a region in use and the segment to unmap next exist.
LinksMapped ==
    /\ \A r \in live : segs[r].cur \in DOMAIN segs
    /\ doomed # NULL => doomed \in DOMAIN segs

\* destroy_region unmaps the whole chain: outside of it every mapped segment
\* belongs to a region in use.
NothingLeaks == doomed = NULL => \A s \in DOMAIN segs : segs[s].own \in live

\* destroy_region ends: the chain has no cycle.
DestroyEnds == doomed # NULL ~> doomed = NULL

\* Region implements what Arena promises.
A == INSTANCE Arena
ImplementsArena == A!ASpec

-----------------------------------------------------------------------------
(***************************************************************************)
(* The inductive invariant.  Segments of one region differ in length and   *)
(* each is linked to the next longer one: that order, a consequence of the *)
(* growth in region_alloc, is what shows that the chain reaches every      *)
(* segment and has no cycle.                                               *)
(***************************************************************************)
Size(s) == segs[s].end - s

\* The free memory of a segment lies behind its header and inside of it.
SegmentShape ==
    \A s \in DOMAIN segs : /\ s + HeaderSize <= segs[s].ptr
                           /\ segs[s].ptr <= segs[s].end
                           /\ segs[s].ptr % Alignment = 0

\* Segments do not overlap.
SegmentsApart ==
    \A s, t \in DOMAIN segs :
        s # t => segs[s].end <= t \/ segs[t].end <= s

\* Links lead to a longer segment of the same region ...
LinksGrow ==
    \A s \in DOMAIN segs : segs[s].next # NULL =>
        /\ segs[s].next \in DOMAIN segs
        /\ segs[segs[s].next].own = segs[s].own
        /\ Size(s) < Size(segs[s].next)

\* ... and skip none.
LinksCover ==
    \A s, t \in DOMAIN segs :
        (s # t /\ segs[s].own = segs[t].own) =>
            /\ Size(s) # Size(t)
            /\ Size(s) < Size(t) => /\ segs[s].next # NULL
                                    /\ Size(segs[s].next) <= Size(t)

\* A handle is the first segment of its region, and its current segment is
\* the last.
Handles ==
    \A r \in live :
        /\ segs[r].own = r
        /\ \A s \in DOMAIN segs : segs[s].own = r => Size(r) <= Size(s)
        /\ segs[r].cur \in DOMAIN segs
        /\ segs[segs[r].cur].own = r
        /\ segs[segs[r].cur].next = NULL

\* What is left of a region being destroyed is doomed and what follows it.
Doomed ==
    /\ doomed # NULL => /\ doomed \in DOMAIN segs
                        /\ segs[doomed].own \notin live
    /\ \A s \in DOMAIN segs : segs[s].own \notin live =>
            /\ doomed # NULL
            /\ segs[doomed].own = segs[s].own
            /\ Size(doomed) <= Size(s)

\* Blocks belong to regions in use.
BlocksLive == \A b \in blocks : b.reg \in live

\* The chain of segments and the blocks are what create_region, region_alloc
\* and destroy_region take them for, at every step of each.
IInv == /\ TypeOK /\ SegmentShape /\ SegmentsApart /\ LinksGrow /\ LinksCover
        /\ Handles /\ Doomed /\ BlocksLive /\ BlocksOwned /\ BlocksApart
        /\ BlocksAligned
=============================================================================
