---------------------------- MODULE RegionProofs ----------------------------
(***************************************************************************)
(* Proofs about Region.tla, for every page size, alignment, header size    *)
(* and every sequence of requests.                                         *)
(***************************************************************************)
EXTENDS Region, TLAPS

-----------------------------------------------------------------------------
(* Arithmetic.                                                              *)

\* The remainder is determined by its equation.
LEMMA ModUnique ==
    ASSUME NEW k \in Nat \ {0}, NEW q \in Int, NEW r \in 0..(k-1)
    PROVE  (k * q + r) % k = r
<1> DEFINE a == k * q + r
<1>1. a \in Int  OBVIOUS
<1>2. a = k * (a \div k) + (a % k) /\ a % k \in 0..(k-1)  BY <1>1
<1>3. k * (q - (a \div k)) = (a % k) - r  BY <1>2
<1> QED  BY <1>2, <1>3

\* Adding two multiples of k gives a multiple of k.
LEMMA ModAdd ==
    ASSUME NEW k \in Nat \ {0}, NEW a \in Nat, NEW b \in Nat,
           a % k = 0, b % k = 0
    PROVE  (a + b) % k = 0
<1>1. a = k * (a \div k) /\ b = k * (b \div k)  OBVIOUS
<1>2. a \div k \in Int /\ b \div k \in Int  OBVIOUS
<1>3. a + b = k * ((a \div k) + (b \div k)) + 0  BY <1>1, <1>2
<1>4. (a \div k) + (b \div k) \in Int /\ 0 \in 0..(k-1)  BY <1>2
<1> QED  BY <1>3, <1>4, ModUnique

\* pad_size rounds up to a multiple.
LEMMA PadSize ==
    ASSUME NEW x \in Nat, NEW k \in Nat \ {0}
    PROVE  /\ pad_size(x, k) \in Nat
           /\ pad_size(x, k) >= x
           /\ pad_size(x, k) % k = 0
<1> DEFINE p == pad_size(x, k)
           d == x \div k
<1>1. x = k * d + (x % k) /\ x % k \in 0..(k-1) /\ d \in Int  OBVIOUS
<1>2. CASE x % k = 0
  BY <1>1, <1>2 DEF pad_size
<1>3. CASE x % k # 0
  <2>1. p = x + (k - (x % k))  BY <1>3 DEF pad_size
  <2>2. p \in Nat /\ p >= x  BY <2>1, <1>1
  <2>3. p = k * (d + 1) + 0  BY <2>1, <1>1
  <2>4. d + 1 \in Int /\ 0 \in 0..(k-1)  BY <1>1
  <2>5. p % k = 0  BY <2>3, <2>4, ModUnique
  <2> QED  BY <2>2, <2>5
<1> QED  BY <1>2, <1>3

\* A multiple of a multiple is a multiple.
LEMMA ModTrans ==
    ASSUME NEW a \in Nat, NEW p \in Nat \ {0}, NEW k \in Nat \ {0},
           a % p = 0, p % k = 0
    PROVE  a % k = 0
<1>1. PICK q \in Int : a = p * q
  <2>1. a = p * (a \div p) /\ a \div p \in Int  OBVIOUS
  <2> QED  BY <2>1
<1>2. PICK j \in Int : p = k * j
  <2>1. p = k * (p \div k) /\ p \div k \in Int  OBVIOUS
  <2> QED  BY <2>1
<1> DEFINE m == j * q
<1>3. m \in Int  OBVIOUS
<1>4. a = k * m + 0  BY <1>1, <1>2
<1>5. 0 \in 0..(k-1)  OBVIOUS
<1> HIDE DEF m
<1> QED  BY <1>3, <1>4, <1>5, ModUnique

\* What create_region maps has room for the header and the capacity.
LEMMA SegmentLenFacts ==
    ASSUME NEW m \in Nat
    PROVE  SegmentLen(m) \in Nat /\ SegmentLen(m) >= m + HeaderSize
<1>1. m + HeaderSize \in Nat /\ PageSize \in Nat \ {0}  BY SizesAssumption
<1> QED  BY <1>1, PadSize DEF SegmentLen

\* Where the kernel maps a segment there was none, and its first free byte is
\* aligned.
LEMMA MmapFacts ==
    ASSUME TypeOK, SegmentShape, NEW len \in Nat, len > 0, NEW a \in mmap(len)
    PROVE  /\ a \in Nat \ {NULL}
           /\ a \notin DOMAIN segs
           /\ \A s \in DOMAIN segs : a + len <= s \/ segs[s].end <= a
           /\ (a + HeaderSize) % Alignment = 0
<1>1. /\ a \in Nat \ {NULL}
      /\ a % PageSize = 0
      /\ \A s \in DOMAIN segs : a + len <= s \/ segs[s].end <= a
  BY SizesAssumption DEF mmap, NULL
<1>2. a \notin DOMAIN segs
  <2> SUFFICES ASSUME a \in DOMAIN segs PROVE FALSE  OBVIOUS
  <2>1. segs[a] \in Segment  BY DEF TypeOK
  <2>2. a + HeaderSize <= segs[a].ptr /\ segs[a].ptr <= segs[a].end
    BY DEF SegmentShape
  <2> QED  BY <1>1, <2>1, <2>2, SizesAssumption DEF Segment
<1>3. a % Alignment = 0
  BY <1>1, ModTrans, SizesAssumption, AlignmentAssumption
<1>4. (a + HeaderSize) % Alignment = 0
  BY <1>1, <1>3, ModAdd, SizesAssumption, AlignmentAssumption
<1> QED  BY <1>1, <1>2, <1>4

-----------------------------------------------------------------------------
(* The inductive invariant.                                                 *)

\* The invariant holds when no region exists.
LEMMA InitIInv == Init => IInv
<1> SUFFICES ASSUME Init PROVE IInv  OBVIOUS
<1>1. DOMAIN segs = {}  BY DEF Init
<1>2. TypeOK
  BY <1>1 DEF Init, TypeOK, NULL
<1> QED
  BY <1>1, <1>2 DEF Init, IInv, SegmentShape, SegmentsApart, LinksGrow,
     LinksCover, Handles, Doomed, BlocksLive, BlocksOwned, BlocksApart,
     BlocksAligned, NULL

\* create_region starts a chain of one segment.
LEMMA CreateIInv ==
    ASSUME IInv, NEW cap \in Caps, create_region(cap)
    PROVE  IInv'
<1> USE DEF NULL
<1> DEFINE len == SegmentLen(cap)
<1>0. /\ TypeOK /\ SegmentShape /\ SegmentsApart /\ LinksGrow /\ LinksCover
      /\ Handles /\ Doomed /\ BlocksLive /\ BlocksOwned /\ BlocksApart
      /\ BlocksAligned
  BY DEF IInv
<1>1. len \in Nat /\ len >= HeaderSize /\ len > 0 /\ HeaderSize \in Nat \ {0}
  <2>1. cap \in Nat  BY RequestsAssumption
  <2> QED  BY <2>1, SegmentLenFacts, SizesAssumption
<1>2. PICK a \in mmap(len) :
        /\ segs' = [s \in DOMAIN segs \union {a} |->
                      IF s = a THEN NewSegment(a, len, a) ELSE segs[s]]
        /\ live' = live \union {a}
  BY DEF create_region
<1>3. doomed = NULL /\ doomed' = NULL /\ blocks' = blocks
  BY DEF create_region
<1> HIDE DEF len
<1>4. /\ a \in Nat \ {NULL}
      /\ a \notin DOMAIN segs
      /\ \A s \in DOMAIN segs : a + len <= s \/ segs[s].end <= a
      /\ (a + HeaderSize) % Alignment = 0
  BY <1>0, <1>1, MmapFacts
<1>5. /\ DOMAIN segs' = DOMAIN segs \union {a}
      /\ \A s \in DOMAIN segs : segs'[s] = segs[s]
      /\ segs'[a] = [next |-> NULL, cur |-> a, ptr |-> a + HeaderSize,
                     end |-> a + len, own |-> a]
  BY <1>2, <1>4 DEF NewSegment
<1>6. /\ DOMAIN segs \subseteq Nat \ {NULL}
      /\ \A s \in DOMAIN segs : segs[s] \in Segment
      /\ live \subseteq DOMAIN segs
  BY <1>0 DEF TypeOK
<1>7. \A s \in DOMAIN segs : segs[s].own # a
  <2> SUFFICES ASSUME NEW s \in DOMAIN segs PROVE segs[s].own # a  OBVIOUS
  <2>1. segs[s].own \in live  BY <1>0, <1>3 DEF Doomed
  <2> QED  BY <2>1, <1>4, <1>6
<1>8. TypeOK'
  <2>1. segs'[a] \in Segment  BY <1>1, <1>4, <1>5 DEF Segment
  <2>2. \A s \in DOMAIN segs' : segs'[s] \in Segment  BY <2>1, <1>5, <1>6
  <2>3. segs' \in [DOMAIN segs' -> Segment]  BY <2>2, <1>2
  <2> QED  BY <2>3, <1>0, <1>2, <1>3, <1>4, <1>5 DEF TypeOK
<1>9. SegmentShape'
  BY <1>0, <1>1, <1>4, <1>5 DEF SegmentShape
<1>10. SegmentsApart'
  BY <1>0, <1>1, <1>4, <1>5 DEF SegmentsApart
<1>11. LinksGrow'
  BY <1>0, <1>4, <1>5 DEF LinksGrow, Size
<1>12. LinksCover'
  <2> SUFFICES ASSUME NEW s \in DOMAIN segs', NEW t \in DOMAIN segs',
                      s # t, segs'[s].own = segs'[t].own
               PROVE  /\ Size(s)' # Size(t)'
                      /\ Size(s)' < Size(t)' => /\ segs'[s].next # NULL
                                               /\ Size(segs[s].next)' <= Size(t)'
    BY DEF LinksCover
  <2>1. s \in DOMAIN segs /\ t \in DOMAIN segs  BY <1>4, <1>5, <1>7
  <2>2. segs[s].next # NULL => segs[s].next \in DOMAIN segs
    BY <2>1, <1>0 DEF LinksGrow
  <2> QED  BY <2>1, <2>2, <1>0, <1>4, <1>5 DEF LinksCover, Size
<1>13. Handles'
  <2> SUFFICES ASSUME NEW r \in live'
               PROVE  /\ segs'[r].own = r
                      /\ \A s \in DOMAIN segs' :
                            segs'[s].own = r => Size(r)' <= Size(s)'
                      /\ segs'[r].cur \in DOMAIN segs'
                      /\ segs'[segs'[r].cur].own = r
                      /\ segs'[segs'[r].cur].next = NULL
    BY DEF Handles
  <2>1. CASE r = a
    BY <2>1, <1>1, <1>4, <1>5, <1>7 DEF Size
  <2>2. CASE r \in live
    BY <2>2, <1>0, <1>4, <1>5, <1>6 DEF Handles, Size
  <2> QED  BY <2>1, <2>2, <1>2
<1>14. Doomed'
  BY <1>0, <1>2, <1>3, <1>5 DEF Doomed
<1>15. BlocksLive' /\ BlocksApart' /\ BlocksAligned'
  BY <1>0, <1>2, <1>3 DEF BlocksLive, BlocksApart, BlocksAligned, Apart
<1>16. BlocksOwned'
  BY <1>0, <1>3, <1>5 DEF BlocksOwned
<1> QED
  BY <1>8, <1>9, <1>10, <1>11, <1>12, <1>13, <1>14, <1>15, <1>16 DEF IInv

\* The block region_alloc returns, at a free place of segment c, is apart from
\* every other block; region_alloc moves ptr behind it.
LEMMA FreshBlock ==
    ASSUME IInv, NEW c \in DOMAIN segs, NEW b \in blocks, NEW len \in Nat,
           NEW r \in Nat
    PROVE  Apart(b, [reg |-> r, addr |-> segs[c].ptr, len |-> len])
             \/ segs[c].ptr + len > segs[c].end
<1>1. PICK s \in DOMAIN segs : /\ s + HeaderSize <= b.addr
                              /\ b.addr + b.len <= segs[s].ptr
                              /\ segs[s].ptr <= segs[s].end
  BY DEF IInv, BlocksOwned
<1>2. segs[s] \in Segment /\ segs[c] \in Segment /\ b \in Block
      /\ s \in Nat /\ c \in Nat /\ HeaderSize \in Nat
  BY SizesAssumption DEF IInv, TypeOK
<1>3. CASE s = c
  BY <1>1, <1>2, <1>3 DEF Apart, Segment, Block
<1>4. CASE s # c
  <2>1. segs[s].end <= c \/ segs[c].end <= s
    BY <1>4 DEF IInv, SegmentsApart
  <2>2. c + HeaderSize <= segs[c].ptr  BY DEF IInv, SegmentShape
  <2> QED  BY <1>1, <1>2, <2>1, <2>2 DEF Apart, Segment, Block
<1> QED  BY <1>3, <1>4

\* Allocation inside the current segment.
LEMMA AllocHereIInv ==
    ASSUME IInv, NEW reg \in live, NEW len \in Nat, NEW n \in Nat,
           n >= len, n % Alignment = 0, AllocHere(reg, len, n),
           UNCHANGED <<live, doomed>>
    PROVE  IInv'
<1> USE DEF NULL
<1> DEFINE c   == segs[reg].cur
           new == [reg |-> reg, addr |-> segs[c].ptr, len |-> len]
<1>0. /\ TypeOK /\ SegmentShape /\ SegmentsApart /\ LinksGrow /\ LinksCover
      /\ Handles /\ Doomed /\ BlocksLive /\ BlocksOwned /\ BlocksApart
      /\ BlocksAligned
  BY DEF IInv
<1>1. /\ segs[c].ptr + n <= segs[c].end
      /\ segs' = [segs EXCEPT ![c].ptr = @ + n]
      /\ blocks' = blocks \union {new}
      /\ live' = live /\ doomed' = doomed
  BY DEF AllocHere
<1>2. c \in DOMAIN segs /\ segs[c].own = reg  BY <1>0 DEF Handles
<1>3. /\ DOMAIN segs \subseteq Nat \ {NULL}
      /\ \A s \in DOMAIN segs : segs[s] \in Segment
      /\ live \subseteq DOMAIN segs
      /\ blocks \subseteq Block
      /\ HeaderSize \in Nat \ {0} /\ Alignment \in Nat \ {0}
  BY <1>0, SizesAssumption DEF TypeOK
<1> HIDE DEF c
<1>4. /\ DOMAIN segs' = DOMAIN segs
      /\ \A s \in DOMAIN segs :
            /\ segs'[s].next = segs[s].next
            /\ segs'[s].cur = segs[s].cur
            /\ segs'[s].end = segs[s].end
            /\ segs'[s].own = segs[s].own
            /\ segs'[s].ptr = IF s = c THEN segs[s].ptr + n ELSE segs[s].ptr
      /\ \A s \in DOMAIN segs : segs'[s] \in Segment
  BY <1>1, <1>2, <1>3 DEF Segment
<1>5. TypeOK'
  <2>1. segs' \in [DOMAIN segs' -> Segment]  BY <1>1, <1>4
  <2>2. new \in Block  BY <1>2, <1>3 DEF Block, Segment
  <2> QED  BY <2>1, <2>2, <1>0, <1>1, <1>3, <1>4 DEF TypeOK
<1>6. SegmentShape'
  <2> SUFFICES ASSUME NEW s \in DOMAIN segs
               PROVE  /\ s + HeaderSize <= segs'[s].ptr
                      /\ segs'[s].ptr <= segs'[s].end
                      /\ segs'[s].ptr % Alignment = 0
    BY <1>4 DEF SegmentShape
  <2>1. segs[s].ptr \in Nat /\ segs[s].end \in Nat /\ s \in Nat  BY <1>3 DEF Segment
  <2>2. /\ s + HeaderSize <= segs[s].ptr
        /\ segs[s].ptr <= segs[s].end
        /\ segs[s].ptr % Alignment = 0
    BY <1>0 DEF SegmentShape
  <2>3. (segs[s].ptr + n) % Alignment = 0
    BY <2>1, <2>2, <1>3, ModAdd
  <2> QED  BY <2>1, <2>2, <2>3, <1>1, <1>3, <1>4
<1>7. SegmentsApart' /\ LinksGrow'
  BY <1>0, <1>4 DEF SegmentsApart, LinksGrow, Size
<1>8. LinksCover'
  <2> SUFFICES ASSUME NEW s \in DOMAIN segs, NEW t \in DOMAIN segs,
                      s # t, segs'[s].own = segs'[t].own
               PROVE  /\ Size(s)' # Size(t)'
                      /\ Size(s)' < Size(t)' => /\ segs'[s].next # NULL
                                               /\ Size(segs[s].next)' <= Size(t)'
    BY <1>4 DEF LinksCover
  <2>1. segs[s].next # NULL => segs[s].next \in DOMAIN segs
    BY <1>0 DEF LinksGrow
  <2> QED  BY <2>1, <1>0, <1>4 DEF LinksCover, Size
<1>9. Handles'
  BY <1>0, <1>1, <1>3, <1>4 DEF Handles, Size
<1>10. Doomed'
  BY <1>0, <1>1, <1>4 DEF Doomed, Size
<1>11. BlocksLive'
  BY <1>0, <1>1 DEF BlocksLive
<1>12. BlocksOwned'
  <2> SUFFICES ASSUME NEW b \in blocks'
               PROVE  \E s \in DOMAIN segs :
                        /\ segs'[s].own = b.reg
                        /\ s + HeaderSize <= b.addr
                        /\ b.addr + b.len <= segs'[s].ptr
                        /\ segs'[s].ptr <= segs'[s].end
    BY <1>4 DEF BlocksOwned
  <2>1. CASE b \in blocks
    <3>1. PICK s \in DOMAIN segs : /\ segs[s].own = b.reg
                                  /\ s + HeaderSize <= b.addr
                                  /\ b.addr + b.len <= segs[s].ptr
                                  /\ segs[s].ptr <= segs[s].end
      BY <2>1, <1>0 DEF BlocksOwned
    <3>2. segs[s] \in Segment /\ b \in Block  BY <2>1, <1>3
    <3> QED  BY <3>1, <3>2, <1>1, <1>4 DEF Segment, Block
  <2>2. CASE b = new
    <3>1. c + HeaderSize <= segs[c].ptr  BY <1>0, <1>2 DEF SegmentShape
    <3>2. segs[c] \in Segment  BY <1>2, <1>3
    <3> QED  BY <2>2, <3>1, <3>2, <1>1, <1>2, <1>4 DEF Segment
  <2> QED  BY <2>1, <2>2, <1>1
<1>13. BlocksApart'
  <2>1. \A b \in blocks : Apart(b, new)
    <3> SUFFICES ASSUME NEW b \in blocks PROVE Apart(b, new)  OBVIOUS
    <3>1. segs[c] \in Segment /\ reg \in Nat  BY <1>2, <1>3
    <3>2. ~(segs[c].ptr + len > segs[c].end)  BY <3>1, <1>1 DEF Segment
    <3> QED  BY <3>1, <3>2, <1>2, FreshBlock
  <2> QED  BY <2>1, <1>0, <1>1 DEF BlocksApart, Apart
<1>14. BlocksAligned'
  BY <1>0, <1>1, <1>2 DEF BlocksAligned, SegmentShape
<1> QED
  BY <1>5, <1>6, <1>7, <1>8, <1>9, <1>10, <1>11, <1>12, <1>13, <1>14 DEF IInv

\* Allocation from a new segment: it is longer than every segment of its
\* region, because the current segment was the longest.
LEMMA AllocGrowIInv ==
    ASSUME IInv, NEW reg \in live, NEW len \in Nat, NEW n \in Nat,
           n >= len, n % Alignment = 0, AllocGrow(reg, len, n),
           UNCHANGED <<live, doomed>>
    PROVE  IInv'
<1> USE DEF NULL
<1> DEFINE c    == segs[reg].cur
           size == SegmentLen(n + 2 * (segs[c].end - c))
<1>0. /\ TypeOK /\ SegmentShape /\ SegmentsApart /\ LinksGrow /\ LinksCover
      /\ Handles /\ Doomed /\ BlocksLive /\ BlocksOwned /\ BlocksApart
      /\ BlocksAligned
  BY DEF IInv
<1>1. /\ DOMAIN segs \subseteq Nat \ {NULL}
      /\ \A s \in DOMAIN segs : segs[s] \in Segment
      /\ live \subseteq DOMAIN segs
      /\ blocks \subseteq Block
      /\ HeaderSize \in Nat \ {0} /\ Alignment \in Nat \ {0}
  BY <1>0, SizesAssumption DEF TypeOK
<1>2. c \in DOMAIN segs /\ segs[c].own = reg /\ segs[c].next = NULL
  BY <1>0 DEF Handles
<1>3. /\ Size(c) \in Nat
      /\ size \in Nat
      /\ size >= n + HeaderSize
      /\ size > Size(c)
  <2>1. c \in Nat /\ segs[c] \in Segment  BY <1>1, <1>2
  <2>2. c + HeaderSize <= segs[c].ptr /\ segs[c].ptr <= segs[c].end
    BY <1>0, <1>2 DEF SegmentShape
  <2>3. segs[c].end - c \in Nat /\ n + 2 * (segs[c].end - c) \in Nat
    BY <2>1, <2>2, <1>1 DEF Segment
  <2>4. size \in Nat /\ size >= n + 2 * (segs[c].end - c) + HeaderSize
    BY <2>3, SegmentLenFacts
  <2> HIDE DEF size
  <2> QED  BY <2>3, <2>4, <1>1 DEF Size
<1>4. PICK a \in mmap(size) :
        /\ segs' = [s \in DOMAIN segs \union {a} |->
                     IF s = a
                     THEN [NewSegment(a, size, reg) EXCEPT !.ptr = @ + n]
                     ELSE [segs[s] EXCEPT
                             !.next = IF s = c THEN a ELSE @,
                             !.cur  = IF s = reg THEN a ELSE @]]
        /\ blocks' = blocks \union
                       {[reg |-> reg, addr |-> a + HeaderSize, len |-> len]}
  BY DEF AllocGrow
<1> DEFINE new == [reg |-> reg, addr |-> a + HeaderSize, len |-> len]
<1>5. live' = live /\ doomed' = doomed  OBVIOUS
<1> HIDE DEF c, size
<1>6. /\ a \in Nat \ {NULL}
      /\ a \notin DOMAIN segs
      /\ \A s \in DOMAIN segs : a + size <= s \/ segs[s].end <= a
      /\ (a + HeaderSize) % Alignment = 0
  BY <1>0, <1>1, <1>3, MmapFacts
<1>7. /\ DOMAIN segs' = DOMAIN segs \union {a}
      /\ segs'[a].next = NULL
      /\ segs'[a].cur = a
      /\ segs'[a].ptr = a + HeaderSize + n
      /\ segs'[a].end = a + size
      /\ segs'[a].own = reg
      /\ segs'[a] \in Segment
  <2>1. segs'[a] = [next |-> NULL, cur |-> a, ptr |-> a + HeaderSize + n,
                    end |-> a + size, own |-> reg]
    BY <1>4 DEF NewSegment
  <2>2. reg \in Nat  BY <1>1
  <2>3. DOMAIN segs' = DOMAIN segs \union {a}  BY <1>4
  <2> QED  BY <2>1, <2>2, <2>3, <1>1, <1>3, <1>6 DEF Segment
<1>8. \A s \in DOMAIN segs :
        /\ segs'[s].next = IF s = c THEN a ELSE segs[s].next
        /\ segs'[s].cur = IF s = reg THEN a ELSE segs[s].cur
        /\ segs'[s].ptr = segs[s].ptr
        /\ segs'[s].end = segs[s].end
        /\ segs'[s].own = segs[s].own
        /\ segs'[s] \in Segment
  <2> SUFFICES ASSUME NEW s \in DOMAIN segs
               PROVE  /\ segs'[s].next = IF s = c THEN a ELSE segs[s].next
                      /\ segs'[s].cur = IF s = reg THEN a ELSE segs[s].cur
                      /\ segs'[s].ptr = segs[s].ptr
                      /\ segs'[s].end = segs[s].end
                      /\ segs'[s].own = segs[s].own
                      /\ segs'[s] \in Segment
    OBVIOUS
  <2>1. segs'[s] = [segs[s] EXCEPT !.next = IF s = c THEN a ELSE @,
                                   !.cur  = IF s = reg THEN a ELSE @]
    BY <1>4, <1>6
  <2>2. segs[s] \in Segment  BY <1>1
  <2> QED  BY <2>1, <2>2, <1>6 DEF Segment
<1>9. \A s \in DOMAIN segs : Size(s)' = Size(s) /\ Size(s) \in Int
  BY <1>1, <1>8 DEF Size, Segment
<1>10. Size(a)' = size
  BY <1>3, <1>6, <1>7 DEF Size
<1>11. \A s \in DOMAIN segs : segs[s].own = reg => Size(s) <= Size(c)
  BY <1>0, <1>2, <1>3, <1>9 DEF LinksCover
<1>12. TypeOK'
  <2>1. segs' \in [DOMAIN segs' -> Segment]  BY <1>4, <1>7, <1>8
  <2>2. new \in Block  BY <1>1, <1>6 DEF Block
  <2> QED  BY <2>1, <2>2, <1>0, <1>1, <1>4, <1>5, <1>6, <1>7 DEF TypeOK
<1>13. SegmentShape'
  <2>1. (a + HeaderSize + n) % Alignment = 0
    BY <1>1, <1>6, ModAdd
  <2> QED  BY <2>1, <1>0, <1>1, <1>3, <1>6, <1>7, <1>8 DEF SegmentShape
<1>14. SegmentsApart'
  BY <1>0, <1>3, <1>6, <1>7, <1>8 DEF SegmentsApart
<1>15. LinksGrow'
  <2> SUFFICES ASSUME NEW s \in DOMAIN segs', segs'[s].next # NULL
               PROVE  /\ segs'[s].next \in DOMAIN segs'
                      /\ segs'[segs'[s].next].own = segs'[s].own
                      /\ Size(s)' < Size(segs[s].next)'
    BY DEF LinksGrow
  <2>1. s \in DOMAIN segs  BY <1>7
  <2>2. CASE s = c
    BY <2>1, <2>2, <1>2, <1>3, <1>7, <1>8, <1>9, <1>10
  <2>3. CASE s # c
    BY <2>1, <2>3, <1>0, <1>7, <1>8, <1>9 DEF LinksGrow
  <2> QED  BY <2>2, <2>3
<1>16. LinksCover'
  <2> SUFFICES ASSUME NEW s \in DOMAIN segs', NEW t \in DOMAIN segs',
                      s # t, segs'[s].own = segs'[t].own
               PROVE  /\ Size(s)' # Size(t)'
                      /\ Size(s)' < Size(t)' => /\ segs'[s].next # NULL
                                               /\ Size(segs[s].next)' <= Size(t)'
    BY DEF LinksCover
  <2>1. CASE s = a
    <3>1. t \in DOMAIN segs /\ segs[t].own = reg  BY <2>1, <1>7, <1>8
    <3> QED  BY <2>1, <3>1, <1>3, <1>9, <1>10, <1>11
  <2>2. CASE t = a
    <3>1. s \in DOMAIN segs /\ segs[s].own = reg  BY <2>2, <1>7, <1>8
    <3>2. CASE s = c
      BY <2>2, <3>1, <3>2, <1>3, <1>6, <1>8, <1>9, <1>10
    <3>3. CASE s # c
      <4>1. Size(s) < Size(c)
        BY <3>1, <3>3, <1>0, <1>2, <1>3, <1>9, <1>11 DEF LinksCover
      <4>2. segs[s].next # NULL /\ Size(segs[s].next) <= Size(c)
        BY <3>1, <3>3, <4>1, <1>0, <1>2 DEF LinksCover
      <4>3. segs[s].next \in DOMAIN segs  BY <3>1, <4>2, <1>0 DEF LinksGrow
      <4> QED  BY <2>2, <3>1, <3>3, <4>1, <4>2, <4>3, <1>3, <1>8, <1>9, <1>10
    <3> QED  BY <3>2, <3>3
  <2>3. CASE s \in DOMAIN segs /\ t \in DOMAIN segs
    <3>1. segs[s].own = segs[t].own  BY <2>3, <1>8
    <3>2. /\ Size(s) # Size(t)
          /\ Size(s) < Size(t) => /\ segs[s].next # NULL
                                  /\ Size(segs[s].next) <= Size(t)
      BY <2>3, <3>1, <1>0 DEF LinksCover
    <3>3. s = c => ~(Size(s) < Size(t))
      BY <2>3, <3>1, <3>2, <1>2, <1>3, <1>9, <1>11
    <3>4. segs[s].next # NULL => segs[s].next \in DOMAIN segs
      BY <2>3, <1>0 DEF LinksGrow
    <3> QED  BY <2>3, <3>2, <3>3, <3>4, <1>8, <1>9
  <2> QED  BY <2>1, <2>2, <2>3, <1>7
<1>17. Handles'
  <2> SUFFICES ASSUME NEW r \in live
               PROVE  /\ segs'[r].own = r
                      /\ \A s \in DOMAIN segs' :
                            segs'[s].own = r => Size(r)' <= Size(s)'
                      /\ segs'[r].cur \in DOMAIN segs'
                      /\ segs'[segs'[r].cur].own = r
                      /\ segs'[segs'[r].cur].next = NULL
    BY <1>5 DEF Handles
  <2>1. /\ r \in DOMAIN segs
        /\ segs[r].own = r
        /\ \A s \in DOMAIN segs : segs[s].own = r => Size(r) <= Size(s)
        /\ segs[r].cur \in DOMAIN segs
        /\ segs[segs[r].cur].own = r
        /\ segs[segs[r].cur].next = NULL
    BY <1>0, <1>1 DEF Handles
  <2>2. \A s \in DOMAIN segs' : segs'[s].own = r => Size(r)' <= Size(s)'
    <3> SUFFICES ASSUME NEW s \in DOMAIN segs', segs'[s].own = r
                 PROVE  Size(r)' <= Size(s)'
      OBVIOUS
    <3>1. CASE s = a
      BY <3>1, <2>1, <1>3, <1>7, <1>9, <1>10, <1>11
    <3>2. CASE s \in DOMAIN segs
      BY <3>2, <2>1, <1>8, <1>9
    <3> QED  BY <3>1, <3>2, <1>7
  <2>3. CASE r = reg
    BY <2>1, <2>2, <2>3, <1>7, <1>8
  <2>4. CASE r # reg
    <3>1. segs[r].cur # c  BY <2>1, <2>4, <1>2
    <3> QED  BY <2>1, <2>2, <2>4, <3>1, <1>7, <1>8
  <2> QED  BY <2>3, <2>4
<1>18. Doomed'
  <2>1. doomed # NULL => doomed \in DOMAIN segs /\ segs[doomed].own \notin live
    BY <1>0 DEF Doomed
  <2>2. ASSUME NEW s \in DOMAIN segs', segs'[s].own \notin live'
        PROVE  /\ doomed' # NULL
               /\ segs'[doomed'].own = segs'[s].own
               /\ Size(doomed)' <= Size(s)'
    <3>1. s \in DOMAIN segs /\ segs[s].own \notin live
      BY <2>2, <1>5, <1>7, <1>8
    <3>2. doomed # NULL /\ segs[doomed].own = segs[s].own /\ Size(doomed) <= Size(s)
      BY <3>1, <1>0 DEF Doomed
    <3> QED  BY <2>1, <3>1, <3>2, <1>5, <1>8, <1>9
  <2> QED  BY <2>1, <2>2, <1>5, <1>7, <1>8 DEF Doomed
<1>19. BlocksLive'
  <2>1. new.reg \in live  OBVIOUS
  <2> QED  BY <2>1, <1>0, <1>4, <1>5 DEF BlocksLive
<1>20. BlocksOwned'
  <2> SUFFICES ASSUME NEW b \in blocks'
               PROVE  \E s \in DOMAIN segs' :
                        /\ segs'[s].own = b.reg
                        /\ s + HeaderSize <= b.addr
                        /\ b.addr + b.len <= segs'[s].ptr
                        /\ segs'[s].ptr <= segs'[s].end
    BY DEF BlocksOwned
  <2>1. CASE b \in blocks
    BY <2>1, <1>0, <1>7, <1>8 DEF BlocksOwned
  <2>2. CASE b = new
    BY <2>2, <1>1, <1>3, <1>6, <1>7
  <2> QED  BY <2>1, <2>2, <1>4
<1>21. BlocksApart'
  <2>1. \A b \in blocks : Apart(b, new) /\ Apart(new, b)
    <3> SUFFICES ASSUME NEW b \in blocks PROVE Apart(b, new) /\ Apart(new, b)
      OBVIOUS
    <3>1. PICK s \in DOMAIN segs : /\ s + HeaderSize <= b.addr
                                  /\ b.addr + b.len <= segs[s].ptr
                                  /\ segs[s].ptr <= segs[s].end
      BY <1>0 DEF BlocksOwned
    <3>2. a + size <= s \/ segs[s].end <= a  BY <1>6
    <3>3. b \in Block /\ segs[s] \in Segment /\ s \in Nat  BY <1>1
    <3> QED  BY <3>1, <3>2, <3>3, <1>1, <1>3, <1>6 DEF Apart, Block, Segment
  <2> QED  BY <2>1, <1>0, <1>4 DEF BlocksApart
<1>22. BlocksAligned'
  <2>1. new.addr % Alignment = 0  BY <1>6
  <2> QED  BY <2>1, <1>0, <1>4 DEF BlocksAligned
<1> QED
  BY <1>12, <1>13, <1>14, <1>15, <1>16, <1>17, <1>18, <1>19, <1>20, <1>21, <1>22
     DEF IInv

\* One turn of the loop of destroy_region, on the shortest segment left of a
\* region that is no longer in use.
LEMMA UnmapIInv ==
    ASSUME IInv, NEW d \in DOMAIN segs, Unmap(d),
           \A s \in DOMAIN segs : segs[s].own = segs[d].own => Size(d) <= Size(s),
           doomed # NULL => doomed = d,
           live' = live \ {segs[d].own},
           blocks' = {b \in blocks : b.reg # segs[d].own}
    PROVE  IInv'
<1> USE DEF NULL
<1>0. /\ TypeOK /\ SegmentShape /\ SegmentsApart /\ LinksGrow /\ LinksCover
      /\ Handles /\ Doomed /\ BlocksLive /\ BlocksOwned /\ BlocksApart
      /\ BlocksAligned
  BY DEF IInv
<1>1. /\ DOMAIN segs \subseteq Nat \ {NULL}
      /\ \A s \in DOMAIN segs : segs[s] \in Segment
      /\ live \subseteq DOMAIN segs
      /\ \A s \in DOMAIN segs : Size(s) \in Int
  BY <1>0 DEF TypeOK, Segment, Size
<1>2. /\ doomed' = segs[d].next
      /\ DOMAIN segs' = DOMAIN segs \ {d}
      /\ \A s \in DOMAIN segs \ {d} : segs'[s] = segs[s]
  BY DEF Unmap
<1>3. \A s \in DOMAIN segs' : Size(s)' = Size(s)
  BY <1>2 DEF Size
<1>4. \A s \in DOMAIN segs : segs[s].next # d
  <2> SUFFICES ASSUME NEW s \in DOMAIN segs, segs[s].next = d PROVE FALSE
    OBVIOUS
  <2>1. d # NULL  BY <1>1
  <2>2. segs[d].own = segs[s].own /\ Size(s) < Size(d)
    BY <2>1, <1>0 DEF LinksGrow
  <2> QED  BY <2>2, <1>1
<1>5. \A r \in live' : r # d /\ r \in DOMAIN segs /\ r \in live /\ segs[r].cur # d
  <2> SUFFICES ASSUME NEW r \in live'
               PROVE  r # d /\ r \in DOMAIN segs /\ r \in live /\ segs[r].cur # d
    OBVIOUS
  <2>1. r \in live /\ r # segs[d].own  OBVIOUS
  <2>2. segs[r].own = r /\ segs[segs[r].cur].own = r  BY <2>1, <1>0 DEF Handles
  <2> QED  BY <2>1, <2>2, <1>1
<1>6. TypeOK'
  <2>1. segs' = [t \in DOMAIN segs \ {d} |-> segs[t]]  BY DEF Unmap
  <2>2. segs' \in [DOMAIN segs' -> Segment]  BY <2>1, <1>1
  <2>3. segs[d].next \in Nat  BY <1>1 DEF Segment
  <2>4. live' \subseteq DOMAIN segs'  BY <1>2, <1>5
  <2> QED  BY <2>2, <2>3, <2>4, <1>0, <1>2 DEF TypeOK
<1>7. SegmentShape' /\ SegmentsApart'
  BY <1>0, <1>2 DEF SegmentShape, SegmentsApart
<1>8. LinksGrow'
  BY <1>0, <1>2, <1>3, <1>4 DEF LinksGrow
<1>9. LinksCover'
  <2> SUFFICES ASSUME NEW s \in DOMAIN segs', NEW t \in DOMAIN segs',
                      s # t, segs'[s].own = segs'[t].own
               PROVE  /\ Size(s)' # Size(t)'
                      /\ Size(s)' < Size(t)' => /\ segs'[s].next # NULL
                                               /\ Size(segs[s].next)' <= Size(t)'
    BY DEF LinksCover
  <2>1. /\ Size(s) # Size(t)
        /\ Size(s) < Size(t) => /\ segs[s].next # NULL
                                /\ Size(segs[s].next) <= Size(t)
    BY <1>0, <1>2 DEF LinksCover
  <2>2. segs[s].next # NULL => segs[s].next \in DOMAIN segs'
    BY <1>0, <1>2, <1>4 DEF LinksGrow
  <2> QED  BY <2>1, <2>2, <1>2, <1>3
<1>10. Handles'
  <2> SUFFICES ASSUME NEW r \in live'
               PROVE  /\ segs'[r].own = r
                      /\ \A s \in DOMAIN segs' :
                            segs'[s].own = r => Size(r)' <= Size(s)'
                      /\ segs'[r].cur \in DOMAIN segs'
                      /\ segs'[segs'[r].cur].own = r
                      /\ segs'[segs'[r].cur].next = NULL
    BY DEF Handles
  <2> QED  BY <1>0, <1>2, <1>3, <1>5 DEF Handles
<1>11. Doomed'
  <2>1. ASSUME doomed' # NULL
        PROVE  doomed' \in DOMAIN segs' /\ segs'[doomed'].own \notin live'
    <3>1. segs[d].next \in DOMAIN segs /\ segs[segs[d].next].own = segs[d].own
      BY <2>1, <1>0, <1>2 DEF LinksGrow
    <3> QED  BY <3>1, <1>2, <1>4
  <2>2. ASSUME NEW s \in DOMAIN segs', segs'[s].own \notin live'
        PROVE  /\ doomed' # NULL
               /\ segs'[doomed'].own = segs'[s].own
               /\ Size(doomed)' <= Size(s)'
    <3>1. s \in DOMAIN segs /\ s # d /\ segs'[s].own = segs[s].own  BY <1>2
    <3>2. segs[s].own = segs[d].own
      <4>1. CASE segs[s].own \in live  BY <2>2, <3>1, <4>1
      <4>2. CASE segs[s].own \notin live
        BY <3>1, <4>2, <1>0 DEF Doomed
      <4> QED  BY <4>1, <4>2
    <3>3. Size(d) < Size(s)
      BY <3>1, <3>2, <1>0, <1>1 DEF LinksCover
    <3>4. segs[d].next # NULL /\ Size(segs[d].next) <= Size(s)
      BY <3>1, <3>2, <3>3, <1>0 DEF LinksCover
    <3>5. segs[d].next \in DOMAIN segs /\ segs[segs[d].next].own = segs[d].own
      BY <3>4, <1>0 DEF LinksGrow
    <3>6. doomed' \in DOMAIN segs'  BY <3>5, <1>2, <1>4
    <3> QED  BY <3>1, <3>2, <3>4, <3>5, <3>6, <1>2, <1>3
  <2> QED  BY <2>1, <2>2 DEF Doomed
<1>12. BlocksLive' /\ BlocksApart' /\ BlocksAligned'
  BY <1>0 DEF BlocksLive, BlocksApart, BlocksAligned
<1>13. BlocksOwned'
  BY <1>0, <1>2 DEF BlocksOwned
<1> QED
  BY <1>6, <1>7, <1>8, <1>9, <1>10, <1>11, <1>12, <1>13 DEF IInv

\* destroy_region unmaps its first segment.
LEMMA DestroyIInv ==
    ASSUME IInv, NEW reg \in live, destroy_region(reg)
    PROVE  IInv'
<1>1. reg \in DOMAIN segs  BY DEF IInv, TypeOK
<1>2. /\ segs[reg].own = reg
      /\ \A s \in DOMAIN segs : segs[s].own = reg => Size(reg) <= Size(s)
  BY DEF IInv, Handles
<1>3. /\ doomed = NULL /\ Unmap(reg) /\ live' = live \ {reg}
      /\ blocks' = {b \in blocks : b.reg # reg}
  BY DEF destroy_region
<1> QED  BY <1>1, <1>2, <1>3, UnmapIInv

\* The loop of destroy_region unmaps the next one.
LEMMA DestroyNextIInv ==
    ASSUME IInv, DestroyNext
    PROVE  IInv'
<1>1. doomed # NULL /\ Unmap(doomed) /\ live' = live /\ blocks' = blocks
  BY DEF DestroyNext
<1>2. doomed \in DOMAIN segs /\ segs[doomed].own \notin live
  BY <1>1 DEF IInv, Doomed
<1>3. \A s \in DOMAIN segs : segs[s].own = segs[doomed].own => Size(doomed) <= Size(s)
  BY <1>2 DEF IInv, Doomed
<1>4. live' = live \ {segs[doomed].own}  BY <1>1, <1>2
<1>5. blocks' = {b \in blocks : b.reg # segs[doomed].own}
  BY <1>1, <1>2 DEF IInv, BlocksLive
<1> QED  BY <1>1, <1>2, <1>3, <1>4, <1>5, UnmapIInv

\* region_alloc, with a segment that has room or a new one.
LEMMA AllocIInv ==
    ASSUME IInv, NEW reg \in live, NEW len \in Lens, region_alloc(reg, len)
    PROVE  IInv'
<1> DEFINE n == pad_size(len, Alignment)
<1>1. len \in Nat  BY RequestsAssumption
<1>2. n \in Nat /\ n >= len /\ n % Alignment = 0
  BY <1>1, PadSize, SizesAssumption
<1>3. AllocHere(reg, len, n) \/ AllocGrow(reg, len, n)
  BY DEF region_alloc
<1>4. UNCHANGED <<live, doomed>>  BY DEF region_alloc
<1> HIDE DEF n
<1> QED  BY <1>1, <1>2, <1>3, <1>4, AllocHereIInv, AllocGrowIInv

\* Every step keeps the invariant.
LEMMA NextIInv == IInv /\ [Next]_vars => IInv'
<1> SUFFICES ASSUME IInv, [Next]_vars PROVE IInv'  OBVIOUS
<1>1. ASSUME NEW cap \in Caps, create_region(cap) PROVE IInv'
  BY <1>1, CreateIInv
<1>2. ASSUME NEW reg \in live, NEW len \in Lens, region_alloc(reg, len) PROVE IInv'
  BY <1>2, AllocIInv
<1>3. ASSUME NEW reg \in live, destroy_region(reg) PROVE IInv'
  BY <1>3, DestroyIInv
<1>4. CASE DestroyNext
  BY <1>4, DestroyNextIInv
<1>5. CASE UNCHANGED vars
  BY <1>5 DEF vars, IInv, TypeOK, SegmentShape, SegmentsApart, LinksGrow,
     LinksCover, Handles, Doomed, BlocksLive, BlocksOwned, BlocksApart,
     BlocksAligned, Size, Apart
<1> QED  BY <1>1, <1>2, <1>3, <1>4, <1>5 DEF Next

\* The chain of segments and the blocks are what create_region, region_alloc
\* and destroy_region take them for, at every step of every behaviour.
THEOREM SpecIInv == Spec => []IInv
<1> QED  BY InitIInv, NextIInv, PTL DEF Spec

-----------------------------------------------------------------------------
(* The properties.                                                          *)

\* region_alloc never hands out a byte twice, and what it hands out is mapped
\* memory of the region, aligned and clear of the headers.
THEOREM AllocationSafe == Spec => [](TypeOK /\ BlocksApart /\ BlocksOwned /\ BlocksAligned)
<1>1. IInv => TypeOK /\ BlocksApart /\ BlocksOwned /\ BlocksAligned
  BY DEF IInv
<1> QED  BY <1>1, SpecIInv, PTL

\* No link that region_alloc or destroy_region follows is dangling.
THEOREM LinksSafe == Spec => []LinksMapped
<1>1. IInv => LinksMapped
  BY DEF IInv, LinksMapped, Handles, Doomed
<1> QED  BY <1>1, SpecIInv, PTL

\* destroy_region gives back every segment of its region.
THEOREM DestroyComplete == Spec => []NothingLeaks
<1>1. IInv => NothingLeaks
  BY DEF IInv, NothingLeaks, Doomed
<1> QED  BY <1>1, SpecIInv, PTL

-----------------------------------------------------------------------------
(* Refinement: Region implements Arena.                                     *)

\* A step of region_alloc is an allocation of Arena, or a repeated allocation
\* of no bytes, which gives the client nothing.
LEMMA AllocRefines ==
    ASSUME IInv, NEW reg \in live, NEW len \in Lens, region_alloc(reg, len)
    PROVE  A!AAlloc \/ UNCHANGED <<live, blocks>>
<1> DEFINE n == pad_size(len, Alignment)
<1>1. len \in Nat /\ reg \in Nat
  BY RequestsAssumption DEF IInv, TypeOK
<1>2. n \in Nat /\ n >= len /\ n % Alignment = 0
  BY <1>1, PadSize, SizesAssumption
<1>3. AllocHere(reg, len, n) \/ AllocGrow(reg, len, n)
  BY DEF region_alloc
<1>4. live' = live  BY DEF region_alloc
<1>5. IInv'  BY AllocIInv
<1> HIDE DEF n
<1>6. \E a \in Nat : blocks' = blocks \union {[reg |-> reg, addr |-> a, len |-> len]}
  <2>1. CASE AllocHere(reg, len, n)
    <3>1. segs[reg].cur \in DOMAIN segs  BY DEF IInv, Handles
    <3>2. segs[segs[reg].cur].ptr \in Nat  BY <3>1 DEF IInv, TypeOK, Segment
    <3> QED  BY <2>1, <3>2 DEF AllocHere
  <2>2. CASE AllocGrow(reg, len, n)
    <3> DEFINE size == SegmentLen(n + 2 * (segs[segs[reg].cur].end - segs[reg].cur))
    <3>1. PICK a \in mmap(size) :
            blocks' = blocks \union {[reg |-> reg, addr |-> a + HeaderSize, len |-> len]}
      BY <2>2 DEF AllocGrow
    <3>2. a + HeaderSize \in Nat  BY SizesAssumption DEF mmap
    <3> QED  BY <3>1, <3>2
  <2> QED  BY <1>3, <2>1, <2>2
<1>7. PICK a \in Nat : blocks' = blocks \union {[reg |-> reg, addr |-> a, len |-> len]}
  BY <1>6
<1> DEFINE new == [reg |-> reg, addr |-> a, len |-> len]
<1>8. CASE new \in blocks
  BY <1>4, <1>7, <1>8
<1>9. CASE new \notin blocks
  <2>1. \A b \in blocks : A!Apart(b, new)
    BY <1>5, <1>7, <1>9 DEF IInv, BlocksApart, Apart, A!Apart
  <2> QED  BY <2>1, <1>4, <1>7 DEF A!AAlloc
<1> QED  BY <1>8, <1>9

\* Every step is one of the abstract arena, or none.
LEMMA NextRefines == IInv /\ [Next]_vars => [A!ANext]_(A!avars)
<1> SUFFICES ASSUME IInv, [Next]_vars PROVE [A!ANext]_(A!avars)  OBVIOUS
<1> USE DEF A!ANext, A!avars
<1>1. ASSUME NEW cap \in Caps, create_region(cap) PROVE A!ACreate
  <2>0. cap \in Nat  BY RequestsAssumption
  <2>1. PICK a \in mmap(SegmentLen(cap)) : live' = live \union {a}
    BY <1>1 DEF create_region
  <2>2. blocks' = blocks  BY <1>1 DEF create_region
  <2>3. SegmentLen(cap) \in Nat /\ SegmentLen(cap) > 0
    BY <2>0, SegmentLenFacts, SizesAssumption
  <2>4. a \notin DOMAIN segs  BY <2>3, MmapFacts DEF IInv
  <2>5. a \notin live  BY <2>4 DEF IInv, TypeOK
  <2> QED  BY <2>1, <2>2, <2>5 DEF A!ACreate
<1>2. ASSUME NEW reg \in live, NEW len \in Lens, region_alloc(reg, len)
      PROVE  A!AAlloc \/ UNCHANGED <<live, blocks>>
  BY <1>2, AllocRefines
<1>3. ASSUME NEW reg \in live, destroy_region(reg) PROVE A!ADestroy
  BY <1>3 DEF destroy_region, A!ADestroy
<1>4. CASE DestroyNext
  BY <1>4 DEF DestroyNext
<1>5. CASE UNCHANGED vars
  BY <1>5 DEF vars
<1> QED  BY <1>1, <1>2, <1>3, <1>4, <1>5 DEF Next

\* The regions of the code implement the arenas of Arena.tla: every behaviour
\* of the segments is, to the clients, one of blocks that do not meet.
THEOREM RegionImplementsArena == Spec => ImplementsArena
<1>1. Init => A!AInit  BY DEF Init, A!AInit
<1> QED  BY <1>1, SpecIInv, NextRefines, PTL DEF Spec, ImplementsArena, A!ASpec
=============================================================================
