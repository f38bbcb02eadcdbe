-------------------------------- MODULE Lists --------------------------------
(***************************************************************************)
(* The linked lists of bootstrap/list.c.  A list is the address of its     *)
(* first cell, or nil, a cell that is its own rest and whose address is 0  *)
(* here.  prepend and lst make lists that share the cells of another one,  *)
(* which link_symbols relies on to extend its scopes; append and           *)
(* append_list write into the last cell of a list, which every list that   *)
(* shares the cell would see.                                              *)
(*                                                                         *)
(* What keeps that from happening is how the compiler uses lists           *)
(* (FileLists).  map and concat, which nothing calls, are left out.        *)
(***************************************************************************)
EXTENDS Naturals, Sequences, FiniteSets, SequencesExt, TLC

CONSTANTS Data,       \* what the cells hold
          Holders,    \* the variables of type list
          MaxCells    \* bound: cells in use

ASSUME CellsAssumption == MaxCells \in Nat

VARIABLES cells,      \* the cells of the lists in use, by address: [fst, rst]
          held,       \* the list in each variable
          found       \* what not_subset has just returned: <<>> for NULL

vars == <<cells, held, found>>

nil == 0

Cell(fst, rst) == [fst |-> fst, rst |-> rst]

-----------------------------------------------------------------------------
(* Going through a list.                                                    *)

\* The first cells of the list at a, at most n, in the order of foreach.
RECURSIVE Walk(_, _, _)
Walk(heap, a, n) ==
    IF a = nil \/ n = 0 THEN <<>> ELSE <<a>> \o Walk(heap, heap[a].rst, n - 1)

\* All of them: without a circle no list is longer than the heap.
Path(heap, a) == Walk(heap, a, Cardinality(DOMAIN heap))

\* The list at a comes to nil.
Ends(heap, a) == a = nil \/ heap[Last(Path(heap, a))].rst = nil

\* The data that foreach goes through.
Items(a) == LET path == Path(cells, a) IN [i \in DOMAIN path |-> cells[path[i]].fst]

length(a) == Len(Path(cells, a))

-----------------------------------------------------------------------------
(* The operations.                                                          *)

\* The variable h is given the list at a.  Cells that no variable leads to any
\* more stay allocated in the code; nothing reads them, and they are left out.
Hold(heap, h, a) ==
    /\ held' = [held EXCEPT ![h] = a]
    /\ cells' = LET used == UNION {Range(Path(heap, held'[g])) : g \in Holders}
                IN  [at \in used |-> heap[at]]
    /\ found' = <<>>

\* region_alloc: addresses that no cell has.
Fresh(n) ==
    LET free == (1 .. MaxCells) \ DOMAIN cells
    IN  [i \in 1 .. n |-> CHOOSE at \in free : Cardinality({b \in free : b < at}) = i - 1]
Room(n) == Cardinality(DOMAIN cells) + n <= MaxCells

\* The cells that prepending the items to nil one by one leads to: the last
\* one is the head.
Prepended(items, at) ==
    [c \in Range(at) |-> LET i == SelectInSeq(at, LAMBDA x : x = c)
                         IN  Cell(items[i], IF i = 1 THEN nil ELSE at[i - 1])]

\* h is made to point at nil, or to the list in another variable.
Clear(h)     == Hold(cells, h, nil)
Assign(h, g) == Hold(cells, h, held[g])

\* *l = new, l being where the walk over the list in h has come to its end.
LinkEnd(h, heap, new) ==
    IF held[h] = nil
    THEN Hold(heap, h, new)
    ELSE Hold([heap EXCEPT ![Last(Path(cells, held[h]))].rst = new], h, held[h])

append(data, h) ==
    /\ Room(1)
    /\ LET new == Fresh(1)[1]
       IN  LinkEnd(h, cells @@ (new :> Cell(data, nil)), new)

append_list(h, snd) == LinkEnd(h, cells, held[snd])

lst(data, g, h) ==
    /\ Room(1)
    /\ LET new == Fresh(1)[1]
       IN  Hold(cells @@ (new :> Cell(data, held[g])), h, new)

prepend(data, h) == lst(data, h, h)

\* A new list of the items prepended one by one is given to h.
PrependAll(items, h) ==
    /\ Room(Len(items))
    /\ LET at == Fresh(Len(items))
       IN  Hold(cells @@ Prepended(items, at), h, IF at = <<>> THEN nil ELSE Last(at))

reverse(g, h) == PrependAll(Items(held[g]), h)

\* Where in the list at a the first item equal to data is; 0 for NULL.
exists(a, data) == SelectInSeq(Items(a), LAMBDA d : d = data)

not_subset(a, b) ==
    LET first == SelectInSeq(Items(held[a]), LAMBDA d : exists(held[b], d) = 0)
    IN  /\ found' = IF first = 0 THEN <<>> ELSE <<Items(held[a])[first]>>
        /\ UNCHANGED <<cells, held>>

-----------------------------------------------------------------------------
Init == cells = << >> /\ held = [h \in Holders |-> nil] /\ found = <<>>

-----------------------------------------------------------------------------
\* Every variable has its type: links lead to cells that exist.
TypeOK ==
    /\ DOMAIN cells \subseteq 1 .. MaxCells
    /\ cells \in [DOMAIN cells -> [fst : Data, rst : DOMAIN cells \union {nil}]]
    /\ held \in [Holders -> DOMAIN cells \union {nil}]
    /\ found \in {<<>>} \union {<<d>> : d \in Data}

\* The items of a list; a circle, on which foreach would not return, is none.
ValueOf(a) == IF Ends(cells, a) THEN Items(a) ELSE <<"circle">>

\* Lists behave as values although they share cells and append and append_list
\* write into them: an operation on one variable is never seen through another,
\* and no list becomes circular.
Values == INSTANCE ListValues WITH value  <- [h \in Holders |-> ValueOf(held[h])],
                                   answer <- found
ImplementsValues == Values!VSpec
=============================================================================
