------------------------------- MODULE Malloc -------------------------------
(***************************************************************************)
(* The allocator of user programs, src/umalloc.c: a circular list of free  *)
(* blocks, kept in the order of addresses, in memory obtained from sbrk.   *)
(*                                                                         *)
(* An address counts headers, so that pointer arithmetic is arithmetic.    *)
(* base, in the program's data, is address 0; the heap begins at HeapStart *)
(* and cannot grow past HeapLimit (sbrk returns -1).  Requests are below   *)
(* 2^31 bytes, so that neither nunits nor sbrk's argument overflows.  The  *)
(* words of a header that ends, and ptr in a block that is handed out, are *)
(* forgotten (NULL and 0): the program may overwrite them.                 *)
(***************************************************************************)
EXTENDS Integers, FiniteSets

CONSTANTS
    HEADER,     \* bytes of a header
    MINCORE,    \* the least number of headers morecore asks for
    HeapStart, HeapLimit,
    Request,    \* the sizes malloc is called with, in bytes
    Gap         \* what the program asks sbrk for itself, in headers

ASSUME MallocAssumption ==
    /\ HEADER \in Nat \ {0} /\ MINCORE \in Nat
    /\ HeapStart \in Nat \ {0} /\ HeapLimit \in Nat
    /\ Request \subseteq Nat /\ Gap \subseteq Nat \ {0}

VARIABLES heap,   \* the headers (ptr and size), freep and the break
          live,   \* the blocks malloc returned: header, and bytes asked for
          taken,  \* history: the addresses the program got from sbrk itself
          refused \* history: the units of the last malloc that returned 0

mallocVars == <<heap, live, taken, refused>>

Address == 0..HeapLimit
base == 0
NULL == -1
NoCore == [failed |-> TRUE]

MallocInit ==
    /\ heap = [ptr |-> [a \in Address |-> NULL], size |-> [a \in Address |-> 0],
               freep |-> NULL, brk |-> HeapStart]
    /\ live = {} /\ taken = {} /\ refused = 0

-----------------------------------------------------------------------------
BetweenFault(h, p, bp) == bp > p \/ bp < h.ptr[p]

\* bp belongs behind p, between two free blocks or at an end of the list.
Between(h, p, bp) ==
    \/ bp > p /\ bp < h.ptr[p]
    \/ p >= h.ptr[p] /\ (bp > p \/ bp < h.ptr[p])

\* The loop of free, from p on.
RECURSIVE Place(_, _, _)
Place(h, p, bp) == IF Between(h, p, bp) THEN p ELSE Place(h, h.ptr[p], bp)

\* bp takes its place in front of p's successor, or swallows it.
JoinUpper(h, p, bp) ==
    LET next == h.ptr[p]
    IN  IF bp + h.size[bp] = next
        THEN [h EXCEPT !.size[bp] = @ + h.size[next], !.ptr[bp] = h.ptr[next],
                       !.size[next] = 0, !.ptr[next] = NULL]
        ELSE [h EXCEPT !.ptr[bp] = next]

JoinLower(h, p, bp) ==
    IF p + h.size[p] = bp
    THEN [h EXCEPT !.size[p] = @ + h.size[bp], !.ptr[p] = h.ptr[bp],
                   !.size[bp] = 0, !.ptr[bp] = NULL]
    ELSE [h EXCEPT !.ptr[p] = bp]

FreeBlock(h, bp) ==
    LET p == Place(h, h.freep, bp)
    IN  [JoinLower(JoinUpper(h, p, bp), p, bp) EXCEPT !.freep = p]

\* sbrk: the break moves, unless the limit is reached.
SbrkFails(h, nu) == h.brk + nu > HeapLimit + 1

Morecore(h, nunits) ==
    LET nu == IF nunits < MINCORE THEN MINCORE ELSE nunits
        hp == h.brk
    IN  IF SbrkFails(h, nu) THEN NoCore
        ELSE FreeBlock([h EXCEPT !.brk = @ + nu, !.size[hp] = nu], hp)

Units(nbytes) == (nbytes + HEADER - 1) \div HEADER + 1

\* p is large enough: unlink it, or cut nunits off its tail.
Cut(h, prevp, p, nunits) ==
    IF h.size[p] = nunits
    THEN [h EXCEPT !.ptr[prevp] = h.ptr[p], !.ptr[p] = NULL, !.freep = prevp]
    ELSE [h EXCEPT !.size[p] = @ - nunits,
                   !.size[p + h.size[p] - nunits] = nunits,
                   !.freep = prevp]

\* The loop of malloc, at p: the new heap and the header of the block.
RECURSIVE Search(_, _, _, _)
Search(h, prevp, p, nunits) ==
    IF h.size[p] >= nunits
    THEN [heap |-> Cut(h, prevp, p, nunits), block |-> p + h.size[p] - nunits]
    ELSE IF p # h.freep THEN Search(h, p, h.ptr[p], nunits)
         ELSE LET more == Morecore(h, nunits)
              IN  IF more = NoCore THEN [heap |-> h, block |-> NULL]
                  ELSE Search(more, more.freep, more.ptr[more.freep], nunits)

Started(h) ==
    IF h.freep # NULL THEN h
    ELSE [h EXCEPT !.ptr[base] = base, !.size[base] = 0, !.freep = base]

MallocCall(nbytes) ==
    \E h \in {Started(heap)} :
        \E found \in {Search(h, h.freep, h.ptr[h.freep], Units(nbytes))} :
            /\ heap' = found.heap
            /\ live' = IF found.block = NULL THEN live
                       ELSE live \cup {[at |-> found.block, bytes |-> nbytes]}
            /\ refused' = IF found.block = NULL THEN Units(nbytes) ELSE 0
            /\ UNCHANGED taken

FreeCall(b) ==
    /\ b \in live
    /\ heap' = FreeBlock(heap, b.at)
    /\ live' = live \ {b}
    /\ refused' = 0
    /\ UNCHANGED taken

\* The program moves the break on its own.
SbrkCall(n) ==
    /\ ~SbrkFails(heap, n)
    /\ heap' = [heap EXCEPT !.brk = @ + n]
    /\ taken' = taken \cup heap.brk..(heap.brk + n - 1)
    /\ UNCHANGED <<live, refused>>

MallocNext ==
    \/ \E n \in Request : MallocCall(n)
    \/ \E b \in live : FreeCall(b)
    \/ \E n \in Gap : SbrkCall(n)

MallocSpec == MallocInit /\ [][MallocNext]_mallocVars
-----------------------------------------------------------------------------
(***************************************************************************)
(* Properties.                                                             *)
(***************************************************************************)
\* The free blocks, by following the list from base.
RECURSIVE ListFrom(_, _)
ListFrom(p, n) ==
    IF n = 0 \/ heap.ptr[p] \in {base, NULL} THEN {p}
    ELSE {p} \cup ListFrom(heap.ptr[p], n - 1)

FreeList == IF heap.freep = NULL THEN {} ELSE ListFrom(base, HeapLimit)

Extent(a) == a..(a + heap.size[a] - 1)

\* The list that malloc and free walk is circular and goes through base in
\* the order of addresses; freep is on it, so that both loops end.
ListSorted ==
    heap.freep # NULL =>
        /\ heap.freep \in FreeList
        /\ \A p \in FreeList :
              \/ heap.ptr[p] = base /\ \A q \in FreeList : q <= p
              \/ heap.ptr[p] > p /\ \A q \in FreeList :
                                       q <= p \/ q >= heap.ptr[p]

\* Every address obtained from sbrk is in exactly one block: free, returned
\* by malloc and not freed since, or the program's own.  Splitting and
\* joining loses no memory, and no two blocks overlap.
HeapPartitioned ==
    LET blocks == FreeList \cup {b.at : b \in live}
    IN  /\ UNION {Extent(a) : a \in blocks} = (HeapStart..(heap.brk - 1)) \ taken
        /\ \A a, b \in blocks : a # b => Extent(a) \cap Extent(b) = {}
        /\ \A b, c \in live : b.at = c.at => b = c

\* A block that malloc returned has room for the bytes asked for after its
\* header, for as long as it is live.
RoomForRequest ==
    \A b \in live : (heap.size[b.at] - 1) * HEADER >= b.bytes

\* free joins neighbours: no two free blocks touch, so that malloc returns
\* 0 only when neither a free block nor sbrk can serve the request.
Coalesced ==
    /\ \A p, q \in FreeList : p # base => p + heap.size[p] # q
    /\ refused # 0 => \A p \in FreeList : heap.size[p] < refused

\* malloc and free keep the heap whole: a sorted circular list of free
\* blocks that do not touch, and live blocks large enough, which together
\* are all the memory that morecore obtained.
HeapSound == ListSorted /\ HeapPartitioned /\ RoomForRequest /\ Coalesced

=============================================================================
