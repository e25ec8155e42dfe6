----------------------------- MODULE KernelHeap -----------------------------
(***************************************************************************)
(* kmalloc and kfree of kern/mm/kmalloc.c: the SLOB list of free blocks and *)
(* the big blocks that come straight from the page allocator.               *)
(*                                                                         *)
(* Memory is counted in units of SLOB_UNIT bytes; a block is known by its   *)
(* first unit.  Page p begins at unit p * PU; page 0 is the kernel's data   *)
(* with the block arena at its beginning.  No call is made from an          *)
(* interrupt, so calls do not interleave.                                   *)
(***************************************************************************)
EXTENDS Integers, Sequences, FiniteSets, FiniteSetsExt, Functions, TLC

CONSTANTS
    SLOB_UNIT,            \* bytes of a unit
    PU,                   \* units of a page
    BB,                   \* units of a bigblock_t
    NPAGES,
    Sizes,                \* what may be asked for, in bytes
    NULL

PAGE_SIZE == PU * SLOB_UNIT
arena == 0

HeapAssumption ==
    /\ SLOB_UNIT \in Nat \ {0} /\ NPAGES \in Nat
    /\ BB \in 1..PU - 1 /\ BB > 1
    /\ Sizes \subseteq Nat \ {0}

Pages == 1..NPAGES
Units == {arena} \cup PU..(NPAGES + 1) * PU - 1

VARIABLES
    slob,           \* the ring of free blocks from slobfree on, and the units
                    \* in the header of each block (0: no block begins here)
    pages,          \* the pages that are free
    bigblocks,      \* the set of [bb, order, page]
    live,           \* history: [block, size] handed out and not freed
    panic           \* an assertion has stopped the kernel

vars == <<slob, pages, bigblocks, live, panic>>

Init ==
    /\ slob = [list |-> <<arena>>, units |-> [u \in Units |-> IF u = arena THEN 1 ELSE 0]]
    /\ pages = Pages
    /\ bigblocks = {}
    /\ live = {}
    /\ panic = FALSE

SLOB_UNITS(size) == (size + SLOB_UNIT - 1) \div SLOB_UNIT
-----------------------------------------------------------------------------
(* The ring from block k of the list on.                                    *)
Rotate(list, k) == SubSeq(list, k, Len(list)) \o SubSeq(list, 1, k - 1)
Next1(list, k) == list[(k % Len(list)) + 1]

(* Where slob_free puts block b: between the two neighbours, or at the      *)
(* place where the ring begins again.                                       *)
Reinsertion(list, b) ==
    Min({k \in 1..Len(list) :
           LET cur == list[k]
               next == Next1(list, k)
           IN  (b > cur /\ b < next) \/ (cur >= next /\ (b > cur \/ b < next))})

(* Mutant: the block is not joined with the free block before it.           *)
slob_freeApart(s, b, n) ==
    LET ring == Rotate(s.list, Reinsertion(s.list, b))
        after == Next1(ring, 1)
        joined == b + n = after
        size == IF joined THEN n + s.units[after] ELSE n
        rest == IF joined THEN Tail(Tail(ring)) ELSE Tail(ring)
    IN  [list |-> <<ring[1], b>> \o rest, units |-> [s.units EXCEPT ![b] = size]]

(* slob_free of the n units from b on: joined with the free block behind    *)
(* and the one before it, which becomes slobfree.                           *)
slob_free(s, b, n) ==
    LET ring == Rotate(s.list, Reinsertion(s.list, b))
        cur == ring[1]
        after == Next1(ring, 1)
        joined == b + n = after
        size == IF joined THEN n + s.units[after] ELSE n
        rest == IF joined THEN Tail(Tail(ring)) ELSE Tail(ring)
    IN  IF cur + s.units[cur] = b
        THEN [list |-> <<cur>> \o rest,
              units |-> [s.units EXCEPT ![cur] = @ + size, ![b] = 0, ![after] = IF joined THEN 0 ELSE @]]
        ELSE [list |-> <<cur, b>> \o rest,
              units |-> [s.units EXCEPT ![after] = IF joined THEN 0 ELSE @, ![b] = size]]

(* The search of slob_alloc begins behind slobfree and ends with it.        *)
Fits(s, n) == {k \in 1..Len(s.list) : s.units[Rotate(s.list, 2)[k]] >= n}

(* slob_alloc when a block fits: the whole block or its front part; the one *)
(* before it becomes slobfree.                                              *)
Take(s, n) ==
    LET ring == Rotate(s.list, Min(Fits(s, n)))
        cur == ring[2]
        left == s.units[cur] - n
    IN  [cur |-> cur,
         slob |-> [list |-> <<ring[1]>> \o (IF left = 0 THEN <<>> ELSE <<cur + n>>) \o Tail(Tail(ring)),
                   units |-> IF left = 0 THEN s.units
                             ELSE [s.units EXCEPT ![cur] = n, ![cur + n] = left]]]

(* slob_alloc of n units.  If nothing fits a page is added to the list and  *)
(* the search begins again; cur is NULL without memory.                     *)
slob_alloc(s, free, n) ==
    LET p == Min(free)
        none == [cur |-> NULL, slob |-> s, pages |-> free]
    IN  IF Fits(s, n) # {} THEN [pages |-> free] @@ Take(s, n)
        ELSE IF free = {} THEN none
        ELSE [pages |-> free \ {p}] @@ Take(slob_free(s, p * PU, PU), n)
-----------------------------------------------------------------------------
(* find_order: the size is halved, rounding down, until a page holds it.    *)
find_order(size) ==
    LET order[s \in 0..size] == IF s > PAGE_SIZE THEN 1 + order[s \div 2] ELSE 0
    IN  order[size]

(* alloc_pages of 2^order pages in a row, the lowest ones.                  *)
Runs(free, order) == {p \in free : p..p + 2^order - 1 \subseteq free}

(* __kmalloc of a small block, with its header in front.                    *)
kmalloc(size) ==
    LET r == slob_alloc(slob, pages, SLOB_UNITS(size + SLOB_UNIT))
    IN  /\ ~ panic
        /\ size < PAGE_SIZE - SLOB_UNIT
        /\ size + SLOB_UNIT + SLOB_UNIT < PAGE_SIZE
        /\ slob' = r.slob
        /\ pages' = r.pages
        /\ live' = IF r.cur = NULL THEN live ELSE live \cup {[block |-> r.cur + 1, size |-> size]}
        /\ UNCHANGED <<bigblocks, panic>>

(* The assertion of slob_alloc fails for it.                                *)
kmalloc_panics(size) ==
    /\ ~ panic
    /\ size < PAGE_SIZE - SLOB_UNIT
    /\ ~ size + SLOB_UNIT + SLOB_UNIT < PAGE_SIZE
    /\ panic' = TRUE
    /\ UNCHANGED <<slob, pages, bigblocks, live>>

(* __kmalloc of pages, with a bigblock_t in the list; that is freed again   *)
(* if there are no pages.                                                   *)
kmalloc_big(size) ==
    LET r == slob_alloc(slob, pages, BB)
        order == find_order(size)
        p == Min(Runs(r.pages, order))
    IN  /\ ~ panic
        /\ size >= PAGE_SIZE - SLOB_UNIT
        /\ \/ /\ r.cur = NULL \/ Runs(r.pages, order) = {}
              /\ slob' = IF r.cur = NULL THEN r.slob ELSE slob_free(r.slob, r.cur, BB)
              /\ pages' = r.pages
              /\ UNCHANGED <<bigblocks, live>>
           \/ /\ r.cur # NULL /\ Runs(r.pages, order) # {}
              /\ slob' = r.slob
              /\ pages' = r.pages \ (p..p + 2^order - 1)
              /\ bigblocks' = bigblocks \cup {[bb |-> r.cur, order |-> order, page |-> p]}
              /\ live' = live \cup {[block |-> p * PU, size |-> size]}
        /\ UNCHANGED panic

(* kfree: a block at the beginning of a page may be a big one.              *)
kfree(a) ==
    LET big == {b \in bigblocks : b.page * PU = a.block}
    IN  /\ ~ panic
        /\ a \in live
        /\ live' = live \ {a}
        /\ \/ \E b \in big :
                /\ bigblocks' = bigblocks \ {b}
                /\ pages' = pages \cup (b.page..b.page + 2^b.order - 1)
                /\ slob' = slob_free(slob, b.bb, BB)
           \/ /\ big = {}
              /\ slob' = slob_free(slob, a.block - 1, slob.units[a.block - 1])
              /\ UNCHANGED <<bigblocks, pages>>
        /\ UNCHANGED panic

Next ==
    \/ \E size \in Sizes : kmalloc(size) \/ kmalloc_panics(size) \/ kmalloc_big(size)
    \/ \E a \in live : kfree(a)

Spec == Init /\ [][Next]_vars
-----------------------------------------------------------------------------
FreeBlocks == Range(slob.list)
Small == {a \in live : \A b \in bigblocks : b.page * PU # a.block}

TypeOK ==
    /\ slob.list \in Seq(Units)
    /\ slob.units \in [Units -> Nat]
    /\ pages \subseteq Pages

(* The units of every block there is: free, allocated, a header of a big    *)
(* block, a big block, a free page.                                         *)
Extents ==
         {[at |-> u, n |-> slob.units[u], as |-> "free"] : u \in FreeBlocks}
    \cup {[at |-> a.block - 1, n |-> slob.units[a.block - 1], as |-> "live"] : a \in Small}
    \cup {[at |-> b.bb, n |-> BB, as |-> "header"] : b \in bigblocks}
    \cup {[at |-> b.page * PU, n |-> 2^b.order * PU, as |-> "big"] : b \in bigblocks}
    \cup {[at |-> p * PU, n |-> PU, as |-> "page"] : p \in pages}

(* Memory is cut into these blocks: they do not overlap and nothing is      *)
(* left over.                                                               *)
Partitioned ==
    /\ \A x, y \in Extents : x # y => x.at + x.n <= y.at \/ y.at + y.n <= x.at
    /\ UNION {x.at..x.at + x.n - 1 : x \in Extents} = Units

(* The free list is one ring in the order of addresses, with the last block *)
(* before arena, and its blocks do not touch: they have been joined.        *)
RingSorted ==
    /\ \A k \in 1..Len(slob.list) :
         LET above == {v \in FreeBlocks : v > slob.list[k]}
         IN  Next1(slob.list, k) = IF above = {} THEN arena ELSE Min(above)
    /\ \A u, v \in FreeBlocks : u + slob.units[u] # v

(* A small block has room for what was asked.                               *)
SmallFits ==
    \A a \in Small : (slob.units[a.block - 1] - 1) * SLOB_UNIT >= a.size

(* A big block is short of what was asked by less than one byte for every   *)
(* page it has, which is what find_order loses in rounding, and it is not   *)
(* twice as large as it has to be.                                          *)
BigNearlyFits ==
    \A a \in live, b \in bigblocks : b.page * PU = a.block =>
       /\ a.size < 2^b.order * (PAGE_SIZE + 1)
       /\ b.order > 0 => a.size > 2^(b.order - 1) * PAGE_SIZE

(* What holds over all calls of kmalloc and kfree: memory is partitioned,   *)
(* the ring of free blocks is sorted and joined, and a block has room for   *)
(* what was asked, as far as find_order provides it.                        *)
HeapInv == TypeOK /\ Partitioned /\ RingSorted /\ SmallFits /\ BigNearlyFits
=============================================================================
