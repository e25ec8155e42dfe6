-------------------------------- MODULE Buddy --------------------------------
(* The buddy page allocator of lab2 (buddy_pmm.c): blocks of 2^order pages,  *)
(* one free list per order, split on allocation and joined on release.  A    *)
(* page is its index in the array pages; its physical page number is nbase   *)
(* more.  Pages below First hold the kernel and the array itself.            *)
EXTENDS Integers, Sequences, FiniteSets, SequencesExt, FiniteSetsExt

CONSTANTS
    nbase,           \* number of the first physical page, DRAM_BASE / PGSIZE
    NPAGES,          \* length of the array pages
    First,           \* the first page given to buddy_init_memmap
    MAX_ORDER,
    NULL

BuddyAssumption ==
    /\ NPAGES \in Nat /\ First \in 0 .. NPAGES - 1
    /\ nbase \in Nat /\ nbase >= NPAGES
    /\ MAX_ORDER \in Nat /\ 2 ^ MAX_ORDER > NPAGES
    /\ NULL \notin Nat

VARIABLES
    property,        \* order of the block a page heads
    PageProperty,    \* pages whose flag PG_property is set
    free_list,       \* order -> sequence of pages
    nr_free,         \* order -> number
    held,            \* what callers have: a set of <<first page, n>>
    stray            \* a join has taken other memory for a free block

vars == <<property, PageProperty, free_list, nr_free, held, stray>>

Orders == 0 .. MAX_ORDER - 1
Managed == First .. NPAGES - 1
npage == nbase + NPAGES

\* Least order whose block holds n pages: the loops over 1UL << order.
Order(n) == Min({o \in 0 .. n : 2 ^ o >= n})

(* get_buddy_page: the number of the buddy is the page's with one bit turned *)
(* over.  The array is indexed with it as it is, without taking nbase off.   *)
get_buddy_page(page, order) ==
    LET ppn == page + nbase
        buddy_ppn == IF (ppn \div 2 ^ order) % 2 = 0 THEN ppn + 2 ^ order
                     ELSE ppn - 2 ^ order
    IN  IF buddy_ppn >= npage THEN NULL ELSE buddy_ppn

\* PageProperty(buddy) && page_order(buddy) == order, in the array.
IsFreeBlock(s, buddy, order) ==
    buddy # NULL /\ buddy < NPAGES /\ buddy \in s.flags /\ s.property[buddy] = order

(* The same of an index past the array: pages[buddy_ppn] is then in memory   *)
(* that the allocator gives out, and what its holders have written there may *)
(* look like a free block of the order or not.                               *)
MayLookFree(buddy, order) == order < MAX_ORDER - 1 /\ buddy # NULL /\ buddy >= NPAGES

----------------------------------------------------------------------------
(* The state as one record, for the loops.                                   *)
Memory == [property |-> property, flags |-> PageProperty,
           list |-> free_list, nr |-> nr_free, beyond |-> FALSE]

SetMemory(s) ==
    /\ property' = s.property
    /\ PageProperty' = s.flags
    /\ free_list' = s.list
    /\ nr_free' = s.nr

\* A page becomes the head of a free block: list_add puts it in front.
Link(s, page, order) ==
    [s EXCEPT !.list[order] = <<page>> \o @, !.nr[order] = @ + 1]

\* list_del and the count.
Unlink(s, page, order) ==
    [s EXCEPT !.list[order] = SelectSeq(@, LAMBDA q : q # page),
              !.nr[order] = @ - 1]

\* set_page_order and SetPageProperty.
Mark(s, page, order) ==
    [s EXCEPT !.property[page] = order, !.flags = @ \cup {page}]

Unmark(s, page) == [s EXCEPT !.flags = @ \ {page}]

(* buddy_init_memmap: the first block has the largest power of two that is   *)
(* at most n, and half of that unless n is a power of two; then the rest.    *)
RECURSIVE buddy_init_memmap(_, _, _)
buddy_init_memmap(s, base, n) ==
    LET floor == Max({o \in Orders : 2 ^ o <= n})
        order == IF n # 2 ^ floor THEN floor - 1 ELSE floor
        t     == Link(Mark(s, base, order), base, order)
        rest  == n - 2 ^ order
    IN  IF rest > 0 THEN buddy_init_memmap(t, base + 2 ^ order, rest) ELSE t

Empty == [property |-> [p \in 0 .. NPAGES - 1 |-> 0], flags |-> {},
          list |-> [o \in Orders |-> <<>>], nr |-> [o \in Orders |-> 0]]

AtBoot == buddy_init_memmap(Empty, First, NPAGES - First)

Init ==
    /\ property = AtBoot.property
    /\ PageProperty = AtBoot.flags
    /\ free_list = AtBoot.list
    /\ nr_free = AtBoot.nr
    /\ held = {}
    /\ stray = FALSE

----------------------------------------------------------------------------
(* The split loop: the upper half of the block becomes free at each step     *)
(* down to the order wanted.                                                 *)

\* Mutant: the upper half is taken to begin a block too far.
RECURSIVE SplitFar(_, _, _, _)
SplitFar(s, page, current_order, order) ==
    IF current_order <= order THEN s
    ELSE LET o == current_order - 1
             buddy == Min({page + 2 ^ current_order, NPAGES - 1})
         IN  SplitFar(Link(Mark(s, buddy, o), buddy, o), page, o, order)

RECURSIVE Split(_, _, _, _)
Split(s, page, current_order, order) ==
    IF current_order <= order THEN s
    ELSE LET o == current_order - 1
             buddy == page + 2 ^ o
         IN  Split(Link(Mark(s, buddy, o), buddy, o), page, o, order)

\* Orders at which buddy_alloc_pages finds a block for n pages.
Candidates(n) == {o \in Orders : o >= Order(n) /\ free_list[o] # <<>>}

buddy_alloc_pages(n) ==
    /\ Candidates(n) # {}
    /\ LET current_order == Min(Candidates(n))
           page == Head(free_list[current_order])
           s == Unlink(Memory, page, current_order)
       IN  /\ SetMemory(Unmark(Split(s, page, current_order, Order(n)), page))
           /\ held' = held \cup {<<page, n>>}
           /\ UNCHANGED stray

(* The loop of buddy_free_pages that joins the block with its buddy, and     *)
(* whether it ended at a buddy past the array.                               *)
RECURSIVE Join(_, _, _)
Join(s, base, order) ==
    LET buddy == get_buddy_page(base, order)
        t     == Unmark(Unlink(s, buddy, order), buddy)
        low   == IF buddy < base THEN buddy ELSE base
    IN  IF order < MAX_ORDER - 1 /\ IsFreeBlock(s, buddy, order)
        THEN Join([t EXCEPT !.property[low] = order + 1], low, order + 1)
        ELSE [Link(s, base, order) EXCEPT !.beyond = MayLookFree(buddy, order)]

(* A join with such a buddy takes what its holder has written for links and  *)
(* stores through them; the model ends there.                                *)
buddy_free_pages(base, n) ==
    LET s == Join(Mark(Memory, base, Order(n)), base, Order(n))
    IN  /\ <<base, n>> \in held
        /\ \/ /\ SetMemory(s)
              /\ held' = held \ {<<base, n>>}
              /\ UNCHANGED stray
           \/ /\ s.beyond
              /\ stray' = TRUE
              /\ UNCHANGED <<property, PageProperty, free_list, nr_free, held>>

Alloc == \E n \in 1 .. NPAGES : buddy_alloc_pages(n)
Free == \E h \in held : buddy_free_pages(h[1], h[2])

Next == ~ stray /\ (Alloc \/ Free)

Spec == Init /\ [][Next]_vars

----------------------------------------------------------------------------
TypeOK ==
    /\ property \in [0 .. NPAGES - 1 -> Orders]
    /\ PageProperty \subseteq Managed
    /\ free_list \in [Orders -> Seq(Managed)]
    /\ nr_free \in [Orders -> 0 .. NPAGES]
    /\ held \subseteq Managed \X (1 .. NPAGES)

FreeBlocks == UNION {{<<p, o>> : p \in ToSet(free_list[o])} : o \in Orders}
HeldBlocks == {<<h[1], Order(h[2])>> : h \in held}
Pages(block) == block[1] .. block[1] + 2 ^ block[2] - 1

(* The free blocks and the blocks given out are disjoint and together are    *)
(* all the memory: nothing is given out twice and nothing gets lost.         *)
Tiled ==
    /\ UNION {Pages(b) : b \in FreeBlocks \cup HeldBlocks} = Managed
    /\ \A b, c \in FreeBlocks \cup HeldBlocks :
           b # c => Pages(b) \cap Pages(c) = {}
    /\ FreeBlocks \cap HeldBlocks = {}
    /\ Cardinality(HeldBlocks) = Cardinality(held)

(* PG_property and property are what the join loop believes: set exactly on  *)
(* the heads of free blocks, with their order.                               *)
FlagsExact ==
    /\ PageProperty = {b[1] : b \in FreeBlocks}
    /\ \A b \in FreeBlocks : property[b[1]] = b[2]

\* buddy_nr_free_pages counts the free pages.
buddy_nr_free_pages ==
    MapThenSumSet(LAMBDA o : nr_free[o] * 2 ^ o, Orders)
CountExact ==
    /\ \A o \in Orders : nr_free[o] = Len(free_list[o])
    /\ buddy_nr_free_pages =
           Cardinality(UNION {Pages(b) : b \in FreeBlocks})

(* What buddy_alloc_pages and buddy_free_pages keep over every sequence of   *)
(* calls up to a join that strays: blocks tile the memory, and lists, flags  *)
(* and counts agree.                                                         *)
BuddyInv == TypeOK /\ Tiled /\ FlagsExact /\ CountExact
=============================================================================
