---------------------------- MODULE MCAllocators ----------------------------
(***************************************************************************)
(* The allocators of memory: the page allocators with one free list, first  *)
(* and best fit (FreeList), the buddy system and the slab allocator of lab2 *)
(* (Buddy, Slub) and the kernel heap (KernelHeap).  The kernel runs one     *)
(* page allocator at a time, pmm_manager, and the models share no variable: *)
(* a behaviour is about one of them, `part', and the others rest.           *)
(***************************************************************************)
EXTENDS FreeList, Slub

CONSTANTS
    Parts,
    nbase, BuddyPages, First, MAX_ORDER,
    SLOB_UNIT, PU, BB, HeapPages, Sizes

VARIABLES
    part,
    buddy_property, PageProperty, free_list, buddy_nr_free, held, stray,
    slob, pages, bigblocks, live, panic

buddyvars == <<buddy_property, PageProperty, free_list, buddy_nr_free, held, stray>>
heapvars == <<slob, pages, bigblocks, live, panic>>
allvars == <<part, vars, buddyvars, slubvars, heapvars>>

B == INSTANCE Buddy WITH NPAGES <- BuddyPages, property <- buddy_property,
                         nr_free <- buddy_nr_free
H == INSTANCE KernelHeap WITH NPAGES <- HeapPages

(* The constants of lab2: sizeof(slab_t) is 56 on a machine of 64 bits.     *)
Lab2 == INSTANCE Slub WITH PGSIZE <- 4096, SLAB_STRUCT <- 56, SLAB_CACHE_SIZES <- <<32, 64, 128>>
ASSUME Lab2Fits == Lab2!SlabsFit

ASSUME PartsAssumption ==
    /\ Parts \subseteq {"free_list", "buddy", "slub", "heap"}
    /\ B!BuddyAssumption /\ H!HeapAssumption

AllocInit == part \in Parts /\ Init /\ B!Init /\ SlubInit /\ H!Init

List(A) == part = "free_list" /\ A /\ UNCHANGED <<part, buddyvars, slubvars, heapvars>>
Buddies(A) == part = "buddy" /\ A /\ UNCHANGED <<part, vars, slubvars, heapvars>>
Slubs(A) == part = "slub" /\ A /\ UNCHANGED <<part, vars, buddyvars, heapvars>>
Heap(A) == part = "heap" /\ A /\ UNCHANGED <<part, vars, buddyvars, slubvars>>

(* An assertion has stopped the kernel, or the model ends.                  *)
Halted == (panic \/ panicked \/ misread \/ stray) /\ UNCHANGED allvars

AllocNext ==
    \/ List(Next)
    \/ Buddies(B!Next) \/ Slubs(SlubNext) \/ Heap(H!Next)
    \/ Halted

(* A call that has begun goes on.                                           *)
AllocSpec ==
    /\ AllocInit /\ [][AllocNext]_allvars
    /\ WF_allvars(List(Work /\ UNCHANGED pmm_manager))

(* The links of a page that is not on the list and the property of a page   *)
(* that heads no block are never read before they are written again; the    *)
(* view leaves their leftover values out.                                   *)
ListView ==
    LET seen == (Listed \cup head \cup {HEAD}) \ {NIL}
    IN  <<pmm_manager, [e \in seen |-> <<next[e], prev[e]>>], [p \in head |-> property[p]],
          nr_free, used, pc, base, n, le, page, min_size>>

(* The parts that rest stay as they began.                                  *)
View ==
    <<part, CASE part = "free_list" -> ListView
              [] part = "buddy" -> buddyvars
              [] part = "slub" -> slubvars
              [] part = "heap" -> heapvars>>

(* Slabs of three objects of four bytes or one of eight.                    *)
MCCacheSizes == <<4, 8>>
MCRequests == {0, 4, 5, 20}
MCSizes == {2, 4, 8, 12, 25}
-----------------------------------------------------------------------------
(* Over all calls of buddy_alloc_pages and buddy_free_pages the blocks tile *)
(* the memory, and lists, flags and counts agree.                           *)
BuddyInv == part = "buddy" => B!BuddyInv

(* Over all calls of kmalloc and kfree the units of memory are cut into     *)
(* free, allocated and big blocks, the ring of free blocks is sorted and    *)
(* joined, and a block has the room its size asks for, as far as find_order *)
(* gives it.                                                                *)
HeapInv == part = "heap" => H!HeapInv
=============================================================================
