-------------------------------- MODULE Slub --------------------------------
(* The slub allocator of lab2 (slub_pmm.c): caches of objects of one size in *)
(* slabs of one page, each slab on one of three lists of its cache, and the  *)
(* page allocator for what is larger than every cache.  A slab is its page.  *)
(* The printing is left out; total_allocated and total_freed are kept as     *)
(* their difference, what slub_check reports as leaks.                       *)
EXTENDS Integers, Sequences, FiniteSets, SequencesExt, FiniteSetsExt, Functions

CONSTANTS
    PGSIZE,
    SLAB_STRUCT,     \* sizeof(slab_t)
    SLAB_CACHE_SIZES,\* sequence of object sizes
    Requests,        \* sizes callers ask for
    SlubPages,       \* pages of memory
    NULL

SlabPages == 0 .. SlubPages - 1
Caches == DOMAIN SLAB_CACHE_SIZES
Lists == {"full", "partial", "free"}
PageBlock(page, n) == page .. page + n - 1

BitmapBytes(n) == (n + 7) \div 8

\* The bitmap is sized for an estimate of the objects, then they are counted.
calculate_objects_per_slab(object_size) ==
    LET available == PGSIZE - SLAB_STRUCT
        bits == (available * 8) \div (object_size * 8 + 1)
        count == (available - BitmapBytes(bits)) \div object_size
    IN  IF count > 0 THEN count ELSE 1

total_objects(c) == calculate_objects_per_slab(SLAB_CACHE_SIZES[c])

(* Where the objects of a slab end and its bitmap begins.                    *)
objects_end(c) == SLAB_STRUCT + total_objects(c) * SLAB_CACHE_SIZES[c]

(* The estimate is good enough for the sizes there are: the bitmap of the    *)
(* objects counted ends with the page.                                       *)
SlabsFit ==
    \A c \in Caches :
        /\ total_objects(c) \in Nat \ {0}
        /\ objects_end(c) + BitmapBytes(total_objects(c)) <= PGSIZE

ASSUME SlubAssumption ==
    /\ {PGSIZE, SLAB_STRUCT, SlubPages} \subseteq Nat \ {0}
    /\ SLAB_CACHE_SIZES \in Seq(Nat \ {0}) /\ SlabsFit
    /\ Requests \subseteq Nat
    /\ NULL \notin Nat

VARIABLES
    pmm_free,      \* what the page allocator has
    slabs,           \* cache -> list name -> sequence of slabs
    cache,           \* slab->cache, NULL where a page holds no slab
    bitmap,          \* indices marked as taken in each slab
    free_objects,    \* per slab
    objects,         \* objects callers hold: <<slab, index>>
    large,           \* page blocks callers hold: <<first page, n>>
    potential_leaks, \* total_allocated - total_freed
    panicked,
    misread          \* data of a caller has been taken for a slab

slubvars == <<pmm_free, slabs, cache, bitmap, free_objects, objects, large,
          potential_leaks, panicked, misread>>

SlubInit ==
    /\ pmm_free = SlabPages
    /\ slabs = [c \in Caches |-> [l \in Lists |-> <<>>]]
    /\ cache = [p \in SlabPages |-> NULL]
    /\ bitmap = [p \in SlabPages |-> {}]
    /\ free_objects = [p \in SlabPages |-> 0]
    /\ objects = {}
    /\ large = {}
    /\ potential_leaks = 0
    /\ panicked = FALSE
    /\ misread = FALSE

----------------------------------------------------------------------------
\* FreeRuns of the page allocator: some block of n free pages.
FreeRuns(n) == {p \in SlabPages : PageBlock(p, n) \subseteq pmm_free}

\* list_del of the slab, if it is in this list.
Without(list, slab) ==
    IF slab \in Range(list)
    THEN RemoveAt(list, CHOOSE i \in DOMAIN list : list[i] = slab) ELSE list

\* list_del from wherever the slab is, and list_add in front of list l.
MoveTo(lists, slab, l) ==
    [k \in Lists |-> IF k = l THEN <<slab>> \o Without(lists[k], slab)
                     ELSE Without(lists[k], slab)]

\* The caches whose objects are large enough; slub_alloc takes the first.
Suitable(size) == {c \in Caches : SLAB_CACHE_SIZES[c] >= size}

\* The object is taken from slab, which is on the partial list by now.
TakeObject(c, lists, slab, taken, count) ==
    LET i == Min((0 .. total_objects(c) - 1) \ taken)
    IN  /\ bitmap' = [bitmap EXCEPT ![slab] = taken \cup {i}]
        /\ free_objects' = [free_objects EXCEPT ![slab] = count - 1]
        /\ objects' = objects \cup {<<slab, i>>}
        /\ slabs' = [slabs EXCEPT
               ![c] = IF count = 1 THEN MoveTo(lists, slab, "full") ELSE lists]
        /\ potential_leaks' = potential_leaks + 1
        /\ UNCHANGED <<large, panicked, misread>>

\* slub_alloc from a partial slab.
AllocPartial(c) ==
    LET slab == Head(slabs[c].partial)
    IN  /\ slabs[c].partial # <<>>
        /\ TakeObject(c, slabs[c], slab, bitmap[slab], free_objects[slab])
        /\ UNCHANGED <<pmm_free, cache>>

\* slub_alloc from a slab of which nothing is taken.
AllocFree(c) ==
    LET slab == Head(slabs[c].free)
    IN  /\ slabs[c].partial = <<>> /\ slabs[c].free # <<>>
        /\ TakeObject(c, MoveTo(slabs[c], slab, "partial"), slab, bitmap[slab],
                free_objects[slab])
        /\ UNCHANGED <<pmm_free, cache>>

\* slub_alloc with slab_create.
AllocNew(c) ==
    /\ slabs[c].partial = <<>> /\ slabs[c].free = <<>>
    /\ \E slab \in FreeRuns(1) :
           /\ pmm_free' = pmm_free \ {slab}
           /\ cache' = [cache EXCEPT ![slab] = c]
           /\ TakeObject(c, MoveTo(slabs[c], slab, "partial"), slab, {},
                   total_objects(c))

slub_alloc_pages(n) ==
    /\ \E page \in FreeRuns(n) :
           /\ pmm_free' = pmm_free \ PageBlock(page, n)
           /\ large' = large \cup {<<page, n>>}
    /\ UNCHANGED <<slabs, cache, bitmap, free_objects, objects,
                   potential_leaks, panicked, misread>>

slub_alloc ==
    \E size \in Requests \ {0} :
        IF Suitable(size) = {}
        THEN slub_alloc_pages((size + PGSIZE - 1) \div PGSIZE)
        ELSE LET c == Min(Suitable(size))
             IN  AllocPartial(c) \/ AllocFree(c) \/ AllocNew(c)

(* slub_free of an object of a slab.  One that is not taken stops the        *)
(* kernel.                                                                   *)

\* Mutant: a slab that was full stays on the full list.
slub_freeStay(slab, i) ==
    /\ cache[slab] # NULL /\ i \in bitmap[slab]
    /\ LET c == cache[slab]
           left == free_objects[slab] + 1
       IN  /\ bitmap' = [bitmap EXCEPT ![slab] = @ \ {i}]
           /\ free_objects' = [free_objects EXCEPT ![slab] = left]
           /\ slabs' = IF left = total_objects(c)
                       THEN [slabs EXCEPT ![c] = MoveTo(@, slab, "free")]
                       ELSE slabs
    /\ objects' = objects \ {<<slab, i>>}
    /\ potential_leaks' = potential_leaks - 1
    /\ UNCHANGED <<pmm_free, cache, large, panicked, misread>>

slub_free(slab, i) ==
    /\ cache[slab] # NULL /\ i \in bitmap[slab]
    /\ LET c == cache[slab]
           left == free_objects[slab] + 1
       IN  /\ bitmap' = [bitmap EXCEPT ![slab] = @ \ {i}]
           /\ free_objects' = [free_objects EXCEPT ![slab] = left]
           /\ slabs' = [slabs EXCEPT
                  ![c] = MoveTo(@, slab, IF left = total_objects(c)
                                       THEN "free" ELSE "partial")]
    /\ objects' = objects \ {<<slab, i>>}
    /\ potential_leaks' = potential_leaks - 1
    /\ UNCHANGED <<pmm_free, cache, large, panicked, misread>>

\* The two panics of slub_free: an index out of the slab, or not taken.
slub_free_panics(slab, i) ==
    /\ cache[slab] # NULL /\ i \notin bitmap[slab]
    /\ panicked' = TRUE
    /\ UNCHANGED <<pmm_free, slabs, cache, bitmap, free_objects, objects,
                   large, potential_leaks, misread>>

\* free_pages of n pages of a block that a caller gives back.
slub_free_pages(b, n) ==
    /\ b \in large
    /\ pmm_free' = pmm_free \cup PageBlock(b[1], n)
    /\ large' = large \ {b}
    /\ UNCHANGED <<slabs, cache, bitmap, free_objects, objects,
                   potential_leaks, panicked, misread>>

(* slub_free of a page block finds data of its holder at slab->cache: what   *)
(* it reads, stores and links from there on is the holder's too, and the     *)
(* model ends.                                                               *)
slub_free_misreads(b) ==
    /\ b \in large
    /\ misread' = TRUE
    /\ UNCHANGED <<pmm_free, slabs, cache, bitmap, free_objects, objects,
                   large, potential_leaks, panicked>>

\* The first index past the slab stands for all that are outside.
FreeObject ==
    \E slab \in {p \in SlabPages : cache[p] # NULL} :
        \E i \in 0 .. total_objects(cache[slab]) :
            slub_free(slab, i) \/ slub_free_panics(slab, i)

(* slub_free of a page block: one page goes back if the word at slab->cache  *)
(* is zero, which is up to whoever wrote the page.                           *)
FreeLarge == \E b \in large : slub_free_pages(b, 1) \/ slub_free_misreads(b)

\* The holder of a page block calls slub_free_pages himself.
FreePages == \E b \in large : slub_free_pages(b, b[2])

SlubNext ==
    ~ panicked /\ ~ misread /\ (slub_alloc \/ FreeObject \/ FreeLarge \/ FreePages)

SlubSpec == SlubInit /\ [][SlubNext]_slubvars

----------------------------------------------------------------------------
SlubTypeOK ==
    /\ pmm_free \subseteq SlabPages
    /\ slabs \in [Caches -> [Lists -> Seq(SlabPages)]]
    /\ cache \in [SlabPages -> Caches \cup {NULL}]
    /\ bitmap \in [SlabPages -> SUBSET (0 .. PGSIZE)]
    /\ free_objects \in [SlabPages -> Nat]
    /\ objects \subseteq SlabPages \X (0 .. PGSIZE)
    /\ large \subseteq SlabPages \X (Nat \ {0})
    /\ potential_leaks \in Nat
    /\ panicked \in BOOLEAN /\ misread \in BOOLEAN

\* The list that a slab with so many of the total objects free belongs to.
ListFor(count, total) ==
    IF count = 0 THEN "full" ELSE IF count = total THEN "free" ELSE "partial"

(* Every slab is on one list of its cache, once, and it is the list that its *)
(* count of free objects asks for.                                           *)
OnRightList ==
    \A c \in Caches, l \in Lists :
        /\ IsInjective(slabs[c][l])
        /\ Range(slabs[c][l]) =
               {p \in SlabPages : cache[p] = c /\ ListFor(free_objects[p], total_objects(c)) = l}

(* The bitmaps mark exactly the objects that callers hold, and the counts    *)
(* follow: no object is given to two callers, and none is forgotten.         *)
MarkedAreHeld ==
    /\ \A p \in SlabPages : cache[p] # NULL =>
           /\ \A i \in 0 .. PGSIZE : i \in bitmap[p] <=> <<p, i>> \in objects
           /\ free_objects[p] + Cardinality(bitmap[p]) = total_objects(cache[p])
    /\ \A o \in objects : cache[o[1]] # NULL
    /\ potential_leaks = Cardinality(objects)

(* A slab, a block of a caller and the free pages have no page in common, and*)
(* each object lies in its slab, in front of the bitmap.                     *)
Apart ==
    /\ \A p \in SlabPages : cache[p] # NULL => p \notin pmm_free
    /\ \A b \in large : \A p \in PageBlock(b[1], b[2]) :
           p \in SlabPages /\ p \notin pmm_free /\ cache[p] = NULL
    /\ \A a, b \in large :
           a # b => PageBlock(a[1], a[2]) \cap PageBlock(b[1], b[2]) = {}
    /\ \A o \in objects :
           LET c == cache[o[1]]
           IN  SLAB_STRUCT + (o[2] + 1) * SLAB_CACHE_SIZES[c] <= objects_end(c)

(* What slub_alloc and slub_free keep over every sequence of calls up to one *)
(* that takes data for a slab: slabs on the right lists, bitmaps that mark   *)
(* what is held, and memory apart.                                           *)
SlubInv == SlubTypeOK /\ OnRightList /\ MarkedAreHeld /\ Apart
=============================================================================
