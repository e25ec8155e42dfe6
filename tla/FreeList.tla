------------------------------ MODULE FreeList ------------------------------
(***************************************************************************)
(* The physical page allocators that keep one address-ordered list of free  *)
(* blocks: kern/mm/default_pmm.c (first fit) and lab2's best_fit_pmm.c,     *)
(* with the links of libs/list.h they are built from.                       *)
(*                                                                         *)
(* alloc_pages and free_pages run with interrupts off (pmm.c), so one call  *)
(* is at work at a time; each iteration of its loops is an action.  The     *)
(* links are kept as the two pointers the code has, because the code reads  *)
(* both of them.                                                            *)
(***************************************************************************)
EXTENDS Integers, FiniteSets, FiniteSetsExt

CONSTANTS
    NPage,            \* pages of physical memory
    FreesBelow        \* TRUE: see FreesBelowFree

ASSUME FreeListAssumption == NPage \in Nat \ {0} /\ FreesBelow \in BOOLEAN

Pages == 0 .. NPage - 1
HEAD == -1            \* &free_list
NIL == -2             \* no page; a link that was never set
Entry == Pages \cup {HEAD}

VARIABLES
    pmm_manager,      \* the allocator that init_pmm_manager has chosen
    next, prev,       \* page_link
    property,         \* p->property
    head,             \* the pages with PageProperty
    nr_free,
    used,             \* the pages callers hold
    pc, base, n, le,  \* the call at work and its locals
    page, min_size

links == <<next, prev>>
locals == <<base, n, page, min_size>>
vars == <<pmm_manager, links, property, head, nr_free, used, pc, base, n, le, page, min_size>>

TypeOK ==
    /\ pmm_manager \in {"default_pmm_manager", "best_fit_pmm_manager"}
    /\ next \in [Entry -> Entry \cup {NIL}]
    /\ prev \in [Entry -> Entry \cup {NIL}]
    /\ property \in [Pages -> 0 .. NPage]
    /\ head \subseteq Pages
    /\ nr_free \in 0 .. NPage
    /\ used \subseteq Pages
    /\ pc \in {"idle", "search", "take", "insert", "merge_prev", "merge_next"}
    /\ base \in Pages
    /\ n \in 0 .. NPage
    /\ le \in Entry
    /\ page \in Pages \cup {NIL}
    /\ min_size \in 0 .. NPage + 1

Block(b, k) == b .. b + k - 1

(* best_fit_pmm; otherwise default_pmm.                                     *)
BestFit == pmm_manager = "best_fit_pmm_manager"

(* init_pmm_manager, then default_init and default_init_memmap for the one  *)
(* range of memory that page_init finds.                                    *)
Init ==
    /\ pmm_manager \in {"default_pmm_manager", "best_fit_pmm_manager"}
    /\ next = [e \in Entry |-> CASE e = HEAD -> 0 [] e = 0 -> HEAD [] OTHER -> NIL]
    /\ prev = [e \in Entry |-> CASE e = HEAD -> 0 [] e = 0 -> HEAD [] OTHER -> NIL]
    /\ property = [p \in Pages |-> IF p = 0 THEN NPage ELSE 0]
    /\ head = {0}
    /\ nr_free = NPage
    /\ used = {}
    /\ pc = "idle"
    /\ base = 0 /\ n = 0 /\ le = HEAD /\ page = NIL /\ min_size = 0

(* The end of a call: its locals are gone.                                  *)
Return ==
    /\ pc' = "idle"
    /\ base' = 0 /\ n' = 0 /\ le' = HEAD /\ page' = NIL /\ min_size' = 0

-----------------------------------------------------------------------------
(* list.h.                                                                 *)

(* __list_add, whose two entries may be the new element itself.             *)
list_insert(elm, before, after) ==
    /\ next' = [next EXCEPT ![before] = elm, ![elm] = after]
    /\ prev' = [prev EXCEPT ![after] = elm, ![elm] = before]

list_add(listelm, elm) == list_insert(elm, listelm, next[listelm])

list_add_before(listelm, elm) == list_insert(elm, prev[listelm], listelm)

(* Mutant of list_del: the backward link is left alone.                     *)
list_delForward(elm) ==
    /\ next' = [next EXCEPT ![prev[elm]] = next[elm]]
    /\ prev' = prev

list_del(elm) ==
    /\ next' = [next EXCEPT ![prev[elm]] = next[elm]]
    /\ prev' = [prev EXCEPT ![next[elm]] = prev[elm]]

-----------------------------------------------------------------------------
(* alloc_pages(k).  When k > nr_free it returns NULL at once.               *)
alloc_pages(k) ==
    /\ pc = "idle"
    /\ k <= nr_free
    /\ n' = k
    /\ le' = next[HEAD]
    /\ page' = NIL
    /\ min_size' = nr_free + 1
    /\ pc' = "search"
    /\ UNCHANGED <<links, property, head, nr_free, used, base>>

(* First fit: stop at the first block that is large enough.                 *)
first_fit ==
    IF property[le] >= n
    THEN page' = le /\ pc' = "take" /\ UNCHANGED <<le, min_size>>
    ELSE le' = next[le] /\ UNCHANGED <<pc, page, min_size>>

(* Mutant: min_size is not tightened, so the last fitting block is taken.   *)
best_fitLast ==
    /\ IF le \in head /\ property[le] >= n /\ property[le] < min_size
       THEN page' = le ELSE page' = page
    /\ le' = next[le]
    /\ UNCHANGED <<pc, min_size>>

(* Best fit: go through the whole list and keep the smallest.               *)
best_fit ==
    /\ IF le \in head /\ property[le] >= n /\ property[le] < min_size
       THEN page' = le /\ min_size' = property[le]
       ELSE UNCHANGED <<page, min_size>>
    /\ le' = next[le]
    /\ UNCHANGED pc

search ==
    /\ pc = "search"
    /\ \/ le # HEAD /\ (IF BestFit THEN best_fit ELSE first_fit) /\ UNCHANGED <<base, n>>
       \/ le = HEAD /\ page = NIL /\ Return
       \/ le = HEAD /\ page # NIL /\ pc' = "take" /\ UNCHANGED <<locals, le>>
    /\ UNCHANGED <<links, property, head, nr_free, used>>

(* The block leaves the list; what it has too much takes its place.         *)
take ==
    LET rest == page + n
    IN  /\ pc = "take"
        /\ IF property[page] > n
           THEN /\ next' = [next EXCEPT ![prev[page]] = rest, ![rest] = next[page]]
                /\ prev' = [prev EXCEPT ![next[page]] = rest, ![rest] = prev[page]]
                /\ property' = [property EXCEPT ![rest] = property[page] - n]
                /\ head' = (head \cup {rest}) \ {page}
           ELSE /\ list_del(page)
                /\ head' = head \ {page}
                /\ UNCHANGED property
        /\ nr_free' = nr_free - n
        /\ used' = used \cup Block(page, n)
        /\ Return

-----------------------------------------------------------------------------
(* What the callers of the running kernel keep to as long as memory is not  *)
(* used up: there is a free block above the one they give back, or no free  *)
(* block at all.                                                            *)
FreesBelowFree(b) == head = {} \/ \E p \in head : p > b

(* free_pages(b, k) up to the search for the place in the list.             *)
free_pages(b, k) ==
    /\ pc = "idle"
    /\ Block(b, k) \subseteq used
    /\ FreesBelow => FreesBelowFree(b)
    /\ used' = used \ Block(b, k)
    /\ base' = b
    /\ n' = k
    /\ property' = [property EXCEPT ![b] = k]
    /\ head' = head \cup {b}
    /\ nr_free' = nr_free + k
    /\ IF next[HEAD] = HEAD
       THEN list_add(HEAD, b) /\ pc' = "merge_prev" /\ UNCHANGED le
       ELSE UNCHANGED links /\ pc' = "insert" /\ le' = next[HEAD]
    /\ UNCHANGED <<page, min_size>>

(* Mutant: the loop does not go on to the next entry.                       *)
insertStuck ==
    /\ pc = "insert"
    /\ IF le # HEAD /\ base < le
       THEN list_add_before(le, base) /\ pc' = "merge_prev" /\ UNCHANGED le
       ELSE UNCHANGED <<links, pc, le>>
    /\ UNCHANGED <<property, head, nr_free, used, locals>>

(* One iteration of the loop that inserts base.  After list_add at the tail *)
(* the loop goes on, to the entry just added.                               *)
insert ==
    /\ pc = "insert"
    /\ CASE le = HEAD ->
              pc' = "merge_prev" /\ UNCHANGED <<links, le>>
         [] le # HEAD /\ base < le ->
              list_add_before(le, base) /\ pc' = "merge_prev" /\ UNCHANGED le
         [] le # HEAD /\ ~ (base < le) /\ next[le] = HEAD ->
              list_add(le, base) /\ le' = next'[le] /\ UNCHANGED pc
         [] le # HEAD /\ ~ (base < le) /\ next[le] # HEAD ->
              le' = next[le] /\ UNCHANGED <<links, pc>>
    /\ UNCHANGED <<property, head, nr_free, used, locals>>

(* Merging with the block below.                                            *)
merge_prev ==
    LET p == prev[base]
    IN  /\ pc = "merge_prev"
        /\ IF p # HEAD /\ p + property[p] = base
           THEN /\ property' = [property EXCEPT ![p] = @ + property[base]]
                /\ head' = head \ {base}
                /\ list_del(base)
                /\ base' = p
           ELSE UNCHANGED <<links, property, head, base>>
        /\ pc' = "merge_next"
        /\ UNCHANGED <<nr_free, used, n, le, page, min_size>>

(* Merging with the block above.                                            *)
merge_next ==
    LET p == next[base]
    IN  /\ pc = "merge_next"
        /\ IF p # HEAD /\ base + property[base] = p
           THEN /\ property' = [property EXCEPT ![base] = @ + property[p]]
                /\ head' = head \ {p}
                /\ list_del(p)
           ELSE UNCHANGED <<links, property, head>>
        /\ Return
        /\ UNCHANGED <<nr_free, used>>

-----------------------------------------------------------------------------
Work == search \/ take \/ insert \/ merge_prev \/ merge_next

Next ==
    /\ \/ \E k \in 1 .. NPage : alloc_pages(k)
       \/ \E b \in Pages : \E k \in 1 .. NPage - b : free_pages(b, k)
       \/ Work
    /\ UNCHANGED pmm_manager

Spec == Init /\ [][Next]_vars

(* A call that has begun goes on.                                           *)
FairSpec == Spec /\ WF_vars(Work /\ UNCHANGED pmm_manager)

-----------------------------------------------------------------------------
(* The entries met by following next from the list head.                    *)
Listed ==
    LET Reach[i \in 0 .. NPage] ==
            IF i = 0 THEN {next[HEAD]}
            ELSE Reach[i - 1] \cup {next[e] : e \in Reach[i - 1] \ {HEAD, NIL}}
    IN  Reach[NPage] \ {HEAD}

(* What default_check asserts of the list: every block on it has            *)
(* PageProperty, and together they have nr_free pages.                      *)
FreeListCheck ==
    pc = "idle" =>
        /\ \A p \in Listed : p \in head
        /\ MapThenSumSet(LAMBDA p : property[p], Listed) = nr_free

(* The two directions of the list agree: it can be walked both ways, which  *)
(* list_del and the merging rely on.                                        *)
LinksAgree ==
    pc = "idle" =>
        \A e \in Listed \cup {HEAD} : prev[next[e]] = e /\ next[prev[e]] = e

(* Between calls the listed blocks and the pages callers hold are exactly   *)
(* the memory, without overlap: no page is lost and none is both free and   *)
(* held.                                                                    *)
MemoryPartitioned ==
    pc = "idle" =>
        /\ used = Pages \ UNION {Block(p, property[p]) : p \in Listed}
        /\ \A p, q \in Listed : p < q => p + property[p] <= q

(* PageProperty is set exactly on the listed blocks, so the assert at the   *)
(* top of free_pages never meets it on a page a caller holds.               *)
FlagsExact == pc = "idle" => head = Listed

(* Free blocks never touch: merging is complete.                            *)
FullyMerged ==
    pc = "idle" => \A p, q \in Listed : p < q => p + property[p] < q

(* The same in the middle of a call.  free_pages has flagged base before it  *)
(* is on the list.                                                          *)
OnList == IF pc = "insert" THEN head \ {base} ELSE head

(* The links lead through the listed blocks in the order of addresses.      *)
Follows(e, f) ==
    \/ f \in OnList /\ e < f /\ \A q \in OnList : e < q => f <= q
    \/ f = HEAD /\ \A q \in OnList : q <= e

ListOrdered ==
    \A e \in OnList \cup {HEAD} :
        /\ Follows(e, next[e]) /\ prev[next[e]] = e
        /\ prev[e] \in OnList \cup {HEAD} /\ next[prev[e]] = e

(* The flagged blocks lie apart and are what nobody holds.                  *)
InBlock(p, x) == p <= x /\ x < p + property[p]

BlocksApart ==
    /\ \A p \in head : 0 < property[p] /\ p + property[p] <= NPage
    /\ \A p, q \in head : p < q => p + property[p] <= q
    /\ \A x \in Pages : x \notin used <=> \E p \in head : InBlock(p, x)
    /\ nr_free = NPage - Cardinality(used)

(* Two blocks touch only where the release at work has still to merge.      *)
MergedButBase ==
    \A p, q \in head : p + property[p] = q =>
        \/ pc \in {"insert", "merge_prev"} /\ base \in {p, q}
        \/ pc = "merge_next" /\ base = p

(* What the call at work knows of the blocks it has passed.                 *)
Passed(q) == q \in head /\ (le = HEAD \/ q < le)
TooSmall(q) == property[q] < n
Better(p, q) == property[p] < property[q] \/ (property[p] = property[q] /\ p <= q)

CallState ==
    /\ pc = "search" =>
         /\ n > 0 /\ le \in head \cup {HEAD}
         /\ page = NIL =>
              (BestFit => min_size = nr_free + 1) /\ \A q \in head : Passed(q) => TooSmall(q)
         /\ page # NIL =>
              /\ BestFit /\ page \in head /\ ~ TooSmall(page) /\ min_size = property[page]
              /\ Passed(page)
              /\ \A q \in head : Passed(q) => TooSmall(q) \/ Better(page, q)
    /\ pc = "take" =>
         /\ n > 0 /\ page \in head /\ ~ TooSmall(page)
         /\ \A q \in head : TooSmall(q) \/ IF BestFit THEN Better(page, q) ELSE page <= q
    /\ pc \in {"insert", "merge_prev", "merge_next"} => base \in head
    /\ pc = "insert" =>
         /\ le \in OnList /\ \E q \in OnList : base < q
         /\ \A q \in OnList : q < le => q < base

CallInv == ListOrdered /\ BlocksApart /\ MergedButBase /\ CallState

(* Between two calls the list is well formed: linked both ways, flagged,    *)
(* counted and merged, after any sequence of allocations and releases, and  *)
(* with the pages callers hold it makes up the memory; and every step of    *)
(* alloc_pages and free_pages finds what it relies on.                      *)
FreeListInv == TypeOK /\ FreeListCheck /\ LinksAgree /\ MemoryPartitioned
                  /\ FlagsExact /\ FullyMerged /\ CallInv

(* The maximal runs of pages that nobody holds.                             *)
RunFits(b, k) == b + k <= NPage /\ Block(b, k) \cap used = {}
Runs == {b \in Pages : b \notin used /\ (b = 0 \/ b - 1 \in used)}
RunLength(b) == Max({k \in 1 .. NPage : RunFits(b, k)})

(* Which run the policy should choose for k pages.                          *)
Chosen(k) ==
    LET fitting == {b \in Runs : RunLength(b) >= k}
        best == Min({RunLength(b) : b \in fitting})
    IN  Min(IF BestFit THEN {b \in fitting : RunLength(b) = best} ELSE fitting)

(* alloc_pages gives out the run its policy promises, of pages nobody       *)
(* holds, and it fails only when no run is long enough.                     *)
KeepsPolicy ==
    /\ pc = "take" => page = Chosen(n)
    /\ pc = "search" /\ pc' = "idle" => \A b \in Pages : ~ RunFits(b, n)

AllocKeepsPolicy == [][KeepsPolicy]_vars

(* Every call returns.                                                      *)
CallsReturn == (pc # "idle") ~> (pc = "idle")
=============================================================================
