----------------------------- MODULE PageTable -----------------------------
(***************************************************************************)
(* The page tables of user address spaces and the pages they refer to:      *)
(* get_pte, page_insert, page_remove_pte, pgdir_alloc_page, copy_range,     *)
(* unmap_range and exit_range of kern/mm/pmm.c, called by dup_mmap and      *)
(* exit_mmap of kern/mm/vmm.c.                                              *)
(*                                                                         *)
(* A page table is a tree: the page directory of an address space (level 1, *)
(* here the mm itself), directories of level 0, page tables, pages.  Every  *)
(* table has NENTRY entries, so an address is a number of three digits.     *)
(* Permissions and the contents of pages are left out.  The kernel is not   *)
(* preempted: fork and exit run to their end, one page or one area a step.  *)
(***************************************************************************)
EXTENDS Integers, Sequences, FiniteSets, FiniteSetsExt, SequencesExt

CONSTANTS
    Mms,                  \* address spaces
    NPAGES,               \* pages of physical memory
    NENTRY,               \* entries of a table
    USERTOP,              \* user addresses are 0..USERTOP - 1, in pages
    Segments,             \* the areas <<start, end>> that may be mapped
    MaxAreas,             \* bound: areas of an address space
    NULL

PageAssumption ==
    /\ NPAGES \in Nat /\ NENTRY \in Nat \ {0} /\ MaxAreas \in Nat
    /\ USERTOP \in 1..NENTRY * NENTRY * NENTRY
    /\ \A a \in Segments : 0 <= a[1] /\ a[1] < a[2] /\ a[2] <= USERTOP

Pages == 1..NPAGES
Index == 0..NENTRY - 1

VARIABLES
    areas,      \* the areas <<start, end>> of each mm in order, NULL: no mm
    entries,    \* of each mm (its page directory) and each page used as table
    ref,        \* struct Page's reference count
    free,       \* the free pages
    use,        \* history: what an allocated page is used for
    op,         \* the fork or exit in progress, NULL: none
    panic       \* an assertion has stopped the kernel

mem == [entries |-> entries, ref |-> ref, free |-> free, use |-> use]
vars == <<areas, entries, ref, free, use, op, panic>>

Becomes(m) ==
    entries' = m.entries /\ ref' = m.ref /\ free' = m.free /\ use' = m.use

Empty == [i \in Index |-> NULL]
PDX1(la) == la \div (NENTRY * NENTRY)
PDX0(la) == (la \div NENTRY) % NENTRY
PTX(la) == la % NENTRY
Span(area) == area[1]..area[2] - 1

Init ==
    /\ areas = [m \in Mms |-> NULL]
    /\ entries = [n \in Mms \cup Pages |-> Empty]
    /\ ref = [p \in Pages |-> 0]
    /\ free = Pages
    /\ use = [p \in Pages |-> NULL]
    /\ op = NULL
    /\ panic = FALSE

Idle == op = NULL /\ ~ panic
-----------------------------------------------------------------------------
(* alloc_page when a page is free, and free_page; what a free page holds is *)
(* of no interest, a new table is cleared.                                  *)
alloc_page(s, what) ==
    LET p == Min(s.free)
    IN  [s EXCEPT !.free = @ \ {p}, !.use[p] = what]

free_page(s, p) ==
    [s EXCEPT !.free = @ \cup {p}, !.ref[p] = 0, !.use[p] = NULL, !.entries[p] = Empty]

(* A new table as entry i of a table: one reference, all entries invalid.   *)
NewTable(s, n, i) ==
    LET p == Min(s.free)
    IN  [alloc_page(s, "table") EXCEPT !.ref[p] = 1, !.entries[p] = Empty, !.entries[n][i] = p]

(* get_pte without create: the page table of an address, NULL if none.      *)
get_pte(s, m, la) ==
    LET pd0 == s.entries[m][PDX1(la)]
    IN  IF pd0 = NULL THEN NULL ELSE s.entries[pd0][PDX0(la)]

(* get_pte with create: the memory after it; a directory made before memory *)
(* ran out stays.                                                           *)
get_pte_create(s, m, la) ==
    LET s1 == IF s.entries[m][PDX1(la)] # NULL \/ s.free = {} THEN s
              ELSE NewTable(s, m, PDX1(la))
        pd0 == s1.entries[m][PDX1(la)]
    IN  IF pd0 = NULL \/ get_pte(s1, m, la) # NULL \/ s1.free = {} THEN s1
        ELSE NewTable(s1, pd0, PDX0(la))

(* The page of an address, NULL if it is not mapped.                        *)
get_page(s, m, la) ==
    LET pt == get_pte(s, m, la) IN IF pt = NULL THEN NULL ELSE s.entries[pt][PTX(la)]

(* page_remove_pte of a mapped address: the last reference frees the page.  *)
page_remove_pte(s, m, la) ==
    LET p == get_page(s, m, la)
        s1 == [s EXCEPT !.ref[p] = @ - 1, !.entries[get_pte(s, m, la)][PTX(la)] = NULL]
    IN  IF s1.ref[p] = 0 THEN free_page(s1, p) ELSE s1

(* page_insert when the page table is there.                                *)
page_insert(s, m, la, p) ==
    LET old == get_page(s, m, la)
        s1 == IF old = NULL THEN s ELSE page_remove_pte(s, m, la)
    IN  [s1 EXCEPT !.ref[p] = @ + 1, !.entries[get_pte(s, m, la)][PTX(la)] = p]
-----------------------------------------------------------------------------
mm_create(m) ==
    /\ Idle
    /\ areas[m] = NULL
    /\ areas' = [areas EXCEPT ![m] = <<>>]
    /\ UNCHANGED <<entries, ref, free, use, op, panic>>

(* mm_map of an area that overlaps no other (VmaSpace).                     *)
mm_map(m, start, end) ==
    LET list == areas[m]
        before == Cardinality({i \in DOMAIN list : list[i][1] < start})
    IN  /\ Idle
        /\ list # NULL
        /\ Len(list) < MaxAreas
        /\ \A i \in DOMAIN list : list[i][2] <= start \/ end <= list[i][1]
        /\ areas' = [areas EXCEPT ![m] = InsertAt(list, before + 1, <<start, end>>)]
        /\ UNCHANGED <<entries, ref, free, use, op, panic>>

(* pgdir_alloc_page of an address of an area; without memory for the page   *)
(* or its tables the page is given back.                                    *)
pgdir_alloc_page(m, la) ==
    LET p == Min(free)
        s == get_pte_create(alloc_page(mem, "data"), m, la)
    IN  /\ Idle
        /\ areas[m] # NULL
        /\ \E i \in DOMAIN areas[m] : la \in Span(areas[m][i])
        /\ free # {}
        /\ Becomes(IF get_pte(s, m, la) = NULL THEN free_page(s, p) ELSE page_insert(s, m, la, p))
        /\ UNCHANGED <<areas, op, panic>>

(* dup_mmap into a new address space begins; todo are the areas to copy,    *)
(* the last one first.                                                      *)
dup_mmap(to, from) ==
    /\ Idle
    /\ areas[from] # NULL /\ areas[to] = NULL
    /\ areas' = [areas EXCEPT ![to] = <<>>]
    /\ op' = [call |-> "dup", to |-> to, from |-> from, todo |-> Reverse(areas[from]),
              at |-> 0, end |-> 0]
    /\ UNCHANGED <<entries, ref, free, use, panic>>

Call(call) == op # NULL /\ ~ panic /\ op.call = call

(* The next area: vma_create and insert_vma_struct, or no memory for it,    *)
(* after which copy_mm takes the copy down again.                           *)
dup_area ==
    /\ Call("dup")
    /\ op.at = op.end
    /\ op.todo # <<>>
    /\ \/ /\ areas' = [areas EXCEPT ![op.to] = <<Head(op.todo)>> \o @]
          /\ op' = [op EXCEPT !.todo = Tail(@), !.at = Head(op.todo)[1], !.end = Head(op.todo)[2]]
       \/ /\ op' = [call |-> "exit", m |-> op.to, todo |-> areas[op.to], unmap |-> areas[op.to]]
          /\ UNCHANGED areas
    /\ UNCHANGED <<entries, ref, free, use, panic>>

dup_done ==
    /\ Call("dup")
    /\ op.at = op.end
    /\ op.todo = <<>>
    /\ op' = NULL
    /\ UNCHANGED <<areas, entries, ref, free, use, panic>>

(* Mutant: copy_range maps the parent's page instead of a copy.             *)
copy_rangeShares ==
    LET p == get_page(mem, op.from, op.at)
        s == get_pte_create(mem, op.to, op.at)
        npage == Min(s.free)
        next == [op EXCEPT !.at = @ + 1]
    IN  /\ Call("dup")
        /\ op.at < op.end
        /\ UNCHANGED areas
        /\ \/ p = NULL /\ op' = next /\ UNCHANGED <<entries, ref, free, use, panic>>
           \/ /\ p # NULL /\ get_pte(s, op.to, op.at) # NULL
              /\ Becomes(page_insert(s, op.to, op.at, p))
              /\ op' = next
              /\ UNCHANGED panic
           \/ /\ p # NULL /\ get_pte(s, op.to, op.at) = NULL
              /\ Becomes(s)
              /\ op' = [call |-> "exit", m |-> op.to, todo |-> areas[op.to], unmap |-> areas[op.to]]
              /\ UNCHANGED panic

(* copy_range, one page: a copy of it, or no memory for the tables, or none *)
(* for the page (assert(npage != NULL)).                                    *)
copy_range ==
    LET p == get_page(mem, op.from, op.at)
        s == get_pte_create(mem, op.to, op.at)
        npage == Min(s.free)
        next == [op EXCEPT !.at = @ + 1]
    IN  /\ Call("dup")
        /\ op.at < op.end
        /\ UNCHANGED areas
        /\ \/ p = NULL /\ op' = next /\ UNCHANGED <<entries, ref, free, use, panic>>
           \/ /\ p # NULL /\ get_pte(s, op.to, op.at) # NULL /\ s.free # {}
              /\ Becomes(page_insert(alloc_page(s, "data"), op.to, op.at, npage))
              /\ op' = next
              /\ UNCHANGED panic
           \/ /\ p # NULL /\ get_pte(s, op.to, op.at) # NULL /\ s.free = {}
              /\ Becomes(s)
              /\ panic' = TRUE
              /\ UNCHANGED op
           \/ /\ p # NULL /\ get_pte(s, op.to, op.at) = NULL
              /\ Becomes(s)
              /\ op' = [call |-> "exit", m |-> op.to, todo |-> areas[op.to], unmap |-> areas[op.to]]
              /\ UNCHANGED panic

(* exit_mmap begins.                                                        *)
exit_mmap(m) ==
    /\ Idle
    /\ areas[m] # NULL
    /\ op' = [call |-> "exit", m |-> m, todo |-> areas[m], unmap |-> areas[m]]
    /\ UNCHANGED <<areas, entries, ref, free, use, panic>>

(* unmap_range of the next area, all its pages.                             *)
unmap_range ==
    LET mapped == {la \in Span(Head(op.unmap)) : get_page(mem, op.m, la) # NULL}
    IN  /\ Call("exit")
        /\ op.unmap # <<>>
        /\ Becomes(FoldSet(LAMBDA la, s : page_remove_pte(s, op.m, la), mem, mapped))
        /\ op' = [op EXCEPT !.unmap = Tail(@)]
        /\ UNCHANGED <<areas, panic>>

(* One directory of level 0 in exit_range, over its entries visited: every  *)
(* page table without a valid entry is freed, and then the directory unless *)
(* an entry was not valid before.                                           *)
exit_directory(s, m, i, visited) ==
    LET pd0 == s.entries[m][i]
        empty == {d \in visited : s.entries[pd0][d] # NULL /\ s.entries[s.entries[pd0][d]] = Empty}
        s1 == FoldSet(LAMBDA d, t : [free_page(t, s.entries[pd0][d]) EXCEPT !.entries[pd0][d] = NULL],
                      s, empty)
    IN  IF pd0 = NULL THEN s
        ELSE IF \E d \in visited : s.entries[pd0][d] = NULL THEN s1
        ELSE [free_page(s1, pd0) EXCEPT !.entries[m][i] = NULL]

(* exit_range of the next area, after all pages are unmapped.               *)
exit_range ==
    LET area == Head(op.todo)
        tables == {la \div NENTRY : la \in Span(area)}
        Visited(i) == {t % NENTRY : t \in {u \in tables : u \div NENTRY = i}}
    IN  /\ Call("exit")
        /\ op.unmap = <<>> /\ op.todo # <<>>
        /\ Becomes(FoldSet(LAMBDA i, s : exit_directory(s, op.m, i, Visited(i)), mem,
                           {t \div NENTRY : t \in tables}))
        /\ op' = [op EXCEPT !.todo = Tail(@)]
        /\ UNCHANGED <<areas, panic>>

(* put_pgdir and mm_destroy.                                                *)
mm_destroy ==
    /\ Call("exit")
    /\ op.unmap = <<>> /\ op.todo = <<>>
    /\ areas' = [areas EXCEPT ![op.m] = NULL]
    /\ entries' = [entries EXCEPT ![op.m] = Empty]
    /\ op' = NULL
    /\ UNCHANGED <<ref, free, use, panic>>

Next ==
    \/ \E m \in Mms :
         \/ mm_create(m) \/ exit_mmap(m)
         \/ \E a \in Segments : mm_map(m, a[1], a[2])
         \/ \E la \in 0..USERTOP - 1 : pgdir_alloc_page(m, la)
         \/ \E from \in Mms : dup_mmap(m, from)
    \/ dup_area \/ dup_done \/ copy_range
    \/ unmap_range \/ exit_range \/ mm_destroy

Spec == Init /\ [][Next]_vars
-----------------------------------------------------------------------------
TypeOK ==
    /\ entries \in [Mms \cup Pages -> [Index -> Pages \cup {NULL}]]
    /\ ref \in [Pages -> Nat]
    /\ free \subseteq Pages
    /\ use \in [Pages -> {NULL, "table", "data"}]

(* The tables of all address spaces, the directories included, and what     *)
(* their entries lead to.                                                   *)
Below(nodes) == {entries[n][i] : n \in nodes, i \in Index} \ {NULL}
Directories == Below(Mms)
PageTables == Below(Directories)
Mapped == Below(PageTables)
Referrers(p) == {<<n, i>> \in (Mms \cup Directories \cup PageTables) \X Index : entries[n][i] = p}

(* No page is used twice: whatever an entry leads to is allocated for that  *)
(* use, its only entry is this one and its reference count says so.  In     *)
(* particular parent and child share nothing after a fork.                  *)
UsedOnce ==
    /\ \A p \in Directories \cup PageTables \cup Mapped :
         p \notin free /\ ref[p] = 1 /\ Cardinality(Referrers(p)) = 1
    /\ \A p \in Directories \cup PageTables : use[p] = "table"
    /\ \A p \in Mapped : use[p] = "data"
    /\ \A p \in free : ref[p] = 0

(* Only addresses of areas are mapped, so an exit that unmaps the areas     *)
(* leaves nothing mapped.                                                   *)
MappedInAreas ==
    \A m \in Mms, la \in 0..NENTRY * NENTRY * NENTRY - 1 :
       get_page(mem, m, la) # NULL =>
          areas[m] # NULL /\ \E i \in DOMAIN areas[m] : la \in Span(areas[m][i])

(* A page that is neither free nor in use is lost.  Along every path,       *)
(* without memory too, no data page is: only tables are, and empty ones.    *)
Lost == Pages \ (free \cup Directories \cup PageTables \cup Mapped)
OnlyTablesLost ==
    \A p \in Lost : use[p] = "table" /\ Below({p}) \subseteq Lost \cup free

(* Over loads, forks and exits, without memory too, get_pte, page_insert,   *)
(* copy_range, unmap_range and exit_range use every page once, map areas    *)
(* only and lose no data page.                                              *)
PageInv == TypeOK /\ UsedOnce /\ MappedInAreas /\ OnlyTablesLost
=============================================================================
