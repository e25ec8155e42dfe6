------------------------------ MODULE VmaSpace ------------------------------
(***************************************************************************)
(* The areas of an address space and the questions the kernel asks them     *)
(* before it touches user memory: mm_map, insert_vma_struct, find_vma with  *)
(* its one-entry cache, dup_mmap, mm_destroy, user_mem_check and            *)
(* copy_string of kern/mm/vmm.c.  Addresses are small integers, the pages   *)
(* of an area and their contents are left out.                              *)
(***************************************************************************)
EXTENDS Integers, Sequences, SequencesExt, Null

CONSTANTS
    Mms,                  \* memory for mm_struct
    PGSIZE,
    USERBASE, USERTOP,    \* both multiples of PGSIZE
    Flags,                \* sets of "READ", "WRITE", "STACK"
    MaxAreas              \* bound: areas of one address space

Addr == 0..USERTOP + PGSIZE
vma_create(start, end, flags) == [vm_start |-> start, vm_end |-> end, vm_flags |-> flags]
VmaType == [vm_start : Addr, vm_end : Addr, vm_flags : Flags]

ASSUME VmaAssumption ==
    /\ PGSIZE \in Nat \ {0}
    /\ USERBASE \in Nat /\ USERTOP \in Nat
    /\ USERBASE % PGSIZE = 0 /\ USERTOP % PGSIZE = 0
    /\ Flags \subseteq SUBSET {"READ", "WRITE", "STACK"}
    /\ MaxAreas \in Nat
    /\ NULL \notin Seq(VmaType) \cup VmaType

VARIABLES
    mmap_list,            \* of each mm_struct, NULL: not allocated
    mmap_cache,           \* the area found last, NULL: none
    vma_panic                 \* an assertion has stopped the kernel

vmavars == <<mmap_list, mmap_cache, vma_panic>>

VmaInit ==
    /\ mmap_list = [m \in Mms |-> NULL]
    /\ mmap_cache = [m \in Mms |-> NULL]
    /\ vma_panic = FALSE

Live(m) == ~ vma_panic /\ mmap_list[m] # NULL
USER_ACCESS(start, end) == USERBASE <= start /\ start < end /\ end <= USERTOP
ROUNDDOWN(a) == a - (a % PGSIZE)
ROUNDUP(a) == ROUNDDOWN(a + PGSIZE - 1)
Covers(vma, addr) == vma.vm_start <= addr /\ addr < vma.vm_end
-----------------------------------------------------------------------------
(* find_vma: the cached area if it fits, else the first of the list that    *)
(* does.                                                                    *)
find_vma(m, cache, addr) ==
    LET list == mmap_list[m]
        hits == {i \in DOMAIN list : Covers(list[i], addr)}
    IN  IF cache # NULL /\ Covers(cache, addr) THEN cache
        ELSE IF hits = {} THEN NULL
        ELSE list[CHOOSE i \in hits : \A j \in hits : i <= j]

(* The cache after find_vma has returned vma.                               *)
Cached(cache, vma) == IF vma = NULL THEN cache ELSE vma

mm_create(m) ==
    /\ ~ vma_panic
    /\ mmap_list[m] = NULL
    /\ mmap_list' = [mmap_list EXCEPT ![m] = <<>>]
    /\ mmap_cache' = [mmap_cache EXCEPT ![m] = NULL]
    /\ UNCHANGED vma_panic

(* insert_vma_struct: behind the last area that does not start after it.    *)
insert_vma_struct(list, vma) ==
    LET before == {i \in DOMAIN list : \A j \in 1..i : list[j].vm_start <= vma.vm_start}
        n == IF before = {} THEN 0 ELSE Max(before)
    IN  InsertAt(list, n + 1, vma)

(* The assertions of check_vma_overlap.                                     *)
check_vma_overlap(list) ==
    \A i \in 1..Len(list) - 1 : list[i].vm_end <= list[i + 1].vm_start

mm_map(m, addr, len, flags) ==
    LET start == ROUNDDOWN(addr)
        end == ROUNDUP(addr + len)
        vma == find_vma(m, mmap_cache[m], start)
        list == insert_vma_struct(mmap_list[m], vma_create(start, end, flags))
    IN  /\ Live(m)
        /\ Len(mmap_list[m]) < MaxAreas
        /\ USER_ACCESS(start, end)
        /\ mmap_cache' = [mmap_cache EXCEPT ![m] = Cached(@, vma)]
        /\ \/ /\ vma # NULL                                  \* -E_INVAL
              /\ UNCHANGED <<mmap_list, vma_panic>>
           \/ /\ vma = NULL /\ check_vma_overlap(list)
              /\ mmap_list' = [mmap_list EXCEPT ![m] = list]
              /\ UNCHANGED vma_panic
           \/ /\ vma = NULL /\ ~ check_vma_overlap(list)
              /\ vma_panic' = TRUE
              /\ UNCHANGED mmap_list

(* dup_mmap copies from the last area to the first; it may run out of       *)
(* memory, with the last n areas copied.                                    *)
dup_mmap(to, from, n) ==
    LET list == mmap_list[from]
        copied[k \in 0..n] ==
          IF k = 0 THEN <<>> ELSE insert_vma_struct(copied[k - 1], list[Len(list) + 1 - k])
    IN  /\ Live(to) /\ Live(from) /\ to # from
        /\ mmap_list[to] = <<>>
        /\ n <= Len(list)
        /\ mmap_list' = [mmap_list EXCEPT ![to] = copied[n]]
        /\ UNCHANGED <<mmap_cache, vma_panic>>

mm_destroy(m) ==
    /\ Live(m)
    /\ mmap_list' = [mmap_list EXCEPT ![m] = NULL]
    /\ mmap_cache' = [mmap_cache EXCEPT ![m] = NULL]
    /\ UNCHANGED vma_panic
-----------------------------------------------------------------------------
(* Mutant: the guard page of a stack is only tested at the first byte.      *)
user_mem_checkFirst(m, addr, end, write) ==
    LET walk[start \in 0..end] ==
          IF start >= end THEN [ret |-> TRUE, cache |-> NULL]
          ELSE LET vma == find_vma(m, mmap_cache[m], start)
               IN  IF \/ vma = NULL
                      \/ (IF write THEN "WRITE" ELSE "READ") \notin vma.vm_flags
                      \/ write /\ "STACK" \in vma.vm_flags /\ start = addr
                               /\ start < vma.vm_start + PGSIZE
                   THEN [ret |-> FALSE, cache |-> vma]
                   ELSE LET r == walk[IF vma.vm_end < end THEN vma.vm_end ELSE end]
                        IN  [r EXCEPT !.cache = Cached(vma, @)]
    IN  IF USER_ACCESS(addr, end) THEN walk[addr] ELSE [ret |-> FALSE, cache |-> NULL]

(* user_mem_check of the bytes from addr up to end: from area to area; ret  *)
(* is its answer, cache the area it found last.  A kernel thread, which has *)
(* no mm, is asked about kernel addresses instead (KERN_ACCESS), and looks  *)
(* at no area: left out.                                                    *)
user_mem_check(m, addr, end, write) ==
    LET walk[start \in 0..end] ==
          IF start >= end THEN [ret |-> TRUE, cache |-> NULL]
          ELSE LET vma == find_vma(m, mmap_cache[m], start)
               IN  IF \/ vma = NULL
                      \/ (IF write THEN "WRITE" ELSE "READ") \notin vma.vm_flags
                      \/ write /\ "STACK" \in vma.vm_flags /\ start < vma.vm_start + PGSIZE
                   THEN [ret |-> FALSE, cache |-> vma]
                   ELSE LET r == walk[IF vma.vm_end < end THEN vma.vm_end ELSE end]
                        IN  [r EXCEPT !.cache = Cached(vma, @)]
    IN  IF USER_ACCESS(addr, end) THEN walk[addr] ELSE [ret |-> FALSE, cache |-> NULL]

(* copy_from_user, copy_to_user: the check; the copy itself is left out.    *)
(* A range that is empty or leaves user memory is refused before any area   *)
(* is looked at.                                                            *)
copy_user(m, addr, end, write) ==
    /\ Live(m)
    /\ mmap_cache' = [mmap_cache EXCEPT ![m] = Cached(@, user_mem_check(m, addr, end, write).cache)]
    /\ UNCHANGED <<mmap_list, vma_panic>>

(* copy_string of a string whose first zero byte is at nul, page by page:   *)
(* the string is copied if the zero is found in a page that may be read.    *)
copy_string(m, src, maxn, nul) ==
    LET copied[at \in src..src + maxn] ==
          LET page == ROUNDDOWN(at + PGSIZE)
              end == IF page > src + maxn THEN src + maxn ELSE page
          IN  IF ~ user_mem_check(m, at, end, FALSE).ret THEN FALSE
              ELSE IF nul < end THEN TRUE
              ELSE IF end = src + maxn THEN FALSE
              ELSE copied[end]
    IN  copied[src]

VmaNext ==
    \E m \in Mms :
       \/ mm_create(m) \/ mm_destroy(m)
       \/ \E addr \in Addr, len \in 1..USERTOP, flags \in Flags : mm_map(m, addr, len, flags)
       \/ \E from \in Mms, n \in 0..MaxAreas : dup_mmap(m, from, n)
       \/ \E addr \in Addr : \E end \in addr + 1..USERTOP, write \in BOOLEAN :
             copy_user(m, addr, end, write)

VmaSpec == VmaInit /\ [][VmaNext]_vmavars
-----------------------------------------------------------------------------
VmaTypeOK ==
    /\ mmap_list \in [Mms -> {NULL} \cup Seq(VmaType)]
    /\ mmap_cache \in [Mms -> {NULL} \cup VmaType]
    /\ vma_panic \in BOOLEAN

(* The list is sorted, its areas are whole pages of user memory, are not    *)
(* empty and do not overlap.                                                *)
ListSorted ==
    \A m \in Mms : mmap_list[m] # NULL =>
       \A i \in DOMAIN mmap_list[m] :
          LET vma == mmap_list[m][i]
          IN  /\ USER_ACCESS(vma.vm_start, vma.vm_end)
              /\ vma.vm_start % PGSIZE = 0 /\ vma.vm_end % PGSIZE = 0
              /\ \A j \in DOMAIN mmap_list[m] : i < j => vma.vm_end <= mmap_list[m][j].vm_start

(* The cache is an area of the list, so a lookup through it answers what a  *)
(* search of the list would.                                                *)
CacheInList ==
    \A m \in Mms : mmap_cache[m] # NULL =>
       mmap_list[m] # NULL /\ \E i \in DOMAIN mmap_list[m] : mmap_list[m][i] = mmap_cache[m]

(* Whether the byte at a may be accessed: an area covers it with the flag,  *)
(* and a write is not in the lowest page of a stack.                        *)
MayAccess(m, a, write) ==
    \E i \in DOMAIN mmap_list[m] :
       LET vma == mmap_list[m][i]
       IN  /\ Covers(vma, a)
           /\ (IF write THEN "WRITE" ELSE "READ") \in vma.vm_flags
           /\ write /\ "STACK" \in vma.vm_flags => a >= vma.vm_start + PGSIZE

(* user_mem_check, which looks at one address per area, says yes exactly    *)
(* when every byte of the range may be accessed.                            *)
CheckExact ==
    \A m \in Mms : mmap_list[m] # NULL =>
       \A addr, end \in Addr, write \in BOOLEAN : addr < end =>
          user_mem_check(m, addr, end, write).ret
            = \A a \in addr..end - 1 : MayAccess(m, a, write)

(* copy_string succeeds exactly for a string that ends within maxn bytes    *)
(* and may be read up to its end.                                           *)
StringExact ==
    \A m \in Mms : mmap_list[m] # NULL =>
       \A src \in Addr, maxn \in 1..2 * PGSIZE + 1 : \A k \in 0..maxn :
          copy_string(m, src, maxn, src + k)
            = (k < maxn /\ \A a \in src..src + k : MayAccess(m, a, FALSE))

(* After any sequence of mm_map, dup_mmap and mm_destroy the areas are      *)
(* sorted and apart, find_vma's cache tells the truth, and user_mem_check   *)
(* and copy_string allow exactly what every byte allows.                    *)
VmaInv == VmaTypeOK /\ ListSorted /\ CacheInList /\ CheckExact /\ StringExact
=============================================================================
