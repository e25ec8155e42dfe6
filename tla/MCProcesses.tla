----------------------------- MODULE MCProcesses -----------------------------
(***************************************************************************)
(* What a process consists of: the resources that do_fork, do_execve,       *)
(* do_exit and do_wait take and give back (ProcResources), the areas of its *)
(* address space (VmaSpace), its page tables (PageTable) and its share of   *)
(* the processor under the stride class (Stride).  The models share no      *)
(* variable, so a behaviour is about one of them, `part', and the others    *)
(* rest.                                                                    *)
(***************************************************************************)
EXTENDS ProcResources, VmaSpace, TLC

CONSTANTS
    Parts,
    NPAGES, NENTRY, UserPages, Segments, MaxSegments,
    Proc, Width, Priorities, MAX_TIME_SLICE

VARIABLES
    part,
    areas, entries, ref, free, use, op, page_panic,
    run_state, current, need_resched, time_slice, lab6_stride, lab6_priority, pool, proc_num

pagevars == <<areas, entries, ref, free, use, op, page_panic>>
stridevars == <<run_state, current, need_resched, time_slice, lab6_stride, lab6_priority,
                pool, proc_num>>
allvars == <<part, vars, vmavars, pagevars, stridevars>>

P == INSTANCE PageTable WITH panic <- page_panic, USERTOP <- UserPages,
                             MaxAreas <- MaxSegments
S == INSTANCE Stride WITH state <- run_state

ASSUME PartsAssumption ==
    /\ Parts \subseteq {"resources", "areas", "tables", "stride"}
    /\ P!PageAssumption /\ S!StrideAssumption

ProcessesInit == part \in Parts /\ Init /\ VmaInit /\ P!Init /\ S!Init

Resource(A) == part = "resources" /\ A /\ UNCHANGED <<part, vmavars, pagevars, stridevars>>
Area(A) == part = "areas" /\ A /\ UNCHANGED <<part, vars, pagevars, stridevars>>
PTable(A) == part = "tables" /\ A /\ UNCHANGED <<part, vars, vmavars, stridevars>>
Strides(A) == part = "stride" /\ A /\ UNCHANGED <<part, vars, vmavars, pagevars>>

(* An assertion has stopped the kernel.                                     *)
Halted == (vma_panic \/ page_panic) /\ UNCHANGED allvars

ProcessesNext ==
    Resource(Next) \/ Area(VmaNext) \/ PTable(P!Next) \/ Strides(S!Next) \/ Halted

ProcessesSpec == ProcessesInit /\ [][ProcessesNext]_allvars

(* The first segment crosses from one page table into the next, the second  *)
(* has a directory of its own.                                              *)
MCSegments == {<<0, 3>>, <<4, 5>>}
MCFlags == {{"WRITE"}, {"READ", "WRITE", "STACK"}}
MCPriorities == {0, 2}
Symmetric == Permutations(Mms) \cup Permutations(Proc)

(* The fields of a process that is not there are leftovers that alloc_proc  *)
(* sets again.                                                              *)
StrideView ==
    LET Fields(f) == [p \in {q \in Proc : run_state[q] # "UNINIT"} |-> f[p]]
    IN  <<run_state, current, need_resched, Fields(time_slice), Fields(lab6_stride),
          Fields(lab6_priority), pool, proc_num>>

(* The parts that rest stay as they began.                                  *)
View ==
    <<part, CASE part = "resources" -> vars
              [] part = "areas" -> vmavars
              [] part = "tables" -> pagevars
              [] part = "stride" -> StrideView>>
-----------------------------------------------------------------------------
(* The comment in do_fork: "On failure the resources allocated so far must  *)
(* be released."                                                            *)
ForkReleases == FailedForkReleases

(* Over loads (the pages load_icode maps one by one), forks and exits,      *)
(* without memory too, a page has one use and one entry that leads to it,   *)
(* only areas are mapped, and no data page is lost.                         *)
PageInv == part = "tables" => P!PageInv

(* Through forks, sleeps, wakeups and ticks the skew heap of the stride     *)
(* class holds exactly the queued processes with the least far on at its    *)
(* root, where strides have wrapped round too.                              *)
StrideInv == part = "stride" => S!StrideInv
=============================================================================
