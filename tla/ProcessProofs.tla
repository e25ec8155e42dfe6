--------------------------- MODULE ProcessProofs ---------------------------
(***************************************************************************)
(* What a process owns: ResInv is an invariant of ProcResources for every   *)
(* set of processes, and VmaInv one of VmaSpace for every set of address    *)
(* spaces, page size and extent of user memory.                             *)
(*                                                                         *)
(* Resources.  Along every path through do_fork, do_execve, do_exit and     *)
(* do_wait what was taken is given back exactly once, but for the two known *)
(* losses.  Most actions move one process from a place in the code to       *)
(* another and change what its call has taken; LocalStep says that such a   *)
(* step keeps ResInv if the place and what was taken agree (Holding)        *)
(* afterwards.  TakeStep, FillStep and GiveStep apply it to the three kinds *)
(* of step, so that each action is left with a fact about constant sets.    *)
(*                                                                         *)
(* Areas.  The inductive invariant VmaState is the first three parts of     *)
(* VmaInv.  Its other two, that user_mem_check and copy_string are exact,   *)
(* follow from it state by state: the loops of the two have a result from   *)
(* every address (Upward), and the highest address at which it were wrong   *)
(* would make one turn of the loop wrong.                                   *)
(***************************************************************************)
EXTENDS ProcResources, VmaSpace, DataLemmas, TLAPS

(* A step of one living process that changes nothing but where its call is, *)
(* what the call has taken and whether the mm in it is counted keeps ResInv *)
(* if the three agree.                                                      *)
LEMMA LocalStep ==
    ASSUME ResInv, NEW p \in Procs, state[p] = "alive",
           TypeOK', ~ failed',
           Holding(pc'[p], new'[p], counted'[p]),
           \A q \in Procs : q # p =>
              pc'[q] = pc[q] /\ new'[q] = new[q] /\ counted'[q] = counted[q],
           UNCHANGED <<state, own, lost>>
    PROVE  ResInv'
<1>2. TakenSoFar'
  <2> SUFFICES ASSUME NEW q \in Procs
               PROVE  /\ Holding(pc'[q], new'[q], counted'[q])
                      /\ state'[q] # "alive" => pc'[q] = "user"
    BY DEF TakenSoFar, Holding
  <2>1. CASE q = p
    BY <2>1
  <2>2. CASE q # p
    BY <2>2 DEF ResInv, TakenSoFar
  <2> QED BY <2>1, <2>2
<1>3. OwnExact'
  BY DEF ResInv, OwnExact
<1>4. LossesKnown'
  BY DEF ResInv, LossesKnown
<1>5. Complete'
  <2>1. \A q \in Procs : At(q, "user")' => new'[q] = {} /\ "files" \in own'[q]
    BY <1>2, <1>3, Zenon DEF At, TakenSoFar, OwnExact, Holding, Built
  <2>2. \A q \in Procs : state'[q] = "none" => own'[q] = {} /\ new'[q] = {}
    BY DEF ResInv, Complete
  <2> QED BY <2>1, <2>2 DEF ResInv, Complete
<1> QED BY <1>2, <1>3, <1>4, <1>5 DEF ResInv

(* What ResInv says about a process that is at a place of a call.           *)
LEMMA HeldAt ==
    ASSUME ResInv, NEW p \in Procs, NEW at, At(p, at)
    PROVE  /\ state[p] = "alive"
           /\ Holding(at, new[p], counted[p])
           /\ new[p] \in SUBSET Resources
           /\ counted[p] \in BOOLEAN
           /\ failed = FALSE
BY DEF ResInv, TypeOK, Complete, TakenSoFar, At

(* An allocation keeps ResInv if both ways it can go on agree with what is  *)
(* held then.                                                               *)
LEMMA TakeStep ==
    ASSUME ResInv, NEW p \in Procs, NEW at, NEW r \in Resources,
           NEW good \in Places, NEW bad \in Places,
           Take(p, at, r, good, bad),
           Holding(good, new[p] \cup {r}, counted[p]),
           Holding(bad, new[p], counted[p])
    PROVE  ResInv'
<1>1. state[p] = "alive" /\ failed = FALSE /\ new[p] \in SUBSET Resources
  BY HeldAt DEF Take
<1>2. TypeOK' /\ ~ failed'
  BY <1>1 DEF Take, Goto, ResInv, TypeOK
<1>3. Holding(pc'[p], new'[p], counted'[p])
  <2>1. CASE new' = [new EXCEPT ![p] = @ \cup {r}] /\ Goto(p, good)
    <3>1. new'[p] = new[p] \cup {r} /\ pc'[p] = good /\ counted'[p] = counted[p]
      BY <2>1 DEF Take, Goto, ResInv, TypeOK
    <3> QED BY <3>1, Zenon
  <2>2. CASE UNCHANGED new /\ Goto(p, bad)
    <3>1. new'[p] = new[p] /\ pc'[p] = bad /\ counted'[p] = counted[p]
      BY <2>2 DEF Take, Goto, ResInv, TypeOK
    <3> QED BY <3>1, Zenon
  <2> QED BY <2>1, <2>2 DEF Take
<1>4. \A q \in Procs : q # p =>
         pc'[q] = pc[q] /\ new'[q] = new[q] /\ counted'[q] = counted[q]
  BY DEF Take, Goto, ResInv, TypeOK
<1> QED BY <1>1, <1>2, <1>3, <1>4, LocalStep DEF Take

(* The same for a piece of work that may stop in the middle.                *)
LEMMA FillStep ==
    ASSUME ResInv, NEW p \in Procs, NEW at, NEW r \in Resources,
           NEW good \in Places, NEW bad \in Places,
           Fill(p, at, r, good, bad),
           Holding(good, new[p] \cup {r}, counted[p]),
           Holding(bad, new[p] \cup {r}, counted[p])
    PROVE  ResInv'
<1>1. state[p] = "alive" /\ failed = FALSE /\ new[p] \in SUBSET Resources
  BY HeldAt DEF Fill
<1>2. TypeOK' /\ ~ failed'
  BY <1>1 DEF Fill, Goto, ResInv, TypeOK
<1>3. Holding(pc'[p], new'[p], counted'[p])
  <2>1. /\ new'[p] = new[p] \cup {r} /\ counted'[p] = counted[p]
        /\ pc'[p] = good \/ pc'[p] = bad
    BY DEF Fill, Goto, ResInv, TypeOK
  <2> QED BY <2>1, Zenon
<1>4. \A q \in Procs : q # p =>
         pc'[q] = pc[q] /\ new'[q] = new[q] /\ counted'[q] = counted[q]
  BY DEF Fill, Goto, ResInv, TypeOK
<1> QED BY <1>1, <1>2, <1>3, <1>4, LocalStep DEF Fill

(* The same for a release: what is released is there and, if it is the mm   *)
(* or what is mapped in it, not counted.                                    *)
LEMMA GiveStep ==
    ASSUME ResInv, NEW p \in Procs, NEW at, NEW r \in Resources, NEW next \in Places,
           Give(p, at, r, next),
           r \in new[p],
           r \in {"mmap", "mm"} => ~ counted[p],
           Holding(next, new[p] \ {r}, counted[p])
    PROVE  ResInv'
<1>1. state[p] = "alive" /\ failed = FALSE /\ new[p] \in SUBSET Resources
  BY HeldAt DEF Give
<1>2. TypeOK' /\ ~ failed'
  BY <1>1 DEF Give, Goto, ResInv, TypeOK
<1>3. Holding(pc'[p], new'[p], counted'[p])
  <2>1. new'[p] = new[p] \ {r} /\ counted'[p] = counted[p] /\ pc'[p] = next
    BY DEF Give, Goto, ResInv, TypeOK
  <2> QED BY <2>1, Zenon
<1>4. \A q \in Procs : q # p =>
         pc'[q] = pc[q] /\ new'[q] = new[q] /\ counted'[q] = counted[q]
  BY DEF Give, Goto, ResInv, TypeOK
<1> QED BY <1>1, <1>2, <1>3, <1>4, LocalStep DEF Give

(* A step that changes only the place.                                      *)
LEMMA GoStep ==
    ASSUME ResInv, NEW p \in Procs, NEW at, At(p, at), NEW place \in Places,
           Goto(p, place), UNCHANGED <<state, own, new, counted, lost, failed>>,
           Holding(place, new[p], counted[p])
    PROVE  ResInv'
<1>1. state[p] = "alive" /\ failed = FALSE
  BY HeldAt
<1>2. TypeOK' /\ ~ failed'
  BY <1>1 DEF Goto, ResInv, TypeOK
<1>3. Holding(pc'[p], new'[p], counted'[p])
  <2>1. new'[p] = new[p] /\ counted'[p] = counted[p] /\ pc'[p] = place
    BY DEF Goto, ResInv, TypeOK
  <2> QED BY <2>1, Zenon
<1>4. \A q \in Procs : q # p =>
         pc'[q] = pc[q] /\ new'[q] = new[q] /\ counted'[q] = counted[q]
  BY DEF Goto, ResInv, TypeOK
<1> QED BY <1>1, <1>2, <1>3, <1>4, LocalStep
-----------------------------------------------------------------------------
(* Steps of do_fork and of do_execve: what each of them finds, and what it  *)
(* leaves to the place it goes on to.                                       *)
LEMMA alloc_proc_step ==
    ASSUME ResInv, NEW p \in Procs, alloc_proc(p)
    PROVE  ResInv'
<1>1. Holding("user", new[p], counted[p])
  BY HeldAt DEF Take, alloc_proc
<1>2. /\ Holding("setup_kstack", new[p] \cup {"proc"}, counted[p])
      /\ Holding("user", new[p], counted[p])
  BY <1>1 DEF Holding, Built, Space
<1> QED BY <1>2, TakeStep DEF Resources, Space, Places, alloc_proc

(* do_fork takes the kernel stack, or goes to bad_fork_cleanup_proc.        *)
LEMMA setup_kstack_step ==
    ASSUME ResInv, NEW p \in Procs, setup_kstack(p)
    PROVE  ResInv'
<1>1. Holding("setup_kstack", new[p], counted[p])
  BY HeldAt DEF Take, setup_kstack
<1>2. /\ Holding("copy_mm", new[p] \cup {"kstack"}, counted[p])
      /\ Holding("put_proc", new[p], counted[p])
  BY <1>1 DEF Holding, Built, Space
<1> QED BY <1>2, TakeStep DEF Resources, Space, Places, setup_kstack

(* copy_mm takes the page directory, or goes to bad_pgdir_cleanup_mm.       *)
LEMMA copy_pgdir_step ==
    ASSUME ResInv, NEW p \in Procs, copy_pgdir(p)
    PROVE  ResInv'
<1>1. Holding("copy_pgdir", new[p], counted[p])
  BY HeldAt DEF Take, copy_pgdir
<1>2. /\ Holding("dup_mmap", new[p] \cup {"pgdir"}, counted[p])
      /\ Holding("bad_copy_mm", new[p], counted[p])
  BY <1>1 DEF Holding, Built, Space
<1> QED BY <1>2, TakeStep DEF Resources, Space, Places, copy_pgdir

(* do_fork takes the file table, or goes to bad_fork_cleanup_kstack.        *)
LEMMA copy_files_step ==
    ASSUME ResInv, NEW p \in Procs, copy_files(p)
    PROVE  ResInv'
<1>1. Holding("copy_files", new[p], counted[p])
  BY HeldAt DEF Take, copy_files
<1>2. /\ Holding("wakeup", new[p] \cup {"files"}, counted[p])
      /\ Holding("put_kstack", new[p], counted[p])
  BY <1>1 DEF Holding, Built, Space
<1> QED BY <1>2, TakeStep DEF Resources, Space, Places, copy_files

(* do_execve copies the arguments, or returns.                              *)
LEMMA do_execve_step ==
    ASSUME ResInv, NEW p \in Procs, do_execve(p)
    PROVE  ResInv'
<1>1. Holding("user", new[p], counted[p])
  BY HeldAt DEF Take, do_execve
<1>2. /\ Holding("open", new[p] \cup {"kargv"}, counted[p])
      /\ Holding("user", new[p], counted[p])
  BY <1>1 DEF Holding, Built, Space
<1> QED BY <1>2, TakeStep DEF Resources, Space, Places, do_execve

(* load_icode takes the new mm, or leaves do_execve.                        *)
LEMMA load_icode_mm_step ==
    ASSUME ResInv, NEW p \in Procs, load_icode_mm(p)
    PROVE  ResInv'
<1>1. Holding("mm_create", new[p], counted[p])
  BY HeldAt DEF Take, load_icode_mm
<1>2. /\ Holding("setup_pgdir", new[p] \cup {"mm"}, counted[p])
      /\ Holding("execve_exit", new[p], counted[p])
  BY <1>1 DEF Holding, Built, Space
<1> QED BY <1>2, TakeStep DEF Resources, Space, Places, load_icode_mm

(* load_icode takes the page directory, or goes to bad_pgdir_cleanup_mm.    *)
LEMMA setup_pgdir_step ==
    ASSUME ResInv, NEW p \in Procs, setup_pgdir(p)
    PROVE  ResInv'
<1>1. Holding("setup_pgdir", new[p], counted[p])
  BY HeldAt DEF Take, setup_pgdir
<1>2. /\ Holding("read_elf", new[p] \cup {"pgdir"}, counted[p])
      /\ Holding("bad_pgdir", new[p], counted[p])
  BY <1>1 DEF Holding, Built, Space
<1> QED BY <1>2, TakeStep DEF Resources, Space, Places, setup_pgdir

(* copy_mm has nothing to do for a kernel thread and takes an mm for the    *)
(* others.                                                                  *)
LEMMA copy_mm_step ==
    ASSUME ResInv, NEW p \in Procs, copy_mm(p)
    PROVE  ResInv'
<1>1. Holding("copy_mm", new[p], counted[p])
  BY HeldAt DEF copy_mm, Take
<1>2. /\ Holding("copy_files", new[p], counted[p])
      /\ Holding("copy_pgdir", new[p] \cup {"mm"}, counted[p])
      /\ Holding("put_kstack", new[p], counted[p])
  BY <1>1 DEF Holding, Built, Space
<1>3. CASE /\ At(p, "copy_mm") /\ Goto(p, "copy_files")
           /\ UNCHANGED <<state, own, new, counted, lost, failed>>
  BY <1>2, <1>3, GoStep DEF Places
<1>4. CASE Take(p, "copy_mm", "mm", "copy_pgdir", "put_kstack")
  BY <1>2, <1>4, TakeStep DEF Resources, Space, Places
<1> QED BY <1>3, <1>4 DEF copy_mm

(* The labels of copy_mm give back the areas, the page directory and the mm *)
(* in this order.                                                           *)
LEMMA copy_mm_cleanup_step ==
    ASSUME ResInv, NEW p \in Procs, copy_mm_cleanup(p)
    PROVE  ResInv'
<1>1. CASE Give(p, "bad_dup", "mmap", "bad_copy_pgdir")
  <2>1. Holding("bad_dup", new[p], counted[p])
    BY <1>1, HeldAt DEF Give
  <2>2. /\ "mmap" \in new[p] /\ ("mmap" \in {"mmap", "mm"} => ~ counted[p])
        /\ Holding("bad_copy_pgdir", new[p] \ {"mmap"}, counted[p])
    BY <2>1 DEF Holding, Built, Space
  <2> QED BY <1>1, <2>2, GiveStep DEF Resources, Space, Places
<1>2. CASE Give(p, "bad_copy_pgdir", "pgdir", "bad_copy_mm")
  <2>1. Holding("bad_copy_pgdir", new[p], counted[p])
    BY <1>2, HeldAt DEF Give
  <2>2. /\ "pgdir" \in new[p] /\ ("pgdir" \in {"mmap", "mm"} => ~ counted[p])
        /\ Holding("bad_copy_mm", new[p] \ {"pgdir"}, counted[p])
    BY <2>1 DEF Holding, Built, Space
  <2> QED BY <1>2, <2>2, GiveStep DEF Resources, Space, Places
<1>3. CASE Give(p, "bad_copy_mm", "mm", "put_kstack")
  <2>1. Holding("bad_copy_mm", new[p], counted[p])
    BY <1>3, HeldAt DEF Give
  <2>2. /\ "mm" \in new[p] /\ ("mm" \in {"mmap", "mm"} => ~ counted[p])
        /\ Holding("put_kstack", new[p] \ {"mm"}, counted[p])
    BY <2>1 DEF Holding, Built, Space
  <2> QED BY <1>3, <2>2, GiveStep DEF Resources, Space, Places
<1> QED BY <1>1, <1>2, <1>3 DEF copy_mm_cleanup

(* The labels of load_icode give back the same in the same order.           *)
LEMMA load_icode_cleanup_step ==
    ASSUME ResInv, NEW p \in Procs, load_icode_cleanup(p)
    PROVE  ResInv'
<1>1. CASE Give(p, "bad_mmap", "mmap", "bad_elf")
  <2>1. Holding("bad_mmap", new[p], counted[p])
    BY <1>1, HeldAt DEF Give
  <2>2. /\ "mmap" \in new[p] /\ ("mmap" \in {"mmap", "mm"} => ~ counted[p])
        /\ Holding("bad_elf", new[p] \ {"mmap"}, counted[p])
    BY <2>1 DEF Holding, Built, Space
  <2> QED BY <1>1, <2>2, GiveStep DEF Resources, Space, Places
<1>2. CASE Give(p, "bad_elf", "pgdir", "bad_pgdir")
  <2>1. Holding("bad_elf", new[p], counted[p])
    BY <1>2, HeldAt DEF Give
  <2>2. /\ "pgdir" \in new[p] /\ ("pgdir" \in {"mmap", "mm"} => ~ counted[p])
        /\ Holding("bad_pgdir", new[p] \ {"pgdir"}, counted[p])
    BY <2>1 DEF Holding, Built, Space
  <2> QED BY <1>2, <2>2, GiveStep DEF Resources, Space, Places
<1>3. CASE Give(p, "bad_pgdir", "mm", "execve_exit")
  <2>1. Holding("bad_pgdir", new[p], counted[p])
    BY <1>3, HeldAt DEF Give
  <2>2. /\ "mm" \in new[p] /\ ("mm" \in {"mmap", "mm"} => ~ counted[p])
        /\ Holding("execve_exit", new[p] \ {"mm"}, counted[p])
    BY <2>1 DEF Holding, Built, Space
  <2> QED BY <1>3, <2>2, GiveStep DEF Resources, Space, Places
<1> QED BY <1>1, <1>2, <1>3 DEF load_icode_cleanup

(* execve_exit gives the arguments back and ends the process.               *)
LEMMA execve_exit_step ==
    ASSUME ResInv, NEW p \in Procs, execve_exit(p)
    PROVE  ResInv'
<1>1. CASE Give(p, "execve_exit", "kargv", "do_exit")
  <2>1. Holding("execve_exit", new[p], counted[p])
    BY <1>1, HeldAt DEF Give
  <2>2. /\ "kargv" \in new[p] /\ ("kargv" \in {"mmap", "mm"} => ~ counted[p])
        /\ Holding("do_exit", new[p] \ {"kargv"}, counted[p])
    BY <2>1 DEF Holding, Built, Space
  <2> QED BY <1>1, <2>2, GiveStep DEF Resources, Space, Places
<1> QED BY <1>1 DEF execve_exit

(* Opening the program takes nothing that is counted.                       *)
LEMMA sysfile_open_step ==
    ASSUME ResInv, NEW p \in Procs, sysfile_open(p)
    PROVE  ResInv'
<1>1. PICK place \in {"drop_mm", "execve_exit"} : Goto(p, place)
  BY DEF sysfile_open
<1>2. Holding("open", new[p], counted[p])
  BY HeldAt DEF sysfile_open
<1>3. Holding(place, new[p], counted[p])
  BY <1>2 DEF Holding
<1> QED BY <1>1, <1>3, GoStep DEF sysfile_open, Places

(* Reading the header and the segments takes the areas, or goes to a label. *)
LEMMA load_segments_step ==
    ASSUME ResInv, NEW p \in Procs, load_segments(p)
    PROVE  ResInv'
<1>1. CASE /\ At(p, "read_elf")
           /\ \E place \in {"segments", "bad_elf"} : Goto(p, place)
           /\ UNCHANGED <<state, own, new, counted, lost, failed>>
  <2>1. PICK place \in {"segments", "bad_elf"} : Goto(p, place)
    BY <1>1
  <2>2. Holding("read_elf", new[p], counted[p])
    BY <1>1, HeldAt
  <2>3. Holding(place, new[p], counted[p])
    BY <2>2 DEF Holding
  <2> QED BY <1>1, <2>1, <2>3, GoStep DEF Places
<1>2. CASE Fill(p, "segments", "mmap", "stack", "bad_mmap")
  <2>1. Holding("segments", new[p], counted[p])
    BY <1>2, HeldAt DEF Fill
  <2>2. /\ Holding("stack", new[p] \cup {"mmap"}, counted[p])
        /\ Holding("bad_mmap", new[p] \cup {"mmap"}, counted[p])
    BY <2>1 DEF Holding, Space
  <2> QED BY <1>2, <2>2, FillStep DEF Resources, Space, Places
<1>3. CASE Fill(p, "stack", "mmap", "install", "bad_mmap")
  <2>1. Holding("stack", new[p], counted[p])
    BY <1>3, HeldAt DEF Fill
  <2>2. /\ Holding("install", new[p] \cup {"mmap"}, counted[p])
        /\ Holding("bad_mmap", new[p] \cup {"mmap"}, counted[p])
    BY <2>1 DEF Holding, Space
  <2> QED BY <1>3, <2>2, FillStep DEF Resources, Space, Places
<1> QED BY <1>1, <1>2, <1>3 DEF load_segments

(* A copy of the areas that stops in the middle is not counted, a complete  *)
(* one is.                                                                  *)
LEMMA copy_areas_step ==
    ASSUME ResInv, NEW p \in Procs, copy_areas(p)
    PROVE  ResInv'
<1>1. /\ state[p] = "alive" /\ failed = FALSE
      /\ new[p] \in SUBSET Resources
      /\ Holding("dup_mmap", new[p], counted[p])
  BY HeldAt DEF copy_areas
<1>2. TypeOK' /\ ~ failed'
  BY <1>1 DEF copy_areas, Goto, ResInv, TypeOK, Places, Resources, Space
<1>3. /\ new'[p] = new[p] \cup {"mmap"}
      /\ \/ counted'[p] = TRUE /\ pc'[p] = "copy_files"
         \/ counted'[p] = counted[p] /\ pc'[p] = "bad_dup"
  BY DEF copy_areas, Goto, ResInv, TypeOK
<1>4. Holding(pc'[p], new'[p], counted'[p])
  <2>1. /\ Holding("copy_files", new[p] \cup {"mmap"}, TRUE)
        /\ Holding("bad_dup", new[p] \cup {"mmap"}, counted[p])
    BY <1>1 DEF Holding, Built, Space
  <2> QED BY <1>3, <2>1, Zenon
<1>5. \A q \in Procs : q # p =>
         pc'[q] = pc[q] /\ new'[q] = new[q] /\ counted'[q] = counted[q]
  BY DEF copy_areas, Goto, ResInv, TypeOK
<1> QED BY <1>1, <1>2, <1>4, <1>5, LocalStep DEF copy_areas

(* do_fork fails: put_proc gives the structure back, and what is held       *)
(* beside it, nothing or a whole address space, is lost.                    *)
LEMMA fork_cleanup_step ==
    ASSUME ResInv, NEW p \in Procs, fork_cleanup(p)
    PROVE  ResInv'
<1>1. CASE Give(p, "put_kstack", "kstack", "put_proc")
  <2>1. Holding("put_kstack", new[p], counted[p])
    BY <1>1, HeldAt DEF Give
  <2>2. /\ "kstack" \in new[p] /\ ("kstack" \in {"mmap", "mm"} => ~ counted[p])
        /\ Holding("put_proc", new[p] \ {"kstack"}, counted[p])
    BY <2>1 DEF Holding, Built, Space
  <2> QED BY <1>1, <2>2, GiveStep DEF Resources, Space, Places
<1>2. CASE /\ At(p, "put_proc")
           /\ failed' = (failed \/ "proc" \notin new[p])
           /\ lost' = lost \cup {"fork"} \X (new[p] \ {"proc"})
           /\ new' = [new EXCEPT ![p] = {}]
           /\ counted' = [counted EXCEPT ![p] = FALSE]
           /\ Goto(p, "user")
           /\ UNCHANGED <<state, own>>
  <2>1. /\ state[p] = "alive" /\ failed = FALSE
        /\ new[p] \in {{"proc"}, {"proc"} \cup Space}
    BY <1>2, HeldAt DEF Holding
  <2>2. "proc" \in new[p] /\ new[p] \ {"proc"} \in {{}, Space}
    BY <2>1 DEF Space
  <2>3. TypeOK'
    <3>1. {"fork"} \X (new[p] \ {"proc"}) \subseteq {"fork", "exit"} \X Resources
      BY <2>2 DEF Resources
    <3> QED BY <1>2, <2>1, <3>1 DEF Goto, ResInv, TypeOK, Places
  <2>4. LossesKnown'
    <3>1. PICK forks \in {{}, {"fork"} \X Space}, exits \in {{}, {<<"exit", "files">>}} :
             lost = forks \cup exits
      BY DEF ResInv, LossesKnown
    <3>2. CASE new[p] \ {"proc"} = {}
      <4>1. lost' = forks \cup exits
        BY <1>2, <3>1, <3>2
      <4> QED BY <4>1 DEF LossesKnown
    <3>3. CASE new[p] \ {"proc"} = Space
      <4>1. lost' = ({"fork"} \X Space) \cup exits
        BY <1>2, <3>1, <3>3
      <4> QED BY <4>1 DEF LossesKnown
    <3> QED BY <2>2, <3>2, <3>3
  <2>5. /\ pc'[p] = "user" /\ new'[p] = {} /\ counted'[p] = FALSE
        /\ \A q \in Procs : q # p =>
             pc'[q] = pc[q] /\ new'[q] = new[q] /\ counted'[q] = counted[q]
    BY <1>2 DEF Goto, ResInv, TypeOK
  <2>6. Holding("user", {}, FALSE)
    BY DEF Holding
  <2>7. TakenSoFar'
    BY <1>2, <2>1, <2>5, <2>6, Zenon DEF ResInv, TakenSoFar
  <2>8. OwnExact'
    BY <1>2 DEF ResInv, OwnExact
  <2>9. Complete'
    <3>1. ~ failed'
      BY <1>2, <2>1, <2>2
    <3> QED BY <1>2, <2>1, <2>5, <3>1 DEF ResInv, Complete, OwnExact, At, Built
  <2> QED BY <2>3, <2>4, <2>7, <2>8, <2>9 DEF ResInv
<1> QED BY <1>1, <1>2 DEF fork_cleanup

(* do_fork returns: the child owns exactly what was taken for it.           *)
LEMMA fork_out_step ==
    ASSUME ResInv, NEW p \in Procs, NEW c \in Procs, fork_out(p, c)
    PROVE  ResInv'
<1>1. /\ state[p] = "alive" /\ failed = FALSE
      /\ new[p] \in {Built \cup {"files"}, Built \cup {"files"} \cup Space}
      /\ new[p] \in SUBSET Resources
  BY HeldAt DEF fork_out, Holding
<1>2. c # p /\ state[c] = "none" /\ pc[c] = "user"
  BY <1>1 DEF fork_out, ResInv, TakenSoFar
<1>3. TypeOK'
  BY <1>1 DEF fork_out, Goto, ResInv, TypeOK, Places
<1>4. LossesKnown'
  BY DEF fork_out, ResInv, LossesKnown
<1>5. /\ pc'[p] = "user" /\ new'[p] = {} /\ counted'[p] = FALSE
      /\ \A q \in Procs : q # p =>
           pc'[q] = pc[q] /\ new'[q] = new[q] /\ counted'[q] = counted[q]
      /\ state'[c] = "alive" /\ own'[c] = new[p]
      /\ \A q \in Procs : q # c => state'[q] = state[q] /\ own'[q] = own[q]
  BY DEF fork_out, Goto, ResInv, TypeOK
<1>6. Holding("user", {}, FALSE)
  BY DEF Holding
<1>7. TakenSoFar'
  <2> SUFFICES ASSUME NEW q \in Procs
               PROVE  /\ Holding(pc'[q], new'[q], counted'[q])
                      /\ state'[q] # "alive" => pc'[q] = "user"
    BY DEF TakenSoFar, Holding
  <2>1. CASE q = p
    BY <1>5, <1>6, <2>1, Zenon
  <2>2. CASE q # p
    BY <1>2, <1>5, <2>2 DEF ResInv, TakenSoFar
  <2> QED BY <2>1, <2>2
<1>8. own'[c] \ Space = Built \cup {"files"} /\ own'[c] \cap Space \in {{}, Space}
  BY <1>1, <1>5 DEF Built, Space
<1>9. OwnExact'
  BY <1>5, <1>8 DEF ResInv, OwnExact
<1>10. Complete'
  <2>1. ~ failed'
    BY <1>1 DEF fork_out
  <2>2. new'[c] = new[c] /\ new[c] = {}
    BY <1>2, <1>5 DEF ResInv, Complete
  <2> SUFFICES ASSUME NEW q \in Procs
               PROVE  /\ state'[q] = "none" => own'[q] = {} /\ new'[q] = {}
                      /\ state'[q] # "none" => {"proc", "kstack"} \subseteq own'[q]
                      /\ At(q, "user")' => new'[q] = {} /\ "files" \in own'[q]
                      /\ own'[q] \cap Space \in {{}, Space}
    BY <2>1 DEF Complete
  <2>3. CASE q = c
    BY <1>1, <1>5, <1>8, <2>2, <2>3 DEF Built
  <2>4. CASE q = p
    BY <1>1, <1>2, <1>5, <2>4 DEF ResInv, Complete, OwnExact, Built
  <2>5. CASE q # c /\ q # p
    BY <1>5, <2>5 DEF ResInv, Complete, At
  <2> QED BY <2>3, <2>4, <2>5
<1> QED BY <1>3, <1>4, <1>7, <1>9, <1>10 DEF ResInv

(* do_execve drops the old address space as a whole.                        *)
LEMMA drop_mm_step ==
    ASSUME ResInv, NEW p \in Procs, drop_mm(p)
    PROVE  ResInv'
<1>1. state[p] = "alive" /\ Holding("drop_mm", new[p], counted[p])
  BY HeldAt DEF drop_mm
<1>2. TypeOK'
  BY DEF drop_mm, Goto, ResInv, TypeOK, Places
<1>3. LossesKnown'
  BY DEF drop_mm, ResInv, LossesKnown
<1>4. /\ pc'[p] = "mm_create" /\ \A q \in Procs : q # p => pc'[q] = pc[q]
      /\ own'[p] = own[p] \ Space /\ \A q \in Procs : q # p => own'[q] = own[q]
  BY DEF drop_mm, Goto, ResInv, TypeOK
<1>5. TakenSoFar'
  <2>1. Holding("mm_create", new[p], counted[p])
    BY <1>1 DEF Holding
  <2> SUFFICES ASSUME NEW q \in Procs
               PROVE  /\ Holding(pc'[q], new'[q], counted'[q])
                      /\ state'[q] # "alive" => pc'[q] = "user"
    BY DEF TakenSoFar, Holding
  <2>2. CASE q = p
    BY <1>1, <1>4, <2>1, <2>2 DEF drop_mm
  <2>3. CASE q # p
    BY <1>4, <2>3 DEF drop_mm, ResInv, TakenSoFar
  <2> QED BY <2>2, <2>3
<1>6. OwnExact'
  BY <1>1, <1>4 DEF drop_mm, ResInv, OwnExact
<1>7. Complete'
  BY <1>1, <1>4 DEF drop_mm, ResInv, Complete, OwnExact, Built, At, Space
<1> QED BY <1>2, <1>3, <1>5, <1>6, <1>7 DEF ResInv

(* load_icode installs the new address space as a whole.                    *)
LEMMA install_step ==
    ASSUME ResInv, NEW p \in Procs, install(p)
    PROVE  ResInv'
<1>1. /\ state[p] = "alive" /\ new[p] = {"kargv"} \cup Space /\ counted[p] = FALSE
  <2>1. /\ state[p] = "alive" /\ counted[p] \in BOOLEAN
        /\ Holding("install", new[p], counted[p])
    BY HeldAt DEF install
  <2>2. new[p] = {"kargv"} \cup Space /\ ~ counted[p]
    BY <2>1 DEF Holding
  <2> QED BY <2>1, <2>2
<1>2. new[p] \cap Space = Space /\ new[p] \ (Space \cup {"kargv"}) = {}
  BY <1>1 DEF Space
<1>3. TypeOK'
  BY <1>2 DEF install, Goto, ResInv, TypeOK, Places, Resources
<1>4. LossesKnown'
  BY DEF install, ResInv, LossesKnown
<1>5. /\ pc'[p] = "user" /\ new'[p] = {}
      /\ own'[p] = own[p] \cup Space
      /\ \A q \in Procs : q # p =>
           pc'[q] = pc[q] /\ new'[q] = new[q] /\ own'[q] = own[q]
  BY <1>2 DEF install, Goto, ResInv, TypeOK
<1>6. TakenSoFar'
  <2>1. Holding("user", {}, FALSE)
    BY DEF Holding
  <2> SUFFICES ASSUME NEW q \in Procs
               PROVE  /\ Holding(pc'[q], new'[q], counted'[q])
                      /\ state'[q] # "alive" => pc'[q] = "user"
    BY DEF TakenSoFar, Holding
  <2>2. CASE q = p
    <3>1. counted'[q] = FALSE
      BY <1>1, <2>2 DEF install
    <3> QED BY <1>5, <2>1, <2>2, <3>1, Zenon
  <2>3. CASE q # p
    BY <1>5, <2>3 DEF install, ResInv, TakenSoFar
  <2> QED BY <2>2, <2>3
<1>7. own'[p] \ Space = own[p] \ Space /\ own'[p] \cap Space = Space
  BY <1>5
<1>8. OwnExact'
  BY <1>1, <1>5, <1>7 DEF install, ResInv, OwnExact
<1>9. Complete'
  BY <1>1, <1>5, <1>7 DEF install, ResInv, Complete, OwnExact, Built, At
<1> QED BY <1>3, <1>4, <1>6, <1>8, <1>9 DEF ResInv

(* do_exit: the zombie keeps its stack and structure for do_wait, and its   *)
(* file table if it had no address space.                                   *)
LEMMA do_exit_step ==
    ASSUME ResInv, NEW p \in Procs, do_exit(p)
    PROVE  ResInv'
<1>1. state[p] = "alive" /\ new[p] = {} /\ counted[p] = FALSE /\ Holding("user", {}, FALSE)
  <2>1. CASE At(p, "do_exit")
    BY <2>1, HeldAt DEF Holding
  <2>2. CASE At(p, "user")
    BY <2>2, HeldAt DEF Holding
  <2> QED BY <2>1, <2>2 DEF do_exit
<1>2. TypeOK'
  BY DEF do_exit, Goto, ResInv, TypeOK, Places
<1>3. LossesKnown'
  BY DEF do_exit, ResInv, LossesKnown
<1>4. /\ pc'[p] = "user" /\ state'[p] = "zombie"
      /\ own'[p] = IF "mm" \in own[p] THEN own[p] \ (Space \cup {"files"}) ELSE own[p]
      /\ \A q \in Procs : q # p =>
           pc'[q] = pc[q] /\ state'[q] = state[q] /\ own'[q] = own[q]
  BY DEF do_exit, Goto, ResInv, TypeOK
<1>5. TakenSoFar'
  <2> SUFFICES ASSUME NEW q \in Procs
               PROVE  /\ Holding(pc'[q], new'[q], counted'[q])
                      /\ state'[q] # "alive" => pc'[q] = "user"
    BY DEF TakenSoFar, Holding
  <2>1. CASE q = p
    <3>1. new'[q] = {} /\ counted'[q] = FALSE
      BY <1>1, <2>1 DEF do_exit
    <3> QED BY <1>1, <1>4, <2>1, <3>1, Zenon
  <2>2. CASE q # p
    BY <1>4, <2>2 DEF do_exit, ResInv, TakenSoFar
  <2> QED BY <2>1, <2>2
<1>6. own[p] \ Space = Built \cup {"files"} /\ own[p] \cap Space \in {{}, Space}
  BY <1>1 DEF ResInv, OwnExact, Complete
<1>7. own'[p] \in {Built, Built \cup {"files"}} /\ own'[p] \cap Space = {}
  <2>1. CASE "mm" \in own[p]
    <3>1. own'[p] = Built
      BY <1>4, <1>6, <2>1 DEF Built
    <3> QED BY <3>1 DEF Built, Space
  <2>2. CASE "mm" \notin own[p]
    <3>1. own[p] \cap Space = {}
      BY <1>6, <2>2 DEF Space
    <3>2. own'[p] = Built \cup {"files"}
      BY <1>4, <1>6, <2>2, <3>1
    <3> QED BY <3>2 DEF Built, Space
  <2> QED BY <2>1, <2>2
<1>8. OwnExact'
  BY <1>4, <1>7 DEF ResInv, OwnExact
<1>9. Complete'
  <2>1. ~ failed'
    BY DEF do_exit, ResInv, Complete
  <2> QED BY <1>4, <1>7, <2>1 DEF do_exit, ResInv, Complete, Built, At
<1> QED BY <1>2, <1>3, <1>5, <1>8, <1>9 DEF ResInv

(* do_wait finds the stack and the structure of the zombie; all that it     *)
(* can lose is a file table.                                                *)
LEMMA do_wait_step ==
    ASSUME ResInv, NEW c \in Procs, do_wait(c)
    PROVE  ResInv'
<1>1. /\ state[c] = "zombie" /\ pc[c] = "user" /\ failed = FALSE
      /\ own[c] \in {Built, Built \cup {"files"}}
      /\ new[c] = {} /\ counted[c] = FALSE
  BY DEF do_wait, ResInv, Complete, TakenSoFar, OwnExact, Holding, TypeOK
<1>2. /\ {"proc", "kstack"} \subseteq own[c]
      /\ own[c] \ {"proc", "kstack"} \in {{}, {"files"}}
  BY <1>1 DEF Built
<1>3. TypeOK'
  <2>1. {"exit"} \X (own[c] \ {"proc", "kstack"}) \subseteq {"fork", "exit"} \X Resources
    BY <1>2 DEF Resources
  <2> QED BY <1>1, <2>1 DEF do_wait, ResInv, TypeOK
<1>4. LossesKnown'
  <2>1. PICK forks \in {{}, {"fork"} \X Space}, exits \in {{}, {<<"exit", "files">>}} :
           lost = forks \cup exits
    BY DEF ResInv, LossesKnown
  <2>2. CASE own[c] \ {"proc", "kstack"} = {}
    <3>1. lost' = forks \cup exits
      BY <2>1, <2>2 DEF do_wait
    <3> QED BY <3>1 DEF LossesKnown
  <2>3. CASE own[c] \ {"proc", "kstack"} = {"files"}
    <3>1. {"exit"} \X {"files"} = {<<"exit", "files">>}
      OBVIOUS
    <3>2. lost' = forks \cup {<<"exit", "files">>}
      BY <2>1, <2>3, <3>1 DEF do_wait
    <3> QED BY <3>2 DEF LossesKnown
  <2> QED BY <1>2, <2>2, <2>3
<1>5. /\ state'[c] = "none" /\ own'[c] = {}
      /\ \A q \in Procs : q # c => state'[q] = state[q] /\ own'[q] = own[q]
  BY DEF do_wait, ResInv, TypeOK
<1>6. TakenSoFar'
  BY <1>1, <1>5 DEF do_wait, ResInv, TakenSoFar
<1>7. OwnExact'
  BY <1>5 DEF ResInv, OwnExact
<1>8. Complete'
  <2>1. ~ failed'
    BY <1>1, <1>2 DEF do_wait
  <2> QED BY <1>1, <1>5, <2>1 DEF do_wait, ResInv, Complete, At
<1> QED BY <1>3, <1>4, <1>6, <1>7, <1>8 DEF ResInv
-----------------------------------------------------------------------------
(* Only initproc lives at first, a kernel thread outside any call.          *)
LEMMA ResInit == Init => ResInv
<1> SUFFICES ASSUME Init PROVE ResInv
  OBVIOUS
<1>1. TypeOK
  BY DEF Init, TypeOK, Places, Resources
<1>2. TakenSoFar
  BY DEF Init, TakenSoFar, Holding
<1>3. /\ {"proc", "kstack", "files"} \ Space = Built \cup {"files"}
      /\ {"proc", "kstack", "files"} \cap Space = {} /\ {} \cap Space = {}
  BY DEF Space, Built
<1>4. OwnExact
  BY <1>3 DEF Init, OwnExact
<1>5. LossesKnown
  <2>1. lost = {} \cup {}
    BY DEF Init
  <2> QED BY <2>1 DEF LossesKnown
<1>6. Complete
  BY <1>3 DEF Init, Complete, At
<1> QED BY <1>1, <1>2, <1>4, <1>5, <1>6 DEF ResInv

(* Every step of fork, exec, exit and wait keeps ResInv.                    *)
LEMMA ResStep == ResInv /\ [Next]_vars => ResInv'
<1> SUFFICES ASSUME ResInv, [Next]_vars PROVE ResInv'
  OBVIOUS
<1>1. ASSUME NEW p \in Procs, fork(p) PROVE ResInv'
  BY <1>1, alloc_proc_step, setup_kstack_step, copy_mm_step, copy_pgdir_step, copy_areas_step,
     copy_mm_cleanup_step, copy_files_step, fork_cleanup_step, fork_out_step DEF fork
<1>2. ASSUME NEW p \in Procs, exec(p) PROVE ResInv'
  BY <1>2, do_execve_step, sysfile_open_step, drop_mm_step, load_icode_mm_step, setup_pgdir_step,
     load_segments_step, install_step, load_icode_cleanup_step, execve_exit_step DEF exec
<1>3. CASE UNCHANGED vars
  BY <1>3 DEF vars, ResInv, TypeOK, Complete, LossesKnown, TakenSoFar, OwnExact, At
<1> QED BY <1>1, <1>2, <1>3, do_exit_step, do_wait_step DEF Next

(* Along every path through do_fork, do_execve, do_exit and do_wait, error  *)
(* paths included, what was taken is given back exactly once, a living      *)
(* process has its address space complete or not at all, a zombie has its   *)
(* stack and structure for do_wait, and nothing is lost but a whole address *)
(* space by copy_files and the file table of a kernel thread.               *)
THEOREM ResInvariant == Spec => []ResInv
BY ResInit, ResStep, PTL DEF Spec

-----------------------------------------------------------------------------
(* VmaSpace.                                                                *)

(* What VmaAssumption gives: pages, the user half of the memory, and a NULL *)
(* that is neither an area nor a list.                                      *)
LEMMA VmaConstants ==
  /\ PGSIZE \in Nat \ {0} /\ USERBASE \in Nat /\ USERTOP \in Nat
  /\ USERBASE % PGSIZE = 0 /\ USERTOP % PGSIZE = 0
  /\ Addr \in SUBSET Nat /\ (\A a \in Nat : a <= USERTOP + PGSIZE => a \in Addr)
  /\ NULL \notin VmaType /\ NULL \notin Seq(VmaType)
  /\ \A vma \in VmaType : /\ vma.vm_start \in Addr /\ vma.vm_end \in Addr /\ vma.vm_flags \in Flags
                          /\ vma.vm_start \in Nat /\ vma.vm_end \in Nat
BY VmaAssumption DEF Addr, VmaType

(* Whole pages: the quotient is what the proofs count with.                 *)
LEMMA Quotient ==
  ASSUME NEW a \in Nat
  PROVE  /\ a \div PGSIZE \in Nat /\ a % PGSIZE \in 0 .. PGSIZE - 1
         /\ a = (PGSIZE * (a \div PGSIZE)) + (a % PGSIZE)
BY VmaConstants

(* A whole number of pages ends at a page boundary.                         *)
LEMMA Multiple == \A k \in Nat : PGSIZE * k \in Nat /\ (PGSIZE * k) % PGSIZE = 0
BY VmaConstants

(* Two different page boundaries are at least a page apart.                 *)
LEMMA NextMultiple ==
  ASSUME NEW k \in Nat, NEW l \in Nat, PGSIZE * k < PGSIZE * l
  PROVE  PGSIZE * k + PGSIZE <= PGSIZE * l
<1> USE VmaConstants
<1>1. k < l
  OBVIOUS
<1>2. \A j \in Nat : PGSIZE * (k + 1 + j) = PGSIZE * k + PGSIZE + PGSIZE * j /\ PGSIZE * j >= 0
  OBVIOUS
<1>3. l - (k + 1) \in Nat /\ l = k + 1 + (l - (k + 1))
  BY <1>1
<1> QED BY <1>2, <1>3

(* Rounding down gives the start of a page, and a boundary of pages above a *)
(* is at or above the end of this page.                                     *)
LEMMA PageOf ==
  ASSUME NEW a \in Nat
  PROVE  /\ ROUNDDOWN(a) \in Nat /\ ROUNDDOWN(a) <= a /\ a < ROUNDDOWN(a) + PGSIZE
         /\ ROUNDDOWN(a) % PGSIZE = 0
         /\ ROUNDDOWN(a + PGSIZE) = ROUNDDOWN(a) + PGSIZE
         /\ \A e \in Nat : e % PGSIZE = 0 /\ a < e => ROUNDDOWN(a) + PGSIZE <= e
         /\ \A e \in Nat : e % PGSIZE = 0 /\ e <= a => e <= ROUNDDOWN(a)
<1> USE VmaConstants
<1> DEFINE k == a \div PGSIZE
           r == a % PGSIZE
<1>1. k \in Nat /\ r \in 0 .. PGSIZE - 1 /\ a = (PGSIZE * k) + r
  BY Quotient
<1>2. \A i \in Nat : PGSIZE * i \in Nat /\ (PGSIZE * i) % PGSIZE = 0
  BY Multiple
<1>3. ROUNDDOWN(a) = PGSIZE * k
  BY <1>1, <1>2 DEF ROUNDDOWN
<1> HIDE DEF k, r
<1>4. ROUNDDOWN(a) \in Nat /\ ROUNDDOWN(a) <= a /\ a < ROUNDDOWN(a) + PGSIZE
  BY <1>1, <1>2, <1>3
<1>5. ROUNDDOWN(a) % PGSIZE = 0
  BY <1>1, <1>2, <1>3
<1>6. ROUNDDOWN(a + PGSIZE) = ROUNDDOWN(a) + PGSIZE
  <2>1. \A i \in Nat, s \in 0 .. PGSIZE - 1 : (PGSIZE * i + s) % PGSIZE = s
    OBVIOUS
  <2>2. PGSIZE * (k + 1) = PGSIZE * k + PGSIZE /\ k + 1 \in Nat
    BY <1>1
  <2>3. a + PGSIZE = PGSIZE * (k + 1) + r
    BY <1>1, <1>2, <2>2
  <2>4. (PGSIZE * (k + 1) + r) % PGSIZE = r
    BY <1>1, <2>1, <2>2
  <2>5. (a + PGSIZE) % PGSIZE = r
    BY ONLY <2>3, <2>4
  <2>6. ROUNDDOWN(a + PGSIZE) = (a + PGSIZE) - r
    BY <2>5 DEF ROUNDDOWN
  <2> QED BY <1>1, <1>2, <1>3, <2>6
<1>7. ASSUME NEW e \in Nat, e % PGSIZE = 0 PROVE e \div PGSIZE \in Nat /\ e = PGSIZE * (e \div PGSIZE)
  <2>1. /\ e \div PGSIZE \in Nat /\ e % PGSIZE \in 0 .. PGSIZE - 1
        /\ e = (PGSIZE * (e \div PGSIZE)) + (e % PGSIZE)
    BY Quotient
  <2> QED BY <1>2, <1>7, <2>1
<1>8. ASSUME NEW e \in Nat, e % PGSIZE = 0, a < e PROVE ROUNDDOWN(a) + PGSIZE <= e
  <2> DEFINE l == e \div PGSIZE
  <2>1. l \in Nat /\ e = PGSIZE * l
    BY <1>7, <1>8
  <2> HIDE DEF l
  <2>2. PGSIZE * k < PGSIZE * l
    BY <1>1, <1>2, <1>8, <2>1
  <2> QED BY <1>1, <1>3, <2>1, <2>2, NextMultiple
<1>9. ASSUME NEW e \in Nat, e % PGSIZE = 0, e <= a PROVE e <= ROUNDDOWN(a)
  <2> DEFINE l == e \div PGSIZE
  <2>1. l \in Nat /\ e = PGSIZE * l
    BY <1>7, <1>9
  <2> HIDE DEF l
  <2> SUFFICES ASSUME PGSIZE * k < PGSIZE * l PROVE FALSE
    BY <1>1, <1>2, <1>3, <2>1
  <2>2. PGSIZE * k + PGSIZE <= PGSIZE * l
    BY <1>1, <2>1, NextMultiple
  <2> QED BY <1>1, <1>2, <1>9, <2>1, <2>2
<1> QED BY <1>4, <1>5, <1>6, <1>8, <1>9
-----------------------------------------------------------------------------
(* Lists of areas.                                                          *)
UserPages(vma) ==
  /\ USERBASE <= vma.vm_start /\ vma.vm_start < vma.vm_end /\ vma.vm_end <= USERTOP
  /\ vma.vm_start % PGSIZE = 0 /\ vma.vm_end % PGSIZE = 0

SortedAreas(list) ==
  /\ \A i \in 1 .. Len(list) : UserPages(list[i])
  /\ \A i, j \in 1 .. Len(list) : i < j => list[i].vm_end <= list[j].vm_start

AreaLists == {list \in Seq(VmaType) : SortedAreas(list)}

(* The property ListSorted, said list by list.                              *)
LEMMA SortedLists ==
  VmaTypeOK => (ListSorted <=> \A m \in Mms : mmap_list[m] # NULL => mmap_list[m] \in AreaLists)
<1> SUFFICES ASSUME VmaTypeOK, NEW m \in Mms, mmap_list[m] # NULL
             PROVE  (\A i \in DOMAIN mmap_list[m] :
                       LET vma == mmap_list[m][i]
                       IN  /\ USER_ACCESS(vma.vm_start, vma.vm_end)
                           /\ vma.vm_start % PGSIZE = 0 /\ vma.vm_end % PGSIZE = 0
                           /\ \A j \in DOMAIN mmap_list[m] :
                                 i < j => vma.vm_end <= mmap_list[m][j].vm_start)
                    <=> mmap_list[m] \in AreaLists
  BY DEF ListSorted
<1>1. mmap_list[m] \in Seq(VmaType) /\ DOMAIN mmap_list[m] = 1 .. Len(mmap_list[m])
  BY DEF VmaTypeOK
<1> QED BY <1>1 DEF AreaLists, SortedAreas, UserPages, USER_ACCESS

(* An area goes in somewhere, and in front of all that start after it.      *)
LEMMA InsertPlace ==
  ASSUME NEW list \in Seq(VmaType), NEW vma \in VmaType
  PROVE  /\ \E n \in 0 .. Len(list) : insert_vma_struct(list, vma) = InsertAt(list, n + 1, vma)
         /\ (\A i \in 1 .. Len(list) : vma.vm_start < list[i].vm_start)
              => insert_vma_struct(list, vma) = InsertAt(list, 1, vma)
<1> DEFINE before == {i \in DOMAIN list : \A j \in 1..i : list[j].vm_start <= vma.vm_start}
           n == IF before = {} THEN 0 ELSE Max(before)
<1>1. insert_vma_struct(list, vma) = InsertAt(list, n + 1, vma)
  BY DEF insert_vma_struct
<1>2. DOMAIN list = 1 .. Len(list) /\ Len(list) \in Nat
  OBVIOUS
<1>3. before \in SUBSET (0 .. Len(list))
  BY <1>2
<1>4. n \in 0 .. Len(list)
  <2>1. CASE before = {}
    BY <1>2, <2>1
  <2>2. CASE before # {}
    <3> HIDE DEF before
    <3>1. \E x \in before : \A y \in before : y <= x
      BY <1>2, <1>3, <2>2, Greatest
    <3>2. Max(before) \in before
      BY <1>3, <3>1 DEF Max
    <3> QED BY <1>3, <2>2, <3>2
  <2> QED BY <2>1, <2>2
<1>5. ASSUME \A i \in 1 .. Len(list) : vma.vm_start < list[i].vm_start PROVE before = {}
  <2>1. ASSUME NEW i \in before PROVE FALSE
    <3>1. i \in 1 .. Len(list) /\ 1 \in 1 .. i /\ 1 \in 1 .. Len(list)
      BY <1>2
    <3>2. list[1].vm_start <= vma.vm_start
      BY <3>1
    <3>3. list[1].vm_start \in Nat /\ vma.vm_start \in Nat
      BY <3>1, VmaConstants
    <3> QED BY <1>5, <3>1, <3>2, <3>3
  <2> QED BY <2>1
<1> HIDE DEF before
<1>6. before = {} => n = 0 /\ n + 1 = 1
  OBVIOUS
<1> HIDE DEF n
<1> QED BY <1>1, <1>4, <1>5, <1>6

(* InsertAt puts an area behind the first n and moves the rest up.          *)
LEMMA AreaInserted ==
  ASSUME NEW list \in Seq(VmaType), NEW vma \in VmaType, NEW n \in 0 .. Len(list)
  PROVE  InsertAt(list, n + 1, vma) \in Seq(VmaType) /\ IsInsert(InsertAt(list, n + 1, vma), list, n, vma)
<1>1. (n + 1) - 1 = n
  OBVIOUS
<1> QED BY <1>1, Spliced DEF InsertAt

(* check_vma_overlap looks at neighbours only; that is enough.              *)
LEMMA InsertSorted ==
  ASSUME NEW list \in AreaLists, NEW vma \in VmaType, UserPages(vma), NEW n \in 0 .. Len(list),
         NEW r \in Seq(VmaType), IsInsert(r, list, n, vma), check_vma_overlap(r)
  PROVE  r \in AreaLists /\ \A i \in 1 .. Len(list) : \E j \in 1 .. Len(r) : r[j] = list[i]
<1>1. list \in Seq(VmaType) /\ SortedAreas(list) /\ Len(list) \in Nat /\ n \in Nat
  BY DEF AreaLists
<1>2. /\ Len(r) = Len(list) + 1 /\ r[n + 1] = vma
      /\ \A j \in 1 .. n : r[j] = list[j]
      /\ \A j \in n + 1 .. Len(list) : r[j + 1] = list[j]
  BY DEF IsInsert
<1>3. \A j \in n + 2 .. Len(r) : j - 1 \in 1 .. Len(list) /\ r[j] = list[j - 1]
  <2> TAKE j \in n + 2 .. Len(r)
  <2>1. j - 1 \in n + 1 .. Len(list) /\ (j - 1) + 1 = j
    BY <1>1, <1>2
  <2> QED BY <1>1, <1>2, <2>1
<1>4. \A i \in 1 .. Len(list) : /\ list[i].vm_start \in Nat /\ list[i].vm_end \in Nat
                                /\ list[i].vm_start < list[i].vm_end
  <2> TAKE i \in 1 .. Len(list)
  <2>1. list[i] \in VmaType /\ UserPages(list[i])
    BY <1>1 DEF SortedAreas
  <2> QED BY <2>1, VmaConstants DEF UserPages
<1>5. vma.vm_start \in Nat /\ vma.vm_end \in Nat /\ vma.vm_start < vma.vm_end
  BY VmaConstants DEF UserPages
<1>6. \A i, j \in 1 .. Len(list) : i < j => list[i].vm_end <= list[j].vm_start
  BY <1>1 DEF SortedAreas
<1>7. ASSUME NEW i \in 1 .. n PROVE list[i].vm_end <= vma.vm_start
  <2>1. n \in 1 .. Len(r) - 1 /\ n \in 1 .. n /\ n \in 1 .. Len(list) /\ i \in 1 .. Len(list)
    BY <1>1, <1>2
  <2>2. r[n].vm_end <= r[n + 1].vm_start
    BY <2>1 DEF check_vma_overlap
  <2>3. list[n].vm_end <= vma.vm_start
    BY <1>2, <2>1, <2>2
  <2>4. CASE i = n
    BY <2>3, <2>4
  <2>5. CASE i < n
    BY <1>4, <1>5, <1>6, <2>1, <2>3, <2>5
  <2> QED BY <1>1, <2>4, <2>5
<1>8. ASSUME NEW i \in n + 1 .. Len(list) PROVE vma.vm_end <= list[i].vm_start
  <2>1. /\ n + 1 \in 1 .. Len(r) - 1 /\ n + 1 \in n + 1 .. Len(list) /\ n + 1 \in 1 .. Len(list)
        /\ i \in 1 .. Len(list)
    BY <1>1, <1>2
  <2>2. r[n + 1].vm_end <= r[(n + 1) + 1].vm_start
    BY <2>1 DEF check_vma_overlap
  <2>3. vma.vm_end <= list[n + 1].vm_start
    BY <1>2, <2>1, <2>2
  <2>4. CASE i = n + 1
    BY <2>3, <2>4
  <2>5. CASE n + 1 < i
    <3>1. list[n + 1].vm_end <= list[i].vm_start
      BY <1>6, <2>1, <2>5
    <3>2. /\ list[n + 1].vm_start \in Nat /\ list[n + 1].vm_end \in Nat /\ list[i].vm_start \in Nat
          /\ list[n + 1].vm_start < list[n + 1].vm_end
      BY <1>4, <2>1
    <3> QED BY <1>5, <2>3, <3>1, <3>2
  <2> QED BY <1>1, <2>4, <2>5
<1>9. \A j \in 1 .. Len(r) : \/ j \in 1 .. n /\ j \in 1 .. Len(list) /\ r[j] = list[j]
                             \/ j = n + 1 /\ r[j] = vma
                             \/ j \in n + 2 .. Len(r) /\ j - 1 \in n + 1 .. Len(list)
                                  /\ j - 1 \in 1 .. Len(list) /\ r[j] = list[j - 1]
  BY <1>1, <1>2, <1>3
<1>10. \A j \in 1 .. Len(r) : UserPages(r[j])
  BY <1>1, <1>9 DEF SortedAreas
<1>11. ASSUME NEW i \in 1 .. Len(r), NEW j \in 1 .. Len(r), i < j PROVE r[i].vm_end <= r[j].vm_start
  <2>1. CASE i \in 1 .. n /\ j \in 1 .. n
    <3>1. i \in 1 .. Len(list) /\ r[i] = list[i] /\ j \in 1 .. Len(list) /\ r[j] = list[j]
      BY <1>1, <1>2, <2>1
    <3> QED BY <1>6, <1>11, <3>1
  <2>2. CASE i \in 1 .. n /\ j = n + 1
    BY <1>2, <1>7, <2>2
  <2>3. CASE i = n + 1 /\ j \in n + 2 .. Len(r)
    <3>1. r[i] = vma /\ j - 1 \in n + 1 .. Len(list) /\ r[j] = list[j - 1]
      BY <1>1, <1>2, <1>3, <2>3
    <3> QED BY <1>8, <3>1
  <2>4. CASE i \in 1 .. n /\ j \in n + 2 .. Len(r)
    <3>1. i \in 1 .. Len(list) /\ r[i] = list[i] /\ j - 1 \in 1 .. Len(list) /\ r[j] = list[j - 1]
          /\ i < j - 1
      BY <1>1, <1>2, <1>3, <2>4
    <3> QED BY <1>6, <3>1
  <2>5. CASE i \in n + 2 .. Len(r) /\ j \in n + 2 .. Len(r)
    <3>1. i - 1 \in 1 .. Len(list) /\ r[i] = list[i - 1] /\ j - 1 \in 1 .. Len(list)
          /\ r[j] = list[j - 1] /\ i - 1 < j - 1
      BY <1>1, <1>3, <1>11, <2>5
    <3> QED BY <1>6, <3>1
  <2> QED BY <1>1, <1>2, <1>11, <2>1, <2>2, <2>3, <2>4, <2>5
<1>12. \A i \in 1 .. Len(list) : \E j \in 1 .. Len(r) : r[j] = list[i]
  <2> TAKE i \in 1 .. Len(list)
  <2>1. CASE i <= n
    BY <1>1, <1>2, <2>1
  <2>2. CASE n < i
    <3>1. i + 1 \in 1 .. Len(r) /\ r[i + 1] = list[i]
      BY <1>1, <1>2, <2>2
    <3> QED BY <3>1
  <2> QED BY <1>1, <2>1, <2>2
<1> QED BY <1>10, <1>11, <1>12 DEF AreaLists, SortedAreas
-----------------------------------------------------------------------------
(* One address space: its list and its cache.                               *)
Elements(list) == {list[i] : i \in 1 .. Len(list)}

MmOK(list, cache) ==
  \/ list = NULL /\ cache = NULL
  \/ list \in AreaLists /\ cache \in {NULL} \cup Elements(list)

VmaState ==
  /\ mmap_list \in [Mms -> {NULL} \cup Seq(VmaType)]
  /\ mmap_cache \in [Mms -> {NULL} \cup VmaType]
  /\ vma_panic \in BOOLEAN
  /\ \A m \in Mms : MmOK(mmap_list[m], mmap_cache[m])

(* An area of a sorted list is a range of whole pages of user memory, and no*)
(* NULL.                                                                    *)
LEMMA AreaFacts ==
  ASSUME NEW list \in AreaLists, NEW i \in 1 .. Len(list)
  PROVE  /\ list[i] \in VmaType /\ list[i] # NULL /\ UserPages(list[i])
         /\ list[i].vm_start \in Nat /\ list[i].vm_end \in Nat
<1>1. list[i] \in VmaType /\ UserPages(list[i])
  BY DEF AreaLists, SortedAreas
<1> QED BY <1>1, VmaConstants

(* The inductive invariant is the types, the sorted lists and the caches    *)
(* that VmaInv names.                                                       *)
LEMMA StateParts == VmaState <=> VmaTypeOK /\ ListSorted /\ CacheInList
<1>1. AreaLists \in SUBSET Seq(VmaType) /\ NULL \notin AreaLists
  BY VmaConstants DEF AreaLists
<1>2. ASSUME VmaTypeOK, NEW m \in Mms, mmap_list[m] # NULL
      PROVE  (\E i \in DOMAIN mmap_list[m] : mmap_list[m][i] = mmap_cache[m])
               <=> mmap_cache[m] \in Elements(mmap_list[m])
  <2>1. DOMAIN mmap_list[m] = 1 .. Len(mmap_list[m])
    BY <1>2 DEF VmaTypeOK
  <2> QED BY <2>1 DEF Elements
<1>3. ASSUME VmaTypeOK, ListSorted, CacheInList PROVE VmaState
  BY <1>1, <1>2, <1>3, SortedLists DEF VmaState, VmaTypeOK, CacheInList, MmOK
<1>4. ASSUME VmaState PROVE VmaTypeOK /\ ListSorted /\ CacheInList
  <2>1. VmaTypeOK
    BY <1>4 DEF VmaState, VmaTypeOK
  <2>2. ListSorted
    BY <1>4, <2>1, SortedLists DEF VmaState, MmOK
  <2>3. CacheInList
    <3> SUFFICES ASSUME NEW m \in Mms, mmap_cache[m] # NULL
                 PROVE  /\ mmap_list[m] # NULL
                        /\ \E i \in DOMAIN mmap_list[m] : mmap_list[m][i] = mmap_cache[m]
      BY DEF CacheInList
    <3>1. mmap_list[m] \in AreaLists /\ mmap_cache[m] \in Elements(mmap_list[m])
      BY <1>4 DEF VmaState, MmOK
    <3>2. mmap_list[m] # NULL
      BY <1>1, <3>1
    <3> QED BY <1>2, <2>1, <3>1, <3>2
  <2> QED BY <2>1, <2>2, <2>3
<1> QED BY <1>3, <1>4

(* At most one area covers an address.                                      *)
LEMMA CoverUnique ==
  ASSUME NEW list \in AreaLists, NEW a \in Nat, NEW i \in 1 .. Len(list), NEW j \in 1 .. Len(list),
         Covers(list[i], a), Covers(list[j], a)
  PROVE  i = j
<1>1. \A k \in 1 .. Len(list) : list[k].vm_start \in Nat /\ list[k].vm_end \in Nat
  BY AreaFacts
<1>2. \A k, l \in 1 .. Len(list) : k < l => list[k].vm_end <= list[l].vm_start
  BY DEF AreaLists, SortedAreas
<1>3. i \in Int /\ j \in Int
  OBVIOUS
<1>4. ~ (i < j)
  BY <1>1, <1>2 DEF Covers
<1>5. ~ (j < i)
  BY <1>1, <1>2 DEF Covers
<1> QED BY <1>3, <1>4, <1>5

(* find_vma answers what a search of the list would, with any cache.        *)
Found(list, addr, vma) ==
  \/ vma = NULL /\ \A i \in 1 .. Len(list) : ~ Covers(list[i], addr)
  \/ \E i \in 1 .. Len(list) : vma = list[i] /\ Covers(list[i], addr)

(* find_vma returns the area that covers the address, from the cache or from*)
(* the list, and NULL only if none does.                                    *)
LEMMA FindVma ==
  ASSUME NEW m, mmap_list[m] \in AreaLists, NEW cache \in {NULL} \cup Elements(mmap_list[m]), NEW addr \in Nat
  PROVE  /\ Found(mmap_list[m], addr, find_vma(m, cache, addr))
         /\ find_vma(m, cache, addr) \in {NULL} \cup Elements(mmap_list[m])
<1> DEFINE list == mmap_list[m]
           hits == {i \in DOMAIN list : Covers(list[i], addr)}
<1>1. DOMAIN list = 1 .. Len(list) /\ Len(list) \in Nat
  BY DEF AreaLists
<1>2. Found(list, addr, find_vma(m, cache, addr))
  <2>1. CASE cache # NULL /\ Covers(cache, addr)
    <3>1. find_vma(m, cache, addr) = cache
      BY <2>1 DEF find_vma
    <3>2. PICK i \in 1 .. Len(list) : cache = list[i]
      BY <2>1 DEF Elements
    <3> QED BY <2>1, <3>1, <3>2 DEF Found
  <2>2. CASE ~ (cache # NULL /\ Covers(cache, addr)) /\ hits = {}
    <3>1. find_vma(m, cache, addr) = NULL
      BY <2>2 DEF find_vma
    <3> QED BY <1>1, <2>2, <3>1 DEF Found
  <2>3. CASE ~ (cache # NULL /\ Covers(cache, addr)) /\ hits # {}
    <3> DEFINE first == CHOOSE i \in hits : \A j \in hits : i <= j
    <3>1. find_vma(m, cache, addr) = list[first]
      BY <2>3 DEF find_vma
    <3>2. hits \in SUBSET Nat
      BY <1>1
    <3>3. first \in hits
      <4> HIDE DEF hits
      <4>1. \E i \in hits : \A j \in hits : i <= j
        BY <2>3, <3>2, Least
      <4> QED BY <4>1
    <3> HIDE DEF first
    <3>4. first \in 1 .. Len(list) /\ Covers(list[first], addr)
      BY <1>1, <3>3
    <3> QED BY <3>1, <3>4 DEF Found
  <2> QED BY <2>1, <2>2, <2>3
<1> QED BY <1>2 DEF Found, Elements
-----------------------------------------------------------------------------
(* user_mem_check.                                                          *)

(* Only the area that covers an address decides about it.                   *)
Flag(write) == IF write THEN "WRITE" ELSE "READ"
Guarded(vma, a, write) == write /\ "STACK" \in vma.vm_flags /\ a < vma.vm_start + PGSIZE

(* Within an area a higher byte is guarded only if a lower one is.          *)
LEMMA HigherByte ==
  ASSUME NEW area, area.vm_start \in Nat, area.vm_end \in Nat, NEW write,
         NEW low \in Nat, NEW a \in Nat, NEW above \in Nat,
         Covers(area, low), low <= a, a < above, above <= area.vm_end
  PROVE  Covers(area, a) /\ (Guarded(area, a, write) => Guarded(area, low, write))
<1>1. Covers(area, a)
  BY DEF Covers
<1>2. a < area.vm_start + PGSIZE => low < area.vm_start + PGSIZE
  BY VmaConstants
<1> QED BY <1>1, <1>2 DEF Guarded

(* The byte at a may be accessed exactly as the one area that covers it     *)
(* says.                                                                    *)
LEMMA AccessAt ==
  ASSUME NEW m, mmap_list[m] \in AreaLists, NEW a \in Nat, NEW write \in BOOLEAN,
         NEW i \in 1 .. Len(mmap_list[m]), Covers(mmap_list[m][i], a)
  PROVE  MayAccess(m, a, write)
           <=> Flag(write) \in mmap_list[m][i].vm_flags /\ ~ Guarded(mmap_list[m][i], a, write)
<1> DEFINE list == mmap_list[m]
           May(j) == /\ Covers(list[j], a)
                     /\ Flag(write) \in list[j].vm_flags
                     /\ write /\ "STACK" \in list[j].vm_flags => a >= list[j].vm_start + PGSIZE
<1>1. DOMAIN list = 1 .. Len(list)
  BY DEF AreaLists
<1>2. MayAccess(m, a, write) <=> \E j \in 1 .. Len(list) : May(j)
  BY <1>1 DEF MayAccess, Flag
<1>3. \A j \in 1 .. Len(list) : May(j) => j = i
  BY CoverUnique
<1>4. list[i].vm_start \in Nat /\ PGSIZE \in Nat
  BY AreaFacts, VmaConstants
<1>5. May(i) <=> Flag(write) \in list[i].vm_flags /\ ~ Guarded(list[i], a, write)
  BY <1>4 DEF Guarded
<1> HIDE DEF May
<1> QED BY <1>2, <1>3, <1>5

(* A byte that no area covers may not be accessed.                          *)
LEMMA NoAccess ==
  ASSUME NEW m, mmap_list[m] \in AreaLists, NEW a \in Nat, NEW write \in BOOLEAN,
         \A i \in 1 .. Len(mmap_list[m]) : ~ Covers(mmap_list[m][i], a)
  PROVE  ~ MayAccess(m, a, write)
<1>1. DOMAIN mmap_list[m] = 1 .. Len(mmap_list[m])
  BY DEF AreaLists
<1> QED BY <1>1 DEF MayAccess

(* What is accessible is user memory.                                       *)
LEMMA AccessInUser ==
  ASSUME NEW m, mmap_list[m] \in AreaLists, NEW a \in Nat, NEW write \in BOOLEAN, MayAccess(m, a, write)
  PROVE  USERBASE <= a /\ a < USERTOP
<1>1. PICK i \in 1 .. Len(mmap_list[m]) : Covers(mmap_list[m][i], a)
  BY DEF MayAccess, AreaLists
<1>2. /\ UserPages(mmap_list[m][i])
      /\ mmap_list[m][i].vm_start \in Nat /\ mmap_list[m][i].vm_end \in Nat
  BY AreaFacts
<1>3. USERBASE <= mmap_list[m][i].vm_start /\ mmap_list[m][i].vm_end <= USERTOP
  BY <1>2 DEF UserPages
<1>4. mmap_list[m][i].vm_start <= a /\ a < mmap_list[m][i].vm_end
  BY <1>1 DEF Covers
<1>5. USERBASE \in Nat /\ USERTOP \in Nat
  BY VmaConstants
<1> QED BY <1>2, <1>3, <1>4, <1>5

(* The walk of user_mem_check: one step from start, which ends at an area   *)
(* that refuses or goes on behind one that does not.                        *)
Refuses(m, start, write) ==
  LET vma == find_vma(m, mmap_cache[m], start)
  IN  vma = NULL \/ Flag(write) \notin vma.vm_flags \/ Guarded(vma, start, write)

Behind(m, start, end) ==
  LET vma == find_vma(m, mmap_cache[m], start)
  IN  IF vma.vm_end < end THEN vma.vm_end ELSE end

CheckStep(m, walk, start, end, write) ==
  LET vma == find_vma(m, mmap_cache[m], start)
  IN  IF Refuses(m, start, write) THEN [ret |-> FALSE, cache |-> vma]
      ELSE [walk[Behind(m, start, end)] EXCEPT !.cache = Cached(vma, @)]

Answers(list) == [ret : BOOLEAN, cache : {NULL} \cup Elements(list)]

IsWalk(m, end, write, walk) ==
  /\ walk[end] = [ret |-> TRUE, cache |-> NULL]
  /\ \A start \in 0 .. end - 1 : walk[start] = CheckStep(m, walk, start, end, write)

(* A step goes up, to the end of the area or of the range.                  *)
LEMMA GoesUp ==
  ASSUME NEW m, mmap_list[m] \in AreaLists, mmap_cache[m] \in {NULL} \cup Elements(mmap_list[m]),
         NEW end \in Nat, NEW start \in 0 .. end - 1, NEW write \in BOOLEAN, ~ Refuses(m, start, write)
  PROVE  /\ Behind(m, start, end) \in Nat /\ start < Behind(m, start, end) /\ Behind(m, start, end) <= end
         /\ \E i \in 1 .. Len(mmap_list[m]) :
               /\ find_vma(m, mmap_cache[m], start) = mmap_list[m][i] /\ Covers(mmap_list[m][i], start)
               /\ Behind(m, start, end) <= mmap_list[m][i].vm_end
<1>1. start \in Nat
  OBVIOUS
<1>2. Found(mmap_list[m], start, find_vma(m, mmap_cache[m], start))
  BY <1>1, FindVma
<1>3. PICK i \in 1 .. Len(mmap_list[m]) :
        find_vma(m, mmap_cache[m], start) = mmap_list[m][i] /\ Covers(mmap_list[m][i], start)
  BY <1>2 DEF Found, Refuses
<1>4. mmap_list[m][i].vm_start \in Nat /\ mmap_list[m][i].vm_end \in Nat
  BY AreaFacts
<1>5. start < mmap_list[m][i].vm_end
  BY <1>3 DEF Covers
<1>6. Behind(m, start, end) = IF mmap_list[m][i].vm_end < end THEN mmap_list[m][i].vm_end ELSE end
  BY <1>3 DEF Behind
<1> QED BY <1>1, <1>3, <1>4, <1>5, <1>6

(* The loop of user_mem_check has a result from every start: each turn goes *)
(* on at a higher address.                                                  *)
LEMMA WalkExists ==
  ASSUME NEW m, mmap_list[m] \in AreaLists, mmap_cache[m] \in {NULL} \cup Elements(mmap_list[m]),
         NEW end \in Nat, NEW write \in BOOLEAN
  PROVE  \E walk \in [0 .. end -> Answers(mmap_list[m])] : IsWalk(m, end, write, walk)
<1> DEFINE V == Answers(mmap_list[m])
           b == [ret |-> TRUE, cache |-> NULL]
           vma(start) == find_vma(m, mmap_cache[m], start)
           nx == [i \in 0 .. end - 1 |-> IF Refuses(m, i, write) THEN i + 1 ELSE Behind(m, i, end)]
           C == [i \in 0 .. end - 1 |-> [r \in V |->
                   IF Refuses(m, i, write) THEN [ret |-> FALSE, cache |-> vma(i)]
                   ELSE [ret |-> r.ret, cache |-> Cached(vma(i), r.cache)]]]
<1>1. b \in V
  BY DEF Answers
<1>2. \A i \in 0 .. end - 1 : vma(i) \in {NULL} \cup Elements(mmap_list[m])
  BY FindVma
<1>3. nx \in [0 .. end - 1 -> Nat] /\ \A i \in 0 .. end - 1 : i < nx[i] /\ nx[i] <= end
  <2>1. ASSUME NEW i \in 0 .. end - 1 PROVE nx[i] \in Nat /\ i < nx[i] /\ nx[i] <= end
    <3>1. CASE Refuses(m, i, write)
      BY <3>1
    <3>2. CASE ~ Refuses(m, i, write)
      BY <3>2, GoesUp
    <3> QED BY <3>1, <3>2
  <2> HIDE DEF nx
  <2>2. nx = [i \in 0 .. end - 1 |-> nx[i]]
    BY DEF nx
  <2> QED BY <2>1, <2>2
<1>4. C \in [0 .. end - 1 -> [V -> V]]
  <2>1. ASSUME NEW i \in 0 .. end - 1, NEW r \in V
        PROVE  /\ [ret |-> FALSE, cache |-> vma(i)] \in V
               /\ [ret |-> r.ret, cache |-> Cached(vma(i), r.cache)] \in V
    BY <1>2 DEF Answers, Cached
  <2> QED BY <2>1
<1>5. HasUpward(V, b, 0, end, nx, C)
  <2> HIDE DEF V, b, nx, C
  <2>1. 0 <= end /\ 0 \in Nat
    OBVIOUS
  <2> QED BY <1>1, <1>3, <1>4, <2>1, Upward
<1>6. PICK f \in [0 .. end -> V] : f[end] = b /\ \A i \in 0 .. end - 1 : f[i] = C[i][f[nx[i]]]
  BY <1>5 DEF HasUpward
<1>7. \A i \in 0 .. end - 1 : f[i] = CheckStep(m, f, i, end, write)
  <2> TAKE i \in 0 .. end - 1
  <2>1. nx[i] \in 0 .. end
    BY <1>3
  <2>2. f[nx[i]] \in V
    BY <1>6, <2>1
  <2>3. f[i] = C[i][f[nx[i]]]
    BY <1>6
  <2>4. CASE Refuses(m, i, write)
    BY <2>2, <2>3, <2>4 DEF CheckStep
  <2>5. CASE ~ Refuses(m, i, write)
    <3>1. nx[i] = Behind(m, i, end)
      BY <2>5
    <3> HIDE DEF nx, V
    <3>2. C[i][f[nx[i]]] = [ret |-> f[nx[i]].ret, cache |-> Cached(vma(i), f[nx[i]].cache)]
      BY <2>2, <2>5
    <3>3. [f[nx[i]] EXCEPT !.cache = Cached(vma(i), @)]
            = [ret |-> f[nx[i]].ret, cache |-> Cached(vma(i), f[nx[i]].cache)]
      BY <2>2 DEF V, Answers
    <3> QED BY <2>3, <2>5, <3>1, <3>2, <3>3 DEF CheckStep
  <2> QED BY <2>4, <2>5
<1> QED BY <1>6, <1>7 DEF IsWalk

(* user_mem_check is such a walk.                                           *)
Walked(m, addr, end, write, walk) ==
  user_mem_check(m, addr, end, write)
    = IF USER_ACCESS(addr, end) THEN walk[addr] ELSE [ret |-> FALSE, cache |-> NULL]

(* user_mem_check is such a walk over the range.                            *)
LEMMA CheckWalks ==
  ASSUME NEW m, mmap_list[m] \in AreaLists, mmap_cache[m] \in {NULL} \cup Elements(mmap_list[m]),
         NEW addr \in Nat, NEW end \in Nat, NEW write \in BOOLEAN
  PROVE  \E walk : IsWalk(m, end, write, walk) /\ Walked(m, addr, end, write, walk)
<1> DEFINE F(f) == [start \in 0..end |->
                      IF start >= end THEN [ret |-> TRUE, cache |-> NULL]
                      ELSE LET vma == find_vma(m, mmap_cache[m], start)
                           IN  IF \/ vma = NULL
                                  \/ (IF write THEN "WRITE" ELSE "READ") \notin vma.vm_flags
                                  \/ write /\ "STACK" \in vma.vm_flags /\ start < vma.vm_start + PGSIZE
                               THEN [ret |-> FALSE, cache |-> vma]
                               ELSE LET r == f[IF vma.vm_end < end THEN vma.vm_end ELSE end]
                                    IN  [r EXCEPT !.cache = Cached(vma, @)]]
           walk == CHOOSE f : f = F(f)
<1>1. Walked(m, addr, end, write, walk)
  BY DEF user_mem_check, Walked
<1>2. PICK f \in [0 .. end -> Answers(mmap_list[m])] : IsWalk(m, end, write, f)
  BY WalkExists
<1>3. ASSUME NEW start \in 0 .. end PROVE F(f)[start] = f[start]
  <2>1. CASE start = end
    BY <1>2, <2>1 DEF IsWalk
  <2>2. CASE start < end
    <3>1. start \in 0 .. end - 1 /\ ~ (start >= end)
      BY <2>2
    <3>2. f[start] = CheckStep(m, f, start, end, write)
      BY <1>2, <3>1 DEF IsWalk
    <3>3. CASE Refuses(m, start, write)
      BY <3>1, <3>2, <3>3 DEF CheckStep, Refuses, Flag, Guarded
    <3>4. CASE ~ Refuses(m, start, write)
      <4> DEFINE r == f[Behind(m, start, end)]
                 vma == find_vma(m, mmap_cache[m], start)
      <4>1. F(f)[start] = [r EXCEPT !.cache = Cached(vma, @)]
        BY <3>1, <3>4 DEF Refuses, Flag, Guarded, Behind
      <4> QED BY <3>2, <3>4, <4>1 DEF CheckStep
    <3> QED BY <3>3, <3>4
  <2> QED BY <2>1, <2>2
<1>4. F(f) = f
  <2>1. F(f) = [start \in 0 .. end |-> F(f)[start]]
    OBVIOUS
  <2>2. f = [start \in 0 .. end |-> f[start]]
    BY <1>2
  <2> HIDE DEF F
  <2> QED BY <1>3, <2>1, <2>2
<1>5. walk = F(walk)
  <2> HIDE DEF F
  <2> QED BY <1>4
<1>6. IsWalk(m, end, write, walk)
  <2> HIDE DEF walk
  <2>1. walk[end] = [ret |-> TRUE, cache |-> NULL]
    BY <1>5
  <2>2. ASSUME NEW start \in 0 .. end - 1 PROVE walk[start] = CheckStep(m, walk, start, end, write)
    <3>1. start \in 0 .. end /\ ~ (start >= end)
      OBVIOUS
    <3>2. F(walk)[start] = CheckStep(m, walk, start, end, write)
      BY <3>1 DEF CheckStep, Refuses, Flag, Guarded, Behind
    <3> HIDE DEF F
    <3> QED BY <1>5, <3>2
  <2> QED BY <2>1, <2>2 DEF IsWalk
<1> QED BY <1>1, <1>6

(* What the walk answers from start on: yes exactly when every byte up to   *)
(* end may be accessed.                                                     *)
AllOf(m, start, end, write) == \A a \in start .. end - 1 : MayAccess(m, a, write)

(* The answer of the walk is right from every start, by the highest start at*)
(* which it would not be.                                                   *)
LEMMA WalkAnswers ==
  ASSUME NEW m, mmap_list[m] \in AreaLists, mmap_cache[m] \in {NULL} \cup Elements(mmap_list[m]),
         NEW end \in Nat, NEW write \in BOOLEAN, NEW walk, IsWalk(m, end, write, walk)
  PROVE  \A start \in 0 .. end : /\ walk[start] \in Answers(mmap_list[m])
                                 /\ walk[start].ret = AllOf(m, start, end, write)
<1> DEFINE Right(start) == /\ walk[start] \in Answers(mmap_list[m])
                           /\ walk[start].ret = AllOf(m, start, end, write)
           bad == {k \in 0 .. end : ~ Right(end - k)}
<1>1. Right(end)
  <2>1. \A a \in end .. end - 1 : FALSE
    OBVIOUS
  <2> QED BY <2>1 DEF IsWalk, Answers, AllOf
<1>2. ASSUME NEW start \in 0 .. end - 1, \A later \in start + 1 .. end : Right(later)
      PROVE  Right(start)
  <2> DEFINE vma == find_vma(m, mmap_cache[m], start)
             next == Behind(m, start, end)
  <2>1. walk[start] = CheckStep(m, walk, start, end, write)
    BY DEF IsWalk
  <2>2. start \in Nat /\ start \in start .. end - 1
    OBVIOUS
  <2>3. Found(mmap_list[m], start, vma) /\ vma \in {NULL} \cup Elements(mmap_list[m])
    BY <2>2, FindVma
  <2>4. CASE Refuses(m, start, write)
    <3>1. walk[start] = [ret |-> FALSE, cache |-> vma]
      BY <2>1, <2>4 DEF CheckStep
    <3>2. walk[start] \in Answers(mmap_list[m]) /\ walk[start].ret = FALSE
      BY <2>3, <3>1 DEF Answers
    <3>3. ~ MayAccess(m, start, write)
      <4>1. CASE \A i \in 1 .. Len(mmap_list[m]) : ~ Covers(mmap_list[m][i], start)
        BY <2>2, <4>1, NoAccess
      <4>2. CASE \E i \in 1 .. Len(mmap_list[m]) : vma = mmap_list[m][i] /\ Covers(mmap_list[m][i], start)
        <5>1. PICK i \in 1 .. Len(mmap_list[m]) : vma = mmap_list[m][i] /\ Covers(mmap_list[m][i], start)
          BY <4>2
        <5>2. vma # NULL
          BY <5>1, AreaFacts
        <5>3. MayAccess(m, start, write) <=> Flag(write) \in vma.vm_flags /\ ~ Guarded(vma, start, write)
          BY <2>2, <5>1, AccessAt
        <5> QED BY <2>4, <5>2, <5>3 DEF Refuses
      <4> QED BY <2>3, <4>1, <4>2 DEF Found
    <3>4. AllOf(m, start, end, write) = FALSE
      BY <2>2, <3>3 DEF AllOf
    <3> QED BY <3>2, <3>4
  <2>5. CASE ~ Refuses(m, start, write)
    <3>1. /\ next \in Nat /\ start < next /\ next <= end
          /\ \E i \in 1 .. Len(mmap_list[m]) :
                vma = mmap_list[m][i] /\ Covers(mmap_list[m][i], start) /\ next <= mmap_list[m][i].vm_end
      BY <2>5, GoesUp
    <3>2. PICK i \in 1 .. Len(mmap_list[m]) :
            vma = mmap_list[m][i] /\ Covers(mmap_list[m][i], start) /\ next <= mmap_list[m][i].vm_end
      BY <3>1
    <3>3. Right(next)
      BY <1>2, <3>1
    <3>4. walk[start] = [walk[next] EXCEPT !.cache = Cached(vma, @)]
      BY <2>1, <2>5 DEF CheckStep
    <3>5. walk[start] \in Answers(mmap_list[m]) /\ walk[start].ret = walk[next].ret
      BY <2>3, <3>3, <3>4 DEF Answers, Cached
    <3>6. \A a \in start .. next - 1 : MayAccess(m, a, write)
      <4> TAKE a \in start .. next - 1
      <4>1. vma.vm_start \in Nat /\ vma.vm_end \in Nat /\ PGSIZE \in Nat
        BY <3>2, AreaFacts, VmaConstants
      <4>2. a \in Nat /\ start <= a /\ a < next
        BY <3>1
      <4>3. Covers(vma, a) /\ (Guarded(vma, a, write) => Guarded(vma, start, write))
        <5>1. Covers(vma, start) /\ next <= vma.vm_end /\ next \in Nat /\ start \in Nat
          BY <2>2, <3>1, <3>2
        <5> HIDE DEF vma, next
        <5> QED BY <4>1, <4>2, <5>1, HigherByte
      <4>4. MayAccess(m, a, write) <=> Flag(write) \in vma.vm_flags /\ ~ Guarded(vma, a, write)
        BY <3>2, <4>2, <4>3, AccessAt
      <4> QED BY <2>5, <4>3, <4>4 DEF Refuses
    <3>7. AllOf(m, start, end, write) = AllOf(m, next, end, write)
      <4>1. \A a \in start .. end - 1 : a \in start .. next - 1 \/ a \in next .. end - 1
        BY <3>1
      <4>2. \A a \in next .. end - 1 : a \in start .. end - 1
        BY <3>1
      <4> QED BY <3>6, <4>1, <4>2 DEF AllOf
    <3> QED BY <3>3, <3>5, <3>7
  <2> QED BY <2>4, <2>5
<1> HIDE DEF Right
<1>3. bad = {}
  <2> SUFFICES ASSUME bad # {} PROVE FALSE
    OBVIOUS
  <2>1. bad \in SUBSET Nat
    OBVIOUS
  <2>2. PICK k \in bad : \A l \in bad : k <= l
    BY <2>1, Least
  <2>3. k \in 0 .. end /\ ~ Right(end - k)
    BY <2>2
  <2>4. k # 0
    BY <1>1, <2>3
  <2>5. end - k \in 0 .. end - 1
    BY <2>3, <2>4
  <2>6. \A later \in (end - k) + 1 .. end : Right(later)
    <3> TAKE later \in (end - k) + 1 .. end
    <3>1. end - later \in 0 .. end /\ ~ (k <= end - later) /\ end - (end - later) = later
      BY <2>3
    <3>2. end - later \notin bad
      BY <2>2, <3>1
    <3> QED BY <3>1, <3>2
  <2> QED BY <1>2, <2>3, <2>5, <2>6
<1>4. ASSUME NEW start \in 0 .. end PROVE Right(start)
  <2>1. end - start \in 0 .. end /\ end - (end - start) = start
    OBVIOUS
  <2> QED BY <1>3, <2>1
<1> QED BY <1>4 DEF Right

(* user_mem_check answers exactly, and remembers an area of the list.       *)
LEMMA CheckIs ==
  ASSUME NEW m, mmap_list[m] \in AreaLists, mmap_cache[m] \in {NULL} \cup Elements(mmap_list[m]),
         NEW addr \in Nat, NEW end \in Nat, NEW write \in BOOLEAN
  PROVE  /\ user_mem_check(m, addr, end, write) \in Answers(mmap_list[m])
         /\ user_mem_check(m, addr, end, write).ret = (addr < end /\ AllOf(m, addr, end, write))
<1>1. PICK walk : IsWalk(m, end, write, walk) /\ Walked(m, addr, end, write, walk)
  BY CheckWalks
<1>2. CASE USER_ACCESS(addr, end)
  <2>1. addr \in 0 .. end /\ addr < end
    BY <1>2 DEF USER_ACCESS
  <2>2. walk[addr] \in Answers(mmap_list[m]) /\ walk[addr].ret = AllOf(m, addr, end, write)
    BY <1>1, <2>1, WalkAnswers
  <2>3. user_mem_check(m, addr, end, write) = walk[addr]
    BY <1>1, <1>2 DEF Walked
  <2> QED BY <2>1, <2>2, <2>3 DEF AllOf
<1>3. CASE ~ USER_ACCESS(addr, end)
  <2>1. user_mem_check(m, addr, end, write) = [ret |-> FALSE, cache |-> NULL]
    BY <1>1, <1>3 DEF Walked
  <2>2. ASSUME addr < end, AllOf(m, addr, end, write) PROVE FALSE
    <3>1. addr \in addr .. end - 1 /\ end - 1 \in addr .. end - 1 /\ end - 1 \in Nat
      BY <2>2
    <3>2. MayAccess(m, addr, write) /\ MayAccess(m, end - 1, write)
      BY <2>2, <3>1 DEF AllOf
    <3>3. USERBASE <= addr /\ end - 1 < USERTOP
      BY <3>1, <3>2, AccessInUser
    <3> QED BY <1>3, <2>2, <3>3, VmaConstants DEF USER_ACCESS
  <2>3. (addr < end /\ AllOf(m, addr, end, write)) = FALSE
    BY <2>2
  <2>4. [ret |-> FALSE, cache |-> NULL] \in Answers(mmap_list[m])
    BY DEF Answers
  <2>5. user_mem_check(m, addr, end, write).ret = FALSE
    BY <2>1
  <2>6. user_mem_check(m, addr, end, write) \in Answers(mmap_list[m])
    BY <2>1, <2>4
  <2> QED BY <2>3, <2>5, <2>6
<1> QED BY <1>2, <1>3

(* user_mem_check says yes exactly when every byte of the range may be      *)
(* accessed.                                                                *)
LEMMA CheckExactly == VmaState => CheckExact
<1> SUFFICES ASSUME VmaState, NEW m \in Mms, mmap_list[m] # NULL,
                    NEW addr \in Addr, NEW end \in Addr, NEW write \in BOOLEAN, addr < end
             PROVE  user_mem_check(m, addr, end, write).ret
                      = \A a \in addr..end - 1 : MayAccess(m, a, write)
  BY DEF CheckExact
<1>1. mmap_list[m] \in AreaLists /\ mmap_cache[m] \in {NULL} \cup Elements(mmap_list[m])
  BY DEF VmaState, MmOK
<1>2. addr \in Nat /\ end \in Nat
  BY VmaConstants
<1>3. user_mem_check(m, addr, end, write).ret = (addr < end /\ AllOf(m, addr, end, write))
  BY <1>1, <1>2, CheckIs
<1> QED BY <1>3 DEF AllOf

-----------------------------------------------------------------------------
(* copy_string.                                                             *)

(* A page is read as a whole or not at all: it lies in one area.            *)
LEMMA PageReadable ==
  ASSUME NEW m, mmap_list[m] \in AreaLists, NEW at \in Nat, NEW end \in Nat,
         at < end, end <= ROUNDDOWN(at + PGSIZE)
  PROVE  AllOf(m, at, end, FALSE) = MayAccess(m, at, FALSE)
<1>1. at \in at .. end - 1
  OBVIOUS
<1>2. ASSUME MayAccess(m, at, FALSE), NEW a \in at .. end - 1 PROVE MayAccess(m, a, FALSE)
  <2>1. PICK i \in 1 .. Len(mmap_list[m]) : Covers(mmap_list[m][i], at)
    BY <1>2 DEF MayAccess, AreaLists
  <2> DEFINE vma == mmap_list[m][i]
  <2>2. vma.vm_start \in Nat /\ vma.vm_end \in Nat /\ vma.vm_end % PGSIZE = 0
    BY AreaFacts DEF UserPages
  <2>3. ROUNDDOWN(at) \in Nat /\ ROUNDDOWN(at + PGSIZE) = ROUNDDOWN(at) + PGSIZE
    BY PageOf
  <2>4. at < vma.vm_end
    BY <2>1 DEF Covers
  <2>5. ROUNDDOWN(at) + PGSIZE <= vma.vm_end
    BY <2>2, <2>4, PageOf
  <2>6. a \in Nat /\ at <= a /\ a < vma.vm_end
    BY <2>2, <2>3, <2>5, VmaConstants
  <2>7. Covers(vma, a)
    BY <2>1, <2>2, <2>6 DEF Covers
  <2>8. /\ MayAccess(m, at, FALSE) <=> Flag(FALSE) \in vma.vm_flags /\ ~ Guarded(vma, at, FALSE)
        /\ MayAccess(m, a, FALSE) <=> Flag(FALSE) \in vma.vm_flags /\ ~ Guarded(vma, a, FALSE)
    BY <2>1, <2>6, <2>7, AccessAt
  <2> QED BY <1>2, <2>8 DEF Guarded
<1> QED BY <1>1, <1>2 DEF AllOf, MayAccess

(* The loop of copy_string, page by page from at up to the end of the room. *)
PageEnd(at, top) == IF ROUNDDOWN(at + PGSIZE) > top THEN top ELSE ROUNDDOWN(at + PGSIZE)

StringStep(m, copied, at, top, nul) ==
  LET end == PageEnd(at, top)
  IN  IF ~ user_mem_check(m, at, end, FALSE).ret THEN FALSE
      ELSE IF nul < end THEN TRUE
      ELSE IF end = top THEN FALSE
      ELSE copied[end]

IsCopy(m, src, top, nul, copied) ==
  \A at \in src .. top : copied[at] = StringStep(m, copied, at, top, nul)

(* A turn of copy_string looks at what is left of one page, and at one byte *)
(* at least.                                                                *)
LEMMA PageEndIs ==
  ASSUME NEW at \in Nat, NEW top \in Nat, at < top
  PROVE  /\ PageEnd(at, top) \in Nat /\ at < PageEnd(at, top) /\ PageEnd(at, top) <= top
         /\ PageEnd(at, top) <= ROUNDDOWN(at + PGSIZE)
<1>1. /\ ROUNDDOWN(at) \in Nat /\ at < ROUNDDOWN(at) + PGSIZE
      /\ ROUNDDOWN(at + PGSIZE) = ROUNDDOWN(at) + PGSIZE
  BY PageOf
<1> QED BY <1>1, VmaConstants DEF PageEnd

(* The loop of copy_string has a result from every address, page after page.*)
LEMMA CopyExists ==
  ASSUME NEW m, mmap_list[m] \in AreaLists, mmap_cache[m] \in {NULL} \cup Elements(mmap_list[m]),
         NEW src \in Nat, NEW top \in Nat, src <= top, NEW nul \in Nat
  PROVE  \E copied \in [src .. top -> BOOLEAN] : IsCopy(m, src, top, nul, copied)
<1> DEFINE ok(at) == user_mem_check(m, at, PageEnd(at, top), FALSE).ret
           nx == [at \in src .. top - 1 |-> PageEnd(at, top)]
           C == [at \in src .. top - 1 |-> [x \in BOOLEAN |->
                   IF ~ ok(at) THEN FALSE
                   ELSE IF nul < PageEnd(at, top) THEN TRUE
                   ELSE IF PageEnd(at, top) = top THEN FALSE ELSE x]]
<1>1. nx \in [src .. top - 1 -> Nat] /\ \A at \in src .. top - 1 : at < nx[at] /\ nx[at] <= top
  BY PageEndIs
<1>2. C \in [src .. top - 1 -> [BOOLEAN -> BOOLEAN]]
  OBVIOUS
<1>3. HasUpward(BOOLEAN, FALSE, src, top, nx, C)
  <2> HIDE DEF nx, C
  <2>1. FALSE \in BOOLEAN
    OBVIOUS
  <2> QED BY <1>1, <1>2, <2>1, Upward
<1>4. PICK f \in [src .. top -> BOOLEAN] :
        f[top] = FALSE /\ \A at \in src .. top - 1 : f[at] = C[at][f[nx[at]]]
  BY <1>3 DEF HasUpward
<1>5. ASSUME NEW at \in src .. top - 1 PROVE f[at] = StringStep(m, f, at, top, nul)
  <2>1. nx[at] = PageEnd(at, top) /\ nx[at] \in src .. top
    BY <1>1
  <2>2. f[nx[at]] \in BOOLEAN
    BY <1>4, <2>1
  <2>3. f[at] = C[at][f[nx[at]]]
    BY <1>4
  <2> QED BY <2>1, <2>2, <2>3 DEF StringStep
<1>6. f[top] = StringStep(m, f, top, top, nul)
  <2>1. ROUNDDOWN(top) \in Nat /\ top < ROUNDDOWN(top) + PGSIZE /\ ROUNDDOWN(top + PGSIZE) = ROUNDDOWN(top) + PGSIZE
    BY PageOf
  <2>2. PageEnd(top, top) = top
    BY <2>1, VmaConstants DEF PageEnd
  <2>3. user_mem_check(m, top, top, FALSE).ret = (top < top /\ AllOf(m, top, top, FALSE))
    BY CheckIs
  <2>4. ~ (top < top)
    OBVIOUS
  <2>5. ~ user_mem_check(m, top, top, FALSE).ret
    BY <2>3, <2>4
  <2> QED BY <1>4, <2>2, <2>5 DEF StringStep
<1>7. \A at \in src .. top : at \in src .. top - 1 \/ at = top
  OBVIOUS
<1> QED BY <1>4, <1>5, <1>6, <1>7 DEF IsCopy

(* copy_string is such a loop over maxn bytes.                              *)
LEMMA StringCopies ==
  ASSUME NEW m, mmap_list[m] \in AreaLists, mmap_cache[m] \in {NULL} \cup Elements(mmap_list[m]),
         NEW src \in Nat, NEW maxn \in Nat, NEW nul \in Nat
  PROVE  \E copied : IsCopy(m, src, src + maxn, nul, copied) /\ copy_string(m, src, maxn, nul) = copied[src]
<1> DEFINE F(f) == [at \in src..src + maxn |->
                      LET page == ROUNDDOWN(at + PGSIZE)
                          end == IF page > src + maxn THEN src + maxn ELSE page
                      IN  IF ~ user_mem_check(m, at, end, FALSE).ret THEN FALSE
                          ELSE IF nul < end THEN TRUE
                          ELSE IF end = src + maxn THEN FALSE
                          ELSE f[end]]
           copied == CHOOSE f : f = F(f)
<1>1. copy_string(m, src, maxn, nul) = copied[src]
  BY DEF copy_string
<1>2. src + maxn \in Nat /\ src <= src + maxn
  OBVIOUS
<1>3. PICK f \in [src .. src + maxn -> BOOLEAN] : IsCopy(m, src, src + maxn, nul, f)
  BY <1>2, CopyExists
<1>4. ASSUME NEW g, NEW at \in src .. src + maxn
      PROVE  F(g)[at] = StringStep(m, g, at, src + maxn, nul)
  BY DEF StringStep, PageEnd
<1>5. F(f) = f
  <2>1. F(f) = [at \in src .. src + maxn |-> F(f)[at]]
    OBVIOUS
  <2>2. f = [at \in src .. src + maxn |-> f[at]]
    BY <1>3
  <2> HIDE DEF F
  <2>3. \A at \in src .. src + maxn : F(f)[at] = f[at]
    BY <1>3, <1>4 DEF IsCopy
  <2> QED BY <2>1, <2>2, <2>3
<1>6. copied = F(copied)
  <2> HIDE DEF F
  <2> QED BY <1>5
<1>7. IsCopy(m, src, src + maxn, nul, copied)
  <2> HIDE DEF F, copied
  <2> QED BY <1>4, <1>6 DEF IsCopy
<1> QED BY <1>1, <1>7

(* From the page of at on the string is copied if it ends below top and may *)
(* be read.                                                                 *)
CopiesRight(m, src, top, nul, copied) ==
  \A at \in src .. top : at <= nul => copied[at] = (nul < top /\ AllOf(m, at, nul + 1, FALSE))

(* The answer of the loop is right from every address up to the end of the  *)
(* string.                                                                  *)
LEMMA CopyAnswers ==
  ASSUME NEW m, mmap_list[m] \in AreaLists, mmap_cache[m] \in {NULL} \cup Elements(mmap_list[m]),
         NEW src \in Nat, NEW top \in Nat, NEW nul \in Nat,
         NEW copied, IsCopy(m, src, top, nul, copied)
  PROVE  CopiesRight(m, src, top, nul, copied)
<1> DEFINE Right(at) == at <= nul => copied[at] = (nul < top /\ AllOf(m, at, nul + 1, FALSE))
           bad == {k \in 0 .. top - src : ~ Right(top - k)}
<1>1. ASSUME NEW at \in src .. top, \A later \in at + 1 .. top : Right(later) PROVE Right(at)
  <2> SUFFICES ASSUME at <= nul PROVE copied[at] = (nul < top /\ AllOf(m, at, nul + 1, FALSE))
    OBVIOUS
  <2> DEFINE end == PageEnd(at, top)
  <2>1. at \in Nat /\ copied[at] = StringStep(m, copied, at, top, nul)
    BY DEF IsCopy
  <2>2. CASE at = top
    <3>1. ROUNDDOWN(at) \in Nat /\ at < ROUNDDOWN(at) + PGSIZE /\ ROUNDDOWN(at + PGSIZE) = ROUNDDOWN(at) + PGSIZE
      BY <2>1, PageOf
    <3>2. end = at
      BY <2>2, <3>1, VmaConstants DEF PageEnd
    <3>3. user_mem_check(m, at, at, FALSE).ret = (at < at /\ AllOf(m, at, at, FALSE))
      BY <2>1, CheckIs
    <3>4. ~ (at < at) /\ ~ (nul < top)
      BY <2>2
    <3>5. ~ user_mem_check(m, at, at, FALSE).ret
      BY <3>3, <3>4
    <3>6. copied[at] = FALSE
      BY <2>1, <3>2, <3>5 DEF StringStep
    <3> QED BY <3>4, <3>6
  <2>3. CASE at < top
    <3>1. end \in Nat /\ at < end /\ end <= top /\ end <= ROUNDDOWN(at + PGSIZE)
      BY <2>1, <2>3, PageEndIs
    <3>2. user_mem_check(m, at, end, FALSE).ret = (at < end /\ AllOf(m, at, end, FALSE))
      BY <2>1, <3>1, CheckIs
    <3>3. AllOf(m, at, end, FALSE) = MayAccess(m, at, FALSE)
      BY <2>1, <3>1, PageReadable
    <3>4. CASE ~ AllOf(m, at, end, FALSE)
      <4>1. ~ user_mem_check(m, at, end, FALSE).ret
        BY <3>2, <3>4
      <4>2. copied[at] = FALSE
        BY <2>1, <4>1 DEF StringStep
      <4>3. ~ MayAccess(m, at, FALSE)
        BY <3>3, <3>4
      <4>5. at \in at .. (nul + 1) - 1
        BY <2>1
      <4>4. ~ AllOf(m, at, nul + 1, FALSE)
        BY <4>3, <4>5 DEF AllOf
      <4> QED BY <4>2, <4>4
    <3>5. CASE AllOf(m, at, end, FALSE) /\ nul < end
      <4>1. user_mem_check(m, at, end, FALSE).ret
        BY <3>1, <3>2, <3>5
      <4>2. copied[at] = TRUE
        BY <2>1, <3>5, <4>1 DEF StringStep
      <4>3. nul < top /\ \A a \in at .. (nul + 1) - 1 : a \in at .. end - 1
        BY <3>1, <3>5
      <4>4. AllOf(m, at, nul + 1, FALSE)
        BY <3>5, <4>3 DEF AllOf
      <4> QED BY <4>2, <4>3, <4>4
    <3>6. CASE AllOf(m, at, end, FALSE) /\ ~ (nul < end) /\ end = top
      <4>1. user_mem_check(m, at, end, FALSE).ret
        BY <3>1, <3>2, <3>6
      <4>2. copied[at] = FALSE
        BY <2>1, <3>6, <4>1 DEF StringStep
      <4> QED BY <3>6, <4>2
    <3>7. CASE AllOf(m, at, end, FALSE) /\ ~ (nul < end) /\ end # top
      <4>1. user_mem_check(m, at, end, FALSE).ret
        BY <3>1, <3>2, <3>7
      <4>2. copied[at] = copied[end]
        BY <2>1, <3>7, <4>1 DEF StringStep
      <4>3. end \in at + 1 .. top /\ end <= nul
        BY <3>1, <3>7
      <4>4. copied[end] = (nul < top /\ AllOf(m, end, nul + 1, FALSE))
        BY <1>1, <4>3
      <4>5. AllOf(m, at, nul + 1, FALSE) = AllOf(m, end, nul + 1, FALSE)
        <5>1. /\ \A a \in at .. (nul + 1) - 1 : a \in at .. end - 1 \/ a \in end .. (nul + 1) - 1
              /\ \A a \in end .. (nul + 1) - 1 : a \in at .. (nul + 1) - 1
          BY <3>1
        <5> QED BY <3>7, <5>1 DEF AllOf
      <4> QED BY <4>2, <4>4, <4>5
    <3> QED BY <3>4, <3>5, <3>6, <3>7
  <2>4. at = top \/ at < top
    OBVIOUS
  <2> HIDE DEF end
  <2> QED BY <2>2, <2>3, <2>4
<1> HIDE DEF Right
<1>2. bad = {}
  <2> SUFFICES ASSUME bad # {} PROVE FALSE
    OBVIOUS
  <2>1. bad \in SUBSET Nat
    OBVIOUS
  <2>2. PICK k \in bad : \A l \in bad : k <= l
    BY <2>1, Least
  <2>3. k \in 0 .. top - src /\ ~ Right(top - k) /\ top - k \in src .. top
    BY <2>2
  <2>4. \A later \in (top - k) + 1 .. top : Right(later)
    <3> TAKE later \in (top - k) + 1 .. top
    <3>1. top - later \in 0 .. top - src /\ ~ (k <= top - later) /\ top - (top - later) = later
      BY <2>3
    <3>2. top - later \notin bad
      BY <2>2, <3>1
    <3> QED BY <3>1, <3>2
  <2> QED BY <1>1, <2>3, <2>4
<1>3. ASSUME NEW at \in src .. top PROVE Right(at)
  <2>1. top - at \in 0 .. top - src /\ top - (top - at) = at
    OBVIOUS
  <2> QED BY <1>2, <2>1
<1> QED BY <1>3 DEF Right, CopiesRight

(* copy_string succeeds exactly when the string ends within maxn bytes and  *)
(* all of it may be read.                                                   *)
LEMMA StringExactly == VmaState => StringExact
<1> SUFFICES ASSUME VmaState, NEW m \in Mms, mmap_list[m] # NULL,
                    NEW src \in Addr, NEW maxn \in 1..2 * PGSIZE + 1, NEW k \in 0..maxn
             PROVE  copy_string(m, src, maxn, src + k)
                      = (k < maxn /\ \A a \in src..src + k : MayAccess(m, a, FALSE))
  BY DEF StringExact
<1>1. mmap_list[m] \in AreaLists /\ mmap_cache[m] \in {NULL} \cup Elements(mmap_list[m])
  BY DEF VmaState, MmOK
<1>2. src \in Nat /\ maxn \in Nat /\ k \in Nat /\ src + k \in Nat /\ src + maxn \in Nat
  BY VmaConstants
<1>3. PICK copied : IsCopy(m, src, src + maxn, src + k, copied) /\ copy_string(m, src, maxn, src + k) = copied[src]
  BY <1>1, <1>2, StringCopies
<1>4. src \in src .. src + maxn /\ src <= src + k
  BY <1>2
<1>5. copied[src] = (src + k < src + maxn /\ AllOf(m, src, (src + k) + 1, FALSE))
  <2>1. CopiesRight(m, src, src + maxn, src + k, copied)
    BY <1>1, <1>2, <1>3, CopyAnswers
  <2> QED BY <1>4, <2>1 DEF CopiesRight
<1>6. (src + k < src + maxn) = (k < maxn) /\ ((src + k) + 1) - 1 = src + k
  BY <1>2
<1>7. AllOf(m, src, (src + k) + 1, FALSE) = \A a \in src..src + k : MayAccess(m, a, FALSE)
  BY <1>6 DEF AllOf
<1> QED BY <1>3, <1>5, <1>6, <1>7

-----------------------------------------------------------------------------
(* The steps.                                                               *)

(* A step that changes one address space.                                   *)
LEMMA OneSpace ==
  ASSUME VmaState, NEW m \in Mms, NEW list, NEW cache, MmOK(list, cache),
         mmap_list' = [mmap_list EXCEPT ![m] = list],
         mmap_cache' = [mmap_cache EXCEPT ![m] = cache],
         vma_panic' \in BOOLEAN
  PROVE  VmaState'
<1>1. list \in {NULL} \cup Seq(VmaType)
  BY DEF MmOK, AreaLists
<1>2. cache \in {NULL} \cup VmaType
  BY AreaFacts DEF MmOK, Elements
<1>3. /\ mmap_list' \in [Mms -> {NULL} \cup Seq(VmaType)]
      /\ mmap_cache' \in [Mms -> {NULL} \cup VmaType]
  BY <1>1, <1>2 DEF VmaState
<1>4. \A o \in Mms : MmOK(mmap_list'[o], mmap_cache'[o])
  BY DEF VmaState
<1> QED BY <1>3, <1>4 DEF VmaState, MmOK

(* A new address space has a sorted list without areas.                     *)
LEMMA EmptyList == << >> \in AreaLists /\ Elements(<< >>) = {} /\ << >> # NULL
<1>1. << >> \in Seq(VmaType) /\ Len(<< >>) = 0 /\ \A i \in 1 .. 0 : FALSE
  OBVIOUS
<1>2. 1 .. Len(<< >>) = {}
  BY <1>1
<1>3. << >> \in AreaLists
  BY <1>1, <1>2 DEF AreaLists, SortedAreas
<1> QED BY <1>1, <1>2, <1>3, VmaConstants DEF Elements

(* Before the first mm_create there is no list to be wrong.                 *)
LEMMA VmaInitState == VmaInit => VmaState
BY DEF VmaInit, VmaState, MmOK

(* mm_create and mm_destroy keep the invariant.                             *)
LEMMA CreateState ==
  ASSUME VmaState, NEW m \in Mms, mm_create(m) \/ mm_destroy(m)
  PROVE  VmaState'
<1>1. CASE mm_create(m)
  <2>1. MmOK(<< >>, NULL)
    BY EmptyList DEF MmOK
  <2>2. vma_panic' \in BOOLEAN
    BY <1>1 DEF mm_create, VmaState
  <2> QED BY <1>1, <2>1, <2>2, OneSpace DEF mm_create
<1>2. CASE mm_destroy(m)
  <2>1. MmOK(NULL, NULL)
    BY DEF MmOK
  <2>2. vma_panic' \in BOOLEAN
    BY <1>2 DEF mm_destroy, VmaState
  <2> QED BY <1>2, <2>1, <2>2, OneSpace DEF mm_destroy
<1> QED BY <1>1, <1>2

(* What mm_map inserts is whole pages of user memory.                       *)
LEMMA NewArea ==
  ASSUME NEW addr \in Addr, NEW len \in 1 .. USERTOP, NEW flags \in Flags,
         USER_ACCESS(ROUNDDOWN(addr), ROUNDUP(addr + len))
  PROVE  LET vma == vma_create(ROUNDDOWN(addr), ROUNDUP(addr + len), flags)
         IN  vma \in VmaType /\ UserPages(vma)
<1> USE VmaConstants
<1>1. ROUNDDOWN(addr) \in Nat /\ ROUNDDOWN(addr) % PGSIZE = 0
  BY PageOf
<1>2. addr + len + PGSIZE - 1 \in Nat
  OBVIOUS
<1>3. ROUNDUP(addr + len) \in Nat /\ ROUNDUP(addr + len) % PGSIZE = 0
  BY <1>2, PageOf DEF ROUNDUP
<1>4. ROUNDDOWN(addr) \in Addr /\ ROUNDUP(addr + len) \in Addr
  BY <1>1, <1>3 DEF USER_ACCESS
<1> HIDE DEF ROUNDDOWN, ROUNDUP
<1> QED BY <1>1, <1>3, <1>4 DEF vma_create, VmaType, UserPages, USER_ACCESS

(* mm_map keeps it, on every return: what it inserts lies between two       *)
(* neighbours.                                                              *)
LEMMA MapState ==
  ASSUME VmaState, NEW m \in Mms, NEW addr \in Addr, NEW len \in 1 .. USERTOP, NEW flags \in Flags,
         mm_map(m, addr, len, flags)
  PROVE  VmaState'
<1> DEFINE start == ROUNDDOWN(addr)
           end == ROUNDUP(addr + len)
           found == find_vma(m, mmap_cache[m], start)
           vma == vma_create(start, end, flags)
           list == insert_vma_struct(mmap_list[m], vma)
           cache == Cached(mmap_cache[m], found)
<1>1. /\ mmap_list[m] # NULL /\ USER_ACCESS(start, end)
      /\ mmap_cache' = [mmap_cache EXCEPT ![m] = cache]
      /\ \/ mmap_list' = mmap_list /\ vma_panic' \in BOOLEAN
         \/ /\ found = NULL /\ check_vma_overlap(list)
            /\ mmap_list' = [mmap_list EXCEPT ![m] = list]
            /\ vma_panic' \in BOOLEAN
  BY DEF mm_map, Live, VmaState
<1>2. mmap_list[m] \in AreaLists /\ mmap_cache[m] \in {NULL} \cup Elements(mmap_list[m])
  BY <1>1 DEF VmaState, MmOK
<1>3. start \in Nat
  BY VmaConstants, PageOf
<1>4. found \in {NULL} \cup Elements(mmap_list[m])
  BY <1>2, <1>3, FindVma
<1>5. cache \in {NULL} \cup Elements(mmap_list[m])
  BY <1>2, <1>4 DEF Cached
<1>6. vma \in VmaType /\ UserPages(vma)
  BY <1>1, NewArea
<1> HIDE DEF start, end, found, vma, cache
<1>7. CASE mmap_list' = mmap_list /\ vma_panic' \in BOOLEAN
  <2>1. mmap_list' = [mmap_list EXCEPT ![m] = mmap_list[m]]
    BY <1>7 DEF VmaState
  <2>2. MmOK(mmap_list[m], cache)
    BY <1>2, <1>5 DEF MmOK
  <2> QED BY <1>1, <1>7, <2>1, <2>2, OneSpace
<1>8. CASE /\ check_vma_overlap(list)
           /\ mmap_list' = [mmap_list EXCEPT ![m] = list]
           /\ vma_panic' \in BOOLEAN
  <2>1. mmap_list[m] \in Seq(VmaType)
    BY <1>2 DEF AreaLists
  <2>2. PICK n \in 0 .. Len(mmap_list[m]) : list = InsertAt(mmap_list[m], n + 1, vma)
    BY <1>6, <2>1, InsertPlace
  <2>3. list \in Seq(VmaType) /\ IsInsert(list, mmap_list[m], n, vma)
    BY <1>6, <2>1, <2>2, AreaInserted
  <2> HIDE DEF list
  <2>4. list \in AreaLists /\ \A i \in 1 .. Len(mmap_list[m]) : \E j \in 1 .. Len(list) : list[j] = mmap_list[m][i]
    BY <1>2, <1>6, <1>8, <2>3, InsertSorted
  <2>5. Elements(mmap_list[m]) \subseteq Elements(list)
    BY <2>4 DEF Elements
  <2>6. MmOK(list, cache)
    BY <1>5, <2>4, <2>5 DEF MmOK
  <2> QED BY <1>1, <1>8, <2>6, OneSpace
<1> QED BY <1>1, <1>7, <1>8

(* copy_from_user and copy_to_user move the cache to an area of the list.   *)
LEMMA CopyUserState ==
  ASSUME VmaState, NEW m \in Mms, NEW addr \in Addr, NEW end \in Nat, NEW write \in BOOLEAN,
         copy_user(m, addr, end, write)
  PROVE  VmaState'
<1> DEFINE cache == Cached(mmap_cache[m], user_mem_check(m, addr, end, write).cache)
<1>1. /\ mmap_list[m] # NULL /\ mmap_cache' = [mmap_cache EXCEPT ![m] = cache]
      /\ mmap_list' = mmap_list /\ vma_panic' \in BOOLEAN
  BY DEF copy_user, Live, VmaState
<1>2. mmap_list[m] \in AreaLists /\ mmap_cache[m] \in {NULL} \cup Elements(mmap_list[m])
  BY <1>1 DEF VmaState, MmOK
<1>3. user_mem_check(m, addr, end, write) \in Answers(mmap_list[m])
  BY <1>2, VmaConstants, CheckIs
<1>4. cache \in {NULL} \cup Elements(mmap_list[m])
  BY <1>2, <1>3 DEF Answers, Cached
<1>5. mmap_list' = [mmap_list EXCEPT ![m] = mmap_list[m]]
  BY <1>1 DEF VmaState
<1> HIDE DEF cache
<1>6. MmOK(mmap_list[m], cache)
  BY <1>2, <1>4 DEF MmOK
<1> QED BY <1>1, <1>5, <1>6, OneSpace

(* dup_mmap: the last k areas, of which each goes in front of the others.   *)
LastOf(list, k) == SubSeq(list, Len(list) + 1 - k, Len(list))

(* The last k areas of a sorted list are a sorted list.                     *)
LEMMA LastSorted ==
  ASSUME NEW list \in AreaLists, NEW k \in 0 .. Len(list)
  PROVE  /\ LastOf(list, k) \in AreaLists /\ Len(LastOf(list, k)) = k
         /\ \A i \in 1 .. k : /\ LastOf(list, k)[i] = list[(Len(list) - k) + i]
                              /\ (Len(list) - k) + i \in 1 .. Len(list)
<1>1. list \in Seq(VmaType) /\ SortedAreas(list) /\ Len(list) \in Nat
  BY DEF AreaLists
<1> DEFINE L == Len(list)
           q == LastOf(list, k)
<1>2. /\ q \in Seq(VmaType) /\ Len(q) = k
      /\ \A i \in 1 .. k : q[i] = list[(L - k) + i] /\ (L - k) + i \in 1 .. L
  <2>1. \A i \in 1 .. L : list[i] \in VmaType
    BY <1>1
  <2>2. CASE k = 0
    <3>1. q = << >>
      BY <1>1, <2>2 DEF LastOf
    <3>2. << >> \in Seq(VmaType) /\ Len(<< >>) = 0
      OBVIOUS
    <3>3. q \in Seq(VmaType) /\ Len(q) = k
      BY <2>2, <3>1, <3>2
    <3>4. \A i \in 1 .. k : FALSE
      BY <2>2
    <3> HIDE DEF q, L
    <3> QED BY <3>3, <3>4
  <2>3. CASE k > 0
    <3>1. L + 1 - k \in 1 .. L
      BY <1>1, <2>3
    <3>2. q = [i \in 1 .. k |-> list[(L - k) + i]]
      BY <1>1, <3>1 DEF LastOf
    <3>3. \A i \in 1 .. k : (L - k) + i \in 1 .. L
      BY <1>1
    <3>4. q \in [1 .. k -> VmaType]
      BY <2>1, <3>2, <3>3
    <3>5. q \in Seq(VmaType) /\ Len(q) = k
      BY <3>4
    <3> QED BY <3>2, <3>3, <3>5
  <2> QED BY <2>2, <2>3
<1> HIDE DEF q
<1>3. \A i \in 1 .. k : UserPages(q[i])
  BY <1>1, <1>2 DEF SortedAreas
<1>4. ASSUME NEW i \in 1 .. k, NEW j \in 1 .. k, i < j PROVE q[i].vm_end <= q[j].vm_start
  <2>1. (L - k) + i < (L - k) + j
    BY <1>1, <1>4
  <2>2. \A a, b \in 1 .. L : a < b => list[a].vm_end <= list[b].vm_start
    BY <1>1 DEF SortedAreas
  <2> QED BY <1>2, <2>1, <2>2
<1> QED BY <1>2, <1>3, <1>4 DEF q, AreaLists, SortedAreas

(* insert_vma_struct puts the next area of dup_mmap's walk in front of those*)
(* copied before.                                                           *)
LEMMA CopyOne ==
  ASSUME NEW list \in AreaLists, NEW k \in 1 .. Len(list)
  PROVE  insert_vma_struct(LastOf(list, k - 1), list[Len(list) + 1 - k]) = LastOf(list, k)
<1> DEFINE L == Len(list)
           vma == list[L + 1 - k]
           q == LastOf(list, k - 1)
           r == LastOf(list, k)
<1>0. list \in Seq(VmaType) /\ L \in Nat /\ k - 1 \in 0 .. L /\ k \in 0 .. L /\ L + 1 - k \in 1 .. L
  BY DEF AreaLists
<1>1. /\ q \in AreaLists /\ Len(q) = k - 1
      /\ \A i \in 1 .. k - 1 : /\ q[i] = list[(L - (k - 1)) + i]
                                /\ (L - (k - 1)) + i \in 1 .. L
  BY <1>0, LastSorted
<1>2. /\ r \in AreaLists /\ Len(r) = k
      /\ \A i \in 1 .. k : r[i] = list[(L - k) + i] /\ (L - k) + i \in 1 .. L
  BY <1>0, LastSorted
<1>3. q \in Seq(VmaType) /\ r \in Seq(VmaType)
  BY <1>1, <1>2 DEF AreaLists
<1>4. vma \in VmaType /\ vma.vm_start \in Nat /\ vma.vm_end \in Nat /\ vma.vm_start < vma.vm_end
  <2>1. vma \in VmaType /\ vma.vm_start \in Nat /\ vma.vm_end \in Nat /\ UserPages(vma)
    BY <1>0, AreaFacts
  <2> QED BY <2>1 DEF UserPages
<1> HIDE DEF q, r
<1>5. \A i \in 1 .. Len(q) : vma.vm_start < q[i].vm_start
  <2> TAKE i \in 1 .. Len(q)
  <2>1. q[i] = list[(L - (k - 1)) + i] /\ (L - (k - 1)) + i \in 1 .. L /\ L + 1 - k < (L - (k - 1)) + i
    BY <1>0, <1>1
  <2>2. vma.vm_end <= q[i].vm_start
    BY <1>0, <2>1 DEF AreaLists, SortedAreas
  <2>3. q[i].vm_start \in Nat
    BY <2>1, AreaFacts
  <2> QED BY <1>4, <2>2, <2>3
<1> HIDE DEF vma
<1>6. insert_vma_struct(q, vma) = InsertAt(q, 1, vma)
  BY <1>3, <1>4, <1>5, InsertPlace
<1>7. InsertAt(q, 0 + 1, vma) \in Seq(VmaType) /\ IsInsert(InsertAt(q, 0 + 1, vma), q, 0, vma)
  BY <1>3, <1>4, AreaInserted
<1> DEFINE s == InsertAt(q, 1, vma)
<1>8. s \in Seq(VmaType) /\ IsInsert(s, q, 0, vma)
  BY <1>7
<1> HIDE DEF s
<1>9. Len(s) = k /\ s[1] = vma /\ \A i \in 1 .. k - 1 : s[i + 1] = q[i]
  BY <1>0, <1>1, <1>8 DEF IsInsert
<1>10. ASSUME NEW i \in 1 .. k PROVE s[i] = r[i]
  <2>1. CASE i = 1
    <3>1. (L - k) + 1 = L + 1 - k
      BY <1>0
    <3> QED BY <1>2, <1>9, <2>1, <3>1 DEF vma
  <2>2. CASE i # 1
    <3>1. i - 1 \in 1 .. k - 1 /\ (i - 1) + 1 = i /\ (L - (k - 1)) + (i - 1) = (L - k) + i
      BY <1>0, <2>2
    <3>2. s[(i - 1) + 1] = q[i - 1] /\ q[i - 1] = list[(L - (k - 1)) + (i - 1)]
      BY <1>1, <1>9, <3>1
    <3> QED BY <1>2, <3>1, <3>2
  <2> QED BY <2>1, <2>2
<1>11. s = r
  <2>1. s = [i \in 1 .. k |-> s[i]] /\ r = [i \in 1 .. k |-> r[i]]
    BY <1>2, <1>3, <1>8, <1>9
  <2> QED BY <1>10, <2>1
<1> QED BY <1>6, <1>11 DEF s, q, r, vma

(* dup_mmap leaves a copy of the last n areas of the parent, and no cache.  *)
LEMMA CopyState ==
  ASSUME VmaState, NEW to \in Mms, NEW from \in Mms, NEW n \in 0 .. MaxAreas, dup_mmap(to, from, n)
  PROVE  VmaState'
<1> DEFINE list == mmap_list[from]
           F(f) == [k \in 0..n |->
                      IF k = 0 THEN <<>> ELSE insert_vma_struct(f[k - 1], list[Len(list) + 1 - k])]
           copied == CHOOSE f : f = F(f)
<1>1. /\ mmap_list[from] # NULL /\ mmap_list[to] = << >> /\ n <= Len(list)
      /\ mmap_list' = [mmap_list EXCEPT ![to] = copied[n]]
      /\ mmap_cache' = mmap_cache /\ vma_panic' \in BOOLEAN
  BY DEF dup_mmap, Live, VmaState
<1>2. list \in AreaLists /\ Len(list) \in Nat /\ n \in Nat
  BY <1>1, VmaAssumption DEF VmaState, MmOK, AreaLists
<1>3. \A k \in 0 .. n : k \in 0 .. Len(list)
  BY <1>1, <1>2
<1> DEFINE f == [k \in 0 .. n |-> LastOf(list, k)]
<1>4. f[0] = << >>
  BY <1>2 DEF LastOf
<1>5. \A k \in 1 .. n : f[k] = insert_vma_struct(f[k - 1], list[Len(list) + 1 - k])
  <2> TAKE k \in 1 .. n
  <2>1. k \in 1 .. Len(list) /\ k - 1 \in 0 .. n /\ k \in 0 .. n
    BY <1>1, <1>2
  <2>2. insert_vma_struct(LastOf(list, k - 1), list[Len(list) + 1 - k]) = LastOf(list, k)
    BY <1>2, <2>1, CopyOne
  <2> QED BY <2>1, <2>2
<1>6. F(f) = f
  <2>1. \A k \in 0 .. n : F(f)[k] = f[k]
    BY <1>4, <1>5
  <2>2. F(f) = [k \in 0 .. n |-> F(f)[k]] /\ f = [k \in 0 .. n |-> f[k]]
    OBVIOUS
  <2> HIDE DEF F, f
  <2> QED BY <2>1, <2>2
<1>7. copied = F(copied)
  <2> HIDE DEF F
  <2> QED BY <1>6
<1> HIDE DEF copied
<1>8. /\ copied[0] = << >>
      /\ \A k \in 0 .. n - 1 : copied[k + 1] = insert_vma_struct(copied[k], list[Len(list) + 1 - (k + 1)])
  <2>1. copied[0] = << >>
    BY <1>2, <1>7
  <2>2. \A k \in 0 .. n - 1 : k + 1 \in 0 .. n /\ k + 1 # 0 /\ (k + 1) - 1 = k
    BY <1>2
  <2> QED BY <1>7, <2>1, <2>2
<1>9. \A k \in 0 .. n - 1 : f[k + 1] = insert_vma_struct(f[k], list[Len(list) + 1 - (k + 1)])
  <2> TAKE k \in 0 .. n - 1
  <2>1. k + 1 \in 1 .. n /\ (k + 1) - 1 = k
    BY <1>2
  <2> HIDE DEF f
  <2> QED BY <1>5, <2>1
<1> DEFINE P == {k \in 0 .. n : copied[k] = f[k]}
<1>10. 0 .. n \subseteq P
  <2> HIDE DEF f
  <2>1. 0 \in P
    BY <1>2, <1>4, <1>8
  <2>2. \A k \in 0 .. n - 1 : k \in P => k + 1 \in P
    BY <1>2, <1>8, <1>9
  <2> HIDE DEF P
  <2> QED BY <1>2, <2>1, <2>2, Induction
<1>11. copied[n] = LastOf(list, n)
  BY <1>2, <1>10
<1>12. copied[n] \in AreaLists
  BY <1>2, <1>3, <1>11, LastSorted
<1>13. mmap_cache[to] = NULL
  BY <1>1, EmptyList DEF VmaState, MmOK
<1>14. MmOK(copied[n], NULL)
  BY <1>12 DEF MmOK
<1>15. mmap_cache' = [mmap_cache EXCEPT ![to] = NULL]
  BY <1>1, <1>13 DEF VmaState
<1> QED BY <1>1, <1>14, <1>15, OneSpace

(* Every step of VmaSpace keeps the invariant.                              *)
LEMMA VmaStep == VmaState /\ [VmaNext]_vmavars => VmaState'
<1> SUFFICES ASSUME VmaState, [VmaNext]_vmavars PROVE VmaState'
  OBVIOUS
<1>1. CASE UNCHANGED vmavars
  BY <1>1 DEF vmavars, VmaState, MmOK
<1>2. ASSUME NEW m \in Mms, mm_create(m) \/ mm_destroy(m) PROVE VmaState'
  BY <1>2, CreateState
<1>3. ASSUME NEW m \in Mms, NEW addr \in Addr, NEW len \in 1..USERTOP, NEW flags \in Flags,
             mm_map(m, addr, len, flags)
      PROVE  VmaState'
  BY <1>3, MapState
<1>4. ASSUME NEW m \in Mms, NEW from \in Mms, NEW n \in 0..MaxAreas, dup_mmap(m, from, n)
      PROVE  VmaState'
  BY <1>4, CopyState
<1>5. ASSUME NEW m \in Mms, NEW addr \in Addr, NEW end \in addr + 1..USERTOP, NEW write \in BOOLEAN,
             copy_user(m, addr, end, write)
      PROVE  VmaState'
  <2>1. end \in Nat
    BY <1>5, VmaConstants
  <2> QED BY <1>5, <2>1, CopyUserState
<1> QED BY <1>1, <1>2, <1>3, <1>4, <1>5 DEF VmaNext

(* After any sequence of mm_map, dup_mmap and mm_destroy the areas of every *)
(* address space are sorted and apart and find_vma's cache is one of them,  *)
(* and user_mem_check and copy_string say yes exactly when every byte of    *)
(* the range may be accessed.                                               *)
THEOREM VmaInvariant == VmaSpec => []VmaInv
<1>1. VmaState => VmaInv
  BY StateParts, CheckExactly, StringExactly DEF VmaInv
<1> QED BY <1>1, VmaInitState, VmaStep, PTL DEF VmaSpec
=============================================================================
