--------------------------- MODULE ProcResources ---------------------------
(***************************************************************************)
(* What a process is made of and who gives it back: do_fork, do_execve with *)
(* load_icode, do_exit and do_wait of kern/process/proc.c, along all their  *)
(* error paths.  Every allocation may fail.                                 *)
(*                                                                         *)
(* The resources are the process structure, its kernel stack, its mm, the   *)
(* page directory of the mm, the areas and pages in it, the file table and, *)
(* during an exec, the copied arguments.  An mm is never shared (only       *)
(* kernel threads, which have none, are made with CLONE_VM), and neither is *)
(* a file table.  Each step of a call that takes or gives back a resource   *)
(* is an action; pc is the place in the code.                               *)
(***************************************************************************)
EXTENDS Integers, FiniteSets

CONSTANTS
    Procs,
    initproc

ASSUME ResAssumption == initproc \in Procs

Space == {"mm", "pgdir", "mmap"}
Resources == {"proc", "kstack", "files", "kargv"} \cup Space

VARIABLES
    state,            \* "none", "alive", "zombie"
    pc,               \* "user", or the place in a system call
    own,              \* the resources of each process
    new,              \* the resources that the call at work has taken
    counted,          \* mm_count of the mm in new is 1 already
    lost,             \* history: resources nobody can give back any more,
                      \* with the call that lost them
    failed            \* something was given back twice or an assert failed

vars == <<state, pc, own, new, counted, lost, failed>>

Places == {"user", "setup_kstack", "copy_mm", "copy_pgdir", "dup_mmap", "copy_files",
           "wakeup", "bad_dup", "bad_copy_pgdir", "bad_copy_mm", "put_kstack", "put_proc",
           "open", "drop_mm", "mm_create", "setup_pgdir", "read_elf", "segments", "stack",
           "install", "bad_mmap", "bad_elf", "bad_pgdir", "execve_exit", "do_exit"}

TypeOK ==
    /\ state \in [Procs -> {"none", "alive", "zombie"}]
    /\ pc \in [Procs -> Places]
    /\ own \in [Procs -> SUBSET Resources]
    /\ new \in [Procs -> SUBSET Resources]
    /\ counted \in [Procs -> BOOLEAN]
    /\ lost \subseteq {"fork", "exit"} \X Resources
    /\ failed \in BOOLEAN

(* initproc, a kernel thread                                                *)
Init ==
    /\ state = [p \in Procs |-> IF p = initproc THEN "alive" ELSE "none"]
    /\ pc = [p \in Procs |-> "user"]
    /\ own = [p \in Procs |-> IF p = initproc THEN {"proc", "kstack", "files"} ELSE {}]
    /\ new = [p \in Procs |-> {}]
    /\ counted = [p \in Procs |-> FALSE]
    /\ lost = {}
    /\ failed = FALSE
-----------------------------------------------------------------------------
At(p, place) == state[p] = "alive" /\ pc[p] = place
Goto(p, place) == pc' = [pc EXCEPT ![p] = place]

(* An allocation: it takes r and goes on, or fails and goes to `bad'.       *)
Take(p, at, r, good, bad) ==
    /\ At(p, at)
    /\ \/ new' = [new EXCEPT ![p] = @ \cup {r}] /\ Goto(p, good)
       \/ UNCHANGED new /\ Goto(p, bad)
    /\ UNCHANGED <<state, own, counted, lost, failed>>

(* A piece of work that fills r and may stop in the middle; what it has     *)
(* done so far is there all the same.                                       *)
Fill(p, at, r, good, bad) ==
    /\ At(p, at)
    /\ new' = [new EXCEPT ![p] = @ \cup {r}]
    /\ \E place \in {good, bad} : Goto(p, place)
    /\ UNCHANGED <<state, own, counted, lost, failed>>

(* The release of r; r is not there, or mm_count is not 0 for exit_mmap and *)
(* mm_destroy, which assert it.                                             *)
Give(p, at, r, next) ==
    /\ At(p, at)
    /\ failed' = (failed \/ r \notin new[p] \/ (r \in {"mmap", "mm"} /\ counted[p]))
    /\ new' = [new EXCEPT ![p] = @ \ {r}]
    /\ Goto(p, next)
    /\ UNCHANGED <<state, own, counted, lost>>
-----------------------------------------------------------------------------
(* do_fork begins if nr_process is below MAX_PROCESS.                       *)
alloc_proc(p) ==
    /\ Cardinality({c \in Procs : state[c] = "none"})
         > Cardinality({q \in Procs : "proc" \in new[q]})
    /\ Take(p, "user", "proc", "setup_kstack", "user")

setup_kstack(p) == Take(p, "setup_kstack", "kstack", "copy_mm", "put_proc")

(* copy_mm: nothing to do for a kernel thread.                              *)
copy_mm(p) ==
    \/ /\ "mm" \notin own[p]
       /\ At(p, "copy_mm")
       /\ Goto(p, "copy_files")
       /\ UNCHANGED <<state, own, new, counted, lost, failed>>
    \/ /\ "mm" \in own[p]
       /\ Take(p, "copy_mm", "mm", "copy_pgdir", "put_kstack")

copy_pgdir(p) == Take(p, "copy_pgdir", "pgdir", "dup_mmap", "bad_copy_mm")

(* Mutant: a failed dup_mmap frees the mm without its pages.                *)
copy_areasShort(p) ==
    /\ At(p, "dup_mmap")
    /\ new' = [new EXCEPT ![p] = @ \cup {"mmap"}]
    /\ \/ counted' = [counted EXCEPT ![p] = TRUE] /\ Goto(p, "copy_files")
       \/ UNCHANGED counted /\ Goto(p, "bad_copy_pgdir")
    /\ UNCHANGED <<state, own, lost, failed>>

(* The areas and pages are copied, in full or in part; a complete copy is   *)
(* counted: mm_count_inc.                                                   *)
copy_areas(p) ==
    /\ At(p, "dup_mmap")
    /\ new' = [new EXCEPT ![p] = @ \cup {"mmap"}]
    /\ \/ counted' = [counted EXCEPT ![p] = TRUE] /\ Goto(p, "copy_files")
       \/ UNCHANGED counted /\ Goto(p, "bad_dup")
    /\ UNCHANGED <<state, own, lost, failed>>

(* The labels of copy_mm.                                                   *)
copy_mm_cleanup(p) ==
    \/ Give(p, "bad_dup", "mmap", "bad_copy_pgdir")
    \/ Give(p, "bad_copy_pgdir", "pgdir", "bad_copy_mm")
    \/ Give(p, "bad_copy_mm", "mm", "put_kstack")

(* copy_files, where a failure frees the stack and the structure only.      *)
copy_files(p) == Take(p, "copy_files", "files", "wakeup", "put_kstack")

(* The end of do_fork: the child owns what was taken.                       *)
fork_out(p, c) ==
    /\ At(p, "wakeup")
    /\ state[c] = "none"
    /\ state' = [state EXCEPT ![c] = "alive"]
    /\ own' = [own EXCEPT ![c] = new[p]]
    /\ new' = [new EXCEPT ![p] = {}]
    /\ counted' = [counted EXCEPT ![p] = FALSE]
    /\ Goto(p, "user")
    /\ UNCHANGED <<lost, failed>>

(* The failed do_fork: what it still has is lost when it returns.           *)
fork_cleanup(p) ==
    \/ Give(p, "put_kstack", "kstack", "put_proc")
    \/ /\ At(p, "put_proc")
       /\ failed' = (failed \/ "proc" \notin new[p])
       /\ lost' = lost \cup {"fork"} \X (new[p] \ {"proc"})
       /\ new' = [new EXCEPT ![p] = {}]
       /\ counted' = [counted EXCEPT ![p] = FALSE]
       /\ Goto(p, "user")
       /\ UNCHANGED <<state, own>>
-----------------------------------------------------------------------------
(* do_execve: copy_kargv cleans up by itself and returns an error; if the   *)
(* program cannot be opened the process ends.                               *)
do_execve(p) == p # initproc /\ Take(p, "user", "kargv", "open", "user")

sysfile_open(p) ==
    /\ At(p, "open")
    /\ \E place \in {"drop_mm", "execve_exit"} : Goto(p, place)
    /\ UNCHANGED <<state, own, new, counted, lost, failed>>

(* The old address space goes; mm_count is 1, so this is its last user.     *)
drop_mm(p) ==
    /\ At(p, "drop_mm")
    /\ own' = [own EXCEPT ![p] = @ \ Space]
    /\ Goto(p, "mm_create")
    /\ UNCHANGED <<state, new, counted, lost, failed>>

(* load_icode up to the new page directory                                  *)
load_icode_mm(p) == Take(p, "mm_create", "mm", "setup_pgdir", "execve_exit")
setup_pgdir(p) == Take(p, "setup_pgdir", "pgdir", "read_elf", "bad_pgdir")

(* The header is read, the segments are mapped and read, the stack is       *)
(* mapped; each of them may fail.                                           *)
load_segments(p) ==
    \/ /\ At(p, "read_elf")
       /\ \E place \in {"segments", "bad_elf"} : Goto(p, place)
       /\ UNCHANGED <<state, own, new, counted, lost, failed>>
    \/ Fill(p, "segments", "mmap", "stack", "bad_mmap")
    \/ Fill(p, "stack", "mmap", "install", "bad_mmap")

(* mm_count_inc and current->mm = mm.  The arguments then fit into the      *)
(* stack area (at most 32 of 4 KB in 1 MB), so copy_to_user does not fail   *)
(* and bad_exec is never reached.  do_execve returns 0.                     *)
install(p) ==
    /\ At(p, "install")
    /\ own' = [own EXCEPT ![p] = @ \cup (new[p] \cap Space)]
    /\ new' = [new EXCEPT ![p] = @ \ (Space \cup {"kargv"})]
    /\ Goto(p, "user")
    /\ UNCHANGED <<state, counted, lost, failed>>

(* The labels of load_icode.                                                *)
load_icode_cleanup(p) ==
    \/ Give(p, "bad_mmap", "mmap", "bad_elf")
    \/ Give(p, "bad_elf", "pgdir", "bad_pgdir")
    \/ Give(p, "bad_pgdir", "mm", "execve_exit")

(* put_kargv, then do_exit.                                                 *)
execve_exit(p) == Give(p, "execve_exit", "kargv", "do_exit")

(* do_exit: the address space and the files, if there is an address space.  *)
do_exit(p) ==
    /\ p # initproc
    /\ At(p, "do_exit") \/ At(p, "user")
    /\ own' = [own EXCEPT ![p] = IF "mm" \in @ THEN @ \ (Space \cup {"files"}) ELSE @]
    /\ state' = [state EXCEPT ![p] = "zombie"]
    /\ Goto(p, "user")
    /\ UNCHANGED <<new, counted, lost, failed>>

(* The end of do_wait: stack and structure of the zombie c are freed; what  *)
(* else it has is lost.                                                     *)
do_wait(c) ==
    /\ state[c] = "zombie"
    /\ failed' = (failed \/ ~ {"proc", "kstack"} \subseteq own[c])
    /\ lost' = lost \cup {"exit"} \X (own[c] \ {"proc", "kstack"})
    /\ own' = [own EXCEPT ![c] = {}]
    /\ state' = [state EXCEPT ![c] = "none"]
    /\ UNCHANGED <<pc, new, counted>>

fork(p) ==
    \/ alloc_proc(p) \/ setup_kstack(p) \/ copy_mm(p) \/ copy_pgdir(p) \/ copy_areas(p)
    \/ copy_mm_cleanup(p) \/ copy_files(p) \/ fork_cleanup(p)
    \/ \E c \in Procs : fork_out(p, c)

exec(p) ==
    \/ do_execve(p) \/ sysfile_open(p) \/ drop_mm(p) \/ load_icode_mm(p) \/ setup_pgdir(p)
    \/ load_segments(p) \/ install(p) \/ load_icode_cleanup(p) \/ execve_exit(p)

Next == \E p \in Procs : fork(p) \/ exec(p) \/ do_exit(p) \/ do_wait(p)

Spec == Init /\ [][Next]_vars
-----------------------------------------------------------------------------
(* Nothing is given back twice or while it is counted, a process outside a  *)
(* call has no half-built resources, a living one has all it needs, its     *)
(* address space complete or not at all, and a zombie has its stack and     *)
(* structure for do_wait to free.                                           *)
Complete ==
    /\ ~ failed
    /\ \A p \in Procs :
         /\ state[p] = "none" => own[p] = {} /\ new[p] = {}
         /\ state[p] # "none" => {"proc", "kstack"} \subseteq own[p]
         /\ At(p, "user") => new[p] = {} /\ "files" \in own[p]
         /\ own[p] \cap Space \in {{}, Space}

(* What a call has taken when it is at each place, and whether the mm in it *)
(* is counted: what each label of the error paths finds to give back.       *)
Built == {"proc", "kstack"}

Holding(place, taken, count) ==
    /\ place \in {"user", "do_exit"} => taken = {}
    /\ place = "setup_kstack" => taken = {"proc"}
    /\ place = "copy_mm" => taken = Built
    /\ place \in {"copy_pgdir", "bad_copy_mm"} => taken = Built \cup {"mm"}
    /\ place \in {"dup_mmap", "bad_copy_pgdir"} => taken = Built \cup {"mm", "pgdir"}
    /\ place = "bad_dup" => taken = Built \cup Space
    /\ place \in {"copy_files", "put_kstack"} => taken \in {Built, Built \cup Space}
    /\ place = "wakeup" => taken \in {Built \cup {"files"}, Built \cup {"files"} \cup Space}
    /\ place = "put_proc" => taken \in {{"proc"}, {"proc"} \cup Space}
    /\ place \in {"open", "drop_mm", "mm_create", "execve_exit"} => taken = {"kargv"}
    /\ place \in {"setup_pgdir", "bad_pgdir"} => taken = {"kargv", "mm"}
    /\ place \in {"read_elf", "segments", "bad_elf"} => taken = {"kargv", "mm", "pgdir"}
    /\ place \in {"stack", "install", "bad_mmap"} => taken = {"kargv"} \cup Space
    /\ count <=> place \in {"copy_files", "wakeup", "put_kstack", "put_proc"} /\ "mm" \in taken

TakenSoFar ==
    \A p \in Procs :
       /\ Holding(pc[p], new[p], counted[p])
       /\ state[p] # "alive" => pc[p] = "user"

(* What a process has beside its address space: all of the rest while it    *)
(* lives, and its files as a zombie only if it had no address space.        *)
OwnExact ==
    \A p \in Procs :
       /\ state[p] = "alive" => own[p] \ Space = Built \cup {"files"}
       /\ state[p] = "zombie" => own[p] \in {Built, Built \cup {"files"}}

(* Only two of the error paths lose anything: a fork that fails in          *)
(* copy_files loses the new address space as a whole, a process that ends   *)
(* without an address space its file table.                                 *)
LossesKnown ==
    \E forks \in {{}, {"fork"} \X Space}, exits \in {{}, {<<"exit", "files">>}} :
       lost = forks \cup exits

(* Along every path through do_fork, do_execve, do_exit and do_wait what    *)
(* was taken is given back exactly once, but for the two known losses.      *)
ResInv == TypeOK /\ Complete /\ LossesKnown /\ TakenSoFar /\ OwnExact

(* The comment in do_fork: "On failure the resources allocated so far must  *)
(* be released."                                                            *)
FailedForkReleases == \A r \in Resources : <<"fork", r>> \notin lost
=============================================================================
