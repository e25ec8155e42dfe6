------------------------------ MODULE PidAlloc ------------------------------
(***************************************************************************)
(* get_pid of kern/process/proc.c: the allocator of process identifiers.    *)
(*                                                                         *)
(* get_pid keeps two static variables between calls: last_pid, the last     *)
(* identifier given out, and next_safe, the least identifier above it that  *)
(* may be in use.  While last_pid + 1 < next_safe it answers without        *)
(* looking at the process list; otherwise it scans the list and restarts    *)
(* the scan when the candidate runs past next_safe.  The scan is one action *)
(* per process on the list.  The order of proc_list does not matter to any  *)
(* property here, so the list is a set and the scan takes its members in    *)
(* any order.                                                               *)
(*                                                                         *)
(* get_pid runs with interrupts off (do_fork, between local_intr_save and   *)
(* local_intr_restore), so no process leaves the list during a scan.        *)
(***************************************************************************)
EXTENDS Naturals, FiniteSets

CONSTANTS
    MAX_PROCESS,   \* the most processes, idleproc included
    MAX_PID        \* identifiers are below MAX_PID

ASSUME MaxAssumption ==
    /\ MAX_PROCESS \in Nat \ {0}
    /\ MAX_PID \in Nat
    /\ MAX_PID > MAX_PROCESS     \* the static_assert of get_pid

VARIABLES
    pids,          \* identifiers of the processes on proc_list
    nr_process,    \* the number of processes, idleproc included
    last_pid,      \* static int last_pid
    next_safe,     \* static int next_safe
    todo,          \* identifiers the scan has still to look at
    pc             \* "idle", "scan" or "link": where get_pid stands

vars == <<pids, nr_process, last_pid, next_safe, todo, pc>>

TypeOK ==
    /\ pids \subseteq 1 .. MAX_PID - 1
    /\ nr_process \in 1 .. MAX_PROCESS
    /\ last_pid \in 1 .. MAX_PID
    /\ next_safe \in 1 .. MAX_PID
    /\ todo \subseteq pids
    /\ pc \in {"idle", "scan", "link"}

-----------------------------------------------------------------------------
(* proc_init: an empty proc_list (idleproc is never linked into it) and the *)
(* initial values of the statics.                                           *)
Init ==
    /\ pids = {}
    /\ nr_process = 1
    /\ last_pid = MAX_PID
    /\ next_safe = MAX_PID
    /\ todo = {}
    /\ pc = "idle"

(* The start of get_pid: advance, wrap, and decide whether to scan.         *)
(* do_fork calls it only below the process limit.                           *)
get_pid ==
    /\ pc = "idle"
    /\ nr_process < MAX_PROCESS
    /\ LET wraps == last_pid + 1 >= MAX_PID
       IN  /\ last_pid' = IF wraps THEN 1 ELSE last_pid + 1
           /\ IF wraps \/ last_pid + 1 >= next_safe
              THEN /\ next_safe' = MAX_PID
                   /\ todo' = pids
                   /\ pc' = "scan"
              ELSE /\ pc' = "link"
                   /\ UNCHANGED <<next_safe, todo>>
    /\ UNCHANGED <<pids, nr_process>>

(* Mutants of the loop body: the scan is not restarted after next_safe is   *)
(* reset; next_safe never comes down; the candidate is not advanced past a  *)
(* process that holds it.                                                   *)
ScanOneNoRestart(n) ==
    IF n = last_pid
    THEN /\ last_pid' = IF last_pid + 1 >= MAX_PID THEN 1 ELSE last_pid + 1
         /\ next_safe' = IF last_pid + 1 >= next_safe THEN MAX_PID ELSE next_safe
         /\ todo' = todo \ {n}
    ELSE /\ next_safe' = IF n > last_pid /\ next_safe > n THEN n ELSE next_safe
         /\ todo' = todo \ {n}
         /\ UNCHANGED last_pid

ScanOneNoNextSafe(n) ==
    /\ IF n = last_pid
       THEN last_pid' = IF last_pid + 1 >= MAX_PID THEN 1 ELSE last_pid + 1
       ELSE UNCHANGED last_pid
    /\ todo' = todo \ {n}
    /\ UNCHANGED next_safe

ScanOneNoAdvance(n) ==
    IF n = last_pid
    THEN next_safe' = MAX_PID /\ todo' = pids /\ UNCHANGED last_pid
    ELSE /\ next_safe' = IF n > last_pid /\ next_safe > n THEN n ELSE next_safe
         /\ todo' = todo \ {n}
         /\ UNCHANGED last_pid

(* One round of the loop over proc_list, on the process with identifier n.  *)
ScanOne(n) ==
    \/ /\ n = last_pid
       /\ last_pid + 1 < next_safe
       /\ last_pid' = last_pid + 1
       /\ todo' = todo \ {n}
       /\ UNCHANGED next_safe
    \/ /\ n = last_pid
       /\ last_pid + 1 >= next_safe
       /\ last_pid' = IF last_pid + 1 >= MAX_PID THEN 1 ELSE last_pid + 1
       /\ next_safe' = MAX_PID
       /\ todo' = pids
    \/ /\ n # last_pid
       /\ next_safe' = IF n > last_pid /\ next_safe > n THEN n ELSE next_safe
       /\ todo' = todo \ {n}
       /\ UNCHANGED last_pid

Scan ==
    /\ pc = "scan"
    /\ \E n \in todo : ScanOne(n)
    /\ UNCHANGED <<pids, nr_process, pc>>

(* The loop has come back to the list head: get_pid returns last_pid.       *)
ScanEnd ==
    /\ pc = "scan"
    /\ todo = {}
    /\ pc' = "link"
    /\ UNCHANGED <<pids, nr_process, last_pid, next_safe, todo>>

(* do_fork stores the identifier and links the process (set_links).         *)
set_links ==
    /\ pc = "link"
    /\ pids' = pids \cup {last_pid}
    /\ nr_process' = nr_process + 1
    /\ pc' = "idle"
    /\ UNCHANGED <<last_pid, next_safe, todo>>

(* do_wait takes a zombie off the list (remove_links); it never reaps       *)
(* initproc, which got identifier 1.                                        *)
remove_links ==
    /\ pc = "idle"
    /\ \E n \in pids \ {1} : pids' = pids \ {n}
    /\ nr_process' = nr_process - 1
    /\ UNCHANGED <<last_pid, next_safe, todo, pc>>

Next == get_pid \/ Scan \/ ScanEnd \/ set_links \/ remove_links

Spec == Init /\ [][Next]_vars

(* Once called, get_pid runs to its end: nothing can interrupt it.          *)
FairSpec == Spec /\ WF_vars(Scan \/ ScanEnd \/ set_links)

-----------------------------------------------------------------------------
(* The identifier get_pid is about to return belongs to no live process.    *)
(* The fast path returns it without looking at the list: this is what makes *)
(* the cached next_safe trustworthy after any sequence of forks and reaps.  *)
PidUnique ==
    pc = "link" => last_pid \in (1 .. MAX_PID - 1) \ pids

(* What the scan has established about a process it has passed: it does not *)
(* hold the candidate, and if it is above the candidate, next_safe has come *)
(* down to it.                                                              *)
Passed(n) == n # last_pid /\ (n > last_pid => n >= next_safe)

(* The statics between two calls: no live process lies strictly between     *)
(* last_pid and next_safe.  Reaping keeps it, and so does linking last_pid. *)
WindowFree ==
    /\ pc # "idle" => nr_process < MAX_PROCESS
    /\ pc # "scan" => todo = {}
    /\ pc = "idle" => \A n \in pids : n > last_pid => n >= next_safe
    /\ pc = "scan" => last_pid < next_safe /\ \A n \in pids \ todo : Passed(n)
    /\ pc = "link" => last_pid < next_safe /\ \A n \in pids : Passed(n)

(* nr_process counts the processes on the list and idleproc: no identifier  *)
(* is given to two of them.                                                 *)
CountAgrees ==
    IsFiniteSet(pids) /\ nr_process = Cardinality(pids) + 1

(* The inductive invariant of the allocator: the statics of get_pid stay in *)
(* range, the cached window is free, and the scan keeps what it has found   *)
(* out through every restart.                                               *)
PidInv == TypeOK /\ WindowFree /\ CountAgrees

(* The allocator implements the promise of PidSpec.                         *)
Abstract == INSTANCE PidSpec
RefinesPidSpec == Abstract!Spec

(* The goto repeat of get_pid does not loop for ever: below the process     *)
(* limit every call ends.                                                   *)
GetPidReturns == pc = "scan" ~> pc = "idle"
=============================================================================
