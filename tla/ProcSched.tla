----------------------------- MODULE ProcSched -----------------------------
(***************************************************************************)
(* The life of processes: kern/process/proc.c (do_fork, do_exit, do_wait,   *)
(* do_kill, do_yield, do_sleep, init_main, cpu_idle) together with the      *)
(* scheduler they drive, kern/schedule/sched.c and the round-robin class    *)
(* default_sched.c, and the trap path trap.c that runs them.                *)
(*                                                                         *)
(* One processor.  A system call runs with interrupts off and a trap from   *)
(* kernel mode never reschedules, so the processor changes hands only in    *)
(* schedule(), and the timer interrupt (Tick) comes only in user mode or    *)
(* while one of the two kernel threads idleproc and initproc runs.  pc[p]   *)
(* is the place in the kernel where p is or will go on when it is           *)
(* scheduled again; a loop of the code is one action per iteration.         *)
(*                                                                         *)
(* A read of stdin is followed only so far as it puts its caller to sleep:  *)
(* whether it finds a key is a choice (StdinInput has the buffer).          *)
(*                                                                         *)
(* Left out here: memory and files of a process, exit codes, and the        *)
(* delta-encoded list the timers are kept in, of which this module sees     *)
(* only how many ticks each has left.  Left out too is a sleep in down():   *)
(* no semaphore of this build is held across schedule() (the disk is        *)
(* memory, dev_stdin_read holds none, and check_sync is not called), so     *)
(* down() always finds a unit; WT_KSEM is in PhiSema and PhiCondvar.        *)
(***************************************************************************)
EXTENDS Integers, Sequences, FiniteSets, Functions

CONSTANTS
    Slots,            \* process structures for user processes
    idleproc,
    initproc,
    NULL,
    MAX_PROCESS,
    MAX_TIME_SLICE,
    MaxSleep          \* bound: longest sleep asked for

Proc == Slots \cup {idleproc, initproc}

ASSUME ProcAssumption ==
    /\ IsFiniteSet(Slots)
    /\ idleproc \notin Slots /\ initproc \notin Slots /\ idleproc # initproc
    /\ NULL \notin Proc
    /\ MAX_PROCESS \in Nat
    /\ MAX_TIME_SLICE \in Nat \ {0}
    /\ MaxSleep \in Nat

VARIABLES
    state,            \* enum proc_state; "UNUSED": no such process
    wait_state,       \* WT_CHILD, WT_TIMER, WT_KBD or 0
    exiting,          \* flags & PF_EXITING
    parent, cptr, optr, yptr,
    time_slice,
    need_resched,
    timer,            \* ticks left of the timer of do_sleep, 0: not armed
    want,             \* the argument of the do_wait the process is in
    pc,
    kid,              \* the loop variable proc of do_wait
    current,
    run_list,
    nr_process,
    halt              \* "no", or how the kernel stopped; "trap": in a panic that
                      \* a user process can cause by itself

treevars  == <<parent, cptr, optr, yptr>>
procvars  == <<state, wait_state, exiting, time_slice, need_resched, timer, want, pc>>
vars == <<treevars, procvars, kid, current, run_list, nr_process, halt>>

States == {"UNUSED", "SLEEPING", "RUNNABLE", "ZOMBIE"}

(* The wait states with the bit WT_INTERRUPTED; WT_KSEM, which lacks it, is *)
(* never set here.                                                          *)
Interruptible == {"WT_CHILD", "WT_TIMER", "WT_KBD"}

WaitStates == {"0"} \cup Interruptible

(* Places where the process has called schedule() and not yet returned, or  *)
(* is about to call it, and where it goes on afterwards.                    *)
Resume == [ resched      |-> "user",        \* the end of trap()
            wait_sched   |-> "wait_woken",  \* do_wait
            sleep_sched  |-> "sleep_woken", \* do_sleep
            read_sched   |-> "read_woken",  \* dev_stdin_read
            init_resched |-> "wait",        \* the loop of init_main
            exit_sched   |-> "dead",        \* do_exit: never goes on
            idle         |-> "idle" ]       \* cpu_idle

Places == {"unused", "idle", "init_main", "init_done", "user_main", "user", "trapret",
           "resched", "wait", "wait_scan", "wait_sched", "wait_woken",
           "sleep_sched", "sleep_woken", "read_sched", "read_woken", "read_again",
           "init_resched", "exit_reparent", "exit_sched", "dead"}

TypeOK ==
    /\ state \in [Proc -> States]
    /\ wait_state \in [Proc -> WaitStates]
    /\ exiting \in [Proc -> BOOLEAN]
    /\ parent \in [Proc -> Proc \cup {NULL}]
    /\ cptr \in [Proc -> Proc \cup {NULL}]
    /\ optr \in [Proc -> Proc \cup {NULL}]
    /\ yptr \in [Proc -> Proc \cup {NULL}]
    /\ time_slice \in [Proc -> 0 .. MAX_TIME_SLICE]
    /\ need_resched \in [Proc -> BOOLEAN]
    /\ timer \in [Proc -> 0 .. MaxSleep]
    /\ want \in [Proc -> Proc \cup {NULL}]
    /\ pc \in [Proc -> Places]
    /\ kid \in Proc \cup {NULL}
    /\ current \in Proc
    /\ run_list \in Seq(Proc)
    /\ nr_process \in Int
    /\ halt \in {"no", "end", "panic", "assert", "trap"}

Live(p) == state[p] # "UNUSED"

(* After proc_init: idleproc runs, initproc is its child and is queued.     *)
Init ==
    /\ state = [p \in Proc |-> IF p \in Slots THEN "UNUSED" ELSE "RUNNABLE"]
    /\ wait_state = [p \in Proc |-> "0"]
    /\ exiting = [p \in Proc |-> FALSE]
    /\ parent = [p \in Proc |-> IF p = initproc THEN idleproc ELSE NULL]
    /\ cptr = [p \in Proc |-> IF p = idleproc THEN initproc ELSE NULL]
    /\ optr = [p \in Proc |-> NULL]
    /\ yptr = [p \in Proc |-> NULL]
    /\ time_slice = [p \in Proc |-> IF p = initproc THEN MAX_TIME_SLICE ELSE 0]
    /\ need_resched = [p \in Proc |-> p = idleproc]
    /\ timer = [p \in Proc |-> 0]
    /\ want = [p \in Proc |-> NULL]
    /\ pc = [p \in Proc |-> CASE p = idleproc -> "idle"
                              [] p = initproc -> "init_main"
                              [] OTHER -> "unused"]
    /\ kid = NULL
    /\ current = idleproc
    /\ run_list = <<initproc>>
    /\ nr_process = 2
    /\ halt = "no"

Goto(p, place) == pc' = [pc EXCEPT ![p] = place]

(* p goes on at place and nothing else changes.                             *)
Jump(p, place) ==
    /\ Goto(p, place)
    /\ UNCHANGED <<treevars, state, wait_state, exiting, time_slice, need_resched,
                   timer, want, kid, current, run_list, nr_process, halt>>

-----------------------------------------------------------------------------
(* The scheduler.                                                          *)

(* The sequences in which a set of processes can be queued one by one.      *)
Orders(S) ==
    {s \in [1 .. Cardinality(S) -> S] : IsInjective(s) /\ Range(s) = S}

(* RR_enqueue: to the tail; a used-up slice is filled up again.             *)
Refill(n) == IF n = 0 \/ n > MAX_TIME_SLICE THEN MAX_TIME_SLICE ELSE n

(* wakeup_proc on every process of W, in some order, where st and slice are *)
(* the states and time slices before the call.                              *)
(* A process that is runnable already only gets a warning; a zombie fails   *)
(* the assert.                                                             *)
WokenAgain(W, st) == W            \* mutant: queues a runnable process again

Woken(W, st) == {p \in W : st[p] # "RUNNABLE"}

wakeup_proc(W, st, slice) ==
    LET S == Woken(W, st)
        Q == S \ {current, idleproc}
    IN  /\ state' = [p \in Proc |-> IF p \in S THEN "RUNNABLE" ELSE st[p]]
        /\ wait_state' = [p \in Proc |-> IF p \in S THEN "0" ELSE wait_state[p]]
        /\ \E s \in Orders(Q) : run_list' = run_list \o s
        /\ time_slice' = [p \in Proc |-> IF p \in Q THEN Refill(slice[p]) ELSE slice[p]]
        /\ halt' = IF \E p \in W : st[p] = "ZOMBIE" THEN "assert" ELSE halt

(* schedule(): a runnable current goes to the tail of the queue, the head   *)
(* of the queue, or else idleproc, gets the processor.                      *)
schedule ==
    LET requeue == state[current] = "RUNNABLE" /\ current # idleproc
        queue   == IF requeue THEN Append(run_list, current) ELSE run_list
    IN  /\ halt = "no"
        /\ pc[current] \in DOMAIN Resume
        /\ current = idleproc => need_resched[idleproc]
        /\ need_resched' = [need_resched EXCEPT ![current] = FALSE]
        /\ time_slice' = [time_slice EXCEPT ![current] = IF requeue THEN Refill(@) ELSE @]
        /\ IF queue = << >>
           THEN current' = idleproc /\ run_list' = queue
           ELSE current' = Head(queue) /\ run_list' = Tail(queue)
        /\ pc' = [pc EXCEPT ![current] = Resume[@]]
        /\ UNCHANGED <<treevars, state, wait_state, exiting, timer, want, kid, nr_process, halt>>

-----------------------------------------------------------------------------
(* do_exit.                                                                *)

(* Mutant: the parent is not woken.                                         *)
do_exitSilent(p) ==
    IF p \in {idleproc, initproc}
    THEN halt' = "panic" /\ UNCHANGED <<treevars, procvars, kid, current, run_list, nr_process>>
    ELSE /\ state' = [state EXCEPT ![p] = "ZOMBIE"]
         /\ Goto(p, "exit_reparent")
         /\ UNCHANGED <<treevars, wait_state, exiting, time_slice, need_resched, timer, want,
                        kid, current, run_list, nr_process, halt>>

(* Mutant: the parent is woken from whatever it sleeps in.                  *)
do_exitWakesSleeper(p) ==
    IF p \in {idleproc, initproc}
    THEN halt' = "panic" /\ UNCHANGED <<treevars, procvars, kid, current, run_list, nr_process>>
    ELSE /\ wakeup_proc({q \in Proc : q = parent[p] /\ wait_state[q] # "0"},
                        [state EXCEPT ![p] = "ZOMBIE"], time_slice)
         /\ Goto(p, "exit_reparent")
         /\ UNCHANGED <<treevars, exiting, need_resched, timer, want, kid, current, nr_process>>

(* The process becomes a zombie and its parent, if it waits for children,   *)
(* is woken; idleproc and initproc must not exit.                           *)
do_exit(p) ==
    IF p \in {idleproc, initproc}
    THEN /\ halt' = "panic"
         /\ UNCHANGED <<treevars, procvars, kid, current, run_list, nr_process>>
    ELSE /\ wakeup_proc({q \in Proc : q = parent[p] /\ wait_state[q] = "WT_CHILD"},
                        [state EXCEPT ![p] = "ZOMBIE"], time_slice)
         /\ Goto(p, "exit_reparent")
         /\ UNCHANGED <<treevars, exiting, need_resched, timer, want, kid, current, nr_process>>

(* Mutant: initproc is not told of the zombies it inherits.                 *)
exit_reparentSilent ==
    LET p == current
        c == cptr[p]
    IN  /\ halt = "no"
        /\ pc[p] = "exit_reparent"
        /\ c # NULL
        /\ optr' = [optr EXCEPT ![c] = cptr[initproc]]
        /\ yptr' = [q \in Proc |-> CASE q = c -> NULL
                                     [] q = cptr[initproc] -> c
                                     [] OTHER -> yptr[q]]
        /\ cptr' = [cptr EXCEPT ![p] = optr[c], ![initproc] = c]
        /\ parent' = [parent EXCEPT ![c] = initproc]
        /\ UNCHANGED <<procvars, kid, current, run_list, nr_process, halt>>

(* One iteration of the loop that hands the children over to initproc.      *)
exit_reparent ==
    LET p == current
        c == cptr[p]
        W == {q \in {initproc} : state[c] = "ZOMBIE" /\ wait_state[q] = "WT_CHILD"}
    IN  /\ halt = "no"
        /\ pc[p] = "exit_reparent"
        /\ c # NULL
        /\ optr' = [optr EXCEPT ![c] = cptr[initproc]]
        /\ yptr' = [q \in Proc |-> CASE q = c -> NULL
                                     [] q = cptr[initproc] -> c
                                     [] OTHER -> yptr[q]]
        /\ cptr' = [cptr EXCEPT ![p] = optr[c], ![initproc] = c]
        /\ parent' = [parent EXCEPT ![c] = initproc]
        /\ wakeup_proc(W, state, time_slice)
        /\ UNCHANGED <<exiting, need_resched, timer, want, pc, kid, current, nr_process>>

(* The loop is done; do_exit calls schedule().                              *)
exit_leave ==
    /\ halt = "no"
    /\ pc[current] = "exit_reparent"
    /\ cptr[current] = NULL
    /\ Jump(current, "exit_sched")

-----------------------------------------------------------------------------
(* System calls.  Each ends at "trapret", the tail of trap(), unless it     *)
(* blocks; initproc calls do_fork and do_wait directly.                     *)

InUser(p) == halt = "no" /\ current = p /\ pc[p] = "user"


(* set_links: c becomes the youngest child of p.                            *)
set_links(c, p) ==
    /\ parent' = [parent EXCEPT ![c] = p]
    /\ yptr' = [q \in Proc |-> CASE q = c -> NULL
                                 [] q = cptr[p] -> c
                                 [] OTHER -> yptr[q]]
    /\ optr' = [optr EXCEPT ![c] = cptr[p]]
    /\ cptr' = [cptr EXCEPT ![p] = c]
    /\ nr_process' = nr_process + 1

(* Mutant: the older sibling keeps its pointer to the one removed.          *)
remove_linksStale(c) ==
    /\ optr' = [q \in Proc |-> CASE q = c -> NULL
                                 [] q = yptr[c] -> optr[c]
                                 [] OTHER -> optr[q]]
    /\ cptr' = [q \in Proc |-> IF q = parent[c] /\ yptr[c] = NULL THEN optr[c] ELSE cptr[q]]
    /\ parent' = [parent EXCEPT ![c] = NULL]
    /\ nr_process' = nr_process - 1
    /\ UNCHANGED yptr

(* remove_links: c leaves the list of its siblings.                         *)
remove_links(c) ==
    /\ yptr' = [q \in Proc |-> CASE q = c -> NULL
                                 [] q = optr[c] -> yptr[c]
                                 [] OTHER -> yptr[q]]
    /\ optr' = [q \in Proc |-> CASE q = c -> NULL
                                 [] q = yptr[c] -> optr[c]
                                 [] OTHER -> optr[q]]
    /\ cptr' = [q \in Proc |-> IF q = parent[c] /\ yptr[c] = NULL
                              THEN optr[c] ELSE cptr[q]]
    /\ parent' = [parent EXCEPT ![c] = NULL]
    /\ nr_process' = nr_process - 1

(* do_fork by p into the free structure c: the child starts at entry, p     *)
(* goes on at after.  An identifier is a structure here; get_pid is in      *)
(* PidAlloc.  A free structure holds the values alloc_proc gives it.        *)
do_fork(p, c, after, entry) ==
    /\ nr_process < MAX_PROCESS
    /\ ~ Live(c)
    /\ set_links(c, p)
    /\ wakeup_proc({c}, state, time_slice)
    /\ pc' = [pc EXCEPT ![p] = after, ![c] = entry]
    /\ UNCHANGED <<exiting, need_resched, timer, want, kid, current>>

sys_fork(p) == InUser(p) /\ \E c \in Slots : do_fork(p, c, "trapret", "user")

(* A call that changes nothing here and does not sleep: it fails an early   *)
(* check (do_fork without memory or at the process limit, do_wait with a    *)
(* bad pointer), it works on files or memory only (a read of stdin that     *)
(* finds its keys among them), or the trap is an exception that is only     *)
(* reported.                                                                *)
sys_noop(p) ==
    /\ InUser(p)
    /\ Jump(p, "trapret")

(* A trap that stops the kernel whoever causes it: a misaligned store, an   *)
(* undefined system call, or a call that meets an assert or a panic of the  *)
(* memory and the file system.                                              *)
sys_panic(p) ==
    /\ InUser(p)
    /\ halt' = "trap"
    /\ UNCHANGED <<treevars, procvars, kid, current, run_list, nr_process>>

sys_exit(p) == InUser(p) /\ do_exit(p)

(* sys_wait: want = NULL stands for the argument 0, any child.              *)
sys_wait(p) ==
    /\ InUser(p)
    /\ \E q \in (Proc \ {idleproc}) \cup {NULL} : want' = [want EXCEPT ![p] = q]
    /\ Goto(p, "wait")
    /\ UNCHANGED <<treevars, state, wait_state, exiting, time_slice, need_resched, timer,
                   kid, current, run_list, nr_process, halt>>

(* Mutant: the target's timer is taken away with its sleep.                 *)
sys_killDisarms(p) ==
    /\ InUser(p)
    /\ \E q \in Proc \ {idleproc} :
          IF Live(q) /\ ~ exiting[q]
          THEN /\ exiting' = [exiting EXCEPT ![q] = TRUE]
               /\ wakeup_proc({r \in {q} : wait_state[r] \in Interruptible}, state, time_slice)
               /\ timer' = [timer EXCEPT ![q] = 0]
          ELSE UNCHANGED <<exiting, state, wait_state, run_list, time_slice, timer, halt>>
    /\ Goto(p, "trapret")
    /\ UNCHANGED <<treevars, need_resched, want, kid, current, nr_process>>

(* do_kill: mark the process; wake it if its sleep can be interrupted.      *)
sys_kill(p) ==
    /\ InUser(p)
    /\ \E q \in Proc \ {idleproc} :
          IF Live(q) /\ ~ exiting[q]
          THEN /\ exiting' = [exiting EXCEPT ![q] = TRUE]
               /\ wakeup_proc({r \in {q} : wait_state[r] \in Interruptible}, state, time_slice)
          ELSE UNCHANGED <<exiting, state, wait_state, run_list, time_slice, halt>>
    /\ Goto(p, "trapret")
    /\ UNCHANGED <<treevars, need_resched, timer, want, kid, current, nr_process>>

do_yield(p) ==
    /\ InUser(p)
    /\ need_resched' = [need_resched EXCEPT ![p] = TRUE]
    /\ Goto(p, "trapret")
    /\ UNCHANGED <<treevars, state, wait_state, exiting, time_slice, timer, want, kid,
                   current, run_list, nr_process, halt>>

(* do_sleep up to its call of schedule(); do_sleep(0) returns at once.      *)
do_sleep(p) ==
    /\ InUser(p)
    /\ \E t \in 0 .. MaxSleep :
          IF t = 0
          THEN Goto(p, "trapret") /\ UNCHANGED <<state, wait_state, timer>>
          ELSE /\ state' = [state EXCEPT ![p] = "SLEEPING"]
               /\ wait_state' = [wait_state EXCEPT ![p] = "WT_TIMER"]
               /\ timer' = [timer EXCEPT ![p] = t]
               /\ Goto(p, "sleep_sched")
    /\ UNCHANGED <<treevars, exiting, time_slice, need_resched, want, kid, current,
                   run_list, nr_process, halt>>

(* do_sleep after schedule(): del_timer, whether or not it has expired.     *)
sleep_woken ==
    /\ halt = "no"
    /\ pc[current] = "sleep_woken"
    /\ timer' = [timer EXCEPT ![current] = 0]
    /\ Goto(current, "trapret")
    /\ UNCHANGED <<treevars, state, wait_state, exiting, time_slice, need_resched, want,
                   kid, current, run_list, nr_process, halt>>

-----------------------------------------------------------------------------
(* Reading stdin.                                                          *)

(* Whose wait_t is in the wait queue of stdin.  A key takes it off, and     *)
(* leaves WT_KBD in its wakeup_flags: the place read_again.                 *)
stdin_queue == {p \in Proc : pc[p] \in {"read_sched", "read_woken"}}

(* wait_current_set, up to the call of schedule().                          *)
read_block(p) ==
    /\ state' = [state EXCEPT ![p] = "SLEEPING"]
    /\ wait_state' = [wait_state EXCEPT ![p] = "WT_KBD"]
    /\ Goto(p, "read_sched")
    /\ UNCHANGED <<treevars, exiting, time_slice, need_resched, timer, want, kid, current,
                   run_list, nr_process, halt>>

(* A read that wants more keys than there are.                              *)
sys_read(p) == InUser(p) /\ read_block(p)

(* dev_stdin_read after schedule(), still in the queue: woken by a kill, it *)
(* takes itself off and returns what it has.                                *)
read_woken ==
    /\ halt = "no"
    /\ pc[current] = "read_woken"
    /\ Jump(current, "trapret")

(* Woken by a key: try_again, which finds enough or sleeps again, and does  *)
(* not look at PF_EXITING.                                                  *)
read_again ==
    /\ halt = "no"
    /\ pc[current] = "read_again"
    /\ Jump(current, "trapret") \/ read_block(current)

-----------------------------------------------------------------------------
(* do_wait.                                                                *)

(* Where do_wait returns to: initproc goes on in the loop of init_main,     *)
(* with schedule() after a success and out of the loop after a failure.     *)
AfterWaitOnce(p, success) ==      \* mutant: init_main waits for one child only
    IF p = initproc THEN "init_done" ELSE "trapret"

AfterWait(p, success) ==
    CASE p # initproc -> "trapret"
      [] p = initproc /\ success -> "init_resched"
      [] p = initproc /\ ~ success -> "init_done"

(* found: the zombie c is unlinked and its structure freed.                 *)
reap(p, c) ==
    IF c \in {idleproc, initproc}
    THEN /\ halt' = "panic"
         /\ UNCHANGED <<treevars, procvars, nr_process>>
    ELSE /\ remove_links(c)
         /\ state' = [state EXCEPT ![c] = "UNUSED"]
         /\ exiting' = [exiting EXCEPT ![c] = FALSE]
         /\ time_slice' = [time_slice EXCEPT ![c] = 0]
         /\ need_resched' = [need_resched EXCEPT ![c] = FALSE]
         /\ want' = [want EXCEPT ![c] = NULL, ![p] = NULL]
         /\ pc' = [pc EXCEPT ![c] = "unused",
                             ![p] = AfterWait(p, TRUE)]
         /\ UNCHANGED <<wait_state, timer, halt>>

(* haskid without a zombie: sleep until a child exits.                      *)
wait_block(p) ==
    /\ state' = [state EXCEPT ![p] = "SLEEPING"]
    /\ wait_state' = [wait_state EXCEPT ![p] = "WT_CHILD"]
    /\ Goto(p, "wait_sched")
    /\ UNCHANGED <<treevars, exiting, time_slice, need_resched, timer, want, nr_process, halt>>

(* -E_BAD_PROC: no such child.                                              *)
wait_nokid(p) ==
    /\ want' = [want EXCEPT ![p] = NULL]
    /\ Goto(p, AfterWait(p, FALSE))
    /\ UNCHANGED <<treevars, state, wait_state, exiting, time_slice, need_resched, timer,
                   nr_process, halt>>

(* Mutant: a zombie found by its identifier is reaped by anyone.            *)
do_waitAnyone ==
    LET p == current
        c == want[p]
    IN  /\ halt = "no"
        /\ pc[p] = "wait"
        /\ IF c = NULL
           THEN /\ kid' = cptr[p]
                /\ Goto(p, "wait_scan")
                /\ UNCHANGED <<treevars, state, wait_state, exiting, time_slice, need_resched,
                               timer, want, nr_process, halt>>
           ELSE /\ UNCHANGED kid
                /\ IF state[c] = "ZOMBIE" THEN reap(p, c) ELSE wait_nokid(p)
        /\ UNCHANGED <<current, run_list>>

(* Mutant: the scan begins behind the youngest child.                       *)
do_waitSkips ==
    LET p == current
    IN  /\ halt = "no"
        /\ pc[p] = "wait"
        /\ IF want[p] # NULL
           THEN wait_nokid(p) /\ UNCHANGED kid
           ELSE /\ kid' = IF cptr[p] = NULL THEN NULL ELSE optr[cptr[p]]
                /\ Goto(p, "wait_scan")
                /\ UNCHANGED <<treevars, state, wait_state, exiting, time_slice, need_resched,
                               timer, want, nr_process, halt>>
        /\ UNCHANGED <<current, run_list>>

(* The top of do_wait, label repeat.                                        *)
do_wait ==
    LET p == current
        c == want[p]
    IN  /\ halt = "no"
        /\ pc[p] = "wait"
        /\ \/ /\ c = NULL
              /\ kid' = cptr[p]
              /\ Goto(p, "wait_scan")
              /\ UNCHANGED <<treevars, state, wait_state, exiting, time_slice, need_resched,
                             timer, want, nr_process, halt>>
           \/ /\ c # NULL
              /\ UNCHANGED kid
              /\ IF Live(c) /\ parent[c] = p
                 THEN IF state[c] = "ZOMBIE" THEN reap(p, c) ELSE wait_block(p)
                 ELSE wait_nokid(p)
        /\ UNCHANGED <<current, run_list>>

(* One iteration of the loop over the children, youngest first.             *)
wait_scan ==
    LET p == current
    IN  /\ halt = "no"
        /\ pc[p] = "wait_scan"
        /\ \/ /\ kid # NULL
              /\ state[kid] = "ZOMBIE"
              /\ reap(p, kid)
              /\ kid' = NULL
           \/ /\ kid # NULL
              /\ state[kid] # "ZOMBIE"
              /\ kid' = optr[kid]
              /\ UNCHANGED <<treevars, procvars, nr_process, halt>>
           \/ /\ kid = NULL
              /\ IF cptr[p] # NULL THEN wait_block(p) ELSE wait_nokid(p)
              /\ UNCHANGED kid
        /\ UNCHANGED <<current, run_list>>

(* do_wait after schedule(): a killed process exits, others look again.     *)
wait_woken ==
    /\ halt = "no"
    /\ pc[current] = "wait_woken"
    /\ IF exiting[current]
       THEN do_exit(current)
       ELSE Jump(current, "wait")

-----------------------------------------------------------------------------
(* Traps.                                                                  *)

(* Mutant: PF_EXITING is not looked at on the way out of the kernel.        *)
trap_returnAlive ==
    /\ halt = "no"
    /\ pc[current] = "trapret"
    /\ Jump(current, IF need_resched[current] THEN "resched" ELSE "user")

(* The tail of trap() for a trap from user mode.                            *)
trap_return ==
    /\ halt = "no"
    /\ pc[current] = "trapret"
    /\ IF exiting[current]
       THEN do_exit(current)
       ELSE Jump(current, IF need_resched[current] THEN "resched" ELSE "user")

(* Mutant: idleproc runs with interrupts off.                               *)
IntrOnBusy == current # idleproc /\ (current = initproc \/ pc[current] \in {"user", "user_main"})

(* Interrupts are on in user mode and in the kernel threads.                *)
IntrOn == current \in {idleproc, initproc} \/ pc[current] \in {"user", "user_main"}

(* Mutant: the slice is never used up.                                      *)
ChargeNever(n) == n

(* RR_proc_tick on the slice of the current process.                        *)
Charge(n) == IF n > 0 THEN n - 1 ELSE n

TimersAfterTick == [p \in Proc |-> IF timer[p] > 0 THEN timer[p] - 1 ELSE 0]

(* The timer interrupt: run_timer_list wakes the owners of the timers that  *)
(* run out and charges the tick to the current process, which wakeup_proc   *)
(* never queues; then dev_stdin_write, if a key came, wakes everybody in    *)
(* the queue of stdin.  A tick from user mode goes through the tail of      *)
(* trap().                                                                  *)
Tick ==
    LET charged == IF current = idleproc THEN time_slice
                   ELSE [time_slice EXCEPT ![current] = Charge(@)]
    IN  /\ halt = "no"
        /\ IntrOn
        /\ timer' = TimersAfterTick
        /\ \E readers \in {{}, stdin_queue} :
              /\ wakeup_proc({p \in Proc : timer[p] = 1} \cup readers, state, charged)
              /\ pc' = [p \in Proc |->
                           CASE p \in readers -> "read_again"
                             [] p \notin readers /\ p = current /\ pc[p] = "user" -> "trapret"
                             [] OTHER -> pc[p]]
        /\ need_resched' = [need_resched EXCEPT
               ![current] = @ \/ current = idleproc \/ charged[current] = 0]
        /\ UNCHANGED <<treevars, exiting, want, kid, current, nr_process>>

-----------------------------------------------------------------------------
(* The kernel threads.                                                     *)

(* init_main starts user_main; without it the kernel panics.                *)
init_main ==
    /\ halt = "no"
    /\ current = initproc
    /\ pc[initproc] = "init_main"
    /\ \/ \E c \in Slots : do_fork(initproc, c, "wait", "user_main")
       \/ /\ halt' = "panic"
          /\ UNCHANGED <<treevars, procvars, kid, current, run_list, nr_process>>

(* user_main turns itself into the first user program, or exits.            *)
user_main ==
    /\ halt = "no"
    /\ pc[current] = "user_main"
    /\ \/ Jump(current, "user")
       \/ do_exit(current)

(* init_main after its loop: the asserts on the process tree, then the      *)
(* return into do_exit, which stops the machine.                            *)
init_done ==
    /\ halt = "no"
    /\ pc[current] = "init_done"
    /\ halt' = IF /\ cptr[initproc] = NULL /\ yptr[initproc] = NULL /\ optr[initproc] = NULL
                  /\ nr_process = 2
               THEN "end" ELSE "assert"
    /\ UNCHANGED <<treevars, procvars, kid, current, run_list, nr_process>>

(* A stopped kernel stays in the monitor.                                   *)
Halted == halt # "no" /\ UNCHANGED vars

-----------------------------------------------------------------------------
UserStep(p) ==
    \/ sys_fork(p) \/ sys_noop(p) \/ sys_exit(p) \/ sys_wait(p)
    \/ sys_kill(p) \/ do_yield(p) \/ do_sleep(p) \/ sys_read(p) \/ sys_panic(p)

KernelStep ==
    \/ schedule \/ exit_reparent \/ exit_leave \/ sleep_woken \/ read_woken \/ read_again
    \/ do_wait \/ wait_scan \/ wait_woken \/ trap_return
    \/ init_main \/ user_main \/ init_done

Next == (\E p \in Slots : UserStep(p)) \/ KernelStep \/ Tick \/ Halted

Spec == Init /\ [][Next]_vars

(* Kernel code does not stop by itself, and a timer interrupt is pending    *)
(* until interrupts are on, however briefly.                                *)
FairSpec == Spec /\ WF_vars(KernelStep) /\ SF_vars(Tick)

-----------------------------------------------------------------------------
(* Invariants.                                                             *)

(* The run queue and the process states agree: exactly the runnable         *)
(* processes that do not run are queued, each once.  wakeup_proc tests      *)
(* proc != current and schedule() tests current->state to keep it so;       *)
(* RR_enqueue asserts a part of it.                                         *)
RunQueueExact ==
    /\ IsInjective(run_list)
    /\ Range(run_list) = {p \in Proc : state[p] = "RUNNABLE" /\ p # current /\ p # idleproc}

(* Where a process is and what its fields say: a process without the        *)
(* processor stands where schedule() returns; a sleeper sleeps where it     *)
(* set its wait_state; zombies are in do_exit.                              *)
AtRest == {"idle", "init_main", "user_main", "user", "wait", "wait_woken", "sleep_woken",
           "read_woken", "read_again"}

PlacesAgree ==
    /\ pc[idleproc] = "idle"
    /\ state[idleproc] = "RUNNABLE"
    /\ state[initproc] \in {"RUNNABLE", "SLEEPING"}
    /\ state[current] = "RUNNABLE"
         \/ pc[current] \in {"wait_sched", "sleep_sched", "read_sched", "exit_reparent",
                              "exit_sched"}
    /\ \A p \in Proc :
         /\ state[p] = "UNUSED" <=> pc[p] = "unused"
         /\ state[p] = "ZOMBIE" <=> pc[p] \in {"exit_reparent", "exit_sched", "dead"}
         /\ Live(p) /\ p # current => pc[p] \in AtRest \cup {"dead"}
         /\ state[p] = "SLEEPING" <=> wait_state[p] # "0"
         /\ wait_state[p] = "WT_CHILD" => pc[p] \in {"wait_sched", "wait_woken"}
         /\ wait_state[p] = "WT_TIMER" => pc[p] \in {"sleep_sched", "sleep_woken"}
         /\ wait_state[p] = "WT_KBD" => pc[p] \in {"read_sched", "read_woken"}

(* The timer of do_sleep lives in its stack frame: while it is armed, its   *)
(* owner has not left do_sleep, even when a kill has woken it early, and    *)
(* nothing else wakes it early.                                             *)
TimerOwnerInDoSleep ==
    \A p \in Proc : timer[p] > 0 =>
        /\ pc[p] \in {"sleep_sched", "sleep_woken"}
        /\ wait_state[p] = "WT_TIMER" \/ exiting[p]

(* These four are inductive together: queue, states, places and timers of   *)
(* the processes agree after every system call, kernel step and tick.       *)
ProcInv == TypeOK /\ RunQueueExact /\ PlacesAgree /\ TimerOwnerInDoSleep

(* No lost wakeup: nobody sleeps in do_wait while the child it waits for is *)
(* a zombie, whether the child exited by itself or was handed over to       *)
(* initproc as a zombie.                                                    *)
NoLostChild ==
    \A p, q \in Proc :
        /\ wait_state[p] = "WT_CHILD"
        /\ parent[q] = p
        /\ want[p] \in {NULL, q}
        => state[q] # "ZOMBIE"

(* Every live process but idleproc has a live parent, which is idleproc for *)
(* initproc only, and a zombie has children only until it has handed them   *)
(* over; a free structure has no relatives.                                 *)
ParentsLive ==
    /\ \A q \in Proc : IF Live(q) /\ q # idleproc
                      THEN /\ parent[q] # NULL /\ Live(parent[q])
                           /\ state[parent[q]] = "ZOMBIE" => pc[parent[q]] = "exit_reparent"
                           /\ parent[q] = idleproc <=> q = initproc
                      ELSE parent[q] = NULL /\ optr[q] = NULL /\ yptr[q] = NULL
    /\ \A q \in Proc : ~ Live(q) => cptr[q] = NULL

(* cptr, optr and yptr thread the children of a process in one list,        *)
(* youngest first.  While do_exit takes that list apart, yptr of the        *)
(* youngest one left is out of date.                                        *)
LinksAgree ==
    \A q \in Proc :
       /\ cptr[q] # NULL =>
            /\ parent[cptr[q]] = q
            /\ \A r \in Proc : optr[r] # cptr[q]
       /\ optr[q] # NULL => parent[optr[q]] = parent[q] /\ yptr[optr[q]] = q
       /\ parent[q] # NULL /\ state[parent[q]] # "ZOMBIE" =>
            /\ yptr[q] = NULL <=> cptr[parent[q]] = q
            /\ yptr[q] # NULL => optr[yptr[q]] = q

(* The list reaches every child: who follows optr from cptr of a process    *)
(* until NULL passes all of its children, so that do_wait and do_exit       *)
(* overlook none.                                                           *)
Children(p) == {q \in Proc : parent[q] = p}

PassedFrom(first, S) == first \in S \cup {NULL} /\ \A q \in S : optr[q] \in S \cup {NULL}

ChildListComplete ==
    \A p \in Proc : \A S \in SUBSET Children(p) : PassedFrom(cptr[p], S) => S = Children(p)

(* Nobody is his own ancestor: in any group of user processes one has his   *)
(* parent outside it, so they all descend from initproc.                    *)
NoCycle ==
    \A S \in SUBSET {q \in Slots : Live(q)} : S # {} => \E q \in S : parent[q] \notin S

(* nr_process, the limit do_fork tests, counts the live processes.          *)
CountAgrees == nr_process = Cardinality({p \in Proc : Live(p)})

(* The process tree is what do_wait, do_exit and do_fork take it for: the   *)
(* links of siblings fit together, no child is out of reach, everybody      *)
(* descends from initproc, and the count is right, whatever the order of    *)
(* forks, exits and reaps has been.                                         *)
TreeConsistent == ParentsLive /\ LinksAgree /\ ChildListComplete /\ NoCycle /\ CountAgrees

(* The loop of do_wait: the child it looks at is one of current, and the    *)
(* zombies among the children are still ahead of it.                        *)
ScanCovers ==
    pc[current] = "wait_scan" =>
        /\ kid # NULL => parent[kid] = current
        /\ \A S \in SUBSET Children(current) :
              PassedFrom(kid, S) => \A q \in Children(current) \ S : state[q] # "ZOMBIE"

(* Where initproc can be: it waits for any child until it has none left.    *)
InitprocWaits ==
    /\ want[initproc] = NULL
    /\ pc[initproc] \in {"init_main", "wait", "wait_scan", "wait_sched", "wait_woken",
                         "init_resched", "init_done"}
    /\ \A p \in Slots : pc[p] \notin {"init_main", "init_resched", "init_done"}
    /\ pc[initproc] = "init_done" => cptr[initproc] = NULL

(* How the code of this module stops the kernel: none of its asserts fails, *)
(* the panics of do_exit, do_wait and init_main come only when initproc has *)
(* been killed or its first kernel_thread failed, and init_main ends in     *)
(* order only when no process is left.  It says nothing of the panics any   *)
(* user process can cause by a bad trap or call (sys_panic).                *)
EndsInOrder ==
    /\ halt # "assert"
    /\ halt = "panic" => exiting[initproc] \/ pc[initproc] = "init_main"
    /\ halt = "end" => \A p \in Slots : ~ Live(p)

(* These are inductive together, beside ProcInv.                            *)
FamilyInv == TreeConsistent /\ ScanCovers /\ NoLostChild /\ InitprocWaits /\ EndsInOrder

-----------------------------------------------------------------------------
(* Action properties.                                                      *)

(* A zombie leaves only by being reaped by the process that is its parent   *)
(* at that moment.                                                          *)
ZombieReapedByParent ==
    [][\A p \in Proc : state[p] = "ZOMBIE" /\ state'[p] # "ZOMBIE"
          => state'[p] = "UNUSED" /\ parent[p] = current]_vars

(* do_sleep lasts: before the last tick of its timer only a kill ends it.   *)
SleepLasts ==
    [][\A p \in Proc : wait_state[p] = "WT_TIMER" /\ wait_state'[p] # "WT_TIMER"
          => (timer[p] = 1 /\ timer'[p] = 0) \/ exiting'[p]]_vars

(* The timers of sleeping processes count down independently of each other  *)
(* and of what happens to their owners: besides the clock only the running  *)
(* process touches a timer, and that its own; it arms it in a system call   *)
(* when it is off, and stops one that still runs only if it has been killed *)
(* (del_timer in do_sleep finds every other one run out).                   *)
Timer == INSTANCE TimerSpec WITH Timers <- Proc, MaxTicks <- MaxSleep, left <- timer

TimersOwned ==
    [][ \/ Timer!Tick
        \/ pc[current] = "user" /\ \E k \in 1 .. MaxSleep : Timer!Arm(current, k)
        \/ exiting[current] /\ Timer!Cancel(current) ]_timer

-----------------------------------------------------------------------------
(* Liveness, under FairSpec.                                               *)

(* Round robin starves nobody, whatever the other processes do.             *)
NoStarvation ==
    \A p \in Proc \ {idleproc} :
        state[p] = "RUNNABLE" ~> current = p \/ halt # "no"

(* A zombie whose parent is initproc is reaped.                             *)
OrphansReaped ==
    \A p \in Slots :
        state[p] = "ZOMBIE" /\ parent[p] = initproc ~> ~ Live(p) \/ halt # "no"

(* A sleeper wakes up.                                                      *)
SleepEnds ==
    \A p \in Slots : pc[p] = "sleep_woken" ~> pc[p] # "sleep_woken" \/ halt # "no"

(* A killed process exits, unless it goes to sleep in do_wait or in a read  *)
(* of stdin.  The tail of trap() tests PF_EXITING before it calls           *)
(* schedule(), so a process killed while it is queued gets one more system  *)
(* call, which may be a wait or a read; and a reader whom a key wakes       *)
(* before the kill is seen sleeps again.  Every other call ends, do_sleep   *)
(* among them.                                                              *)
KilledExits ==
    \A p \in Slots :
        exiting[p] ~> \/ state[p] \in {"ZOMBIE", "UNUSED"}
                      \/ wait_state[p] \in {"WT_CHILD", "WT_KBD"}
                      \/ halt # "no"
=============================================================================
