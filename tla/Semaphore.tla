----------------------------- MODULE Semaphore -----------------------------
(***************************************************************************)
(* Counting semaphores, kern/sync/sem.c, with the wait queues of wait.c.    *)
(*                                                                         *)
(* up and down work with interrupts off, each is atomic.  An up that finds  *)
(* a waiter hands its unit over: it takes the first one off the queue and   *)
(* leaves value alone, so a woken thread returns from down without another  *)
(* look at it.  A thread is blocked as long as it is in a queue; WT_KSEM is *)
(* not an interruptible wait, so do_kill never wakes it.                    *)
(***************************************************************************)
EXTENDS Integers, Sequences, Functions

CONSTANTS Threads, Sems

VARIABLES
    value,            \* sem->value
    wait_queue        \* sem->wait_queue, oldest first

SemTypeOK ==
    /\ value \in [Sems -> Nat]
    /\ wait_queue \in [Sems -> Seq(Threads)]

sem_init(v) ==
    /\ value = v
    /\ wait_queue = [s \in Sems |-> << >>]

Blocked(p) == \E s \in Sems : p \in Range(wait_queue[s])

(* Mutant: the unit is handed over and counted as well.                     *)
upTwice(s) ==
    /\ wait_queue' = [wait_queue EXCEPT ![s] = IF @ = << >> THEN @ ELSE Tail(@)]
    /\ value' = [value EXCEPT ![s] = @ + 1]

up(s) ==
    IF wait_queue[s] = << >>
    THEN value' = [value EXCEPT ![s] = @ + 1] /\ UNCHANGED wait_queue
    ELSE wait_queue' = [wait_queue EXCEPT ![s] = Tail(@)] /\ UNCHANGED value

down(s, p) ==
    IF value[s] > 0
    THEN value' = [value EXCEPT ![s] = @ - 1] /\ UNCHANGED wait_queue
    ELSE wait_queue' = [wait_queue EXCEPT ![s] = Append(@, p)] /\ UNCHANGED value
=============================================================================
