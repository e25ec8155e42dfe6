------------------------------ MODULE PhiSema ------------------------------
(***************************************************************************)
(* The first half of check_sync, kern/sync/check_sync.c: N kernel threads   *)
(* share forks through a mutex and one semaphore each.                      *)
(*                                                                         *)
(* The threads may interleave between any two of the steps below, which is  *)
(* finer than the kernel, where a thread gives the processor up only in     *)
(* down and do_sleep: what is shown here does not rest on kernel threads    *)
(* not being preempted.                                                     *)
(***************************************************************************)
EXTENDS Philosophers

VARIABLES
    state_sema,
    pc,
    iter,
    value, wait_queue

vars == <<state_sema, pc, iter, value, wait_queue>>

INSTANCE Semaphore WITH Threads <- Phi, Sems <- 0 .. N

(* The three calls of phi_test_sema: whom they test, and what comes next.   *)
Target(i, at) ==
    CASE at \in {"test_self", "up_self"} -> i
      [] at \in {"test_left", "up_left"} -> LEFT(i)
      [] at \in {"test_right", "up_right"} -> RIGHT(i)

UpAt(at) ==
    CASE at = "test_self" -> "up_self"
      [] at = "test_left" -> "up_left"
      [] at = "test_right" -> "up_right"

AfterTest(at) ==
    CASE at \in {"test_self", "up_self"} -> "take_unlock"
      [] at \in {"test_left", "up_left"} -> "test_right"
      [] at \in {"test_right", "up_right"} -> "put_unlock"

Critical == {"take_set", "test_self", "up_self", "take_unlock", "put_set", "test_left",
             "up_left", "test_right", "up_right", "put_unlock"}

TypeOK ==
    /\ SemTypeOK
    /\ state_sema \in [Phi -> {"THINKING", "HUNGRY", "EATING"}]
    /\ pc \in [Phi -> Critical \cup {"think", "take_down", "eat", "quit"}]
    /\ iter \in [Phi -> 0 .. TIMES]

Init ==
    /\ sem_init([s \in 0 .. N |-> IF s = mutex THEN 1 ELSE 0])
    /\ state_sema = [i \in Phi |-> "THINKING"]
    /\ pc = [i \in Phi |-> "think"]
    /\ iter = [i \in Phi |-> 0]

At(i, place) == pc[i] = place /\ ~ Blocked(i)

Goto(i, place) == pc' = [pc EXCEPT ![i] = place]

(* Mutant: the meals are not counted.                                       *)
thinkUncounted(i) ==
    /\ At(i, "think")
    /\ down(mutex, i)
    /\ Goto(i, "take_set")
    /\ UNCHANGED <<state_sema, iter>>

(* The loop of philosopher_using_semaphore; do_sleep is over; down(&mutex). *)
think(i) ==
    /\ At(i, "think")
    /\ IF iter[i] < TIMES
       THEN /\ iter' = [iter EXCEPT ![i] = @ + 1]
            /\ down(mutex, i)
            /\ Goto(i, "take_set")
       ELSE /\ Goto(i, "quit")
            /\ UNCHANGED <<iter, value, wait_queue>>
    /\ UNCHANGED state_sema

take_set(i) ==
    /\ At(i, "take_set")
    /\ state_sema' = [state_sema EXCEPT ![i] = "HUNGRY"]
    /\ Goto(i, "test_self")
    /\ UNCHANGED <<iter, value, wait_queue>>

(* Mutant: only the left neighbour is looked at.                            *)
CanEatLeft(i) == state_sema[i] = "HUNGRY" /\ state_sema[LEFT(i)] # "EATING"

CanEat(i) ==
    /\ state_sema[i] = "HUNGRY"
    /\ state_sema[LEFT(i)] # "EATING"
    /\ state_sema[RIGHT(i)] # "EATING"

(* phi_test_sema: the condition.                                            *)
test(i) ==
    /\ pc[i] \in {"test_self", "test_left", "test_right"}
    /\ ~ Blocked(i)
    /\ Goto(i, IF CanEat(Target(i, pc[i])) THEN UpAt(pc[i]) ELSE AfterTest(pc[i]))
    /\ UNCHANGED <<state_sema, iter, value, wait_queue>>

(* phi_test_sema: the forks are given to the philosopher tested.            *)
test_up(i) ==
    /\ pc[i] \in {"up_self", "up_left", "up_right"}
    /\ ~ Blocked(i)
    /\ state_sema' = [state_sema EXCEPT ![Target(i, pc[i])] = "EATING"]
    /\ up(Target(i, pc[i]))
    /\ Goto(i, AfterTest(pc[i]))
    /\ UNCHANGED iter

take_unlock(i) ==
    /\ At(i, "take_unlock")
    /\ up(mutex)
    /\ Goto(i, "take_down")
    /\ UNCHANGED <<state_sema, iter>>

take_down(i) ==
    /\ At(i, "take_down")
    /\ down(i, i)
    /\ Goto(i, "eat")
    /\ UNCHANGED <<state_sema, iter>>

(* do_sleep is over; down(&mutex) of phi_put_forks_sema.                    *)
eat(i) ==
    /\ At(i, "eat")
    /\ down(mutex, i)
    /\ Goto(i, "put_set")
    /\ UNCHANGED <<state_sema, iter>>

(* Mutant: the neighbours are not looked at.                                *)
put_setNoTest(i) ==
    /\ At(i, "put_set")
    /\ state_sema' = [state_sema EXCEPT ![i] = "THINKING"]
    /\ Goto(i, "put_unlock")
    /\ UNCHANGED <<iter, value, wait_queue>>

put_set(i) ==
    /\ At(i, "put_set")
    /\ state_sema' = [state_sema EXCEPT ![i] = "THINKING"]
    /\ Goto(i, "test_left")
    /\ UNCHANGED <<iter, value, wait_queue>>

put_unlock(i) ==
    /\ At(i, "put_unlock")
    /\ up(mutex)
    /\ Goto(i, "think")
    /\ UNCHANGED <<state_sema, iter>>

Step(i) ==
    \/ think(i) \/ take_set(i) \/ test(i) \/ test_up(i) \/ take_unlock(i)
    \/ take_down(i) \/ eat(i) \/ put_set(i) \/ put_unlock(i)

(* check_sync waits for all of them to return.                              *)
AllQuit == \A i \in Phi : pc[i] = "quit"

Next == (\E i \in Phi : Step(i)) \/ (AllQuit /\ UNCHANGED vars)

Spec == Init /\ [][Next]_vars

(* Round robin runs every runnable thread again and again.                  *)
FairSpec == Spec /\ \A i \in Phi : WF_vars(Step(i))

-----------------------------------------------------------------------------
Eats(i) == At(i, "eat")

(* Neighbours never eat at the same time: no fork is in two hands.          *)
ForksExclusive == \A i \in Phi : Eats(i) => ~ Eats(RIGHT(i))

(* One thread at most is between down(&mutex) and up(&mutex), and the       *)
(* others wait for the mutex where they have called down.                   *)
InCritical(i) == pc[i] \in Critical /\ i \notin Range(wait_queue[mutex])

MutexHeld ==
    /\ value[mutex] \in {0, 1}
    /\ value[mutex] = 1 => wait_queue[mutex] = << >> /\ \A i \in Phi : pc[i] \notin Critical
    /\ IsInjective(wait_queue[mutex])
    /\ \A i \in Range(wait_queue[mutex]) : pc[i] \in {"take_set", "put_set"}
    /\ \A i, j \in Phi : InCritical(i) /\ InCritical(j) => i = j

(* s[i] holds a unit, or its owner waits for one, exactly as the state of   *)
(* philosopher i says; no wakeup is given twice or lost, whether it comes   *)
(* before down(&s[i]) or after it.                                          *)
ForkTokens ==
    \A i \in Phi :
        /\ pc[i] \in {"think", "quit", "take_set", "test_left", "up_left", "test_right",
                      "up_right", "put_unlock"}
              => state_sema[i] = "THINKING" /\ value[i] = 0 /\ wait_queue[i] = << >>
        /\ pc[i] \in {"test_self", "up_self"}
              => state_sema[i] = "HUNGRY" /\ value[i] = 0 /\ wait_queue[i] = << >>
        /\ pc[i] \in {"take_unlock", "take_down"}
              => /\ wait_queue[i] = << >>
                 /\ \/ state_sema[i] = "HUNGRY" /\ value[i] = 0
                    \/ state_sema[i] = "EATING" /\ value[i] = 1
        /\ pc[i] = "eat"
              => /\ value[i] = 0
                 /\ \/ state_sema[i] = "HUNGRY" /\ wait_queue[i] = <<i>>
                    \/ state_sema[i] = "EATING" /\ wait_queue[i] = << >>
        /\ pc[i] = "put_set"
              => state_sema[i] = "EATING" /\ value[i] = 0 /\ wait_queue[i] = << >>

(* The condition phi_test_sema has found true is true still when it acts.   *)
TestHolds ==
    \A i \in Phi : pc[i] \in {"up_self", "up_left", "up_right"} => CanEat(Target(i, pc[i]))

StatesExclusive ==
    \A i \in Phi : state_sema[i] = "EATING" => state_sema[RIGHT(i)] # "EATING"

(* These are inductive together: the mutex, the units of the semaphores and *)
(* state_sema agree at every interleaving.                                  *)
PhiInv == TypeOK /\ MutexHeld /\ ForkTokens /\ TestHolds /\ StatesExclusive

(* Whom the thread in the critical section has still to test.               *)
ToTest(i) ==
    CASE pc[i] \in {"test_self", "up_self"} -> {i}
      [] pc[i] \in {"test_left", "up_left"} -> {LEFT(i), RIGHT(i)}
      [] pc[i] \in {"test_right", "up_right"} -> {RIGHT(i)}
      [] OTHER -> {}

(* A hungry philosopher whose forks are free is one who will be tested      *)
(* before the mutex is released.                                            *)
NoneForgotten == \A j \in Phi : CanEat(j) => \E i \in Phi : j \in ToTest(i)

(* Nobody goes hungry needlessly: when no thread is in the critical section *)
(* a hungry philosopher has an eating neighbour, who will wake him.         *)
HungryForReason ==
    (\A i \in Phi : ~ InCritical(i)) =>
        \A i \in Phi : state_sema[i] = "HUNGRY" =>
            state_sema[LEFT(i)] = "EATING" \/ state_sema[RIGHT(i)] = "EATING"

(* Everybody eats his TIMES meals and returns, so check_sync gets through.  *)
AllGetThrough == <>AllQuit
=============================================================================
