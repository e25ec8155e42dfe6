----------------------------- MODULE PhiCondvar -----------------------------
(***************************************************************************)
(* The monitor of kern/sync/monitor.c, in use by the second half of         *)
(* check_sync: the philosophers again, now with condition variables.        *)
(*                                                                         *)
(* cond_signal passes the monitor on to the thread it wakes and waits in    *)
(* next until that thread leaves or waits again.  The kernel switches only  *)
(* in down and do_sleep; here the threads may interleave between any two of *)
(* the steps below, so nothing rests on kernel threads not being preempted. *)
(***************************************************************************)
EXTENDS Philosophers, FiniteSets

(* The semaphores: cv[i].sem is i, then mutex and next.                     *)
next == N + 1

VARIABLES
    state_condvar,
    mpc,
    miter,
    next_count,       \* mtp->next_count
    count,            \* mtp->cv[i].count
    mvalue, mqueue

monitorvars == <<state_condvar, mpc, miter, next_count, count, mvalue, mqueue>>

Sem == INSTANCE Semaphore WITH Threads <- Phi, Sems <- 0 .. N + 1,
                               value <- mvalue, wait_queue <- mqueue

(* The calls of phi_test_condvar: a thread in the one for philosopher j is  *)
(* at <<step, site>>, where the site says which call it is.                 *)
Sites == {"self", "left", "right"}

Tested(i) ==
    CASE mpc[i][2] = "self" -> i
      [] mpc[i][2] = "left" -> LEFT(i)
      [] mpc[i][2] = "right" -> RIGHT(i)

AfterTestAt(site) ==
    CASE site = "self" -> <<"take_check", "">>
      [] site = "left" -> <<"test", "right">>
      [] site = "right" -> <<"put_leave", "">>

Places ==
    ({"test", "mark", "signal_up", "signal_down", "signal_back"} \X Sites)
    \cup ({"think", "take_set", "take_check", "wait_up", "wait_down", "wait_back",
           "take_leave", "eat", "put_set", "put_leave", "quit"} \X {""})

MonitorTypeOK ==
    /\ Sem!SemTypeOK
    /\ state_condvar \in [Phi -> {"THINKING", "HUNGRY", "EATING"}]
    /\ mpc \in [Phi -> Places]
    /\ miter \in [Phi -> 0 .. TIMES]
    /\ next_count \in 0 .. N
    /\ count \in [Phi -> 0 .. N]

(* monitor_init *)
MonitorInit ==
    /\ Sem!sem_init([s \in 0 .. N + 1 |-> IF s = mutex THEN 1 ELSE 0])
    /\ next_count = 0
    /\ count = [i \in Phi |-> 0]
    /\ state_condvar = [i \in Phi |-> "THINKING"]
    /\ mpc = [i \in Phi |-> <<"think", "">>]
    /\ miter = [i \in Phi |-> 0]

AtPlace(i, step) == mpc[i][1] = step /\ ~ Sem!Blocked(i)

GotoPlace(i, step) == mpc' = [mpc EXCEPT ![i] = <<step, "">>]
GotoSame(i, step) == mpc' = [mpc EXCEPT ![i] = <<step, @[2]>>]
GotoAfter(i) == mpc' = [mpc EXCEPT ![i] = AfterTestAt(@[2])]

(* The monitor goes to a signaller that waits for it, or else is free.      *)
leave_monitor == IF next_count > 0 THEN Sem!up(next) ELSE Sem!up(mutex)

-----------------------------------------------------------------------------
(* phi_test_condvar and cond_signal; a signal without a waiter is lost.     *)

MayEat(i) ==
    /\ state_condvar[i] = "HUNGRY"
    /\ state_condvar[LEFT(i)] # "EATING"
    /\ state_condvar[RIGHT(i)] # "EATING"

(* phi_test_condvar: the condition.                                         *)
test_condvar(i) ==
    /\ AtPlace(i, "test")
    /\ IF MayEat(Tested(i)) THEN GotoSame(i, "mark") ELSE GotoAfter(i)
    /\ UNCHANGED <<state_condvar, miter, next_count, count, mvalue, mqueue>>

(* Its assignment, and cond_signal up to next_count++.                      *)
mark(i) ==
    /\ AtPlace(i, "mark")
    /\ state_condvar' = [state_condvar EXCEPT ![Tested(i)] = "EATING"]
    /\ IF count[Tested(i)] > 0
       THEN next_count' = next_count + 1 /\ GotoSame(i, "signal_up")
       ELSE UNCHANGED next_count /\ GotoAfter(i)
    /\ UNCHANGED <<miter, count, mvalue, mqueue>>

signal_up(i) ==
    /\ AtPlace(i, "signal_up")
    /\ Sem!up(Tested(i))
    /\ GotoSame(i, "signal_down")
    /\ UNCHANGED <<state_condvar, miter, next_count, count>>

(* Mutant: the signaller stays in the monitor.                              *)
signal_downStay(i) ==
    /\ AtPlace(i, "signal_down")
    /\ GotoSame(i, "signal_back")
    /\ UNCHANGED <<state_condvar, miter, next_count, count, mvalue, mqueue>>

signal_down(i) ==
    /\ AtPlace(i, "signal_down")
    /\ Sem!down(next, i)
    /\ GotoSame(i, "signal_back")
    /\ UNCHANGED <<state_condvar, miter, next_count, count>>

signal_back(i) ==
    /\ AtPlace(i, "signal_back")
    /\ next_count' = next_count - 1
    /\ GotoAfter(i)
    /\ UNCHANGED <<state_condvar, miter, count, mvalue, mqueue>>

-----------------------------------------------------------------------------
(* Mutant: the meals are not counted.                                       *)
think_condvarUncounted(i) ==
    /\ AtPlace(i, "think")
    /\ Sem!down(mutex, i)
    /\ GotoPlace(i, "take_set")
    /\ UNCHANGED <<state_condvar, miter, next_count, count>>

(* The loop of philosopher_using_condvar, do_sleep over; down(&mutex).      *)
think_condvar(i) ==
    /\ AtPlace(i, "think")
    /\ IF miter[i] < TIMES
       THEN /\ miter' = [miter EXCEPT ![i] = @ + 1]
            /\ Sem!down(mutex, i)
            /\ GotoPlace(i, "take_set")
       ELSE GotoPlace(i, "quit") /\ UNCHANGED <<miter, mvalue, mqueue>>
    /\ UNCHANGED <<state_condvar, next_count, count>>

take_set_condvar(i) ==
    /\ AtPlace(i, "take_set")
    /\ state_condvar' = [state_condvar EXCEPT ![i] = "HUNGRY"]
    /\ mpc' = [mpc EXCEPT ![i] = <<"test", "self">>]
    /\ UNCHANGED <<miter, next_count, count, mvalue, mqueue>>

(* phi_take_forks_condvar after its test; cond_wait up to count++.          *)
take_check(i) ==
    /\ AtPlace(i, "take_check")
    /\ IF state_condvar[i] = "HUNGRY"
       THEN count' = [count EXCEPT ![i] = @ + 1] /\ GotoPlace(i, "wait_up")
       ELSE UNCHANGED count /\ GotoPlace(i, "take_leave")
    /\ UNCHANGED <<state_condvar, miter, next_count, mvalue, mqueue>>

wait_up(i) ==
    /\ AtPlace(i, "wait_up")
    /\ leave_monitor
    /\ GotoPlace(i, "wait_down")
    /\ UNCHANGED <<state_condvar, miter, next_count, count>>

wait_down(i) ==
    /\ AtPlace(i, "wait_down")
    /\ Sem!down(i, i)
    /\ GotoPlace(i, "wait_back")
    /\ UNCHANGED <<state_condvar, miter, next_count, count>>

wait_back(i) ==
    /\ AtPlace(i, "wait_back")
    /\ count' = [count EXCEPT ![i] = @ - 1]
    /\ GotoPlace(i, "take_leave")
    /\ UNCHANGED <<state_condvar, miter, next_count, mvalue, mqueue>>

take_leave(i) ==
    /\ AtPlace(i, "take_leave")
    /\ leave_monitor
    /\ GotoPlace(i, "eat")
    /\ UNCHANGED <<state_condvar, miter, next_count, count>>

(* do_sleep is over; down(&mutex) of phi_put_forks_condvar.                 *)
eat_condvar(i) ==
    /\ AtPlace(i, "eat")
    /\ Sem!down(mutex, i)
    /\ GotoPlace(i, "put_set")
    /\ UNCHANGED <<state_condvar, miter, next_count, count>>

put_set_condvar(i) ==
    /\ AtPlace(i, "put_set")
    /\ state_condvar' = [state_condvar EXCEPT ![i] = "THINKING"]
    /\ mpc' = [mpc EXCEPT ![i] = <<"test", "left">>]
    /\ UNCHANGED <<miter, next_count, count, mvalue, mqueue>>

put_leave(i) ==
    /\ AtPlace(i, "put_leave")
    /\ leave_monitor
    /\ GotoPlace(i, "think")
    /\ UNCHANGED <<state_condvar, miter, next_count, count>>

MonitorThread(i) ==
    \/ think_condvar(i) \/ take_set_condvar(i) \/ take_check(i) \/ take_leave(i)
    \/ eat_condvar(i) \/ put_set_condvar(i) \/ put_leave(i)
    \/ test_condvar(i) \/ mark(i) \/ signal_up(i) \/ signal_down(i) \/ signal_back(i)
    \/ wait_up(i) \/ wait_down(i) \/ wait_back(i)

AllLeft == \A i \in Phi : mpc[i][1] = "quit"

MonitorNext == (\E i \in Phi : MonitorThread(i)) \/ (AllLeft /\ UNCHANGED monitorvars)

MonitorSpec == MonitorInit /\ [][MonitorNext]_monitorvars

(* Round robin runs every runnable thread again and again.                  *)
MonitorFairSpec == MonitorSpec /\ \A i \in Phi : WF_monitorvars(MonitorThread(i))

-----------------------------------------------------------------------------
(* The steps at which a thread uses what the monitor protects.              *)
Inside == {"take_set", "test", "mark", "signal_up", "signal_back", "take_check",
           "wait_up", "wait_back", "take_leave", "put_set", "put_leave"}

InMonitor(i) == mpc[i][1] \in Inside /\ ~ Sem!Blocked(i)

(* One thread at most is active in the monitor, although a signaller and    *)
(* the thread it wakes both hold mutex in turn.                             *)
MonitorExclusive == \A i, j \in Phi : InMonitor(i) /\ InMonitor(j) => i = j

(* The promise of a signal: when a thread comes back from cond_wait, what   *)
(* it waited for holds still, so phi_take_forks_condvar need not test       *)
(* again.                                                                   *)
SignalledMayEat ==
    \A i \in Phi : AtPlace(i, "wait_back") \/ AtPlace(i, "take_leave") => state_condvar[i] = "EATING"

(* Neighbours never eat at the same time.                                   *)
CondvarForksExclusive == \A i \in Phi : AtPlace(i, "eat") => ~ AtPlace(RIGHT(i), "eat")

(* The monitor is never lost: when nobody is inside or on the way back in,  *)
(* mutex is open and no signaller is forgotten in next.                     *)
MonitorReleased ==
    (\A i \in Phi : /\ ~ InMonitor(i)
                    /\ mpc[i][1] \notin {"signal_down", "wait_down"}
                    /\ mpc[i][1] = "signal_back" => Sem!Blocked(i))
        => mvalue[mutex] = 1 /\ next_count = 0

(* Where a thread waits for a semaphore.                                    *)
Door(s) ==
    CASE s = mutex -> {"take_set", "put_set"}
      [] s = next -> {"signal_back"}
      [] s \in Phi -> {"wait_back"}

(* Who is in a queue is at its door, once, and cv[i] is for philosopher i.  *)
AtDoors ==
    \A s \in 0 .. N + 1 :
       /\ IsInjective(mqueue[s])
       /\ \A i \in Range(mqueue[s]) : mpc[i][1] \in Door(s) /\ (s \in Phi => i = s)

(* The right to be in the monitor is in one place: a thread has it, or one  *)
(* of the semaphores has it for a thread that is not in the queue yet.      *)
OneToken ==
    /\ MonitorExclusive
    /\ \A s \in 0 .. N + 1 :
         /\ mvalue[s] \in {0, 1}
         /\ mvalue[s] = 1 => /\ mqueue[s] = << >>
                            /\ \A i \in Phi : ~ InMonitor(i)
                            /\ \A r \in 0 .. N + 1 : mvalue[r] = 1 => r = s
    /\ (\E i \in Phi : InMonitor(i)) \/ (\E s \in 0 .. N + 1 : mvalue[s] = 1)

(* For whom a semaphore has it.                                             *)
TokenAwaited ==
    /\ mvalue[mutex] = 1 => next_count = 0
    /\ mvalue[next] = 1 => \E i \in Phi : mpc[i][1] = "signal_down"
    /\ \A i \in Phi : mvalue[i] = 1 => mpc[i][1] = "wait_down" /\ state_condvar[i] = "EATING"

(* next_count counts at most one: whom a signal wakes leaves the monitor    *)
(* and does nothing else in it.                                             *)
Signalling == {"signal_up", "signal_down", "signal_back"}

OneSignaller ==
    \/ next_count = 0 /\ \A i \in Phi : mpc[i][1] \notin Signalling
    \/ /\ next_count = 1
       /\ \E j \in Phi :
             /\ mpc[j][1] \in Signalling
             /\ \A i \in Phi : i # j =>
                  /\ mpc[i][1] \notin Signalling
                  /\ InMonitor(i) => mpc[i][1] \in {"wait_back", "take_leave"}

WaitersCounted ==
    \A i \in Phi :
       count[i] = IF mpc[i][1] \in {"wait_up", "wait_down", "wait_back"} THEN 1 ELSE 0

(* What phi_test_condvar has found and what it has promised.                *)
PromisesKept ==
    \A i \in Phi :
       /\ mpc[i][1] = "mark" => MayEat(Tested(i))
       /\ mpc[i][1] = "signal_up" => state_condvar[Tested(i)] = "EATING" /\ count[Tested(i)] = 1
       /\ AtPlace(i, "wait_back") \/ mpc[i][1] \in {"take_leave", "eat"} => state_condvar[i] = "EATING"
       /\ mpc[i][1] = "take_check" \/ mpc[i][2] = "self" => state_condvar[i] # "THINKING"

CondvarStatesExclusive ==
    \A i \in Phi : state_condvar[i] = "EATING" => state_condvar[RIGHT(i)] # "EATING"

(* These are inductive together.                                            *)
MonitorState == MonitorTypeOK /\ AtDoors /\ OneToken /\ TokenAwaited /\ OneSignaller
                   /\ WaitersCounted /\ PromisesKept /\ CondvarStatesExclusive

(* The monitor has one owner at most and is never without a way in, what a  *)
(* signal promised holds when its waiter is back, and neighbours never eat  *)
(* together.                                                                *)
MonitorInv == MonitorState /\ MonitorExclusive /\ MonitorReleased
                 /\ SignalledMayEat /\ CondvarForksExclusive

(* Everybody eats his TIMES meals and returns.                              *)
AllLeaveMonitor == <>AllLeft
=============================================================================
