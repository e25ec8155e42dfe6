----------------------------- MODULE TimerList -----------------------------
(***************************************************************************)
(* The timer list of kern/schedule/sched.c: add_timer, del_timer and        *)
(* run_timer_list.  The list is ordered by expiry, and the expires field of *)
(* a listed timer counts from the expiry of the timer before it, so a tick  *)
(* touches only the first.                                                  *)
(*                                                                         *)
(* All three operations run with interrupts off: each is one action.  The   *)
(* definitions a specification usually has carry the name of the timers, so *)
(* that MCParts can extend this module and PidAlloc together.               *)
(***************************************************************************)
EXTENDS Integers, Sequences, FiniteSets, SequencesExt

CONSTANTS
    Timers,           \* one for each process that may sleep
    MaxTicks          \* bound: longest time asked for

ASSUME TimerAssumption == IsFiniteSet(Timers) /\ MaxTicks \in Nat \ {0}

VARIABLES
    timer_list,       \* the listed timers in order
    expires,
    woken,            \* whom the last tick woke
    failed            \* the assert of run_timer_list has failed

timervars == <<timer_list, expires, woken, failed>>

Listed(t) == t \in ToSet(timer_list)

TimersTypeOK ==
    /\ timer_list \in Seq(Timers) /\ IsInjective(timer_list)
    /\ expires \in [Timers -> 0 .. MaxTicks]
    /\ woken \subseteq Timers
    /\ failed \in BOOLEAN

(* sched_init                                                               *)
TimersInit ==
    /\ timer_list = << >>
    /\ expires = [t \in Timers |-> 0]
    /\ woken = {}
    /\ failed = FALSE

(* For a list q of timers with differences e: the ticks until the first k   *)
(* have run out, for every k.                                               *)
Sums(q, e) ==
    LET sum[k \in 0 .. Len(q)] == IF k = 0 THEN 0 ELSE sum[k - 1] + e[q[k]]
    IN  sum

Elapsed(k) == Sums(timer_list, expires)[k]

(* Where in the list q the timer t is.                                      *)
Place(q, t) == CHOOSE i \in 1 .. Len(q) : q[i] = t

(* Mutant: the timer after the new one keeps its distance to the one        *)
(* before.                                                                  *)
add_timerKeepsNext(t, k) ==
    LET pass == {i \in 0 .. Len(timer_list) :
                   i = Len(timer_list) \/ k - Elapsed(i) < expires[timer_list[i + 1]]}
        i == CHOOSE j \in pass : \A l \in pass : j <= l
    IN  /\ ~ Listed(t)
        /\ ~ failed
        /\ timer_list' = InsertAt(timer_list, i + 1, t)
        /\ expires' = [expires EXCEPT ![t] = k - Elapsed(i)]
        /\ woken' = {}
        /\ UNCHANGED failed

(* The loop passes the timers that run out no later than the new one and    *)
(* takes their distances off it; the timer it stops at counts from the new  *)
(* one afterwards.                                                          *)
add_timer(t, k) ==
    LET stop == {i \in 0 .. Len(timer_list) :
                   i = Len(timer_list) \/ k - Elapsed(i) < expires[timer_list[i + 1]]}
        i == CHOOSE j \in stop : \A l \in stop : j <= l
        rest == k - Elapsed(i)
    IN  /\ ~ Listed(t)
        /\ ~ failed
        /\ timer_list' = InsertAt(timer_list, i + 1, t)
        /\ expires' = [p \in Timers |->
              CASE p = t -> rest
                [] i < Len(timer_list) /\ p = timer_list[i + 1] -> expires[p] - rest
                [] OTHER -> expires[p]]
        /\ woken' = {}
        /\ UNCHANGED failed

(* Mutant: the next timer is not given the distance.                        *)
del_timerShort(t) ==
    /\ Listed(t)
    /\ ~ failed
    /\ timer_list' = RemoveAt(timer_list, Place(timer_list, t))
    /\ expires' = [expires EXCEPT ![t] = 0]
    /\ woken' = {}
    /\ UNCHANGED failed

(* del_timer of a timer that is listed still: the next one takes over its   *)
(* distance.  On a timer that has run out it does nothing.  The timer is    *)
(* gone afterwards.                                                         *)
del_timer(t) ==
    LET i == Place(timer_list, t)
    IN  /\ Listed(t)
        /\ ~ failed
        /\ timer_list' = RemoveAt(timer_list, i)
        /\ expires' = [p \in Timers |->
              CASE p = t -> 0
                [] i < Len(timer_list) /\ p = timer_list[i + 1] -> expires[p] + expires[t]
                [] OTHER -> expires[p]]
        /\ woken' = {}
        /\ UNCHANGED failed

(* Mutant: one timer at most runs out in a tick.                            *)
run_timer_listOne ==
    /\ ~ failed
    /\ IF timer_list = << >>
       THEN UNCHANGED <<timer_list, expires, failed>> /\ woken' = {}
       ELSE LET t == Head(timer_list)
            IN  /\ failed' = (expires[t] = 0)
                /\ expires' = [expires EXCEPT ![t] = IF @ = 0 THEN 0 ELSE @ - 1]
                /\ timer_list' = IF expires[t] = 1 THEN Tail(timer_list) ELSE timer_list
                /\ woken' = IF expires[t] = 1 THEN {t} ELSE {}

(* A tick: the first timer counts down; it and those that run out with it   *)
(* leave the list and wake their processes.                                 *)
run_timer_list ==
    /\ ~ failed
    /\ \/ /\ timer_list = << >>
          /\ woken' = {}
          /\ UNCHANGED <<timer_list, expires, failed>>
       \/ /\ timer_list # << >>
          /\ failed' = (expires[Head(timer_list)] = 0)
          /\ expires' = [expires EXCEPT ![Head(timer_list)] = IF @ = 0 THEN 0 ELSE @ - 1]
          /\ LET stay == {i \in 1 .. Len(timer_list) : expires'[timer_list[i]] > 0}
                 out == IF stay = {} THEN Len(timer_list)
                        ELSE (CHOOSE i \in stay : \A j \in stay : i <= j) - 1
             IN  /\ timer_list' = SubSeq(timer_list, out + 1, Len(timer_list))
                 /\ woken' = ToSet(SubSeq(timer_list, 1, out))

TimersNext ==
    \/ \E t \in Timers : (\E k \in 1 .. MaxTicks : add_timer(t, k)) \/ del_timer(t)
    \/ run_timer_list

TimersSpec == TimersInit /\ [][TimersNext]_timervars

-----------------------------------------------------------------------------
(* The ticks timer t has left.                                              *)
TicksLeft(q, e, t) == IF t \in ToSet(q) THEN Sums(q, e)[Place(q, t)] ELSE 0
Left(t) == TicksLeft(timer_list, expires, t)

Countdown == INSTANCE TimerSpec WITH left <- [t \in Timers |-> Left(t)]

(* The list implements independent timers: adding and deleting one never    *)
(* moves the expiry of another, and a tick counts all of them down by one.  *)
ImplementsTimers == Countdown!Spec

(* The assert of run_timer_list holds: whatever is added and deleted, the   *)
(* first timer of the list never has expires = 0, which the decrement would *)
(* turn into 2^32 - 1 ticks.                                                *)
HeadNotDue ==
    /\ ~ failed
    /\ timer_list # << >> => expires[Head(timer_list)] > 0

(* The differences add up to no more than what has been asked for.          *)
LastInTime == Elapsed(Len(timer_list)) <= MaxTicks

(* These are inductive together: only the sum keeps the differences in      *)
(* their range when del_timer adds them up.                                 *)
TimerInv == TimersTypeOK /\ HeadNotDue /\ LastInTime

(* A tick wakes exactly the processes whose timers have run out.            *)
WakesOnTime ==
    [][\A t \in Timers : t \in woken' <=> Left(t) > 0 /\ Left(t)' = 0 /\ run_timer_list]_timervars
=============================================================================
