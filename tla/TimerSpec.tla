----------------------------- MODULE TimerSpec -----------------------------
(***************************************************************************)
(* What the timers of kern/schedule/sched.c promise: each counts its own    *)
(* ticks down, undisturbed by the others being added, deleted or running    *)
(* out.  left[t] is the number of ticks timer t has left, 0 when it is not  *)
(* armed.                                                                   *)
(***************************************************************************)
EXTENDS Integers

CONSTANTS Timers, MaxTicks

VARIABLE left

Init == left = [t \in Timers |-> 0]

Arm(t, k) == left[t] = 0 /\ left' = [left EXCEPT ![t] = k]

Cancel(t) == left' = [left EXCEPT ![t] = 0]

Tick == left' = [t \in Timers |-> IF left[t] > 0 THEN left[t] - 1 ELSE 0]

Next ==
    \/ \E t \in Timers : (\E k \in 1 .. MaxTicks : Arm(t, k)) \/ Cancel(t)
    \/ Tick

Spec == Init /\ [][Next]_left
=============================================================================
