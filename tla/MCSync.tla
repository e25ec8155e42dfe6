------------------------------- MODULE MCSync -------------------------------
(***************************************************************************)
(* The two halves of check_sync: philosophers with semaphores (PhiSema) and *)
(* with the monitor (PhiCondvar).  They share no variable, so a behaviour   *)
(* is about one of them, `part', and the other rests.                       *)
(***************************************************************************)
EXTENDS PhiSema, PhiCondvar

CONSTANT Parts

ASSUME PartsAssumption == Parts \subseteq {"semaphores", "monitor"}

VARIABLE part

allvars == <<part, vars, monitorvars>>

SyncInit == part \in Parts /\ Init /\ MonitorInit

Sema(A) == part = "semaphores" /\ A /\ UNCHANGED <<part, monitorvars>>
Monitor(A) == part = "monitor" /\ A /\ UNCHANGED <<part, vars>>

(* The threads take their steps, or all have come to their end.             *)
SyncNext ==
    \/ Sema(\E i \in Phi : Step(i))
    \/ Monitor(\E i \in Phi : MonitorThread(i))
    \/ AllQuit /\ UNCHANGED allvars
    \/ AllLeft /\ UNCHANGED allvars

(* Round robin runs every runnable thread again and again.                  *)
SyncSpec ==
    /\ SyncInit /\ [][SyncNext]_allvars
    /\ \A i \in Phi : WF_allvars(Sema(Step(i))) /\ WF_allvars(Monitor(MonitorThread(i)))
-----------------------------------------------------------------------------
(* In both halves every philosopher eats as often as he wants and leaves:   *)
(* nobody waits for ever in down or cond_wait.                              *)
SemaphoresEnd == part = "semaphores" => AllGetThrough
MonitorEnds == part = "monitor" => AllLeaveMonitor
=============================================================================
