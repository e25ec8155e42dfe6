------------------------------- MODULE MCParts -------------------------------
(***************************************************************************)
(* Three parts of the kernel that run with interrupts off and meet each     *)
(* other only through their callers: process identifiers (PidAlloc), timers *)
(* (TimerList) and the input of stdin (StdinInput).  They share no          *)
(* variable, so a behaviour is about one of them, `part', and the others    *)
(* rest: an interleaving of two parts shows each of them what it does       *)
(* alone.                                                                   *)
(***************************************************************************)
EXTENDS PidAlloc, TimerList, StdinInput

CONSTANT Parts

VARIABLE part

allvars == <<part, vars, timervars, stdinvars>>

ASSUME PartsAssumption == Parts \subseteq {"pid", "timers", "stdin"}

PartsInit == part \in Parts /\ Init /\ TimersInit /\ StdinInit

Pid(A) == part = "pid" /\ A /\ UNCHANGED <<part, timervars, stdinvars>>
Timer(A) == part = "timers" /\ A /\ UNCHANGED <<part, vars, stdinvars>>
Stdin(A) == part = "stdin" /\ A /\ UNCHANGED <<part, vars, timervars>>

PartsNext == Pid(Next) \/ Timer(TimersNext) \/ Stdin(StdinNext)

(* The fairness of the parts: get_pid runs to its end, the clock ticks and  *)
(* a woken reader gets the processor.                                       *)
PartsSpec ==
    /\ PartsInit /\ [][PartsNext]_allvars
    /\ WF_allvars(Pid(Scan \/ ScanEnd \/ set_links))
    /\ WF_allvars(Stdin(Tick))
    /\ \A r \in Readers : WF_allvars(Stdin(Resume(r)))
=============================================================================
