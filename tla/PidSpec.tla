------------------------------ MODULE PidSpec ------------------------------
(***************************************************************************)
(* What the process table promises about process identifiers: do_fork      *)
(* gives a new process an identifier no live process holds, do_wait gives   *)
(* the identifier of a reaped process back.                                 *)
(***************************************************************************)
EXTENDS Naturals

CONSTANT MAX_PID

VARIABLES
    pids,          \* the identifiers of the processes on proc_list
    nr_process     \* how many processes there are, idleproc included

vars == <<pids, nr_process>>

Init == pids = {} /\ nr_process = 1

(* A new process, and with it a new identifier.                            *)
Alloc ==
    /\ \E n \in (1 .. MAX_PID - 1) \ pids : pids' = pids \cup {n}
    /\ nr_process' = nr_process + 1

(* One process fewer, and with it one identifier fewer in use.             *)
Free ==
    /\ \E n \in pids : pids' = pids \ {n}
    /\ nr_process' = nr_process - 1

Next == Alloc \/ Free

Spec == Init /\ [][Next]_vars
=============================================================================
