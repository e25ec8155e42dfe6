---------------------------- MODULE Philosophers ----------------------------
(***************************************************************************)
(* What the two halves of kern/sync/check_sync.c share: the table, and how  *)
(* many times everybody eats.                                               *)
(***************************************************************************)
EXTENDS Integers, Sequences, Functions

CONSTANTS N, TIMES

ASSUME PhiAssumption == N \in Nat /\ N >= 2 /\ TIMES \in Nat

Phi == 0 .. N - 1
mutex == N            \* the semaphore after those of the philosophers

LEFT(i) == (i - 1 + N) % N
RIGHT(i) == (i + 1) % N
=============================================================================
