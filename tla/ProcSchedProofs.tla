-------------------------- MODULE ProcSchedProofs --------------------------
(***************************************************************************)
(* Proofs about ProcSched for any number of processes, any time slice and   *)
(* any sleeping time.  First ProcInv: the run queue, the wait states, the   *)
(* timers and the places of the processes always agree.  Then FamilyInv,    *)
(* which rests on it: the process tree, the scan of do_wait over it, and    *)
(* the end of the kernel.  What the two properties ask of the tree is not   *)
(* inductive without the links of siblings, the scan and the loop of        *)
(* init_main: a wakeup is lost where the scan has passed a child by.        *)
(***************************************************************************)
EXTENDS ProcSched, DataLemmas, FiniteSetTheorems, TLAPS

(* There are finitely many process structures.                              *)
LEMMA ProcFinite == IsFiniteSet(Proc)
<1>1. Proc = (Slots \cup {idleproc}) \cup {initproc}
  BY DEF Proc
<1>2. IsFiniteSet(Slots \cup {idleproc})
  BY ProcAssumption, FS_AddElement
<1> QED
  BY <1>1, <1>2, FS_AddElement

(* Queueing the processes of Q, none of which is queued, one after another  *)
(* keeps the queue free of repetitions and adds exactly Q.                  *)
LEMMA QueueAll ==
  ASSUME NEW q \in Seq(Proc), IsInjective(q),
         NEW Q \in SUBSET Proc, Range(q) \cap Q = {},
         NEW s \in Orders(Q)
  PROVE  /\ q \o s \in Seq(Proc)
         /\ IsInjective(q \o s)
         /\ Range(q \o s) = Range(q) \cup Q
<1>1. IsFiniteSet(Q)
  BY ProcFinite, FS_Subset
<1>2. Cardinality(Q) \in Nat
  BY <1>1, FS_CardinalityType
<1>3. s \in [1 .. Cardinality(Q) -> Q] /\ IsInjective(s) /\ Range(s) = Q
  BY DEF Orders
<1>4. s \in Seq(Proc) /\ Len(s) = Cardinality(Q)
  BY <1>2, <1>3
<1>5. q \o s \in Seq(Proc) /\ Len(q \o s) = Len(q) + Len(s)
  BY <1>4
<1>6. \A i \in 1 .. Len(q) : (q \o s)[i] = q[i] /\ q[i] \in Range(q)
  BY <1>4, <1>5 DEF Range
<1>7. \A i \in 1 .. Len(s) : s[i] \in Q
  BY <1>3, <1>4
<1>8. \A i \in 1 .. Len(q \o s) :
         i \in 1 .. Len(q) \/ (i - Len(q) \in 1 .. Len(s) /\ (q \o s)[i] = s[i - Len(q)])
  BY <1>4, <1>5
<1>9. IsInjective(q \o s)
  <2> SUFFICES ASSUME NEW i \in 1 .. Len(q \o s), NEW j \in 1 .. Len(q \o s),
                      (q \o s)[i] = (q \o s)[j]
               PROVE  i = j
    BY <1>5 DEF IsInjective
  <2>1. CASE i \in 1 .. Len(q) /\ j \in 1 .. Len(q)
    BY <1>6, <2>1 DEF IsInjective
  <2>2. CASE i \notin 1 .. Len(q) /\ j \notin 1 .. Len(q)
    <3>1. s[i - Len(q)] = s[j - Len(q)]
      BY <1>8, <2>2
    <3>2. i - Len(q) = j - Len(q)
      BY <1>3, <1>4, <1>8, <2>2, <3>1 DEF IsInjective
    <3> QED
      BY <3>2
  <2>3. CASE i \in 1 .. Len(q) /\ j \notin 1 .. Len(q)
    BY <1>6, <1>7, <1>8, <2>3
  <2>4. CASE i \notin 1 .. Len(q) /\ j \in 1 .. Len(q)
    BY <1>6, <1>7, <1>8, <2>4
  <2> QED
    BY <2>1, <2>2, <2>3, <2>4
<1>10. Range(q \o s) \subseteq Range(q) \cup Q
  BY <1>5, <1>6, <1>7, <1>8 DEF Range
<1>11. Range(q) \subseteq Range(q \o s)
  BY <1>4, <1>5, <1>6 DEF Range
<1>12. Q \subseteq Range(q \o s)
  <2> SUFFICES ASSUME NEW x \in Q PROVE x \in Range(q \o s)
    OBVIOUS
  <2>1. PICK k \in 1 .. Len(s) : s[k] = x
    BY <1>3, <1>4 DEF Range
  <2>2. Len(q) + k \in 1 .. Len(q \o s) /\ (q \o s)[Len(q) + k] = x
    BY <1>4, <1>5, <2>1
  <2> QED
    BY <1>5, <2>2 DEF Range
<1> QED
  BY <1>5, <1>9, <1>10, <1>11, <1>12

-----------------------------------------------------------------------------
(* What wakeup_proc does to the run queue, when it is called with states st *)
(* for which the queue is right and with processes that are not zombies.    *)
QueueRight(q, st, cur) ==
    /\ q \in Seq(Proc)
    /\ IsInjective(q)
    /\ Range(q) = {p \in Proc : st[p] = "RUNNABLE" /\ p # cur /\ p # idleproc}

(* wakeup_proc keeps the queue right, whoever is woken.                     *)
LEMMA WakeupQueue ==
  ASSUME NEW W \in SUBSET Proc, NEW st \in [Proc -> States],
         NEW slice \in [Proc -> 0 .. MAX_TIME_SLICE],
         st[idleproc] = "RUNNABLE",
         wait_state \in [Proc -> WaitStates],
         QueueRight(run_list, st, current),
         halt \in {"no", "end", "panic", "assert", "trap"},
         wakeup_proc(W, st, slice)
  PROVE  /\ state' = [p \in Proc |-> IF p \in W THEN "RUNNABLE" ELSE st[p]]
         /\ wait_state' = [p \in Proc |-> IF p \in W /\ st[p] # "RUNNABLE" THEN "0"
                                                                      ELSE wait_state[p]]
         /\ state' \in [Proc -> States]
         /\ wait_state' \in [Proc -> WaitStates]
         /\ time_slice' \in [Proc -> 0 .. MAX_TIME_SLICE]
         /\ QueueRight(run_list', state', current)
         /\ halt' \in {"no", "end", "panic", "assert", "trap"}
<1> DEFINE S == Woken(W, st)
           Q == S \ {current, idleproc}
<1>1. /\ state' = [p \in Proc |-> IF p \in S THEN "RUNNABLE" ELSE st[p]]
      /\ wait_state' = [p \in Proc |-> IF p \in S THEN "0" ELSE wait_state[p]]
      /\ time_slice' = [p \in Proc |-> IF p \in Q THEN Refill(slice[p]) ELSE slice[p]]
      /\ halt' = IF \E p \in W : st[p] = "ZOMBIE" THEN "assert" ELSE halt
  BY DEF wakeup_proc
<1>2. PICK s \in Orders(Q) : run_list' = run_list \o s
  BY DEF wakeup_proc
<1>3. state' = [p \in Proc |-> IF p \in W THEN "RUNNABLE" ELSE st[p]]
  BY <1>1 DEF Woken
<1>4. wait_state' = [p \in Proc |-> IF p \in W /\ st[p] # "RUNNABLE" THEN "0"
                                                               ELSE wait_state[p]]
  BY <1>1 DEF Woken
<1>5. state' \in [Proc -> States] /\ wait_state' \in [Proc -> WaitStates]
  BY <1>3, <1>4 DEF States, WaitStates
<1>6. time_slice' \in [Proc -> 0 .. MAX_TIME_SLICE]
  BY <1>1, ProcAssumption DEF Refill
<1>7. Q \in SUBSET Proc /\ Range(run_list) \cap Q = {}
  BY DEF QueueRight, Woken
<1>8. /\ run_list' \in Seq(Proc) /\ IsInjective(run_list')
      /\ Range(run_list') = Range(run_list) \cup Q
  BY <1>2, <1>7, QueueAll DEF QueueRight
<1>9. Range(run_list') = {p \in Proc : state'[p] = "RUNNABLE" /\ p # current /\ p # idleproc}
  BY <1>3, <1>8 DEF QueueRight, Woken
<1> QED
  BY <1>1, <1>3, <1>4, <1>5, <1>6, <1>8, <1>9 DEF QueueRight

-----------------------------------------------------------------------------
(* proc_init establishes the invariant.                                     *)
LEMMA ProcInvInit == Init => ProcInv
<1> SUFFICES ASSUME Init PROVE ProcInv
  OBVIOUS
<1> USE ProcAssumption DEF Init, Proc
<1>1. TypeOK
  BY DEF TypeOK, States, WaitStates, Places
<1>2. RunQueueExact
  <2>1. IsInjective(run_list)
    BY DEF IsInjective
  <2>2. Range(run_list) = {initproc}
    BY DEF Range
  <2> QED
    BY <2>1, <2>2 DEF RunQueueExact
<1>3. PlacesAgree
  BY DEF PlacesAgree, AtRest, Live
<1>4. TimerOwnerInDoSleep
  BY DEF TimerOwnerInDoSleep
<1> QED
  BY <1>1, <1>2, <1>3, <1>4 DEF ProcInv

(* schedule().                                                              *)
LEMMA ScheduleStep == ProcInv /\ schedule => ProcInv'
<1> SUFFICES ASSUME ProcInv, schedule PROVE ProcInv'
  OBVIOUS
<1> DEFINE requeue == state[current] = "RUNNABLE" /\ current # idleproc
           queue == IF requeue THEN Append(run_list, current) ELSE run_list
<1>0. TypeOK /\ RunQueueExact /\ PlacesAgree /\ TimerOwnerInDoSleep
  BY DEF ProcInv
<1>1. /\ pc[current] \in DOMAIN Resume
      /\ pc' = [pc EXCEPT ![current] = Resume[pc[current]]]
      /\ need_resched' = [need_resched EXCEPT ![current] = FALSE]
      /\ time_slice' = [time_slice EXCEPT ![current] = IF requeue THEN Refill(@) ELSE @]
      /\ IF queue = << >>
         THEN current' = idleproc /\ run_list' = queue
         ELSE current' = Head(queue) /\ run_list' = Tail(queue)
      /\ UNCHANGED <<treevars, state, wait_state, exiting, timer, want, kid, nr_process, halt>>
  BY DEF schedule
<1>2. /\ queue \in Seq(Proc) /\ IsInjective(queue)
      /\ Range(queue) = {p \in Proc : state[p] = "RUNNABLE" /\ p # idleproc}
  <2>1. current \in Proc /\ current \notin Range(run_list) /\ run_list \in Seq(Proc)
    BY <1>0 DEF TypeOK, RunQueueExact
  <2>2. CASE requeue
    BY <1>0, <2>1, <2>2, QueueOne DEF RunQueueExact
  <2>3. CASE ~ requeue
    BY <1>0, <2>1, <2>3 DEF RunQueueExact
  <2> QED
    BY <2>2, <2>3
<1>3. /\ current' \in Proc /\ state[current'] = "RUNNABLE"
      /\ run_list' \in Seq(Proc) /\ IsInjective(run_list')
      /\ Range(run_list') = {p \in Proc : state[p] = "RUNNABLE" /\ p # current' /\ p # idleproc}
  <2>1. CASE queue = << >>
    <3>1. Range(queue) = {}
      BY <2>1 DEF Range
    <3> QED
      BY <1>0, <1>1, <1>2, <2>1, <3>1 DEF PlacesAgree, Proc
  <2>2. CASE queue # << >>
    BY <1>1, <1>2, <2>2, TakeHead
  <2> QED
    BY <2>1, <2>2
<1>4. /\ pc[current] \in {"resched", "wait_sched", "sleep_sched", "read_sched", "init_resched",
                        "exit_sched", "idle"}
      /\ Resume[pc[current]] = CASE pc[current] = "resched" -> "user"
                                 [] pc[current] = "wait_sched" -> "wait_woken"
                                 [] pc[current] = "sleep_sched" -> "sleep_woken"
                                 [] pc[current] = "read_sched" -> "read_woken"
                                 [] pc[current] = "init_resched" -> "wait"
                                 [] pc[current] = "exit_sched" -> "dead"
                                 [] pc[current] = "idle" -> "idle"
  BY <1>1 DEF Resume
<1>5. pc \in [Proc -> Places] /\ pc' \in [Proc -> Places]
  BY <1>0, <1>1, <1>4 DEF TypeOK, Places
<1>6. TypeOK'
  <2>1. /\ time_slice' \in [Proc -> 0 .. MAX_TIME_SLICE]
        /\ need_resched' \in [Proc -> BOOLEAN]
    BY <1>0, <1>1, ProcAssumption DEF TypeOK, Refill
  <2> QED
    BY <1>0, <1>1, <1>3, <1>5, <2>1 DEF TypeOK, treevars
<1>7. RunQueueExact'
  BY <1>1, <1>3 DEF RunQueueExact
<1>8. PlacesAgree'
  <2>1. \A p \in Proc : p # current => pc'[p] = pc[p]
    BY <1>1, <1>5
  <2>2. pc'[current] = Resume[pc[current]] /\ current \in Proc
    BY <1>0, <1>1, <1>5 DEF TypeOK
  <2>3. pc'[idleproc] = "idle"
    BY <1>0, <1>4, <2>1, <2>2 DEF PlacesAgree, Proc
  <2> QED
    BY <1>0, <1>1, <1>3, <1>4, <2>1, <2>2, <2>3 DEF PlacesAgree, AtRest, Live
<1>9. TimerOwnerInDoSleep'
  BY <1>0, <1>1, <1>4, <1>5 DEF TimerOwnerInDoSleep, TypeOK
<1> QED
  BY <1>6, <1>7, <1>8, <1>9 DEF ProcInv

(* A current process that is neither about to give up the processor nor     *)
(* exiting is runnable, sleeps nowhere and, outside do_sleep, has no timer. *)
Busy == {"init_main", "init_done", "user_main", "user", "trapret", "wait", "wait_scan",
         "wait_woken", "sleep_woken", "read_woken", "read_again"}

(* The process inside a call is runnable, and has a timer at most when it   *)
(* just woke in do_sleep.                                                   *)
LEMMA BusyCurrent ==
  ASSUME ProcInv, pc[current] \in Busy
  PROVE  /\ current \in Proc \ {idleproc}
         /\ state[current] = "RUNNABLE"
         /\ wait_state[current] = "0"
         /\ pc[current] # "sleep_woken" => timer[current] = 0
         /\ timer[current] > 0 => exiting[current]
<1>1. TypeOK /\ PlacesAgree /\ TimerOwnerInDoSleep
  BY DEF ProcInv
<1>2. current \in Proc /\ timer[current] \in 0 .. MaxSleep
  BY <1>1 DEF TypeOK
<1>3. state[current] = "RUNNABLE" /\ current # idleproc
  BY <1>1 DEF PlacesAgree, Busy
<1>4. wait_state[current] = "0"
  BY <1>1, <1>2, <1>3 DEF PlacesAgree
<1>5. pc[current] # "sleep_woken" => timer[current] = 0
  BY <1>1, <1>2, ProcAssumption DEF TimerOwnerInDoSleep, Busy
<1>6. timer[current] > 0 => exiting[current]
  BY <1>1, <1>2, <1>4 DEF TimerOwnerInDoSleep
<1> QED
  BY <1>2, <1>3, <1>4, <1>5, <1>6

(* Steps that only move the current process along.                          *)
LEMMA JumpStep ==
  ASSUME ProcInv, NEW place \in Places, Jump(current, place),
         \/ pc[current] = "exit_reparent" /\ place = "exit_sched"
         \/ /\ pc[current] \in Busy \ {"sleep_woken"}
            /\ place \in {"user", "trapret", "resched", "wait"}
  PROVE  ProcInv'
<1>0. TypeOK /\ RunQueueExact /\ PlacesAgree /\ TimerOwnerInDoSleep
  BY DEF ProcInv
<1>1. /\ pc' = [pc EXCEPT ![current] = place]
      /\ UNCHANGED <<treevars, state, wait_state, exiting, time_slice, need_resched, timer,
                     want, kid, current, run_list, nr_process, halt>>
  BY DEF Jump, Goto
<1>2. current \in Proc /\ current # idleproc /\ pc \in [Proc -> Places]
  BY <1>0, BusyCurrent DEF TypeOK, PlacesAgree, Busy
<1>3. TypeOK'
  BY <1>0, <1>1, <1>2 DEF TypeOK, treevars
<1>4. RunQueueExact'
  BY <1>0, <1>1 DEF RunQueueExact
<1>5. /\ \A p \in Proc : p # current => pc'[p] = pc[p]
      /\ pc'[current] = place
  BY <1>1, <1>2
<1>6. CASE pc[current] = "exit_reparent" /\ place = "exit_sched"
  <2>1. PlacesAgree'
    BY <1>0, <1>1, <1>2, <1>5, <1>6 DEF PlacesAgree, Live
  <2>2. TimerOwnerInDoSleep'
    BY <1>0, <1>1, <1>2, <1>5, <1>6 DEF TimerOwnerInDoSleep
  <2> QED
    BY <1>3, <1>4, <2>1, <2>2 DEF ProcInv
<1>7. CASE /\ pc[current] \in Busy \ {"sleep_woken"}
           /\ place \in {"user", "trapret", "resched", "wait"}
  <2>1. state[current] = "RUNNABLE" /\ wait_state[current] = "0" /\ timer[current] = 0
    BY <1>7, BusyCurrent
  <2>2. PlacesAgree'
    BY <1>0, <1>1, <1>2, <1>5, <1>7, <2>1 DEF PlacesAgree, Live
  <2>3. TimerOwnerInDoSleep'
    BY <1>0, <1>1, <1>2, <1>5, <2>1 DEF TimerOwnerInDoSleep
  <2> QED
    BY <1>3, <1>4, <2>2, <2>3 DEF ProcInv
<1> QED
  BY <1>6, <1>7

(* do_exit by the current process.                                          *)
LEMMA ExitStep ==
  ASSUME ProcInv, pc[current] \in Busy \ {"sleep_woken"}, do_exit(current)
  PROVE  ProcInv'
<1>0. TypeOK /\ RunQueueExact /\ PlacesAgree /\ TimerOwnerInDoSleep
  BY DEF ProcInv
<1>1. /\ current \in Proc \ {idleproc} /\ state[current] = "RUNNABLE"
      /\ wait_state[current] = "0" /\ timer[current] = 0
  BY BusyCurrent
<1>2. CASE current \in {idleproc, initproc}
  <2>1. halt' = "panic" /\ UNCHANGED <<treevars, procvars, kid, current, run_list, nr_process>>
    BY <1>2 DEF do_exit
  <2>2. TypeOK'
    BY <1>0, <2>1 DEF TypeOK, treevars, procvars
  <2>3. RunQueueExact' /\ PlacesAgree' /\ TimerOwnerInDoSleep'
    BY <1>0, <2>1 DEF RunQueueExact, PlacesAgree, TimerOwnerInDoSleep, Live, procvars
  <2> QED
    BY <2>2, <2>3 DEF ProcInv
<1>3. CASE current \notin {idleproc, initproc}
  <2> DEFINE W == {q \in Proc : q = parent[current] /\ wait_state[q] = "WT_CHILD"}
             st == [state EXCEPT ![current] = "ZOMBIE"]
  <2>1. /\ wakeup_proc(W, st, time_slice)
        /\ pc' = [pc EXCEPT ![current] = "exit_reparent"]
        /\ UNCHANGED <<treevars, exiting, need_resched, timer, want, kid, current, nr_process>>
    BY <1>3 DEF do_exit, Goto
  <2>2. /\ W \in SUBSET Proc /\ st \in [Proc -> States] /\ st[idleproc] = "RUNNABLE"
        /\ \A q \in W : state[q] = "SLEEPING" /\ q # current /\ q # idleproc
        /\ \A q \in Proc : st[q] = IF q = current THEN "ZOMBIE" ELSE state[q]
    BY <1>0, <1>1, <1>3 DEF TypeOK, PlacesAgree, States, Proc
  <2>3. QueueRight(run_list, st, current)
    BY <1>0, <2>2 DEF QueueRight, RunQueueExact, TypeOK
  <2>4. /\ state' = [p \in Proc |-> IF p \in W THEN "RUNNABLE" ELSE st[p]]
        /\ wait_state' = [p \in Proc |-> IF p \in W /\ st[p] # "RUNNABLE" THEN "0"
                                                                    ELSE wait_state[p]]
        /\ state' \in [Proc -> States] /\ wait_state' \in [Proc -> WaitStates]
        /\ time_slice' \in [Proc -> 0 .. MAX_TIME_SLICE]
        /\ QueueRight(run_list', state', current)
        /\ halt' \in {"no", "end", "panic", "assert", "trap"}
    BY <1>0, <2>1, <2>2, <2>3, WakeupQueue DEF TypeOK
  <2>5. pc \in [Proc -> Places] /\ pc' \in [Proc -> Places]
    BY <1>0, <2>1 DEF TypeOK, Places
  <2>6. TypeOK'
    BY <1>0, <2>1, <2>4, <2>5 DEF TypeOK, treevars, QueueRight
  <2>7. RunQueueExact'
    BY <2>1, <2>4 DEF RunQueueExact, QueueRight
  <2>8. /\ pc'[current] = "exit_reparent" /\ \A p \in Proc : p # current => pc'[p] = pc[p]
        /\ state'[current] = "ZOMBIE" /\ wait_state'[current] = "0"
        /\ \A p \in Proc \ {current} : p \notin W => state'[p] = state[p] /\ wait_state'[p] = wait_state[p]
        /\ \A p \in W : state'[p] = "RUNNABLE" /\ wait_state'[p] = "0"
    BY <1>1, <2>1, <2>2, <2>4, <2>5
  <2>9. PlacesAgree'
    <3>1. pc'[idleproc] = "idle" /\ state'[idleproc] = "RUNNABLE"
      BY <1>0, <1>3, <2>2, <2>8 DEF PlacesAgree, Proc
    <3>2. state'[initproc] \in {"RUNNABLE", "SLEEPING"}
      BY <1>0, <1>3, <2>2, <2>8 DEF PlacesAgree, Proc
    <3>3. ASSUME NEW p \in Proc
          PROVE  /\ state'[p] = "UNUSED" <=> pc'[p] = "unused"
                 /\ state'[p] = "ZOMBIE" <=> pc'[p] \in {"exit_reparent", "exit_sched", "dead"}
                 /\ state'[p] # "UNUSED" /\ p # current => pc'[p] \in AtRest \cup {"dead"}
                 /\ state'[p] = "SLEEPING" <=> wait_state'[p] # "0"
                 /\ wait_state'[p] = "WT_CHILD" => pc'[p] \in {"wait_sched", "wait_woken"}
                 /\ wait_state'[p] = "WT_TIMER" => pc'[p] \in {"sleep_sched", "sleep_woken"}
                 /\ wait_state'[p] = "WT_KBD" => pc'[p] \in {"read_sched", "read_woken"}
      BY <1>0, <1>1, <2>2, <2>8 DEF PlacesAgree, Live
    <3> QED
      BY <2>1, <2>8, <3>1, <3>2, <3>3 DEF PlacesAgree, Live
  <2>10. TimerOwnerInDoSleep'
    BY <1>0, <1>1, <2>1, <2>2, <2>8 DEF TimerOwnerInDoSleep, PlacesAgree
  <2> QED
    BY <2>6, <2>7, <2>9, <2>10 DEF ProcInv
<1> QED
  BY <1>2, <1>3

(* How a step that wakes W moves the processes: the current one may go to   *)
(* the tail of trap(), and a reader in the queue of stdin to try_again.     *)
WakeMoves(W) ==
    /\ pc' \in [Proc -> Places]
    /\ \A p \in Proc :
          \/ pc'[p] = pc[p]
          \/ p = current /\ pc[p] \in Busy \ {"sleep_woken"} /\ pc'[p] = "trapret"
          \/ p \in W /\ pc[p] \in {"read_sched", "read_woken"} /\ pc'[p] = "read_again"

(* Who still has a timer after such a step had it before, and if he is      *)
(* woken all the same he has been killed.                                   *)
WakeTimers(W) ==
    \A p \in Proc : timer'[p] > 0 =>
        /\ timer[p] > 0
        /\ exiting[p] \/ p \in W => exiting'[p]

(* Steps that wake sleeping or runnable processes and leave the current     *)
(* process where it is, or send it to the tail of trap().                   *)
LEMMA WakeStep ==
  ASSUME ProcInv, NEW W \in SUBSET Proc, NEW slice \in [Proc -> 0 .. MAX_TIME_SLICE],
         \A p \in W : state[p] \in {"SLEEPING", "RUNNABLE"},
         wakeup_proc(W, state, slice),
         current' = current, WakeMoves(W), WakeTimers(W)
  PROVE  /\ state' \in [Proc -> States] /\ wait_state' \in [Proc -> WaitStates]
         /\ time_slice' \in [Proc -> 0 .. MAX_TIME_SLICE]
         /\ run_list' \in Seq(Proc) /\ halt' \in {"no", "end", "panic", "assert", "trap"}
         /\ RunQueueExact' /\ PlacesAgree' /\ TimerOwnerInDoSleep'
<1>0. TypeOK /\ RunQueueExact /\ PlacesAgree /\ TimerOwnerInDoSleep
  BY DEF ProcInv
<1>1. /\ state \in [Proc -> States] /\ wait_state \in [Proc -> WaitStates]
      /\ state[idleproc] = "RUNNABLE" /\ QueueRight(run_list, state, current)
      /\ halt \in {"no", "end", "panic", "assert", "trap"} /\ current \in Proc
      /\ pc \in [Proc -> Places]
  BY <1>0 DEF TypeOK, PlacesAgree, RunQueueExact, QueueRight
<1>2. /\ state' = [p \in Proc |-> IF p \in W THEN "RUNNABLE" ELSE state[p]]
      /\ wait_state' = [p \in Proc |-> IF p \in W /\ state[p] # "RUNNABLE" THEN "0"
                                                                     ELSE wait_state[p]]
      /\ state' \in [Proc -> States] /\ wait_state' \in [Proc -> WaitStates]
      /\ time_slice' \in [Proc -> 0 .. MAX_TIME_SLICE]
      /\ QueueRight(run_list', state', current)
      /\ halt' \in {"no", "end", "panic", "assert", "trap"}
  BY <1>1, WakeupQueue
<1>3. RunQueueExact' /\ run_list' \in Seq(Proc)
  BY <1>2 DEF RunQueueExact, QueueRight
<1>4. \A p \in Proc :
         \/ pc'[p] = pc[p]
         \/ p \in W /\ pc[p] \in {"read_sched", "read_woken"} /\ pc'[p] = "read_again"
         \/ /\ p = current /\ pc'[p] = "trapret" /\ pc[p] \in Busy \ {"sleep_woken"}
            /\ state[p] = "RUNNABLE" /\ wait_state[p] = "0"
            /\ timer[p] = 0 /\ p # idleproc
  BY <1>1, BusyCurrent DEF WakeMoves
<1>5. /\ \A p \in Proc \ W : state'[p] = state[p] /\ wait_state'[p] = wait_state[p]
      /\ \A p \in W : state'[p] = "RUNNABLE" /\ wait_state'[p] = "0"
  BY <1>0, <1>2 DEF PlacesAgree
<1>6. TimerOwnerInDoSleep'
  <2> SUFFICES ASSUME NEW p \in Proc, timer'[p] > 0
               PROVE  /\ pc'[p] \in {"sleep_sched", "sleep_woken"}
                      /\ wait_state'[p] = "WT_TIMER" \/ exiting'[p]
    BY DEF TimerOwnerInDoSleep
  <2>1. timer[p] > 0 /\ (exiting[p] \/ p \in W => exiting'[p])
    BY DEF WakeTimers
  <2>2. pc[p] \in {"sleep_sched", "sleep_woken"} /\ (wait_state[p] = "WT_TIMER" \/ exiting[p])
    BY <1>0, <2>1 DEF TimerOwnerInDoSleep
  <2>3. pc'[p] = pc[p]
    BY <1>4, <2>1, <2>2, ProcAssumption
  <2> QED
    BY <1>5, <2>1, <2>2, <2>3
<1>7. PlacesAgree'
  <2>1. pc'[idleproc] = "idle" /\ state'[idleproc] = "RUNNABLE"
    BY <1>0, <1>4, <1>5 DEF PlacesAgree, Proc
  <2>2. state'[initproc] \in {"RUNNABLE", "SLEEPING"}
    BY <1>0, <1>5 DEF PlacesAgree, Proc
  <2>3. state'[current] = "RUNNABLE"
          \/ pc'[current] \in {"wait_sched", "sleep_sched", "read_sched", "exit_reparent", "exit_sched"}
    BY <1>0, <1>1, <1>4, <1>5 DEF PlacesAgree
  <2>4. ASSUME NEW p \in Proc
        PROVE  /\ state'[p] = "UNUSED" <=> pc'[p] = "unused"
               /\ state'[p] = "ZOMBIE" <=> pc'[p] \in {"exit_reparent", "exit_sched", "dead"}
               /\ state'[p] # "UNUSED" /\ p # current => pc'[p] \in AtRest \cup {"dead"}
               /\ state'[p] = "SLEEPING" <=> wait_state'[p] # "0"
               /\ wait_state'[p] = "WT_CHILD" => pc'[p] \in {"wait_sched", "wait_woken"}
               /\ wait_state'[p] = "WT_TIMER" => pc'[p] \in {"sleep_sched", "sleep_woken"}
               /\ wait_state'[p] = "WT_KBD" => pc'[p] \in {"read_sched", "read_woken"}
    <3>1. CASE p \in W
      BY <1>0, <1>4, <1>5, <3>1 DEF PlacesAgree, Live, Busy, AtRest
    <3>2. CASE p \notin W
      BY <1>0, <1>4, <1>5, <3>2 DEF PlacesAgree, Live, Busy, AtRest
    <3> QED
      BY <3>1, <3>2
  <2> QED
    BY <2>1, <2>2, <2>3, <2>4 DEF PlacesAgree, Live
<1> QED
  BY <1>2, <1>3, <1>6, <1>7

(* The timer interrupt.                                                     *)
LEMMA TickStep == ProcInv /\ Tick => ProcInv'
<1> SUFFICES ASSUME ProcInv, Tick PROVE ProcInv'
  OBVIOUS
<1> DEFINE charged == IF current = idleproc THEN time_slice
                      ELSE [time_slice EXCEPT ![current] = Charge(@)]
<1>0. TypeOK /\ RunQueueExact /\ PlacesAgree /\ TimerOwnerInDoSleep
  BY DEF ProcInv
<1>1. /\ timer' = [p \in Proc |-> IF timer[p] > 0 THEN timer[p] - 1 ELSE 0]
      /\ need_resched' = [need_resched EXCEPT
             ![current] = @ \/ current = idleproc \/ charged[current] = 0]
      /\ UNCHANGED <<treevars, exiting, want, kid, current, nr_process>>
  BY DEF Tick, TimersAfterTick
<1> PICK readers \in {{}, stdin_queue} :
        /\ wakeup_proc({p \in Proc : timer[p] = 1} \cup readers, state, charged)
        /\ pc' = [p \in Proc |->
                     CASE p \in readers -> "read_again"
                       [] p \notin readers /\ p = current /\ pc[p] = "user" -> "trapret"
                       [] OTHER -> pc[p]]
  BY DEF Tick
<1> DEFINE W == {p \in Proc : timer[p] = 1} \cup readers
<1>2. charged \in [Proc -> 0 .. MAX_TIME_SLICE] /\ W \in SUBSET Proc
  BY <1>0, ProcAssumption DEF TypeOK, Charge, stdin_queue
<1>3. \A p \in readers : pc[p] \in {"read_sched", "read_woken"} /\ ~ (timer[p] > 0)
  BY <1>0 DEF stdin_queue, TimerOwnerInDoSleep
<1>4. \A p \in W : state[p] \in {"SLEEPING", "RUNNABLE"}
  <2> SUFFICES ASSUME NEW p \in Proc, timer[p] = 1 \/ p \in readers
               PROVE  state[p] \in {"SLEEPING", "RUNNABLE"}
    BY <1>2
  <2>1. pc[p] \in {"sleep_sched", "sleep_woken", "read_sched", "read_woken"}
    BY <1>0, <1>3 DEF TimerOwnerInDoSleep
  <2>2. state[p] # "UNUSED" /\ state[p] # "ZOMBIE"
    BY <1>0, <2>1 DEF PlacesAgree
  <2> QED
    BY <1>0, <2>2 DEF TypeOK, States
<1>5. /\ timer' \in [Proc -> 0 .. MaxSleep]
      /\ \A p \in Proc : timer'[p] > 0 => timer[p] > 0 /\ timer[p] # 1
  BY <1>0, <1>1, ProcAssumption DEF TypeOK
<1>6. WakeTimers(W)
  BY <1>1, <1>3, <1>5 DEF WakeTimers
<1>7. WakeMoves(W)
  <2>1. pc' \in [Proc -> Places]
    BY <1>0 DEF TypeOK, Places
  <2>2. ASSUME NEW p \in Proc
        PROVE  \/ pc'[p] = pc[p]
               \/ p = current /\ pc[p] \in Busy \ {"sleep_woken"} /\ pc'[p] = "trapret"
               \/ p \in W /\ pc[p] \in {"read_sched", "read_woken"} /\ pc'[p] = "read_again"
    BY <1>3 DEF Busy
  <2> QED
    BY <2>1, <2>2 DEF WakeMoves
<1>8. /\ state' \in [Proc -> States] /\ wait_state' \in [Proc -> WaitStates]
      /\ time_slice' \in [Proc -> 0 .. MAX_TIME_SLICE]
      /\ run_list' \in Seq(Proc) /\ halt' \in {"no", "end", "panic", "assert", "trap"}
      /\ RunQueueExact' /\ PlacesAgree' /\ TimerOwnerInDoSleep'
  BY <1>1, <1>2, <1>4, <1>6, <1>7, WakeStep
<1>9. need_resched' \in [Proc -> BOOLEAN]
  BY <1>0, <1>1 DEF TypeOK
<1>10. TypeOK'
  BY <1>0, <1>1, <1>5, <1>7, <1>8, <1>9 DEF TypeOK, treevars, WakeMoves
<1> QED
  BY <1>8, <1>10 DEF ProcInv

(* do_kill.                                                                 *)
LEMMA KillStep ==
  ASSUME ProcInv, NEW p \in Slots, sys_kill(p)
  PROVE  ProcInv'
<1>0. TypeOK /\ RunQueueExact /\ PlacesAgree /\ TimerOwnerInDoSleep
  BY DEF ProcInv
<1>1. /\ current = p /\ pc[current] = "user"
      /\ pc' = [pc EXCEPT ![current] = "trapret"]
      /\ UNCHANGED <<treevars, need_resched, timer, want, kid, current, nr_process>>
  BY DEF sys_kill, InUser, Goto
<1>2. PICK q \in Proc \ {idleproc} :
          IF Live(q) /\ ~ exiting[q]
          THEN /\ exiting' = [exiting EXCEPT ![q] = TRUE]
               /\ wakeup_proc({r \in {q} : wait_state[r] \in Interruptible}, state, time_slice)
          ELSE UNCHANGED <<exiting, state, wait_state, run_list, time_slice, halt>>
  BY DEF sys_kill
<1>3. exiting' \in [Proc -> BOOLEAN]
  BY <1>0, <1>2 DEF TypeOK
<1>4. CASE Live(q) /\ ~ exiting[q]
  <2> DEFINE W == {r \in {q} : wait_state[r] \in Interruptible}
  <2>1. wakeup_proc(W, state, time_slice)
    BY <1>2, <1>4
  <2>2. W \in SUBSET Proc /\ time_slice \in [Proc -> 0 .. MAX_TIME_SLICE]
    BY <1>0 DEF TypeOK
  <2>3. \A r \in W : state[r] \in {"SLEEPING", "RUNNABLE"}
    BY <1>0 DEF PlacesAgree, Interruptible
  <2>4. WakeTimers(W)
    BY <1>0, <1>1, <1>2, <1>4 DEF WakeTimers, TypeOK
  <2>5. WakeMoves(W)
    BY <1>0, <1>1 DEF WakeMoves, Busy, TypeOK, Places
  <2>6. /\ state' \in [Proc -> States] /\ wait_state' \in [Proc -> WaitStates]
        /\ time_slice' \in [Proc -> 0 .. MAX_TIME_SLICE]
        /\ run_list' \in Seq(Proc) /\ halt' \in {"no", "end", "panic", "assert", "trap"}
        /\ RunQueueExact' /\ PlacesAgree' /\ TimerOwnerInDoSleep'
    BY <1>1, <2>1, <2>2, <2>3, <2>4, <2>5, WakeStep
  <2>7. TypeOK'
    BY <1>0, <1>1, <1>3, <2>5, <2>6 DEF TypeOK, treevars, WakeMoves
  <2> QED
    BY <2>6, <2>7 DEF ProcInv
<1>5. CASE ~(Live(q) /\ ~ exiting[q])
  <2>1. Jump(current, "trapret")
    BY <1>1, <1>2, <1>5 DEF Jump, Goto, treevars
  <2> QED
    BY <1>1, <2>1, JumpStep DEF Busy, Places
<1> QED
  BY <1>4, <1>5

(* Steps by which the current process goes on elsewhere in the kernel and   *)
(* gives up its timer, if it had one.                                       *)
LEMMA MoveStep ==
  ASSUME ProcInv, pc[current] \in Busy,
         NEW place \in {"user", "trapret", "resched", "wait", "wait_scan", "init_resched",
                        "init_done"},
         pc' = [pc EXCEPT ![current] = place],
         UNCHANGED <<state, wait_state, exiting, current, run_list>>,
         pc[current] = "sleep_woken" => timer'[current] = 0,
         \A p \in Proc : timer'[p] = timer[p] \/ timer'[p] = 0
  PROVE  pc' \in [Proc -> Places] /\ RunQueueExact' /\ PlacesAgree' /\ TimerOwnerInDoSleep'
<1>0. TypeOK /\ RunQueueExact /\ PlacesAgree /\ TimerOwnerInDoSleep
  BY DEF ProcInv
<1>1. /\ current \in Proc \ {idleproc} /\ state[current] = "RUNNABLE"
      /\ wait_state[current] = "0"
      /\ pc[current] # "sleep_woken" => timer[current] = 0
  BY BusyCurrent
<1>2. /\ pc' \in [Proc -> Places] /\ pc'[current] = place
      /\ \A p \in Proc : p # current => pc'[p] = pc[p]
  BY <1>0, <1>1 DEF TypeOK, Places
<1>3. RunQueueExact'
  BY <1>0 DEF RunQueueExact
<1>4. PlacesAgree'
  BY <1>0, <1>1, <1>2 DEF PlacesAgree, Live
<1>5. timer'[current] = 0
  BY <1>1
<1>6. TimerOwnerInDoSleep'
  BY <1>0, <1>2, <1>5 DEF TimerOwnerInDoSleep
<1> QED
  BY <1>2, <1>3, <1>4, <1>6

(* Steps by which the current process goes to sleep, and is about to call   *)
(* schedule().                                                              *)
LEMMA BlockStep ==
  ASSUME ProcInv, pc[current] \in Busy \ {"sleep_woken"}, 
         NEW w, NEW place,
         \/ w = "WT_CHILD" /\ place = "wait_sched"
         \/ w = "WT_TIMER" /\ place = "sleep_sched"
         \/ w = "WT_KBD" /\ place = "read_sched",
         state' = [state EXCEPT ![current] = "SLEEPING"],
         wait_state' = [wait_state EXCEPT ![current] = w],
         pc' = [pc EXCEPT ![current] = place],
         UNCHANGED <<exiting, current, run_list>>,
         \A p \in Proc : timer'[p] = timer[p] \/ (p = current /\ place = "sleep_sched")
  PROVE  /\ state' \in [Proc -> States] /\ wait_state' \in [Proc -> WaitStates]
         /\ pc' \in [Proc -> Places] /\ RunQueueExact' /\ PlacesAgree' /\ TimerOwnerInDoSleep'
<1>0. TypeOK /\ RunQueueExact /\ PlacesAgree /\ TimerOwnerInDoSleep
  BY DEF ProcInv
<1>1. /\ current \in Proc \ {idleproc} /\ state[current] = "RUNNABLE"
      /\ wait_state[current] = "0" /\ timer[current] = 0
  BY BusyCurrent
<1>2. /\ state' \in [Proc -> States] /\ wait_state' \in [Proc -> WaitStates]
      /\ pc' \in [Proc -> Places]
  BY <1>0, <1>1 DEF TypeOK, Places, States, WaitStates, Interruptible
<1>3. /\ state'[current] = "SLEEPING" /\ wait_state'[current] = w /\ pc'[current] = place
      /\ \A p \in Proc : p # current =>
            state'[p] = state[p] /\ wait_state'[p] = wait_state[p] /\ pc'[p] = pc[p]
  BY <1>0, <1>1 DEF TypeOK
<1>4. RunQueueExact'
  BY <1>0, <1>3 DEF RunQueueExact
<1>5. /\ w \in {"WT_CHILD", "WT_TIMER", "WT_KBD"}
      /\ place \in {"wait_sched", "sleep_sched", "read_sched"}
      /\ w = "WT_CHILD" <=> place = "wait_sched"
      /\ w = "WT_TIMER" <=> place = "sleep_sched"
  OBVIOUS
<1>6. PlacesAgree'
  <2>1. pc'[idleproc] = "idle" /\ state'[idleproc] = "RUNNABLE"
    BY <1>0, <1>1, <1>3 DEF PlacesAgree, Proc
  <2>2. state'[initproc] \in {"RUNNABLE", "SLEEPING"}
    BY <1>0, <1>3 DEF PlacesAgree, Proc
  <2>3. ASSUME NEW p \in Proc
        PROVE  /\ state'[p] = "UNUSED" <=> pc'[p] = "unused"
               /\ state'[p] = "ZOMBIE" <=> pc'[p] \in {"exit_reparent", "exit_sched", "dead"}
               /\ state'[p] # "UNUSED" /\ p # current => pc'[p] \in AtRest \cup {"dead"}
               /\ state'[p] = "SLEEPING" <=> wait_state'[p] # "0"
               /\ wait_state'[p] = "WT_CHILD" => pc'[p] \in {"wait_sched", "wait_woken"}
               /\ wait_state'[p] = "WT_TIMER" => pc'[p] \in {"sleep_sched", "sleep_woken"}
               /\ wait_state'[p] = "WT_KBD" => pc'[p] \in {"read_sched", "read_woken"}
    <3>1. CASE p = current
      BY <1>3, <1>5, <3>1
    <3>2. CASE p # current
      BY <1>0, <1>3, <3>2 DEF PlacesAgree, Live
    <3> QED
      BY <3>1, <3>2
  <2> QED
    BY <1>3, <1>5, <2>1, <2>2, <2>3 DEF PlacesAgree, Live
<1>7. TimerOwnerInDoSleep'
  BY <1>0, <1>1, <1>3, <1>5 DEF TimerOwnerInDoSleep
<1> QED
  BY <1>2, <1>4, <1>6, <1>7

(* do_fork: the new process is queued and stands where it will start.       *)
LEMMA ForkStep ==
  ASSUME ProcInv, NEW c \in Slots, NEW after, NEW entry,
         <<pc[current], after, entry>> \in {<<"user", "trapret", "user">>,
                                            <<"init_main", "wait", "user_main">>},
         do_fork(current, c, after, entry)
  PROVE  ProcInv'
<1>0. TypeOK /\ RunQueueExact /\ PlacesAgree /\ TimerOwnerInDoSleep
  BY DEF ProcInv
<1>1. /\ state[c] = "UNUSED" /\ set_links(c, current)
      /\ wakeup_proc({c}, state, time_slice)
      /\ pc' = [pc EXCEPT ![current] = after, ![c] = entry]
      /\ UNCHANGED <<exiting, need_resched, timer, want, kid, current>>
  BY DEF do_fork, Live
<1>2. /\ current \in Proc \ {idleproc} /\ state[current] = "RUNNABLE"
      /\ wait_state[current] = "0" /\ timer[current] = 0
  BY BusyCurrent DEF Busy
<1>3. c \in Proc /\ c # current /\ c # idleproc /\ c # initproc
  BY <1>1, <1>2, ProcAssumption DEF Proc
<1>4. /\ parent' \in [Proc -> Proc \cup {NULL}] /\ cptr' \in [Proc -> Proc \cup {NULL}]
      /\ optr' \in [Proc -> Proc \cup {NULL}] /\ yptr' \in [Proc -> Proc \cup {NULL}]
      /\ nr_process' \in Int
  BY <1>0, <1>1, <1>2, <1>3 DEF TypeOK, set_links
<1>5. /\ state' = [p \in Proc |-> IF p \in {c} THEN "RUNNABLE" ELSE state[p]]
      /\ wait_state' = [p \in Proc |-> IF p \in {c} /\ state[p] # "RUNNABLE" THEN "0"
                                                                       ELSE wait_state[p]]
      /\ state' \in [Proc -> States] /\ wait_state' \in [Proc -> WaitStates]
      /\ time_slice' \in [Proc -> 0 .. MAX_TIME_SLICE]
      /\ QueueRight(run_list', state', current)
      /\ halt' \in {"no", "end", "panic", "assert", "trap"}
  <2>1. QueueRight(run_list, state, current) /\ state[idleproc] = "RUNNABLE"
    BY <1>0 DEF QueueRight, RunQueueExact, TypeOK, PlacesAgree
  <2>2. /\ {c} \in SUBSET Proc /\ state \in [Proc -> States]
        /\ time_slice \in [Proc -> 0 .. MAX_TIME_SLICE]
        /\ wait_state \in [Proc -> WaitStates]
        /\ halt \in {"no", "end", "panic", "assert", "trap"}
    BY <1>0, <1>3 DEF TypeOK
  <2> QED
    BY <1>1, <2>1, <2>2, WakeupQueue
<1>6. /\ pc' \in [Proc -> Places] /\ pc'[current] = after /\ pc'[c] = entry
      /\ \A p \in Proc \ {current, c} : pc'[p] = pc[p]
  BY <1>0, <1>1, <1>2, <1>3 DEF TypeOK, Places
<1>7. TypeOK'
  BY <1>0, <1>1, <1>4, <1>5, <1>6 DEF TypeOK, QueueRight
<1>8. RunQueueExact'
  BY <1>1, <1>5 DEF RunQueueExact, QueueRight
<1>9. /\ state'[c] = "RUNNABLE" /\ wait_state'[c] = "0"
      /\ \A p \in Proc \ {c} : state'[p] = state[p] /\ wait_state'[p] = wait_state[p]
  BY <1>1, <1>3, <1>5
<1>10. after \in {"trapret", "wait"} /\ entry \in {"user", "user_main"}
  OBVIOUS
<1>11. PlacesAgree'
  <2>1. pc'[idleproc] = "idle" /\ state'[idleproc] = "RUNNABLE"
    BY <1>0, <1>2, <1>3, <1>6, <1>9 DEF PlacesAgree, Proc
  <2>2. state'[initproc] \in {"RUNNABLE", "SLEEPING"}
    BY <1>0, <1>3, <1>9 DEF PlacesAgree, Proc
  <2>3. state'[current] = "RUNNABLE"
    BY <1>2, <1>3, <1>9
  <2>4. ASSUME NEW p \in Proc
        PROVE  /\ state'[p] = "UNUSED" <=> pc'[p] = "unused"
               /\ state'[p] = "ZOMBIE" <=> pc'[p] \in {"exit_reparent", "exit_sched", "dead"}
               /\ state'[p] # "UNUSED" /\ p # current => pc'[p] \in AtRest \cup {"dead"}
               /\ state'[p] = "SLEEPING" <=> wait_state'[p] # "0"
               /\ wait_state'[p] = "WT_CHILD" => pc'[p] \in {"wait_sched", "wait_woken"}
               /\ wait_state'[p] = "WT_TIMER" => pc'[p] \in {"sleep_sched", "sleep_woken"}
               /\ wait_state'[p] = "WT_KBD" => pc'[p] \in {"read_sched", "read_woken"}
    <3>1. CASE p = c
      BY <1>3, <1>6, <1>9, <1>10, <3>1 DEF AtRest
    <3>2. CASE p = current
      BY <1>2, <1>3, <1>6, <1>9, <1>10, <3>2
    <3>3. CASE p # c /\ p # current
      BY <1>0, <1>6, <1>9, <3>3 DEF PlacesAgree, Live
    <3> QED
      BY <3>1, <3>2, <3>3
  <2> QED
    BY <1>1, <2>1, <2>2, <2>3, <2>4 DEF PlacesAgree, Live
<1>12. TimerOwnerInDoSleep'
  <2>1. pc[c] = "unused"
    BY <1>0, <1>1, <1>3 DEF PlacesAgree
  <2>2. timer' = timer /\ ~(timer[c] > 0) /\ ~(timer[current] > 0)
    BY <1>0, <1>1, <1>2, <1>3, <2>1 DEF TimerOwnerInDoSleep
  <2> QED
    BY <1>0, <1>1, <1>6, <1>9, <2>2 DEF TimerOwnerInDoSleep
<1> QED
  BY <1>7, <1>8, <1>11, <1>12 DEF ProcInv

(* do_exit handing one child over to initproc.                              *)
LEMMA ReparentStep == ProcInv /\ exit_reparent => ProcInv'
<1> SUFFICES ASSUME ProcInv, exit_reparent PROVE ProcInv'
  OBVIOUS
<1> DEFINE c == cptr[current]
           W == {q \in {initproc} : state[c] = "ZOMBIE" /\ wait_state[q] = "WT_CHILD"}
<1>0. TypeOK /\ RunQueueExact /\ PlacesAgree /\ TimerOwnerInDoSleep
  BY DEF ProcInv
<1>1. /\ c # NULL
      /\ optr' = [optr EXCEPT ![c] = cptr[initproc]]
      /\ yptr' = [q \in Proc |-> CASE q = c -> NULL
                                   [] q = cptr[initproc] -> c
                                   [] OTHER -> yptr[q]]
      /\ cptr' = [cptr EXCEPT ![current] = optr[c], ![initproc] = c]
      /\ parent' = [parent EXCEPT ![c] = initproc]
      /\ wakeup_proc(W, state, time_slice)
      /\ UNCHANGED <<exiting, need_resched, timer, want, pc, kid, current, nr_process>>
  BY DEF exit_reparent
<1>2. current \in Proc /\ c \in Proc /\ initproc \in Proc
  BY <1>0, <1>1 DEF TypeOK, Proc
<1>3. /\ parent' \in [Proc -> Proc \cup {NULL}] /\ cptr' \in [Proc -> Proc \cup {NULL}]
      /\ optr' \in [Proc -> Proc \cup {NULL}] /\ yptr' \in [Proc -> Proc \cup {NULL}]
  <2>1. parent' \in [Proc -> Proc \cup {NULL}]
    BY <1>0, <1>1, <1>2 DEF TypeOK
  <2>2. cptr' \in [Proc -> Proc \cup {NULL}]
    BY <1>0, <1>1, <1>2 DEF TypeOK
  <2>3. optr' \in [Proc -> Proc \cup {NULL}]
    BY <1>0, <1>1, <1>2 DEF TypeOK
  <2>4. yptr' \in [Proc -> Proc \cup {NULL}]
    BY <1>0, <1>1, <1>2 DEF TypeOK
  <2> QED
    BY <2>1, <2>2, <2>3, <2>4
<1>4. /\ W \in SUBSET Proc /\ time_slice \in [Proc -> 0 .. MAX_TIME_SLICE]
      /\ \A p \in W : state[p] \in {"SLEEPING", "RUNNABLE"}
      /\ WakeTimers(W) /\ WakeMoves(W) /\ pc' = pc /\ current' = current
  <2>1. \A p \in W : ~ (timer[p] > 0)
    BY <1>0, <1>2 DEF PlacesAgree, TimerOwnerInDoSleep
  <2> QED
    BY <1>0, <1>1, <1>2, <2>1 DEF TypeOK, PlacesAgree, WakeTimers, WakeMoves
<1>5. /\ state' \in [Proc -> States] /\ wait_state' \in [Proc -> WaitStates]
      /\ time_slice' \in [Proc -> 0 .. MAX_TIME_SLICE]
      /\ run_list' \in Seq(Proc) /\ halt' \in {"no", "end", "panic", "assert", "trap"}
      /\ RunQueueExact' /\ PlacesAgree' /\ TimerOwnerInDoSleep'
  BY <1>1, <1>4, WakeStep
<1>6. TypeOK'
  BY <1>0, <1>1, <1>3, <1>4, <1>5 DEF TypeOK
<1> QED
  BY <1>5, <1>6 DEF ProcInv

(* do_wait freeing the structure of a zombie.                               *)
LEMMA ReapStep ==
  ASSUME ProcInv, NEW c \in Proc, state[c] = "ZOMBIE",
         pc[current] \in {"wait", "wait_scan"}, reap(current, c),
         kid' \in Proc \cup {NULL}, UNCHANGED <<current, run_list>>
  PROVE  ProcInv'
<1>0. TypeOK /\ RunQueueExact /\ PlacesAgree /\ TimerOwnerInDoSleep
  BY DEF ProcInv
<1>1. /\ current \in Proc \ {idleproc} /\ state[current] = "RUNNABLE"
      /\ wait_state[current] = "0" /\ timer[current] = 0
  BY BusyCurrent DEF Busy
<1>2. c # current /\ c \notin {idleproc, initproc} /\ wait_state[c] = "0"
  BY <1>0, <1>1 DEF PlacesAgree
<1>3. /\ remove_links(c)
      /\ state' = [state EXCEPT ![c] = "UNUSED"]
      /\ exiting' = [exiting EXCEPT ![c] = FALSE]
      /\ time_slice' = [time_slice EXCEPT ![c] = 0]
      /\ need_resched' = [need_resched EXCEPT ![c] = FALSE]
      /\ want' = [want EXCEPT ![c] = NULL, ![current] = NULL]
      /\ pc' = [pc EXCEPT ![c] = "unused", ![current] = AfterWait(current, TRUE)]
      /\ UNCHANGED <<wait_state, timer, halt>>
  BY <1>2 DEF reap
<1>4. /\ parent' \in [Proc -> Proc \cup {NULL}] /\ cptr' \in [Proc -> Proc \cup {NULL}]
      /\ optr' \in [Proc -> Proc \cup {NULL}] /\ yptr' \in [Proc -> Proc \cup {NULL}]
      /\ nr_process' \in Int
  <2>1. parent' \in [Proc -> Proc \cup {NULL}] /\ nr_process' \in Int
    BY <1>0, <1>3 DEF TypeOK, remove_links
  <2>2. cptr' \in [Proc -> Proc \cup {NULL}]
    BY <1>0, <1>3 DEF TypeOK, remove_links
  <2>3. optr' \in [Proc -> Proc \cup {NULL}]
    BY <1>0, <1>3 DEF TypeOK, remove_links
  <2>4. yptr' \in [Proc -> Proc \cup {NULL}]
    BY <1>0, <1>3 DEF TypeOK, remove_links
  <2> QED
    BY <2>1, <2>2, <2>3, <2>4
<1>5. AfterWait(current, TRUE) \in {"trapret", "init_resched"}
  BY DEF AfterWait
<1>6. /\ pc' \in [Proc -> Places] /\ pc'[c] = "unused"
      /\ pc'[current] \in {"trapret", "init_resched"}
      /\ \A p \in Proc \ {current, c} : pc'[p] = pc[p]
  BY <1>0, <1>1, <1>2, <1>3, <1>5 DEF TypeOK, Places
<1>7. /\ state' \in [Proc -> States] /\ state'[c] = "UNUSED"
      /\ \A p \in Proc \ {c} : state'[p] = state[p]
  BY <1>0, <1>3 DEF TypeOK, States
<1>8. TypeOK'
  <2>1. /\ exiting' \in [Proc -> BOOLEAN] /\ need_resched' \in [Proc -> BOOLEAN]
        /\ want' \in [Proc -> Proc \cup {NULL}]
    BY <1>0, <1>3 DEF TypeOK
  <2>2. time_slice' \in [Proc -> 0 .. MAX_TIME_SLICE]
    BY <1>0, <1>3, ProcAssumption DEF TypeOK
  <2> QED
    BY <1>0, <1>3, <1>4, <1>6, <1>7, <2>1, <2>2 DEF TypeOK
<1>9. RunQueueExact'
  BY <1>0, <1>7 DEF RunQueueExact
<1>10. PlacesAgree'
  <2>1. pc'[idleproc] = "idle" /\ state'[idleproc] = "RUNNABLE"
    BY <1>0, <1>1, <1>2, <1>6, <1>7 DEF PlacesAgree, Proc
  <2>2. state'[initproc] \in {"RUNNABLE", "SLEEPING"} /\ state'[current] = "RUNNABLE"
    BY <1>0, <1>1, <1>2, <1>7 DEF PlacesAgree, Proc
  <2>3. ASSUME NEW p \in Proc
        PROVE  /\ state'[p] = "UNUSED" <=> pc'[p] = "unused"
               /\ state'[p] = "ZOMBIE" <=> pc'[p] \in {"exit_reparent", "exit_sched", "dead"}
               /\ state'[p] # "UNUSED" /\ p # current => pc'[p] \in AtRest \cup {"dead"}
               /\ state'[p] = "SLEEPING" <=> wait_state[p] # "0"
               /\ wait_state[p] = "WT_CHILD" => pc'[p] \in {"wait_sched", "wait_woken"}
               /\ wait_state[p] = "WT_TIMER" => pc'[p] \in {"sleep_sched", "sleep_woken"}
               /\ wait_state[p] = "WT_KBD" => pc'[p] \in {"read_sched", "read_woken"}
    <3>1. CASE p = c
      BY <1>2, <1>6, <1>7, <3>1
    <3>2. CASE p = current
      BY <1>1, <1>2, <1>6, <1>7, <3>2
    <3>3. CASE p # c /\ p # current
      BY <1>0, <1>6, <1>7, <3>3 DEF PlacesAgree, Live
    <3> QED
      BY <3>1, <3>2, <3>3
  <2> QED
    BY <1>3, <2>1, <2>2, <2>3 DEF PlacesAgree, Live
<1>11. TimerOwnerInDoSleep'
  <2>1. pc[c] \in {"exit_reparent", "exit_sched", "dead"}
    BY <1>0 DEF PlacesAgree
  <2>2. timer' = timer /\ ~(timer[c] > 0) /\ ~(timer[current] > 0)
    BY <1>0, <1>1, <1>3, <2>1 DEF TimerOwnerInDoSleep
  <2> QED
    BY <1>0, <1>3, <1>6, <2>2 DEF TimerOwnerInDoSleep, TypeOK
<1> QED
  BY <1>8, <1>9, <1>10, <1>11 DEF ProcInv

(* do_wait going to sleep, or returning -E_BAD_PROC.                        *)
LEMMA WaitBlockStep ==
  ASSUME ProcInv, pc[current] \in {"wait", "wait_scan"}, wait_block(current),
         UNCHANGED <<kid, current, run_list>>
  PROVE  ProcInv'
<1>0. TypeOK
  BY DEF ProcInv
<1>1. /\ state' = [state EXCEPT ![current] = "SLEEPING"]
      /\ wait_state' = [wait_state EXCEPT ![current] = "WT_CHILD"]
      /\ pc' = [pc EXCEPT ![current] = "wait_sched"]
      /\ UNCHANGED <<treevars, exiting, time_slice, need_resched, timer, want, nr_process, halt>>
  BY DEF wait_block, Goto
<1>2. /\ state' \in [Proc -> States] /\ wait_state' \in [Proc -> WaitStates]
      /\ pc' \in [Proc -> Places] /\ RunQueueExact' /\ PlacesAgree' /\ TimerOwnerInDoSleep'
  <2>1. /\ pc[current] \in Busy \ {"sleep_woken"}
        /\ \A p \in Proc : timer'[p] = timer[p]
    BY <1>1 DEF Busy
  <2> QED
    BY <1>1, <2>1, BlockStep
<1>3. TypeOK'
  BY <1>0, <1>1, <1>2 DEF TypeOK, treevars
<1> QED
  BY <1>2, <1>3 DEF ProcInv

(* do_wait returning -E_BAD_PROC.                                           *)
LEMMA WaitNokidStep ==
  ASSUME ProcInv, pc[current] \in {"wait", "wait_scan"}, wait_nokid(current),
         UNCHANGED <<kid, current, run_list>>
  PROVE  ProcInv'
<1>0. TypeOK
  BY DEF ProcInv
<1>1. /\ want' = [want EXCEPT ![current] = NULL]
      /\ pc' = [pc EXCEPT ![current] = AfterWait(current, FALSE)]
      /\ UNCHANGED <<treevars, state, wait_state, exiting, time_slice, need_resched, timer,
                     nr_process, halt>>
  BY DEF wait_nokid, Goto
<1>2. AfterWait(current, FALSE) \in {"trapret", "init_done"}
  BY DEF AfterWait
<1>3. pc' \in [Proc -> Places] /\ RunQueueExact' /\ PlacesAgree' /\ TimerOwnerInDoSleep'
  BY <1>1, <1>2, MoveStep DEF Busy
<1>4. TypeOK'
  BY <1>0, <1>1, <1>3 DEF TypeOK, treevars
<1> QED
  BY <1>3, <1>4 DEF ProcInv

(* The remaining steps of do_wait.                                          *)
LEMMA WaitStep == ProcInv /\ (do_wait \/ wait_scan) => ProcInv'
<1> SUFFICES ASSUME ProcInv, do_wait \/ wait_scan PROVE ProcInv'
  OBVIOUS
<1>0. TypeOK /\ RunQueueExact /\ PlacesAgree /\ TimerOwnerInDoSleep
  BY DEF ProcInv
<1>1. current \in Proc /\ want[current] \in Proc \cup {NULL}
  BY <1>0 DEF TypeOK
<1>2. CASE do_wait
  <2>1. pc[current] = "wait" /\ UNCHANGED <<current, run_list>>
    BY <1>2 DEF do_wait
  <2>2. CASE want[current] = NULL
    <3>1. /\ kid' = cptr[current] /\ pc' = [pc EXCEPT ![current] = "wait_scan"]
          /\ UNCHANGED <<treevars, state, wait_state, exiting, time_slice, need_resched, timer,
                         want, nr_process, halt>>
      BY <1>2, <2>2 DEF do_wait, Goto
    <3>2. pc' \in [Proc -> Places] /\ RunQueueExact' /\ PlacesAgree' /\ TimerOwnerInDoSleep'
      BY <2>1, <3>1, MoveStep DEF Busy
    <3>3. TypeOK'
      BY <1>0, <1>1, <2>1, <3>1, <3>2 DEF TypeOK, treevars
    <3> QED
      BY <3>2, <3>3 DEF ProcInv
  <2>3. CASE want[current] # NULL
    <3>1. /\ kid' = kid
          /\ \/ state[want[current]] = "ZOMBIE" /\ reap(current, want[current])
             \/ wait_block(current)
             \/ wait_nokid(current)
      BY <1>2, <2>3 DEF do_wait
    <3>2. want[current] \in Proc /\ kid' \in Proc \cup {NULL}
      BY <1>0, <1>1, <2>3, <3>1 DEF TypeOK
    <3> QED
      BY <2>1, <3>1, <3>2, ReapStep, WaitBlockStep, WaitNokidStep
  <2> QED
    BY <2>2, <2>3
<1>3. CASE wait_scan
  <2>1. pc[current] = "wait_scan" /\ UNCHANGED <<current, run_list>>
    BY <1>3 DEF wait_scan
  <2>2. kid \in Proc \cup {NULL}
    BY <1>0 DEF TypeOK
  <2>3. CASE kid # NULL /\ state[kid] = "ZOMBIE"
    <3>1. reap(current, kid) /\ kid' = NULL
      BY <1>3, <2>3 DEF wait_scan
    <3> QED
      BY <2>1, <2>2, <2>3, <3>1, ReapStep
  <2>4. CASE kid # NULL /\ state[kid] # "ZOMBIE"
    <3>1. kid' = optr[kid] /\ UNCHANGED <<treevars, procvars, nr_process, halt>>
      BY <1>3, <2>4 DEF wait_scan
    <3>2. TypeOK'
      BY <1>0, <2>1, <2>2, <2>4, <3>1 DEF TypeOK, treevars, procvars
    <3>3. RunQueueExact' /\ PlacesAgree' /\ TimerOwnerInDoSleep'
      BY <1>0, <2>1, <3>1 DEF RunQueueExact, PlacesAgree, TimerOwnerInDoSleep, Live, procvars
    <3> QED
      BY <3>2, <3>3 DEF ProcInv
  <2>5. CASE kid = NULL
    <3>1. kid' = kid /\ (wait_block(current) \/ wait_nokid(current))
      BY <1>3, <2>5 DEF wait_scan
    <3> QED
      BY <2>1, <3>1, WaitBlockStep, WaitNokidStep
  <2> QED
    BY <2>3, <2>4, <2>5
<1> QED
  BY <1>2, <1>3

(* dev_stdin_read going to sleep for a key.                                 *)
LEMMA ReadBlockStep ==
  ASSUME ProcInv, pc[current] \in Busy \ {"sleep_woken"}, read_block(current)
  PROVE  ProcInv'
<1>0. TypeOK
  BY DEF ProcInv
<1>1. /\ state' = [state EXCEPT ![current] = "SLEEPING"]
      /\ wait_state' = [wait_state EXCEPT ![current] = "WT_KBD"]
      /\ pc' = [pc EXCEPT ![current] = "read_sched"]
      /\ UNCHANGED <<treevars, exiting, time_slice, need_resched, timer, want, kid, current,
                     run_list, nr_process, halt>>
  BY DEF read_block, Goto
<1>2. /\ state' \in [Proc -> States] /\ wait_state' \in [Proc -> WaitStates]
      /\ pc' \in [Proc -> Places] /\ RunQueueExact' /\ PlacesAgree' /\ TimerOwnerInDoSleep'
  <2>1. \A p \in Proc : timer'[p] = timer[p]
    BY <1>1
  <2> QED
    BY <1>1, <2>1, BlockStep
<1>3. TypeOK'
  BY <1>0, <1>1, <1>2 DEF TypeOK, treevars
<1> QED
  BY <1>2, <1>3 DEF ProcInv

(* A stopped kernel, and steps that only stop it.                           *)
LEMMA StopStep ==
  ASSUME ProcInv, halt' \in {"no", "end", "panic", "assert", "trap"},
         UNCHANGED <<treevars, procvars, kid, current, run_list, nr_process>>
  PROVE  ProcInv'
<1>0. TypeOK /\ RunQueueExact /\ PlacesAgree /\ TimerOwnerInDoSleep
  BY DEF ProcInv
<1>1. TypeOK'
  BY <1>0 DEF TypeOK, treevars, procvars
<1>2. RunQueueExact' /\ PlacesAgree' /\ TimerOwnerInDoSleep'
  BY <1>0 DEF RunQueueExact, PlacesAgree, TimerOwnerInDoSleep, Live, procvars
<1> QED
  BY <1>1, <1>2 DEF ProcInv

(* The system calls of a user process.                                      *)
LEMMA UserStepInv ==
  ASSUME ProcInv, NEW p \in Slots, UserStep(p)
  PROVE  ProcInv'
<1>0. TypeOK /\ RunQueueExact /\ PlacesAgree /\ TimerOwnerInDoSleep
  BY DEF ProcInv
<1>1. current = p /\ pc[current] = "user" /\ current \in Proc
      /\ pc[current] \in Busy \ {"sleep_woken"}
  BY <1>0 DEF UserStep, sys_fork, sys_noop, sys_exit, sys_wait, sys_kill, do_yield, do_sleep,
              sys_read, sys_panic, InUser, Busy, TypeOK
<1>2. CASE sys_fork(p)
  <2>1. PICK c \in Slots : do_fork(current, c, "trapret", "user")
    BY <1>1, <1>2 DEF sys_fork
  <2> QED
    BY <1>1, <2>1, ForkStep
<1>3. CASE sys_noop(p)
  <2>1. Jump(current, "trapret")
    BY <1>1, <1>3 DEF sys_noop
  <2> QED
    BY <1>1, <2>1, JumpStep DEF Places
<1>4. CASE sys_exit(p)
  <2>1. do_exit(current)
    BY <1>1, <1>4 DEF sys_exit
  <2> QED
    BY <1>1, <2>1, ExitStep
<1>5. CASE sys_wait(p)
  <2>1. /\ pc' = [pc EXCEPT ![current] = "wait"]
        /\ UNCHANGED <<treevars, state, wait_state, exiting, time_slice, need_resched, timer,
                       kid, current, run_list, nr_process, halt>>
    BY <1>1, <1>5 DEF sys_wait, Goto
  <2>2. want' \in [Proc -> Proc \cup {NULL}]
    BY <1>0, <1>5 DEF sys_wait, TypeOK
  <2>3. pc' \in [Proc -> Places] /\ RunQueueExact' /\ PlacesAgree' /\ TimerOwnerInDoSleep'
    BY <1>1, <2>1, MoveStep
  <2>4. TypeOK'
    BY <1>0, <2>1, <2>2, <2>3 DEF TypeOK, treevars
  <2> QED
    BY <2>3, <2>4 DEF ProcInv
<1>6. CASE sys_kill(p)
  BY <1>6, KillStep
<1>7. CASE do_yield(p)
  <2>1. /\ need_resched' = [need_resched EXCEPT ![current] = TRUE]
        /\ pc' = [pc EXCEPT ![current] = "trapret"]
        /\ UNCHANGED <<treevars, state, wait_state, exiting, time_slice, timer, want, kid,
                       current, run_list, nr_process, halt>>
    BY <1>1, <1>7 DEF do_yield, Goto
  <2>2. pc' \in [Proc -> Places] /\ RunQueueExact' /\ PlacesAgree' /\ TimerOwnerInDoSleep'
    BY <1>1, <2>1, MoveStep
  <2>3. TypeOK'
    BY <1>0, <2>1, <2>2 DEF TypeOK, treevars
  <2> QED
    BY <2>2, <2>3 DEF ProcInv
<1>8. CASE do_sleep(p)
  <2>1. PICK t \in 0 .. MaxSleep :
            IF t = 0
            THEN Goto(p, "trapret") /\ UNCHANGED <<state, wait_state, timer>>
            ELSE /\ state' = [state EXCEPT ![p] = "SLEEPING"]
                 /\ wait_state' = [wait_state EXCEPT ![p] = "WT_TIMER"]
                 /\ timer' = [timer EXCEPT ![p] = t]
                 /\ Goto(p, "sleep_sched")
    BY <1>8 DEF do_sleep
  <2>2. UNCHANGED <<treevars, exiting, time_slice, need_resched, want, kid, current,
                    run_list, nr_process, halt>>
    BY <1>8 DEF do_sleep
  <2>3. timer' \in [Proc -> 0 .. MaxSleep]
    BY <1>0, <2>1 DEF TypeOK
  <2>4. /\ state' \in [Proc -> States] /\ wait_state' \in [Proc -> WaitStates]
        /\ pc' \in [Proc -> Places] /\ RunQueueExact' /\ PlacesAgree' /\ TimerOwnerInDoSleep'
    <3>1. CASE t = 0
      <4>1. pc' = [pc EXCEPT ![current] = "trapret"] /\ UNCHANGED <<state, wait_state, timer>>
        BY <1>1, <2>1, <3>1 DEF Goto
      <4>2. pc' \in [Proc -> Places] /\ RunQueueExact' /\ PlacesAgree' /\ TimerOwnerInDoSleep'
        BY <1>1, <2>2, <4>1, MoveStep
      <4> QED
        BY <1>0, <4>1, <4>2 DEF TypeOK
    <3>2. CASE t # 0
      <4>1. /\ state' = [state EXCEPT ![current] = "SLEEPING"]
            /\ wait_state' = [wait_state EXCEPT ![current] = "WT_TIMER"]
            /\ pc' = [pc EXCEPT ![current] = "sleep_sched"]
            /\ timer' = [timer EXCEPT ![current] = t]
        BY <1>1, <2>1, <3>2 DEF Goto
      <4>2. \A q \in Proc : timer'[q] = timer[q] \/ q = current
        BY <1>0, <4>1 DEF TypeOK
      <4> QED
        BY <1>1, <2>2, <4>1, <4>2, BlockStep
    <3> QED
      BY <3>1, <3>2
  <2>5. TypeOK'
    BY <1>0, <2>2, <2>3, <2>4 DEF TypeOK, treevars
  <2> QED
    BY <2>4, <2>5 DEF ProcInv
<1>9. CASE sys_read(p)
  BY <1>1, <1>9, ReadBlockStep DEF sys_read
<1>10. CASE sys_panic(p)
  BY <1>10, StopStep DEF sys_panic
<1> QED
  BY <1>2, <1>3, <1>4, <1>5, <1>6, <1>7, <1>8, <1>9, <1>10 DEF UserStep

(* The steps of the kernel.                                                 *)
LEMMA KernelStepInv == ProcInv /\ KernelStep => ProcInv'
<1> SUFFICES ASSUME ProcInv, KernelStep PROVE ProcInv'
  OBVIOUS
<1>0. TypeOK
  BY DEF ProcInv
<1>1. CASE schedule
  BY <1>1, ScheduleStep
<1>2. CASE exit_reparent
  BY <1>2, ReparentStep
<1>3. CASE exit_leave
  <2>1. pc[current] = "exit_reparent" /\ Jump(current, "exit_sched")
    BY <1>3 DEF exit_leave
  <2> QED
    BY <2>1, JumpStep DEF Places
<1>4. CASE sleep_woken
  <2>1. /\ pc[current] = "sleep_woken"
        /\ timer' = [timer EXCEPT ![current] = 0]
        /\ pc' = [pc EXCEPT ![current] = "trapret"]
        /\ UNCHANGED <<treevars, state, wait_state, exiting, time_slice, need_resched, want,
                       kid, current, run_list, nr_process, halt>>
    BY <1>4 DEF sleep_woken, Goto
  <2>2. /\ timer' \in [Proc -> 0 .. MaxSleep] /\ timer'[current] = 0
        /\ \A p \in Proc : timer'[p] = timer[p] \/ timer'[p] = 0
    BY <1>0, <2>1, ProcAssumption DEF TypeOK
  <2>3. pc' \in [Proc -> Places] /\ RunQueueExact' /\ PlacesAgree' /\ TimerOwnerInDoSleep'
    BY <2>1, <2>2, MoveStep DEF Busy
  <2>4. TypeOK'
    BY <1>0, <2>1, <2>2, <2>3 DEF TypeOK, treevars
  <2> QED
    BY <2>3, <2>4 DEF ProcInv
<1>5. CASE do_wait \/ wait_scan
  BY <1>5, WaitStep
<1>6. CASE wait_woken
  <2>1. pc[current] = "wait_woken" /\ (do_exit(current) \/ Jump(current, "wait"))
    BY <1>6 DEF wait_woken
  <2> QED
    BY <2>1, ExitStep, JumpStep DEF Busy, Places
<1>7. CASE trap_return
  <2>1. /\ pc[current] = "trapret"
        /\ do_exit(current) \/ Jump(current, "resched") \/ Jump(current, "user")
    BY <1>7 DEF trap_return
  <2> QED
    BY <2>1, ExitStep, JumpStep DEF Busy, Places
<1>8. CASE init_main
  <2>1. pc[current] = "init_main"
    BY <1>8 DEF init_main
  <2>2. CASE \E c \in Slots : do_fork(initproc, c, "wait", "user_main")
    <3>1. PICK c \in Slots : do_fork(current, c, "wait", "user_main")
      BY <1>8, <2>2 DEF init_main
    <3> QED
      BY <2>1, <3>1, ForkStep
  <2>3. CASE /\ halt' = "panic"
             /\ UNCHANGED <<treevars, procvars, kid, current, run_list, nr_process>>
    BY <2>3, StopStep
  <2> QED
    BY <1>8, <2>2, <2>3 DEF init_main
<1>9. CASE user_main
  <2>1. pc[current] = "user_main" /\ (Jump(current, "user") \/ do_exit(current))
    BY <1>9 DEF user_main
  <2> QED
    BY <2>1, ExitStep, JumpStep DEF Busy, Places
<1>10. CASE init_done
  <2>1. /\ halt' \in {"end", "assert"}
        /\ UNCHANGED <<treevars, procvars, kid, current, run_list, nr_process>>
    BY <1>10 DEF init_done
  <2> QED
    BY <2>1, StopStep
<1>11. CASE read_woken
  BY <1>11, JumpStep DEF read_woken, Busy, Places
<1>12. CASE read_again
  <2>1. /\ pc[current] \in Busy \ {"sleep_woken"}
        /\ Jump(current, "trapret") \/ read_block(current)
    BY <1>12 DEF read_again, Busy
  <2> QED
    BY <2>1, JumpStep, ReadBlockStep DEF Places
<1> QED
  BY <1>1, <1>2, <1>3, <1>4, <1>5, <1>6, <1>7, <1>8, <1>9, <1>10, <1>11, <1>12 DEF KernelStep

(* Every step, and every stuttering step, preserves the invariant.          *)
LEMMA ProcInvStep == ProcInv /\ [Next]_vars => ProcInv'
<1> SUFFICES ASSUME ProcInv, [Next]_vars PROVE ProcInv'
  OBVIOUS
<1>1. CASE \E p \in Slots : UserStep(p)
  BY <1>1, UserStepInv
<1>2. CASE KernelStep
  BY <1>2, KernelStepInv
<1>3. CASE Tick
  BY <1>3, TickStep
<1>4. CASE Halted \/ UNCHANGED vars
  <2>1. halt' = halt /\ UNCHANGED <<treevars, procvars, kid, current, run_list, nr_process>>
    BY <1>4 DEF Halted, vars
  <2>2. halt \in {"no", "end", "panic", "assert", "trap"}
    BY DEF ProcInv, TypeOK
  <2> QED
    BY <2>1, <2>2, StopStep
<1> QED
  BY <1>1, <1>2, <1>3, <1>4 DEF Next

(* In every reachable state of the kernel, for any number of processes,     *)
(* the run queue, the wait states, the timers and the places of the         *)
(* processes agree.                                                         *)
THEOREM ProcInvariant == Spec => []ProcInv
<1>1. Init => ProcInv
  BY ProcInvInit
<1>2. ProcInv /\ [Next]_vars => ProcInv'
  BY ProcInvStep
<1> QED
  BY <1>1, <1>2, PTL DEF Spec

(* The run queue always holds exactly the runnable processes that do not    *)
(* run, each once: wakeup_proc, schedule() and do_exit never queue a        *)
(* process twice and never forget one.                                      *)
THEOREM RunQueueCorrect == Spec => []RunQueueExact
<1>1. ProcInv => RunQueueExact
  BY DEF ProcInv
<1> QED
  BY <1>1, ProcInvariant, PTL

(* Every process stands in the kernel where its state and its wait_state    *)
(* say; in particular the current process is never one that has been freed. *)
THEOREM PlacesCorrect == Spec => []PlacesAgree
<1>1. ProcInv => PlacesAgree
  BY DEF ProcInv
<1> QED
  BY <1>1, ProcInvariant, PTL

(* The timer on the stack of do_sleep is never armed after do_sleep has     *)
(* returned, even when a kill ends the sleep early.                         *)
THEOREM TimersCorrect == Spec => []TimerOwnerInDoSleep
<1>1. ProcInv => TimerOwnerInDoSleep
  BY DEF ProcInv
<1> QED
  BY <1>1, ProcInvariant, PTL

(* Steps that are no step of a timer.                                       *)
LEMMA TimerStutter ==
  ASSUME NEW p, sys_fork(p) \/ sys_noop(p) \/ sys_exit(p) \/ sys_wait(p) \/ sys_kill(p)
                \/ do_yield(p) \/ sys_read(p) \/ sys_panic(p) \/ read_woken \/ read_again
                \/ schedule \/ exit_reparent \/ exit_leave \/ do_wait
                \/ wait_scan \/ wait_woken \/ trap_return \/ init_main \/ user_main
                \/ init_done \/ Halted \/ UNCHANGED vars
  PROVE  timer' = timer
<1>1. CASE sys_fork(p) \/ init_main
  BY <1>1 DEF sys_fork, init_main, do_fork, procvars
<1>2. CASE sys_noop(p) \/ sys_exit(p) \/ sys_wait(p) \/ do_yield(p)
  BY <1>2 DEF sys_noop, sys_exit, sys_wait, do_yield, Jump, do_exit, procvars
<1>3. CASE sys_kill(p)
  BY <1>3 DEF sys_kill, Jump
<1>4. CASE schedule \/ exit_reparent \/ exit_leave
  BY <1>4 DEF schedule, exit_reparent, exit_leave, Jump
<1>5. CASE do_wait \/ wait_scan
  BY <1>5 DEF do_wait, wait_scan, reap, wait_block, wait_nokid, procvars
<1>6. CASE wait_woken \/ trap_return \/ user_main
  BY <1>6 DEF wait_woken, trap_return, user_main, do_exit, Jump, procvars
<1>7. CASE init_done \/ Halted \/ UNCHANGED vars
  BY <1>7 DEF init_done, Halted, vars, procvars
<1>8. CASE sys_read(p) \/ sys_panic(p) \/ read_woken \/ read_again
  BY <1>8 DEF sys_read, sys_panic, read_woken, read_again, read_block, Jump, procvars
<1> QED
  BY <1>1, <1>2, <1>3, <1>4, <1>5, <1>6, <1>7, <1>8

(* Nobody interferes with a timer: for any number of processes, besides the *)
(* tick, which counts all of them down by one, a timer is armed only by the *)
(* system call of its owner while it is off, and stopped before its end     *)
(* only by its owner after a kill, although del_timer of the code would     *)
(* take anybody's timer off the list.                                       *)
THEOREM TimersOwnedByCaller == Spec => TimersOwned
<1> DEFINE Own == \/ Timer!Tick
                  \/ pc[current] = "user" /\ \E k \in 1 .. MaxSleep : Timer!Arm(current, k)
                  \/ exiting[current] /\ Timer!Cancel(current)
<1>1. ProcInv /\ [Next]_vars => [Own]_timer
  <2> SUFFICES ASSUME ProcInv, [Next]_vars PROVE [Own]_timer
    OBVIOUS
  <2>0. TypeOK
    BY DEF ProcInv
  <2>1. ASSUME NEW p \in Slots, do_sleep(p) PROVE [Own]_timer
    <3>1. p = current /\ pc[current] = "user" /\ timer[current] = 0
      BY <2>1, BusyCurrent DEF do_sleep, InUser, Busy
    <3>2. PICK t \in 0 .. MaxSleep :
              IF t = 0 THEN timer' = timer ELSE timer' = [timer EXCEPT ![p] = t]
      BY <2>1 DEF do_sleep
    <3> QED
      BY <3>1, <3>2, ProcAssumption DEF Timer!Arm
  <2>2. CASE sleep_woken
    <3>1. /\ current \in Proc /\ timer[current] \in 0 .. MaxSleep
          /\ timer[current] > 0 => exiting[current]
      BY <2>0, <2>2, BusyCurrent DEF sleep_woken, Busy, TypeOK
    <3>2. timer' = [timer EXCEPT ![current] = 0]
      BY <2>2 DEF sleep_woken
    <3>3. CASE timer[current] > 0
      BY <3>1, <3>2, <3>3 DEF Timer!Cancel
    <3>4. CASE ~ (timer[current] > 0)
      BY <2>0, <3>1, <3>2, <3>4, ProcAssumption DEF TypeOK
    <3> QED
      BY <3>3, <3>4
  <2>3. CASE Tick
    BY <2>3 DEF Tick, TimersAfterTick, Timer!Tick
  <2>4. ASSUME NEW p \in Slots, UserStep(p) PROVE [Own]_timer
    BY <2>1, <2>4, TimerStutter DEF UserStep
  <2>5. CASE KernelStep
    BY <2>2, <2>5, TimerStutter DEF KernelStep
  <2>6. CASE Halted \/ UNCHANGED vars
    BY <2>6, TimerStutter
  <2> QED
    BY <2>3, <2>4, <2>5, <2>6 DEF Next
<1> QED
  BY <1>1, ProcInvariant, PTL DEF Spec, TimersOwned

-----------------------------------------------------------------------------
(* The process tree.                                                       *)

(* Types and places as the proofs about the tree use them.                  *)
LEMMA TreeTypes ==
  ASSUME ProcInv
  PROVE  /\ parent \in [Proc -> Proc \cup {NULL}] /\ cptr \in [Proc -> Proc \cup {NULL}]
         /\ optr \in [Proc -> Proc \cup {NULL}] /\ yptr \in [Proc -> Proc \cup {NULL}]
         /\ state \in [Proc -> States] /\ pc \in [Proc -> Places]
         /\ current \in Proc /\ kid \in Proc \cup {NULL}
         /\ NULL \notin Proc /\ idleproc \in Proc /\ initproc \in Proc /\ idleproc # initproc
         /\ Proc = Slots \cup {idleproc, initproc}
         /\ state[idleproc] = "RUNNABLE" /\ state[initproc] \in {"RUNNABLE", "SLEEPING"}
         /\ \A q \in Proc :
              /\ state[q] = "ZOMBIE" => pc[q] \in {"exit_reparent", "exit_sched", "dead"}
              /\ state[q] = "ZOMBIE" /\ q # current => pc[q] = "dead"
<1>0. TypeOK /\ PlacesAgree
  BY DEF ProcInv
<1>1. NULL \notin Proc /\ idleproc \in Proc /\ initproc \in Proc /\ idleproc # initproc
  BY ProcAssumption DEF Proc
<1>2. \A q \in Proc :
        /\ state[q] = "ZOMBIE" => pc[q] \in {"exit_reparent", "exit_sched", "dead"}
        /\ state[q] = "ZOMBIE" /\ q # current => pc[q] = "dead"
  BY <1>0 DEF PlacesAgree, AtRest, Live
<1> QED BY <1>0, <1>1, <1>2 DEF TypeOK, PlacesAgree, Proc

(* Who has no first child has none.                                         *)
LEMMA NoChildren ==
  ASSUME ChildListComplete, NEW p \in Proc, cptr[p] = NULL
  PROVE  \A q \in Proc : parent[q] # p
<1>1. {} \in SUBSET Children(p) /\ PassedFrom(cptr[p], {})
  BY DEF PassedFrom
<1>2. Children(p) = {}
  BY <1>1 DEF ChildListComplete
<1> QED BY <1>2 DEF Children

(* A process that dies or changes its place, while the tree stays.          *)
LEMMA TreeKept ==
  ASSUME ProcInv, TreeConsistent, UNCHANGED <<treevars, nr_process>>,
         \A q \in Proc : /\ state'[q] = "UNUSED" <=> state[q] = "UNUSED"
                         /\ state[q] = "ZOMBIE" => state'[q] = "ZOMBIE"
                         /\ state'[q] = "ZOMBIE" =>
                              pc'[q] = "exit_reparent" \/ \A r \in Proc : parent[r] # q
  PROVE  TreeConsistent'
<1>0. ParentsLive /\ LinksAgree /\ ChildListComplete /\ NoCycle /\ CountAgrees
  BY DEF TreeConsistent
<1>1. /\ parent' = parent /\ cptr' = cptr /\ optr' = optr /\ yptr' = yptr
      /\ nr_process' = nr_process
      /\ \A q \in Proc : Live(q)' <=> Live(q)
  BY DEF treevars, Live
<1>2. ParentsLive'
  BY <1>0, <1>1, TreeTypes DEF ParentsLive
<1>3. LinksAgree'
  BY <1>0, <1>1, TreeTypes DEF LinksAgree
<1>4. ChildListComplete'
  BY <1>0, <1>1 DEF ChildListComplete, Children, PassedFrom
<1>5. NoCycle'
  <2>1. {q \in Slots : Live(q)}' = {q \in Slots : Live(q)}
    BY <1>1 DEF Proc
  <2> QED BY <1>0, <1>1, <2>1 DEF NoCycle
<1>6. CountAgrees'
  <2>1. {q \in Proc : Live(q)}' = {q \in Proc : Live(q)}
    BY <1>1
  <2> QED BY <1>0, <1>1, <2>1 DEF CountAgrees
<1> QED BY <1>2, <1>3, <1>4, <1>5, <1>6 DEF TreeConsistent

(* set_links for a new process.                                             *)
LEMMA ForkTree ==
  ASSUME ProcInv, TreeConsistent,
         NEW p \in Proc \ {idleproc}, state[p] = "RUNNABLE",
         NEW c \in Slots, state[c] = "UNUSED", set_links(c, p),
         \A q \in Proc : state'[q] = IF q = c THEN "RUNNABLE" ELSE state[q],
         \A q \in Proc : q \notin {p, c} => pc'[q] = pc[q]
  PROVE  TreeConsistent'
<1>0. ParentsLive /\ LinksAgree /\ ChildListComplete /\ NoCycle /\ CountAgrees
  BY DEF TreeConsistent
<1>1. c \in Proc /\ c # p /\ c # initproc /\ c # idleproc /\ NULL \notin Proc
  BY ProcAssumption DEF Proc
<1> DEFINE h == cptr[p]
<1>2. h \in Proc \cup {NULL}
  BY TreeTypes
<1>3. \A q \in Proc : /\ parent[q] # c /\ optr[q] # c /\ cptr[q] # c
                      /\ parent[q] # NULL => state[q] # "UNUSED"
  BY <1>0, <1>1, TreeTypes DEF ParentsLive, LinksAgree, Live
<1>4. parent[c] = NULL /\ cptr[c] = NULL
  BY <1>0, <1>1 DEF ParentsLive, Live
<1>5. \A q \in Proc : /\ parent'[q] = IF q = c THEN p ELSE parent[q]
                      /\ optr'[q] = IF q = c THEN h ELSE optr[q]
                      /\ cptr'[q] = IF q = p THEN c ELSE cptr[q]
                      /\ yptr'[q] = IF q = c THEN NULL ELSE IF q = h THEN c ELSE yptr[q]
  <2>1. /\ parent' = [parent EXCEPT ![c] = p] /\ optr' = [optr EXCEPT ![c] = h]
        /\ cptr' = [cptr EXCEPT ![p] = c]
        /\ yptr' = [q \in Proc |-> CASE q = c -> NULL [] q = h -> c [] OTHER -> yptr[q]]
    BY DEF set_links
  <2>2. \A q \in Proc : yptr'[q] = IF q = c THEN NULL ELSE IF q = h THEN c ELSE yptr[q]
    BY <1>1, <1>3, <2>1
  <2> QED BY <1>1, <2>1, <2>2, TreeTypes
<1>6. ParentsLive'
  <2>1. \A q \in Proc : IF Live(q)' /\ q # idleproc
                        THEN /\ parent'[q] # NULL /\ Live(parent[q])'
                             /\ state'[parent'[q]] = "ZOMBIE" => pc'[parent'[q]] = "exit_reparent"
                             /\ parent'[q] = idleproc <=> q = initproc
                        ELSE parent'[q] = NULL /\ optr'[q] = NULL /\ yptr'[q] = NULL
    <3> SUFFICES ASSUME NEW q \in Proc
                 PROVE  IF state'[q] # "UNUSED" /\ q # idleproc
                        THEN /\ parent'[q] # NULL /\ state'[parent'[q]] # "UNUSED"
                             /\ state'[parent'[q]] = "ZOMBIE" => pc'[parent'[q]] = "exit_reparent"
                             /\ parent'[q] = idleproc <=> q = initproc
                        ELSE parent'[q] = NULL /\ optr'[q] = NULL /\ yptr'[q] = NULL
      BY DEF Live
    <3>1. CASE q = c
      BY <1>1, <1>5, <3>1
    <3>2. CASE q # c /\ state[q] # "UNUSED" /\ q # idleproc
      BY <1>0, <1>1, <1>5, <1>3, <3>2, TreeTypes DEF ParentsLive, Live
    <3>3. CASE q # c /\ ~ (state[q] # "UNUSED" /\ q # idleproc)
      <4>1. parent[q] = NULL /\ optr[q] = NULL /\ yptr[q] = NULL
        BY <1>0, <3>3 DEF ParentsLive, Live
      <4>2. q # h
        BY <1>0, <4>1, <1>1 DEF LinksAgree
      <4> QED BY <1>5, <3>3, <4>1, <4>2
    <3> QED BY <3>1, <3>2, <3>3
  <2>2. \A q \in Proc : ~ Live(q)' => cptr'[q] = NULL
    BY <1>0, <1>5 DEF ParentsLive, Live
  <2> QED BY <2>1, <2>2 DEF ParentsLive
<1>7. LinksAgree'
  <2> SUFFICES ASSUME NEW q \in Proc
               PROVE  /\ cptr'[q] # NULL =>
                           /\ parent'[cptr'[q]] = q
                           /\ \A r \in Proc : optr'[r] # cptr'[q]
                      /\ optr'[q] # NULL => parent'[optr'[q]] = parent'[q] /\ yptr'[optr'[q]] = q
                      /\ parent'[q] # NULL /\ state'[parent'[q]] # "ZOMBIE" =>
                           /\ yptr'[q] = NULL <=> cptr'[parent'[q]] = q
                           /\ yptr'[q] # NULL => optr'[yptr'[q]] = q
    BY DEF LinksAgree
  <2>1. cptr'[q] # NULL => parent'[cptr'[q]] = q /\ \A r \in Proc : optr'[r] # cptr'[q]
    BY <1>0, <1>1, <1>2, <1>5, <1>3, TreeTypes DEF LinksAgree
  <2>2. optr'[q] # NULL => parent'[optr'[q]] = parent'[q] /\ yptr'[optr'[q]] = q
    BY <1>0, <1>1, <1>2, <1>5, <1>3, TreeTypes DEF LinksAgree
  <2>3. parent'[q] # NULL /\ state'[parent'[q]] # "ZOMBIE" =>
           /\ yptr'[q] = NULL <=> cptr'[parent'[q]] = q
           /\ yptr'[q] # NULL => optr'[yptr'[q]] = q
    <3>1. CASE q = c
      BY <1>1, <1>5, <3>1
    <3>2. CASE q # c
      BY <1>0, <1>1, <1>2, <1>5, <1>3, <1>4, <3>2, TreeTypes DEF LinksAgree
    <3> QED BY <3>1, <3>2
  <2> QED BY <2>1, <2>2, <2>3
<1>8. ChildListComplete'
  <2> SUFFICES ASSUME NEW x \in Proc, NEW S \in SUBSET Children(x)', PassedFrom(cptr[x], S)'
               PROVE  S = Children(x)'
    BY DEF ChildListComplete
  <2>1. cptr'[x] \in S \cup {NULL} /\ \A q \in S : optr'[q] \in S \cup {NULL}
    BY DEF PassedFrom
  <2>2. CASE x = p
    <3>1. Children(p)' = Children(p) \cup {c} /\ c \notin Children(p)
      BY <1>1, <1>5, <1>4 DEF Children
    <3>2. S \ {c} \in SUBSET Children(p) /\ c \in S
      BY <1>1, <1>5, <2>1, <2>2, <3>1
    <3>3. PassedFrom(cptr[p], S \ {c})
      <4>1. h \in (S \ {c}) \cup {NULL}
        BY <1>1, <1>5, <1>3, <2>1, <3>2
      <4>2. \A q \in S \ {c} : optr[q] \in (S \ {c}) \cup {NULL}
        BY <1>5, <1>3, <2>1, <3>2 DEF Children
      <4> QED BY <4>1, <4>2 DEF PassedFrom
    <3>4. S \ {c} = Children(p)
      BY <1>0, <3>2, <3>3 DEF ChildListComplete
    <3> QED BY <2>2, <3>1, <3>2, <3>4
  <2>3. CASE x # p
    <3>1. Children(x)' = Children(x) /\ c \notin Children(x)
      BY <1>1, <1>5, <1>4, <2>3 DEF Children
    <3>2. PassedFrom(cptr[x], S)
      BY <1>5, <2>1, <2>3, <3>1 DEF PassedFrom, Children
    <3> QED BY <1>0, <3>1, <3>2 DEF ChildListComplete
  <2> QED BY <2>2, <2>3
<1>9. NoCycle'
  <2> SUFFICES ASSUME NEW S \in SUBSET Slots, \A q \in S : state'[q] # "UNUSED", S # {}
               PROVE  \E q \in S : parent'[q] \notin S
    BY DEF NoCycle, Live
  <2>1. S \subseteq Proc /\ \A q \in S \ {c} : state[q] # "UNUSED"
    BY DEF Proc
  <2>2. CASE S \ {c} # {}
    <3>1. PICK q \in S \ {c} : parent[q] \notin S \ {c}
      BY <1>0, <2>1, <2>2 DEF NoCycle, Live
    <3> QED BY <1>5, <1>3, <2>1, <3>1
  <2>3. CASE S = {c}
    BY <1>1, <1>5, <2>3
  <2> QED BY <2>2, <2>3
<1>10. CountAgrees'
  <2>1. {q \in Proc : Live(q)}' = {q \in Proc : Live(q)} \cup {c}
    BY <1>1 DEF Live
  <2>2. c \notin {q \in Proc : Live(q)} /\ IsFiniteSet({q \in Proc : Live(q)})
    BY ProcFinite, FS_Subset DEF Live
  <2>3. nr_process' = nr_process + 1
    BY DEF set_links
  <2> QED BY <1>0, <2>1, <2>2, <2>3, FS_AddElement DEF CountAgrees
<1> QED BY <1>6, <1>7, <1>8, <1>9, <1>10 DEF TreeConsistent

(* One child of an exiting process goes to initproc.                        *)
LEMMA ReparentTree ==
  ASSUME ProcInv, TreeConsistent,
         NEW p \in Proc, state[p] = "ZOMBIE", cptr[p] # NULL,
         parent' = [parent EXCEPT ![cptr[p]] = initproc],
         optr' = [optr EXCEPT ![cptr[p]] = cptr[initproc]],
         cptr' = [cptr EXCEPT ![p] = optr[cptr[p]], ![initproc] = cptr[p]],
         yptr' = [q \in Proc |-> CASE q = cptr[p] -> NULL
                                   [] q = cptr[initproc] -> cptr[p]
                                   [] OTHER -> yptr[q]],
         UNCHANGED <<pc, nr_process>>,
         \A q \in Proc : /\ state'[q] = "UNUSED" <=> state[q] = "UNUSED"
                         /\ state'[q] = "ZOMBIE" <=> state[q] = "ZOMBIE"
  PROVE  TreeConsistent'
<1>0. ParentsLive /\ LinksAgree /\ ChildListComplete /\ NoCycle /\ CountAgrees
  BY DEF TreeConsistent
<1> DEFINE c == cptr[p]
           i == initproc
           h == cptr[initproc]
<1>1. /\ NULL \notin Proc /\ p # i /\ p # idleproc /\ i \in Proc /\ i # idleproc
      /\ c \in Proc /\ h \in Proc \cup {NULL} /\ state[i] # "ZOMBIE"
      /\ state[idleproc] # "ZOMBIE" /\ idleproc \in Proc /\ state[i] # "UNUSED"
  BY TreeTypes
<1>2. /\ parent[c] = p /\ c # i /\ c # idleproc /\ \A r \in Proc : optr[r] # c
      /\ optr[c] # c /\ state[c] # "UNUSED" /\ c \in Slots
  <2>1. parent[c] = p /\ \A r \in Proc : optr[r] # c
    BY <1>0, <1>1 DEF LinksAgree
  <2>2. c # idleproc /\ state[c] # "UNUSED" /\ c # i
    BY <1>0, <1>1, <2>1 DEF ParentsLive, Live
  <2> QED BY <1>1, <2>1, <2>2, TreeTypes
<1>3. h # c /\ (h # NULL => parent[h] = i /\ \A r \in Proc : optr[r] # h)
  BY <1>0, <1>1, <1>2 DEF LinksAgree
<1>4. \A q \in Proc : /\ parent'[q] = IF q = c THEN i ELSE parent[q]
                      /\ optr'[q] = IF q = c THEN h ELSE optr[q]
                      /\ cptr'[q] = IF q = p THEN optr[c] ELSE IF q = i THEN c ELSE cptr[q]
                      /\ yptr'[q] = IF q = c THEN NULL ELSE IF q = h THEN c ELSE yptr[q]
  <2>1. \A q \in Proc : yptr'[q] = IF q = c THEN NULL ELSE IF q = h THEN c ELSE yptr[q]
    <3>1. yptr' = [q \in Proc |-> CASE q = c -> NULL [] q = h -> c [] OTHER -> yptr[q]]
      OBVIOUS
    <3> QED BY <1>1, <1>3, <3>1
  <2> QED BY <1>1, <1>2, <2>1, TreeTypes
<1>5. c # p
  <2>1. p \in Slots
    BY <1>1, TreeTypes
  <2>2. {p} \in SUBSET {q \in Slots : Live(q)} /\ {p} # {}
    BY <2>1 DEF Live
  <2>3. parent[p] # p
    BY <1>0, <2>2 DEF NoCycle
  <2> QED BY <1>2, <2>3
<1>6. ParentsLive'
  <2>1. \A q \in Proc : IF state'[q] # "UNUSED" /\ q # idleproc
                        THEN /\ parent'[q] # NULL /\ state'[parent'[q]] # "UNUSED"
                             /\ state'[parent'[q]] = "ZOMBIE" => pc'[parent'[q]] = "exit_reparent"
                             /\ parent'[q] = idleproc <=> q = initproc
                        ELSE parent'[q] = NULL /\ optr'[q] = NULL /\ yptr'[q] = NULL
    <3> SUFFICES ASSUME NEW q \in Proc
                 PROVE  IF state'[q] # "UNUSED" /\ q # idleproc
                        THEN /\ parent'[q] # NULL /\ state'[parent'[q]] # "UNUSED"
                             /\ state'[parent'[q]] = "ZOMBIE" => pc'[parent'[q]] = "exit_reparent"
                             /\ parent'[q] = idleproc <=> q = initproc
                        ELSE parent'[q] = NULL /\ optr'[q] = NULL /\ yptr'[q] = NULL
      OBVIOUS
    <3>1. CASE q = c
      BY <1>1, <1>2, <1>4, <3>1
    <3>2. CASE q # c /\ state[q] # "UNUSED" /\ q # idleproc
      BY <1>0, <1>1, <1>4, <3>2, TreeTypes DEF ParentsLive, Live
    <3>3. CASE q # c /\ ~ (state[q] # "UNUSED" /\ q # idleproc)
      <4>1. parent[q] = NULL /\ optr[q] = NULL /\ yptr[q] = NULL
        BY <1>0, <3>3 DEF ParentsLive, Live
      <4>2. q # h
        BY <1>1, <1>3, <4>1
      <4> QED BY <1>4, <3>3, <4>1, <4>2
    <3> QED BY <3>1, <3>2, <3>3
  <2>2. \A q \in Proc : state'[q] = "UNUSED" => cptr'[q] = NULL
    <3>1. \A q \in Proc : state'[q] = "UNUSED" => cptr[q] = NULL /\ q # p /\ q # i
      BY <1>0, <1>1 DEF ParentsLive, Live
    <3> QED BY <1>4, <3>1
  <2> QED BY <2>1, <2>2 DEF ParentsLive, Live
<1>7. LinksAgree'
  <2> SUFFICES ASSUME NEW q \in Proc
               PROVE  /\ cptr'[q] # NULL =>
                           /\ parent'[cptr'[q]] = q
                           /\ \A r \in Proc : optr'[r] # cptr'[q]
                      /\ optr'[q] # NULL => parent'[optr'[q]] = parent'[q] /\ yptr'[optr'[q]] = q
                      /\ parent'[q] # NULL /\ state'[parent'[q]] # "ZOMBIE" =>
                           /\ yptr'[q] = NULL <=> cptr'[parent'[q]] = q
                           /\ yptr'[q] # NULL => optr'[yptr'[q]] = q
    BY DEF LinksAgree
  <2>1. cptr'[q] # NULL => parent'[cptr'[q]] = q /\ \A r \in Proc : optr'[r] # cptr'[q]
    <3>1. CASE q = p
      <4> SUFFICES ASSUME optr[c] # NULL
                   PROVE  parent'[optr[c]] = p /\ \A r \in Proc : optr'[r] # optr[c]
        BY <1>4, <3>1
      <4>1. optr[c] \in Proc /\ parent[optr[c]] = p /\ yptr[optr[c]] = c
        BY <1>0, <1>1, <1>2, TreeTypes DEF LinksAgree
      <4>2. \A r \in Proc : optr[r] = optr[c] => r = c
        BY <1>0, <4>1 DEF LinksAgree
      <4> QED BY <1>1, <1>2, <1>3, <1>4, <4>1, <4>2
    <3>2. CASE q = i
      <4>1. cptr'[q] = c /\ parent'[c] = q
        BY <1>1, <1>4, <3>2
      <4>2. \A r \in Proc : optr'[r] # c
        BY <1>2, <1>3, <1>4
      <4> QED BY <4>1, <4>2
    <3>3. CASE q # p /\ q # i
      BY <1>0, <1>1, <1>2, <1>3, <1>4, <3>3, TreeTypes DEF LinksAgree
    <3> QED BY <3>1, <3>2, <3>3
  <2>2. optr'[q] # NULL => parent'[optr'[q]] = parent'[q] /\ yptr'[optr'[q]] = q
    BY <1>0, <1>1, <1>2, <1>3, <1>4, TreeTypes DEF LinksAgree
  <2>3. parent'[q] # NULL /\ state'[parent'[q]] # "ZOMBIE" =>
           /\ yptr'[q] = NULL <=> cptr'[parent'[q]] = q
           /\ yptr'[q] # NULL => optr'[yptr'[q]] = q
    <3>1. CASE q = c
      <4>1. parent'[q] = i /\ yptr'[q] = NULL /\ cptr'[i] = q
        BY <1>1, <1>4, <3>1
      <4> QED BY <4>1
    <3>2. CASE q = h
      <4>1. parent'[q] = i /\ yptr'[q] = c /\ cptr'[i] = c /\ optr'[c] = q /\ c # q /\ c # NULL
        BY <1>1, <1>3, <1>4, <3>2
      <4> QED BY <4>1
    <3>3. CASE q # c /\ q # h
      <4> SUFFICES ASSUME parent[q] # NULL, state[parent[q]] # "ZOMBIE"
                   PROVE  /\ yptr[q] = NULL <=> cptr'[parent[q]] = q
                          /\ yptr[q] # NULL => optr'[yptr[q]] = q
        BY <1>4, <3>3, TreeTypes
      <4>1. /\ yptr[q] = NULL <=> cptr[parent[q]] = q
            /\ yptr[q] # NULL => optr[yptr[q]] = q
        BY <1>0 DEF LinksAgree
      <4>2. yptr[q] # NULL => yptr[q] # c
        <5> SUFFICES ASSUME yptr[q] = c PROVE FALSE
          OBVIOUS
        <5>1. optr[c] = q
          BY <1>1, <4>1
        <5>2. parent[q] = parent[c]
          BY <1>0, <1>1, <5>1 DEF LinksAgree
        <5> QED BY <1>2, <5>2
      <4> QED BY <1>1, <1>4, <3>3, <4>1, <4>2, TreeTypes
    <3> QED BY <3>1, <3>2, <3>3
  <2> QED BY <2>1, <2>2, <2>3
<1>8. ChildListComplete'
  <2> SUFFICES ASSUME NEW x \in Proc, NEW S \in SUBSET Children(x)', PassedFrom(cptr[x], S)'
               PROVE  S = Children(x)'
    BY DEF ChildListComplete
  <2>1. cptr'[x] \in S \cup {NULL} /\ \A q \in S : optr'[q] \in S \cup {NULL}
    BY DEF PassedFrom
  <2>2. CASE x = i
    <3>1. Children(i)' = Children(i) \cup {c} /\ c \notin Children(i)
      BY <1>1, <1>2, <1>4 DEF Children
    <3>2. S \ {c} \in SUBSET Children(i) /\ c \in S
      BY <1>1, <1>4, <2>1, <2>2, <3>1
    <3>3. PassedFrom(cptr[i], S \ {c})
      <4>1. h \in (S \ {c}) \cup {NULL}
        BY <1>1, <1>3, <1>4, <2>1, <3>2
      <4>2. \A q \in S \ {c} : optr[q] \in (S \ {c}) \cup {NULL}
        BY <1>2, <1>4, <2>1, <3>2 DEF Children
      <4> QED BY <4>1, <4>2 DEF PassedFrom
    <3>4. S \ {c} = Children(i)
      BY <1>0, <1>1, <3>2, <3>3 DEF ChildListComplete
    <3> QED BY <2>2, <3>1, <3>2, <3>4
  <2>3. CASE x = p
    <3>1. Children(p)' = Children(p) \ {c} /\ c \in Children(p)
      BY <1>1, <1>2, <1>4 DEF Children
    <3>2. S \cup {c} \in SUBSET Children(p) /\ c \notin S
      BY <2>3, <3>1
    <3>3. PassedFrom(cptr[p], S \cup {c})
      BY <1>4, <2>1, <2>3, <3>1, <3>2 DEF PassedFrom, Children
    <3>4. S \cup {c} = Children(p)
      BY <1>0, <3>2, <3>3 DEF ChildListComplete
    <3> QED BY <2>3, <3>1, <3>2, <3>4
  <2>4. CASE x # i /\ x # p
    <3>1. Children(x)' = Children(x) /\ c \notin Children(x)
      BY <1>1, <1>2, <1>4, <2>4 DEF Children
    <3>2. cptr'[x] = cptr[x] /\ \A q \in S : q \in Proc /\ optr'[q] = optr[q]
      BY <1>4, <2>4, <3>1 DEF Children
    <3>3. PassedFrom(cptr[x], S)
      BY <2>1, <3>2 DEF PassedFrom
    <3> QED BY <1>0, <3>1, <3>3 DEF ChildListComplete
  <2> QED BY <2>2, <2>3, <2>4
<1>9. NoCycle'
  <2> SUFFICES ASSUME NEW S \in SUBSET Slots, \A q \in S : state'[q] # "UNUSED", S # {}
               PROVE  \E q \in S : parent'[q] \notin S
    BY DEF NoCycle, Live
  <2>1. S \subseteq Proc /\ i \notin S
    BY ProcAssumption DEF Proc
  <2>2. CASE c \in S
    BY <1>4, <2>1, <2>2
  <2>3. CASE c \notin S
    <3>1. PICK q \in S : parent[q] \notin S
      BY <1>0, <2>1 DEF NoCycle, Live
    <3> QED BY <1>4, <2>1, <2>3, <3>1
  <2> QED BY <2>2, <2>3
<1>10. CountAgrees'
  <2>1. {q \in Proc : Live(q)}' = {q \in Proc : Live(q)}
    BY DEF Live
  <2> QED BY <1>0, <2>1 DEF CountAgrees
<1> QED BY <1>6, <1>7, <1>8, <1>9, <1>10 DEF TreeConsistent

(* remove_links and the release of a zombie by its parent.                  *)
LEMMA ReapTree ==
  ASSUME ProcInv, TreeConsistent,
         NEW x \in Proc, state[x] # "ZOMBIE",
         NEW c \in Slots, state[c] = "ZOMBIE", c # current, parent[c] = x, remove_links(c),
         state' = [state EXCEPT ![c] = "UNUSED"],
         \A q \in Proc : q \notin {c, x} => pc'[q] = pc[q]
  PROVE  TreeConsistent'
<1>0. ParentsLive /\ LinksAgree /\ ChildListComplete /\ NoCycle /\ CountAgrees
  BY DEF TreeConsistent
<1> DEFINE y == yptr[c]
           o == optr[c]
<1>1. /\ NULL \notin Proc /\ c \in Proc /\ c # initproc /\ c # idleproc /\ x \in Proc
      /\ y \in Proc \cup {NULL} /\ o \in Proc \cup {NULL}
  BY TreeTypes, ProcAssumption
<1>2. cptr[c] = NULL /\ \A q \in Proc : parent[q] # c
  BY <1>0, <1>1, TreeTypes DEF ParentsLive, LinksAgree, Live
<1>3. /\ y = NULL <=> cptr[x] = c
      /\ y # NULL => optr[y] = c /\ parent[y] = x /\ y # c
      /\ o # NULL => yptr[o] = c /\ parent[o] = x /\ o # c
  <2>1. /\ y = NULL <=> cptr[x] = c
        /\ y # NULL => optr[y] = c
        /\ o # NULL => yptr[o] = c /\ parent[o] = x
    BY <1>0, <1>1, TreeTypes DEF LinksAgree
  <2>2. y # NULL => parent[y] = x
    BY <1>0, <1>1, <2>1 DEF LinksAgree
  <2>3. o # c /\ y # c
    <3>1. cptr[x] # NULL => cptr[x] \in Children(x) /\ \A r \in Proc : optr[r] # cptr[x]
      BY <1>0, <1>1, TreeTypes DEF LinksAgree, Children
    <3>2. ASSUME o = c PROVE FALSE
      <4>1. \A q \in Proc : optr[q] = c => q = c
        BY <1>0, <1>1, <3>2 DEF LinksAgree
      <4>2. cptr[x] # c /\ c \in Children(x)
        BY <1>1, <2>1, <3>2, <3>1 DEF Children
      <4>3. Children(x) \ {c} \in SUBSET Children(x)
        OBVIOUS
      <4>4. PassedFrom(cptr[x], Children(x) \ {c})
        BY <1>0, <1>1, <3>1, <4>1, <4>2, TreeTypes DEF PassedFrom, LinksAgree, Children
      <4>5. Children(x) \ {c} = Children(x)
        BY <1>0, <1>1, <4>3, <4>4 DEF ChildListComplete
      <4> QED BY <4>2, <4>5
    <3> QED BY <1>1, <2>1, <3>2
  <2> QED BY <2>1, <2>2, <2>3
<1>4. \A q \in Proc : /\ parent'[q] = IF q = c THEN NULL ELSE parent[q]
                      /\ optr'[q] = IF q = c THEN NULL ELSE IF q = y THEN o ELSE optr[q]
                      /\ cptr'[q] = IF q = x /\ y = NULL THEN o ELSE cptr[q]
                      /\ yptr'[q] = IF q = c THEN NULL ELSE IF q = o THEN y ELSE yptr[q]
  <2>1. /\ yptr' = [q \in Proc |-> CASE q = c -> NULL [] q = o -> y [] OTHER -> yptr[q]]
        /\ optr' = [q \in Proc |-> CASE q = c -> NULL [] q = y -> o [] OTHER -> optr[q]]
        /\ cptr' = [q \in Proc |-> IF q = x /\ y = NULL THEN o ELSE cptr[q]]
        /\ parent' = [parent EXCEPT ![c] = NULL]
    BY DEF remove_links
  <2>2. \A q \in Proc : yptr'[q] = IF q = c THEN NULL ELSE IF q = o THEN y ELSE yptr[q]
    BY <1>1, <1>3, <2>1
  <2>3. \A q \in Proc : optr'[q] = IF q = c THEN NULL ELSE IF q = y THEN o ELSE optr[q]
    BY <1>1, <1>3, <2>1
  <2> QED BY <1>1, <2>1, <2>2, <2>3, TreeTypes
<1>5. \A q \in Proc : state'[q] = IF q = c THEN "UNUSED" ELSE state[q]
  BY TreeTypes
<1>6. \A q \in Proc : optr[q] = c => q = y
  BY <1>0, <1>1 DEF LinksAgree
<1>7. ParentsLive'
  <2>1. \A q \in Proc : IF state'[q] # "UNUSED" /\ q # idleproc
                        THEN /\ parent'[q] # NULL /\ state'[parent'[q]] # "UNUSED"
                             /\ state'[parent'[q]] = "ZOMBIE" => pc'[parent'[q]] = "exit_reparent"
                             /\ parent'[q] = idleproc <=> q = initproc
                        ELSE parent'[q] = NULL /\ optr'[q] = NULL /\ yptr'[q] = NULL
    <3> SUFFICES ASSUME NEW q \in Proc
                 PROVE  IF state'[q] # "UNUSED" /\ q # idleproc
                        THEN /\ parent'[q] # NULL /\ state'[parent'[q]] # "UNUSED"
                             /\ state'[parent'[q]] = "ZOMBIE" => pc'[parent'[q]] = "exit_reparent"
                             /\ parent'[q] = idleproc <=> q = initproc
                        ELSE parent'[q] = NULL /\ optr'[q] = NULL /\ yptr'[q] = NULL
      OBVIOUS
    <3>1. CASE q = c
      BY <1>4, <1>5, <3>1
    <3>2. CASE q # c /\ state[q] # "UNUSED" /\ q # idleproc
      BY <1>0, <1>2, <1>4, <1>5, <3>2, TreeTypes DEF ParentsLive, Live
    <3>3. CASE q # c /\ ~ (state[q] # "UNUSED" /\ q # idleproc)
      <4>1. parent[q] = NULL /\ optr[q] = NULL /\ yptr[q] = NULL
        BY <1>0, <3>3 DEF ParentsLive, Live
      <4>2. q # o /\ q # y
        BY <1>1, <1>3, <4>1
      <4> QED BY <1>4, <1>5, <3>3, <4>1, <4>2
    <3> QED BY <3>1, <3>2, <3>3
  <2>2. \A q \in Proc : state'[q] = "UNUSED" => cptr'[q] = NULL
    <3>1. state[x] # "UNUSED"
      BY <1>0, <1>1 DEF ParentsLive, Live
    <3> QED BY <1>0, <1>2, <1>4, <1>5, <3>1 DEF ParentsLive, Live
  <2> QED BY <2>1, <2>2 DEF ParentsLive, Live
<1>8. LinksAgree'
  <2> SUFFICES ASSUME NEW q \in Proc
               PROVE  /\ cptr'[q] # NULL =>
                           /\ parent'[cptr'[q]] = q
                           /\ \A r \in Proc : optr'[r] # cptr'[q]
                      /\ optr'[q] # NULL => parent'[optr'[q]] = parent'[q] /\ yptr'[optr'[q]] = q
                      /\ parent'[q] # NULL /\ state'[parent'[q]] # "ZOMBIE" =>
                           /\ yptr'[q] = NULL <=> cptr'[parent'[q]] = q
                           /\ yptr'[q] # NULL => optr'[yptr'[q]] = q
    BY DEF LinksAgree
  <2>0. \A r \in Proc : optr[r] = o /\ o # NULL => r = c
    BY <1>0, <1>3 DEF LinksAgree
  <2>1. cptr'[q] # NULL => parent'[cptr'[q]] = q /\ \A r \in Proc : optr'[r] # cptr'[q]
    <3>1. CASE q = x /\ y = NULL
      BY <1>1, <1>3, <1>4, <2>0, <3>1
    <3>2. CASE ~ (q = x /\ y = NULL)
      <4> SUFFICES ASSUME cptr[q] # NULL
                   PROVE  parent'[cptr[q]] = q /\ \A r \in Proc : optr'[r] # cptr[q]
        BY <1>4, <3>2
      <4>1. cptr[q] \in Proc /\ parent[cptr[q]] = q /\ \A r \in Proc : optr[r] # cptr[q]
        BY <1>0, TreeTypes DEF LinksAgree
      <4>2. cptr[q] # c
        BY <1>3, <3>2, <4>1
      <4> QED BY <1>1, <1>4, <4>1, <4>2
    <3> QED BY <3>1, <3>2
  <2>2. optr'[q] # NULL => parent'[optr'[q]] = parent'[q] /\ yptr'[optr'[q]] = q
    <3>1. CASE q = c
      BY <1>4, <3>1
    <3>2. CASE q = y
      BY <1>1, <1>3, <1>4, <3>2
    <3>3. CASE q # c /\ q # y
      <4> SUFFICES ASSUME optr[q] # NULL
                   PROVE  parent'[optr[q]] = parent[q] /\ yptr'[optr[q]] = q
        BY <1>4, <3>3
      <4>1. optr[q] \in Proc /\ parent[optr[q]] = parent[q] /\ yptr[optr[q]] = q
        BY <1>0, TreeTypes DEF LinksAgree
      <4>2. optr[q] # c /\ optr[q] # o
        BY <1>6, <2>0, <3>3
      <4> QED BY <1>4, <4>1, <4>2
    <3> QED BY <3>1, <3>2, <3>3
  <2>3. parent'[q] # NULL /\ state'[parent'[q]] # "ZOMBIE" =>
           /\ yptr'[q] = NULL <=> cptr'[parent'[q]] = q
           /\ yptr'[q] # NULL => optr'[yptr'[q]] = q
    <3>1. CASE q = c
      BY <1>4, <3>1
    <3>2. CASE q = o
      BY <1>1, <1>3, <1>4, <1>5, <1>0, <3>2, TreeTypes DEF LinksAgree
    <3>3. CASE q # c /\ q # o
      <4> SUFFICES ASSUME parent[q] # NULL, state[parent[q]] # "ZOMBIE"
                   PROVE  /\ yptr[q] = NULL <=> cptr'[parent[q]] = q
                          /\ yptr[q] # NULL => optr'[yptr[q]] = q
        BY <1>2, <1>4, <1>5, <3>3, TreeTypes
      <4>1. /\ yptr[q] = NULL <=> cptr[parent[q]] = q
            /\ yptr[q] # NULL => optr[yptr[q]] = q
        BY <1>0 DEF LinksAgree
      <4>2. yptr[q] # NULL => yptr[q] # c /\ yptr[q] # y
        BY <1>3, <3>3, <4>1
      <4>3. yptr[q] = NULL <=> cptr'[parent[q]] = q
        BY <1>1, <1>3, <1>4, <3>3, <4>1, TreeTypes
      <4> QED BY <1>4, <4>1, <4>2, <4>3, TreeTypes
    <3> QED BY <3>1, <3>2, <3>3
  <2> QED BY <2>1, <2>2, <2>3
<1>9. ChildListComplete'
  <2> SUFFICES ASSUME NEW z \in Proc, NEW S \in SUBSET Children(z)', PassedFrom(cptr[z], S)'
               PROVE  S = Children(z)'
    BY DEF ChildListComplete
  <2>1. cptr'[z] \in S \cup {NULL} /\ \A q \in S : optr'[q] \in S \cup {NULL}
    BY DEF PassedFrom
  <2>2. CASE z = x
    <3>1. Children(x)' = Children(x) \ {c} /\ c \in Children(x)
      BY <1>1, <1>4 DEF Children
    <3>2. S \cup {c} \in SUBSET Children(x) /\ S \in SUBSET Children(x) /\ c \notin S
      BY <2>2, <3>1
    <3>3. CASE y = NULL \/ y \in S
      <4>1. o \in S \cup {NULL}
        BY <1>1, <1>3, <1>4, <2>1, <2>2, <3>3
      <4>2. cptr[x] \in (S \cup {c}) \cup {NULL}
        BY <1>3, <1>4, <2>1, <2>2
      <4>3. \A q \in S : optr[q] \in (S \cup {c}) \cup {NULL}
        BY <1>3, <1>4, <2>1, <3>2, <1>1 DEF Children
      <4>4. PassedFrom(cptr[x], S \cup {c})
        BY <4>1, <4>2, <4>3 DEF PassedFrom
      <4>5. S \cup {c} = Children(x)
        BY <1>0, <1>1, <3>2, <4>4 DEF ChildListComplete
      <4> QED BY <2>2, <3>1, <3>2, <4>5
    <3>4. CASE y # NULL /\ y \notin S
      <4>1. PassedFrom(cptr[x], S)
        BY <1>1, <1>4, <2>1, <2>2, <3>2, <3>4 DEF PassedFrom, Children
      <4>2. S = Children(x)
        BY <1>0, <1>1, <3>2, <4>1 DEF ChildListComplete
      <4> QED BY <3>1, <3>2, <4>2
    <3> QED BY <3>3, <3>4
  <2>3. CASE z # x
    <3>1. Children(z)' = Children(z) /\ c \notin Children(z) /\ y \notin Children(z)
      BY <1>1, <1>3, <1>4, <2>3 DEF Children
    <3>2. PassedFrom(cptr[z], S)
      BY <1>4, <2>1, <2>3, <3>1 DEF PassedFrom, Children
    <3> QED BY <1>0, <3>1, <3>2 DEF ChildListComplete
  <2> QED BY <2>2, <2>3
<1>10. NoCycle'
  <2> SUFFICES ASSUME NEW S \in SUBSET Slots, \A q \in S : state'[q] # "UNUSED", S # {}
               PROVE  \E q \in S : parent'[q] \notin S
    BY DEF NoCycle, Live
  <2>1. S \subseteq Proc /\ c \notin S /\ \A q \in S : state[q] # "UNUSED"
    BY <1>5 DEF Proc
  <2>2. PICK q \in S : parent[q] \notin S
    BY <1>0, <2>1 DEF NoCycle, Live
  <2> QED BY <1>4, <2>1, <2>2
<1>11. CountAgrees'
  <2>1. {q \in Proc : Live(q)}' = {q \in Proc : Live(q)} \ {c}
    BY <1>5 DEF Live
  <2>2. c \in {q \in Proc : Live(q)} /\ IsFiniteSet({q \in Proc : Live(q)})
    BY <1>1, ProcFinite, FS_Subset DEF Live
  <2>3. nr_process' = nr_process - 1
    BY DEF remove_links
  <2> QED BY <1>0, <2>1, <2>2, <2>3, FS_RemoveElement DEF CountAgrees
<1> QED BY <1>7, <1>8, <1>9, <1>10, <1>11 DEF TreeConsistent

-----------------------------------------------------------------------------
(* FamilyInv, action by action.                                            *)

(* Places that only initproc has.                                           *)
InitOnly == {"init_main", "init_resched", "init_done"}
InitPlaces == {"init_main", "wait", "wait_scan", "wait_sched", "wait_woken",
               "init_resched", "init_done"}

(* FamilyInv taken apart, and what it says of the place of current.         *)
LEMMA FamilyParts ==
  ASSUME ProcInv, FamilyInv
  PROVE  /\ TreeConsistent /\ ScanCovers /\ NoLostChild /\ InitprocWaits /\ EndsInOrder
         /\ ParentsLive /\ LinksAgree /\ ChildListComplete
         /\ want[initproc] = NULL /\ pc[initproc] \in InitPlaces
         /\ current # idleproc /\ pc[current] \notin InitPlaces => current \in Slots
         /\ current # idleproc /\ pc[current] \in InitOnly => current = initproc
         /\ pc[idleproc] = "idle"
         /\ \A q \in Proc : state[q] = "SLEEPING" <=> wait_state[q] # "0"
<1>1. /\ TreeConsistent /\ ScanCovers /\ NoLostChild /\ InitprocWaits /\ EndsInOrder
      /\ ParentsLive /\ LinksAgree /\ ChildListComplete
  BY DEF FamilyInv, TreeConsistent
<1>2. /\ want[initproc] = NULL /\ pc[initproc] \in InitPlaces
      /\ \A p \in Slots : pc[p] \notin InitOnly
  BY <1>1 DEF InitprocWaits, InitPlaces, InitOnly
<1>3. /\ pc[idleproc] = "idle"
      /\ \A q \in Proc : state[q] = "SLEEPING" <=> wait_state[q] # "0"
  BY DEF ProcInv, PlacesAgree
<1> QED BY <1>1, <1>2, <1>3, TreeTypes

(* What wakeup_proc does to others than zombies.                            *)
LEMMA WakeFacts ==
  ASSUME NEW W \in SUBSET Proc, NEW st \in [Proc -> States], NEW slice,
         wakeup_proc(W, st, slice), \A q \in W : st[q] # "ZOMBIE"
  PROVE  /\ halt' = halt
         /\ \A q \in Proc :
              /\ state'[q] = IF q \in W THEN "RUNNABLE" ELSE st[q]
              /\ wait_state'[q] = IF q \in W /\ st[q] # "RUNNABLE" THEN "0" ELSE wait_state[q]
<1>1. /\ state' = [q \in Proc |-> IF q \in Woken(W, st) THEN "RUNNABLE" ELSE st[q]]
      /\ wait_state' = [q \in Proc |-> IF q \in Woken(W, st) THEN "0" ELSE wait_state[q]]
      /\ halt' = IF \E q \in W : st[q] = "ZOMBIE" THEN "assert" ELSE halt
  BY DEF wakeup_proc
<1> QED BY <1>1 DEF Woken

(* A kernel that does not stop has nothing to account for.                  *)
LEMMA GoesOn == ASSUME halt' = "no" PROVE EndsInOrder'
BY DEF EndsInOrder

(* A step of current that leaves the tree alone, lets nobody die and begins *)
(* no wait for a child.                                                     *)
LEMMA QuietFamily ==
  ASSUME ProcInv, ProcInv', FamilyInv, UNCHANGED <<treevars, nr_process>>,
         \A q \in Proc : /\ state'[q] = "UNUSED" <=> state[q] = "UNUSED"
                         /\ state'[q] = "ZOMBIE" <=> state[q] = "ZOMBIE"
                         /\ q # current => \/ pc'[q] = pc[q]
                                           \/ /\ pc[q] \in {"read_sched", "read_woken"}
                                              /\ pc'[q] = "read_again"
                         /\ wait_state'[q] = "WT_CHILD" =>
                              wait_state[q] = "WT_CHILD" /\ want'[q] = want[q],
         pc[current] = "exit_reparent" => pc'[current] = "exit_reparent" \/ cptr[current] = NULL,
         pc'[current'] = "wait_scan" => UNCHANGED <<current, kid>> /\ pc[current] = "wait_scan",
         want'[initproc] = want[initproc],
         current = initproc =>
           /\ pc'[initproc] \in InitPlaces
           /\ pc'[initproc] = "init_done" => pc[initproc] = "init_done" \/ cptr[initproc] = NULL,
         current \in Slots => pc'[current] \notin InitOnly,
         EndsInOrder'
  PROVE  FamilyInv'
<1>0. /\ TreeConsistent /\ ScanCovers /\ NoLostChild /\ InitprocWaits
      /\ ParentsLive /\ LinksAgree /\ ChildListComplete
  BY FamilyParts
<1>1. parent' = parent /\ cptr' = cptr /\ optr' = optr /\ yptr' = yptr
  BY DEF treevars
<1>2. ASSUME NEW q \in Proc, state'[q] = "ZOMBIE"
      PROVE  pc'[q] = "exit_reparent" \/ \A r \in Proc : parent[r] # q
  <2>1. pc[q] = "exit_reparent" \/ \A r \in Proc : parent[r] # q
    BY <1>0, <1>2, TreeTypes DEF ParentsLive
  <2> QED BY <1>0, <2>1, NoChildren
<1>3. TreeConsistent'
  BY <1>0, <1>2, TreeKept
<1>4. ScanCovers'
  <2> SUFFICES ASSUME pc'[current'] = "wait_scan" PROVE ScanCovers'
    BY DEF ScanCovers
  <2>1. current' = current /\ kid' = kid /\ pc[current] = "wait_scan"
    OBVIOUS
  <2>2. Children(current)' = Children(current) /\ Children(current) \subseteq Proc
    BY <1>1, <2>1 DEF Children
  <2> QED BY <1>0, <1>1, <2>1, <2>2 DEF ScanCovers, PassedFrom
<1>5. NoLostChild'
  BY <1>0, <1>1 DEF NoLostChild
<1>6. InitprocWaits'
  BY <1>0, <1>1, TreeTypes DEF InitprocWaits, InitPlaces, InitOnly
<1> QED BY <1>3, <1>4, <1>5, <1>6 DEF FamilyInv

(* The kernel stops.                                                        *)
LEMMA StopFamily ==
  ASSUME ProcInv, ProcInv', FamilyInv,
         UNCHANGED <<treevars, procvars, kid, current, nr_process>>, EndsInOrder'
  PROVE  FamilyInv'
<1>1. UNCHANGED <<treevars, nr_process, state, wait_state, want, pc, kid, current>>
  BY DEF procvars
<1>2. /\ current = initproc =>
           /\ pc'[initproc] \in InitPlaces
           /\ pc'[initproc] = "init_done" => pc[initproc] = "init_done" \/ cptr[initproc] = NULL
      /\ current \in Slots => pc'[current] \notin InitOnly
  BY <1>1, FamilyParts, TreeTypes, ProcAssumption DEF InitOnly
<1> QED BY <1>1, <1>2, QuietFamily

(* do_exit: the parent that waits is woken.                                 *)
LEMMA ExitFamily ==
  ASSUME ProcInv, ProcInv', FamilyInv, halt = "no",
         pc[current] \in Busy \ {"sleep_woken"}, pc[current] # "wait_scan", do_exit(current),
         current = initproc => exiting[initproc]
  PROVE  FamilyInv'
<1>0. /\ TreeConsistent /\ ScanCovers /\ NoLostChild /\ InitprocWaits /\ ParentsLive
      /\ current \in Proc \ {idleproc} /\ state[current] = "RUNNABLE" /\ wait_state[current] = "0"
  BY FamilyParts, BusyCurrent
<1>1. CASE current = initproc
  <2>1. halt' = "panic" /\ UNCHANGED <<treevars, procvars, kid, current, nr_process>>
    BY <1>1 DEF do_exit
  <2>2. EndsInOrder'
    BY <1>1, <2>1 DEF EndsInOrder, procvars
  <2> QED BY <2>1, <2>2, StopFamily
<1>2. CASE current # initproc
  <2> DEFINE W == {q \in Proc : q = parent[current] /\ wait_state[q] = "WT_CHILD"}
             st == [state EXCEPT ![current] = "ZOMBIE"]
  <2>1. /\ wakeup_proc(W, st, time_slice) /\ pc' = [pc EXCEPT ![current] = "exit_reparent"]
        /\ UNCHANGED <<treevars, want, kid, current, nr_process>>
    BY <1>0, <1>2 DEF do_exit, Goto
  <2>2. /\ W \in SUBSET Proc /\ st \in [Proc -> States]
        /\ \A q \in W : q # current /\ state[q] = "SLEEPING" /\ st[q] = "SLEEPING"
    BY <1>0, FamilyParts, TreeTypes DEF States
  <2>3. /\ halt' = halt
        /\ \A q \in Proc :
             /\ state'[q] = IF q \in W THEN "RUNNABLE" ELSE st[q]
             /\ wait_state'[q] = IF q \in W /\ st[q] # "RUNNABLE" THEN "0" ELSE wait_state[q]
    <3> HIDE DEF W, st
    <3>1. \A q \in W : st[q] # "ZOMBIE"
      BY <2>2
    <3> QED BY <2>1, <2>2, <3>1, WakeFacts
  <2>4. \A q \in Proc :
          /\ state'[q] = IF q = current THEN "ZOMBIE" ELSE IF q \in W THEN "RUNNABLE" ELSE state[q]
          /\ wait_state'[q] = IF q \in W THEN "0" ELSE wait_state[q]
          /\ pc'[q] = IF q = current THEN "exit_reparent" ELSE pc[q]
    BY <2>1, <2>2, <2>3, TreeTypes
  <2>5. parent' = parent /\ cptr' = cptr
    BY <2>1 DEF treevars
  <2>6. TreeConsistent'
    <3>1. ASSUME NEW q \in Proc, state'[q] = "ZOMBIE"
          PROVE  pc'[q] = "exit_reparent" \/ \A r \in Proc : parent[r] # q
      BY <1>0, <2>2, <2>4, <3>1, TreeTypes DEF ParentsLive
    <3> QED BY <1>0, <2>1, <2>2, <2>4, <3>1, TreeKept
  <2>7. ScanCovers'
    BY <1>0, <2>1, <2>4 DEF ScanCovers
  <2>8. NoLostChild'
    BY <1>0, <2>1, <2>4, <2>5 DEF NoLostChild
  <2>9. InitprocWaits'
    BY <1>0, <1>2, <2>1, <2>4, <2>5, TreeTypes DEF InitprocWaits
  <2> QED BY <2>3, <2>6, <2>7, <2>8, <2>9, GoesOn DEF FamilyInv
<1> QED BY <1>1, <1>2

(* do_fork.                                                                 *)
LEMMA ForkFamily ==
  ASSUME ProcInv, ProcInv', FamilyInv, halt = "no", NEW c \in Slots, NEW after, NEW entry,
         \/ pc[current] = "user" /\ after = "trapret" /\ entry = "user"
         \/ pc[current] = "init_main" /\ after = "wait" /\ entry = "user_main",
         do_fork(current, c, after, entry)
  PROVE  FamilyInv'
<1>0. /\ TreeConsistent /\ ScanCovers /\ NoLostChild /\ InitprocWaits /\ ParentsLive
      /\ current \in Proc \ {idleproc} /\ state[current] = "RUNNABLE" /\ wait_state[current] = "0"
  BY FamilyParts, BusyCurrent DEF Busy
<1>1. /\ state[c] = "UNUSED" /\ set_links(c, current) /\ wakeup_proc({c}, state, time_slice)
      /\ pc' = [pc EXCEPT ![current] = after, ![c] = entry]
      /\ UNCHANGED <<want, kid, current>>
  BY DEF do_fork, Live
<1>2. c \in Proc /\ c # current /\ c # initproc /\ wait_state[c] = "0"
  BY <1>0, <1>1, FamilyParts, TreeTypes, ProcAssumption
<1>3. /\ halt' = halt
      /\ \A q \in Proc : /\ state'[q] = IF q = c THEN "RUNNABLE" ELSE state[q]
                         /\ wait_state'[q] = wait_state[q]
      /\ \A q \in Proc : pc'[q] = IF q = c THEN entry ELSE IF q = current THEN after ELSE pc[q]
  <2>1. {c} \in SUBSET Proc /\ \A q \in {c} : state[q] # "ZOMBIE"
    BY <1>1, <1>2
  <2>2. /\ halt' = halt
        /\ \A q \in Proc :
             /\ state'[q] = IF q \in {c} THEN "RUNNABLE" ELSE state[q]
             /\ wait_state'[q] = IF q \in {c} /\ state[q] # "RUNNABLE" THEN "0" ELSE wait_state[q]
    BY <1>1, <2>1, WakeFacts, TreeTypes
  <2> QED BY <1>0, <1>1, <1>2, <2>2, TreeTypes
<1>4. TreeConsistent'
  <2>1. \A q \in Proc : state'[q] = IF q = c THEN "RUNNABLE" ELSE state[q]
    BY <1>3
  <2>2. \A q \in Proc : q \notin {current, c} => pc'[q] = pc[q]
    BY <1>3
  <2> QED BY <1>0, <1>1, <2>1, <2>2, ForkTree
<1>5. ScanCovers'
  BY <1>0, <1>1, <1>2, <1>3 DEF ScanCovers
<1>6. \A q \in Proc : q # c => parent'[q] = parent[q]
  BY <1>1, TreeTypes DEF set_links
<1>7. NoLostChild'
  BY <1>0, <1>1, <1>2, <1>3, <1>6 DEF NoLostChild
<1>8. InitprocWaits'
  <2>1. current \in Slots \/ current = initproc
    BY <1>0, TreeTypes
  <2>2. pc[current] = "user" => current # initproc
    BY <1>0 DEF InitprocWaits
  <2>3. pc[current] = "init_main" => current = initproc
    BY <1>0, <2>1 DEF InitprocWaits
  <2>4. pc'[initproc] = "init_done" => pc[initproc] = "init_done" /\ current # initproc
    BY <1>2, <1>3, TreeTypes
  <2>5. current # initproc => cptr'[initproc] = cptr[initproc]
    BY <1>1, TreeTypes DEF set_links
  <2> QED BY <1>0, <1>1, <1>2, <1>3, <2>1, <2>2, <2>3, <2>4, <2>5, TreeTypes DEF InitprocWaits
<1> QED BY <1>3, <1>4, <1>5, <1>7, <1>8, GoesOn DEF FamilyInv

(* do_exit hands a child over; initproc is woken for a zombie.              *)
LEMMA ReparentFamily ==
  ASSUME ProcInv, ProcInv', FamilyInv, exit_reparent
  PROVE  FamilyInv'
<1>0. /\ TreeConsistent /\ ScanCovers /\ NoLostChild /\ InitprocWaits /\ ParentsLive /\ LinksAgree
      /\ current \in Proc
  BY FamilyParts, TreeTypes
<1> DEFINE c == cptr[current]
           W == {q \in {initproc} : state[c] = "ZOMBIE" /\ wait_state[q] = "WT_CHILD"}
<1>1. /\ halt = "no" /\ pc[current] = "exit_reparent" /\ c # NULL
      /\ parent' = [parent EXCEPT ![c] = initproc]
      /\ optr' = [optr EXCEPT ![c] = cptr[initproc]]
      /\ cptr' = [cptr EXCEPT ![current] = optr[c], ![initproc] = c]
      /\ yptr' = [q \in Proc |-> CASE q = c -> NULL
                                   [] q = cptr[initproc] -> c
                                   [] OTHER -> yptr[q]]
      /\ wakeup_proc(W, state, time_slice)
      /\ UNCHANGED <<want, pc, kid, current, nr_process>>
  BY DEF exit_reparent
<1>2. state[current] = "ZOMBIE" /\ current # initproc
  BY <1>0, <1>1, TreeTypes DEF ProcInv, PlacesAgree
<1>3. W \in SUBSET Proc /\ \A q \in W : state[q] = "SLEEPING"
  BY TreeTypes, FamilyParts
<1>4. /\ halt' = halt
      /\ \A q \in Proc : /\ state'[q] = IF q \in W THEN "RUNNABLE" ELSE state[q]
                         /\ wait_state'[q] = IF q \in W THEN "0" ELSE wait_state[q]
  <2>1. /\ halt' = halt
        /\ \A q \in Proc :
             /\ state'[q] = IF q \in W THEN "RUNNABLE" ELSE state[q]
             /\ wait_state'[q] = IF q \in W /\ state[q] # "RUNNABLE" THEN "0" ELSE wait_state[q]
    <3>1. state \in [Proc -> States] /\ \A q \in W : state[q] # "ZOMBIE"
      BY <1>3, TreeTypes
    <3> HIDE DEF W
    <3> QED BY <1>1, <1>3, <3>1, WakeFacts
  <2> QED BY <1>3, <2>1
<1>5. TreeConsistent'
  <2>1. \A q \in Proc : /\ state'[q] = "UNUSED" <=> state[q] = "UNUSED"
                        /\ state'[q] = "ZOMBIE" <=> state[q] = "ZOMBIE"
    BY <1>3, <1>4
  <2> QED BY <1>0, <1>1, <1>2, <2>1, ReparentTree
<1>6. ScanCovers'
  BY <1>1 DEF ScanCovers
<1>7. NoLostChild'
  <2>1. \A q \in Proc : parent'[q] = IF q = c THEN initproc ELSE parent[q]
    BY <1>1, TreeTypes
  <2>2. \A q \in Proc : state'[q] = "ZOMBIE" => state[q] = "ZOMBIE"
    BY <1>4
  <2>3. state[c] = "ZOMBIE" => wait_state'[initproc] # "WT_CHILD"
    BY <1>4, TreeTypes
  <2>4. \A q \in Proc : wait_state'[q] = "WT_CHILD" => wait_state[q] = "WT_CHILD"
    BY <1>4
  <2> QED BY <1>0, <1>1, <2>1, <2>2, <2>3, <2>4 DEF NoLostChild
<1>8. InitprocWaits'
  <2>1. pc[initproc] # "init_done"
    <3>1. initproc # current => pc[initproc] \in AtRest \cup {"dead"}
      BY TreeTypes DEF ProcInv, PlacesAgree, Live
    <3> QED BY <1>2, <3>1 DEF AtRest
  <2> QED BY <1>0, <1>1, <2>1 DEF InitprocWaits
<1> QED BY <1>1, <1>4, <1>5, <1>6, <1>7, <1>8, GoesOn DEF FamilyInv

(* Only current stands in the middle of the kernel.                         *)
LEMMA OthersRest ==
  ASSUME ProcInv, NEW q \in Proc, q # current, pc[q] # "unused"
  PROVE  pc[q] \in AtRest \cup {"dead"}
BY DEF ProcInv, PlacesAgree, Live

(* do_wait reaps a zombie.                                                  *)
LEMMA ReapFamily ==
  ASSUME ProcInv, ProcInv', FamilyInv, halt = "no", pc[current] \in {"wait", "wait_scan"},
         NEW c \in Proc, state[c] = "ZOMBIE", parent[c] = current,
         reap(current, c), UNCHANGED <<current, run_list>>
  PROVE  FamilyInv'
<1>0. /\ TreeConsistent /\ ScanCovers /\ NoLostChild /\ InitprocWaits /\ ParentsLive
      /\ current \in Proc \ {idleproc} /\ state[current] = "RUNNABLE" /\ wait_state[current] = "0"
  BY FamilyParts, BusyCurrent DEF Busy
<1>1. c \in Slots /\ c # current /\ wait_state[c] = "0" /\ c # initproc
  BY <1>0, FamilyParts, TreeTypes, ProcAssumption
<1> DEFINE place == AfterWait(current, TRUE)
<1>2. /\ remove_links(c) /\ state' = [state EXCEPT ![c] = "UNUSED"]
      /\ want' = [want EXCEPT ![c] = NULL, ![current] = NULL]
      /\ pc' = [pc EXCEPT ![c] = "unused", ![current] = place]
      /\ UNCHANGED <<wait_state, halt>>
  BY <1>1, ProcAssumption DEF reap
<1>3. place = IF current = initproc THEN "init_resched" ELSE "trapret"
  BY DEF AfterWait
<1>4. /\ \A q \in Proc : pc'[q] = IF q = current THEN place ELSE IF q = c THEN "unused" ELSE pc[q]
      /\ \A q \in Proc : q \notin {c, current} => want'[q] = want[q]
      /\ want'[current] = NULL
      /\ \A q \in Proc : parent'[q] = IF q = c THEN NULL ELSE parent[q]
      /\ \A q \in Proc : state'[q] = IF q = c THEN "UNUSED" ELSE state[q]
  <2>1. want \in [Proc -> Proc \cup {NULL}]
    BY DEF ProcInv, TypeOK
  <2>2. parent' = [parent EXCEPT ![c] = NULL]
    BY <1>2 DEF remove_links
  <2> QED BY <1>0, <1>1, <1>2, <2>1, <2>2, TreeTypes
<1>5. TreeConsistent'
  <2>1. \A q \in Proc : q \notin {c, current} => pc'[q] = pc[q]
    BY <1>4
  <2> QED BY <1>0, <1>1, <1>2, <2>1, ReapTree
<1>6. ScanCovers'
  BY <1>0, <1>3, <1>4 DEF ScanCovers
<1>7. NoLostChild'
  BY <1>0, <1>1, <1>2, <1>4, TreeTypes DEF NoLostChild
<1>8. InitprocWaits'
  <2>1. pc[initproc] # "init_done" \/ initproc = current
    BY OthersRest, TreeTypes, FamilyParts DEF AtRest, InitPlaces
  <2>2. want'[initproc] = NULL
    BY <1>0, <1>1, <1>4, TreeTypes DEF InitprocWaits
  <2>3. pc'[initproc] # "init_done"
    BY <1>1, <1>3, <1>4, <2>1, TreeTypes
  <2>4. pc'[initproc] \in InitPlaces
    BY <1>1, <1>3, <1>4, FamilyParts, TreeTypes DEF InitPlaces
  <2>5. \A p \in Slots : pc'[p] \notin InitOnly
    <3> SUFFICES ASSUME NEW p \in Slots PROVE pc'[p] \notin InitOnly
      OBVIOUS
    <3>1. p \in Proc /\ p # initproc /\ pc[p] \notin InitOnly
      BY <1>0, ProcAssumption DEF InitprocWaits, InitOnly, Proc
    <3>2. pc'[p] = IF p = current THEN place ELSE IF p = c THEN "unused" ELSE pc[p]
      BY <1>4, <3>1
    <3>3. p = current => place = "trapret"
      BY <1>3, <3>1
    <3>4. "trapret" \notin InitOnly /\ "unused" \notin InitOnly
      BY DEF InitOnly
    <3> HIDE DEF place
    <3> QED BY <3>1, <3>2, <3>3, <3>4
  <2> QED BY <2>2, <2>3, <2>4, <2>5 DEF InitprocWaits, InitPlaces, InitOnly
<1> QED BY <1>2, <1>5, <1>6, <1>7, <1>8, GoesOn DEF FamilyInv

(* do_wait goes to sleep: it has seen that no child it waits for is a       *)
(* zombie.                                                                  *)
LEMMA BlockFamily ==
  ASSUME ProcInv, ProcInv', FamilyInv, halt = "no", pc[current] \in {"wait", "wait_scan"},
         \A q \in Proc : parent[q] = current /\ want[current] \in {NULL, q} => state[q] # "ZOMBIE",
         wait_block(current), UNCHANGED current
  PROVE  FamilyInv'
<1>0. /\ TreeConsistent /\ ScanCovers /\ NoLostChild /\ InitprocWaits
      /\ ParentsLive /\ ChildListComplete
      /\ current \in Proc \ {idleproc} /\ state[current] = "RUNNABLE" /\ wait_state[current] = "0"
  BY FamilyParts, BusyCurrent DEF Busy
<1>1. /\ UNCHANGED <<treevars, want, nr_process, halt>>
      /\ parent' = parent /\ cptr' = cptr
      /\ \A q \in Proc :
           /\ state'[q] = IF q = current THEN "SLEEPING" ELSE state[q]
           /\ wait_state'[q] = IF q = current THEN "WT_CHILD" ELSE wait_state[q]
           /\ pc'[q] = IF q = current THEN "wait_sched" ELSE pc[q]
  <2>1. wait_state \in [Proc -> WaitStates]
    BY DEF ProcInv, TypeOK
  <2> QED BY <2>1, TreeTypes DEF wait_block, Goto, treevars
<1>2. TreeConsistent'
  <2>1. ASSUME NEW q \in Proc, state'[q] = "ZOMBIE"
        PROVE  pc'[q] = "exit_reparent" \/ \A r \in Proc : parent[r] # q
    BY <1>0, <1>1, <2>1, TreeTypes DEF ParentsLive
  <2> QED BY <1>0, <1>1, <2>1, TreeKept
<1>3. ScanCovers'
  BY <1>0, <1>1 DEF ScanCovers
<1>4. NoLostChild'
  BY <1>0, <1>1 DEF NoLostChild
<1>5. InitprocWaits'
  BY <1>0, <1>1, TreeTypes DEF InitprocWaits
<1> QED BY <1>1, <1>2, <1>3, <1>4, <1>5, GoesOn DEF FamilyInv

(* do_wait finds no child; for initproc that is the end of its loop.        *)
LEMMA NokidFamily ==
  ASSUME ProcInv, ProcInv', FamilyInv, halt = "no", pc[current] \in {"wait", "wait_scan"},
         current = initproc => cptr[initproc] = NULL,
         wait_nokid(current), UNCHANGED current
  PROVE  FamilyInv'
<1>0. /\ current \in Proc \ {idleproc} /\ state[current] = "RUNNABLE" /\ wait_state[current] = "0"
      /\ want[initproc] = NULL
  BY FamilyParts, BusyCurrent DEF Busy
<1> DEFINE place == AfterWait(current, FALSE)
<1>1. place = IF current = initproc THEN "init_done" ELSE "trapret"
  BY DEF AfterWait
<1>2. want \in [Proc -> Proc \cup {NULL}]
  BY DEF ProcInv, TypeOK
<1>3. /\ UNCHANGED <<treevars, state, wait_state, nr_process, halt>>
      /\ \A q \in Proc : want'[q] = IF q = current THEN NULL ELSE want[q]
      /\ \A q \in Proc : pc'[q] = IF q = current THEN place ELSE pc[q]
  BY <1>2, TreeTypes DEF wait_nokid, Goto
<1>4. /\ \A q \in Proc : /\ state'[q] = "UNUSED" <=> state[q] = "UNUSED"
                         /\ state'[q] = "ZOMBIE" <=> state[q] = "ZOMBIE"
                         /\ q # current => pc'[q] = pc[q]
                         /\ wait_state'[q] = "WT_CHILD" =>
                              wait_state[q] = "WT_CHILD" /\ want'[q] = want[q]
      /\ want'[initproc] = want[initproc]
  BY <1>0, <1>3, TreeTypes
<1>5. /\ pc'[current'] # "wait_scan"
      /\ current = initproc => pc'[initproc] = "init_done"
      /\ current \in Slots => pc'[current] = "trapret"
  BY <1>0, <1>1, <1>3, ProcAssumption
<1> QED BY <1>3, <1>4, <1>5, GoesOn, QuietFamily DEF InitPlaces, InitOnly

(* The loop of do_wait begins, or passes a child that is no zombie.         *)
LEMMA LookFamily ==
  ASSUME ProcInv, ProcInv', FamilyInv, halt = "no",
         \/ pc[current] = "wait" /\ kid' = cptr[current]
         \/ pc[current] = "wait_scan" /\ kid # NULL /\ state[kid] # "ZOMBIE" /\ kid' = optr[kid],
         pc' = [pc EXCEPT ![current] = "wait_scan"],
         UNCHANGED <<treevars, state, wait_state, want, nr_process, halt, current>>
  PROVE  FamilyInv'
<1>0. /\ TreeConsistent /\ ScanCovers /\ NoLostChild /\ InitprocWaits
      /\ ParentsLive /\ LinksAgree /\ ChildListComplete
      /\ current \in Proc \ {idleproc} /\ state[current] = "RUNNABLE"
  BY FamilyParts, BusyCurrent DEF Busy
<1>1. /\ \A q \in Proc : pc'[q] = IF q = current THEN "wait_scan" ELSE pc[q]
      /\ parent' = parent /\ cptr' = cptr /\ optr' = optr
  BY TreeTypes DEF treevars
<1>2. TreeConsistent'
  <2>1. ASSUME NEW q \in Proc, state'[q] = "ZOMBIE"
        PROVE  pc'[q] = "exit_reparent" \/ \A r \in Proc : parent[r] # q
    BY <1>0, <1>1, <2>1, TreeTypes DEF ParentsLive
  <2> QED BY <1>0, <1>1, <2>1, TreeKept
<1>3. ScanCovers'
  <2>1. Children(current)' = Children(current) /\ Children(current) \subseteq Proc
    BY <1>1 DEF Children
  <2>2. /\ kid' # NULL => parent[kid'] = current
        /\ \A S \in SUBSET Children(current) :
             PassedFrom(kid', S) => \A q \in Children(current) \ S : state[q] # "ZOMBIE"
    <3>1. CASE pc[current] = "wait" /\ kid' = cptr[current]
      BY <1>0, <3>1 DEF LinksAgree, ChildListComplete
    <3>2. CASE /\ pc[current] = "wait_scan" /\ kid # NULL /\ state[kid] # "ZOMBIE"
               /\ kid' = optr[kid]
      <4>1. kid \in Children(current)
        BY <1>0, <3>2, TreeTypes DEF ScanCovers, Children
      <4>2. kid' # NULL => parent[kid'] = current
        BY <1>0, <3>2, <4>1 DEF LinksAgree, Children
      <4>3. ASSUME NEW S \in SUBSET Children(current), PassedFrom(kid', S)
            PROVE  \A q \in Children(current) \ S : state[q] # "ZOMBIE"
        <5>1. S \cup {kid} \in SUBSET Children(current)
          BY <4>1
        <5>2. PassedFrom(kid, S \cup {kid})
          BY <3>2, <4>3 DEF PassedFrom
        <5>3. \A q \in Children(current) \ (S \cup {kid}) : state[q] # "ZOMBIE"
          BY <1>0, <3>2, <5>1, <5>2 DEF ScanCovers
        <5> QED BY <3>2, <5>3
      <4> QED BY <4>2, <4>3
    <3> QED BY <3>1, <3>2
  <2>3. \A S : PassedFrom(kid, S)' <=> PassedFrom(kid', S)
    BY <1>1 DEF PassedFrom
  <2> QED BY <1>1, <2>1, <2>2, <2>3 DEF ScanCovers
<1>4. NoLostChild'
  BY <1>0, <1>1 DEF NoLostChild
<1>5. InitprocWaits'
  BY <1>0, <1>1, TreeTypes DEF InitprocWaits
<1> QED BY <1>2, <1>3, <1>4, <1>5, GoesOn DEF FamilyInv

(* do_wait frees a zombie child that no other list refers to.               *)
LEMMA WaitFamily ==
  ASSUME ProcInv, ProcInv', FamilyInv, do_wait \/ wait_scan
  PROVE  FamilyInv'
<1>0. /\ TreeConsistent /\ ScanCovers /\ InitprocWaits /\ ChildListComplete /\ LinksAgree
      /\ want[initproc] = NULL
  BY FamilyParts
<1>1. CASE do_wait
  <2> DEFINE c == want[current]
  <2>0. c \in Proc \cup {NULL}
    BY TreeTypes DEF ProcInv, TypeOK
  <2>1. halt = "no" /\ pc[current] = "wait" /\ UNCHANGED <<current, run_list>>
    BY <1>1 DEF do_wait
  <2>2. CASE /\ c = NULL /\ kid' = cptr[current] /\ Goto(current, "wait_scan")
             /\ UNCHANGED <<treevars, state, wait_state, exiting, time_slice, need_resched,
                            timer, want, nr_process, halt>>
    BY <2>1, <2>2, LookFamily DEF Goto
  <2>3. CASE c # NULL /\ state[c] = "ZOMBIE" /\ parent[c] = current /\ reap(current, c)
    BY <2>0, <2>1, <2>3, ReapFamily
  <2>4. CASE c # NULL /\ state[c] # "ZOMBIE" /\ wait_block(current)
    BY <2>1, <2>4, BlockFamily
  <2>5. CASE c # NULL /\ wait_nokid(current)
    BY <1>0, <2>1, <2>5, NokidFamily
  <2> QED BY <1>1, <2>2, <2>3, <2>4, <2>5 DEF do_wait, Live
<1>2. CASE wait_scan
  <2>1. halt = "no" /\ pc[current] = "wait_scan" /\ UNCHANGED <<current, run_list>>
    BY <1>2 DEF wait_scan
  <2>2. CASE kid # NULL /\ state[kid] = "ZOMBIE" /\ reap(current, kid)
    <3>1. kid \in Proc /\ parent[kid] = current
      BY <1>0, <2>1, <2>2, TreeTypes DEF ScanCovers
    <3> QED BY <2>1, <2>2, <3>1, ReapFamily
  <2>3. CASE /\ kid # NULL /\ state[kid] # "ZOMBIE" /\ kid' = optr[kid]
             /\ UNCHANGED <<treevars, procvars, nr_process, halt>>
    <3>1. /\ pc' = [pc EXCEPT ![current] = "wait_scan"]
          /\ UNCHANGED <<state, wait_state, want>>
      BY <2>1, <2>3, TreeTypes DEF procvars
    <3> QED BY <2>1, <2>3, <3>1, LookFamily
  <2>4. CASE kid = NULL /\ wait_block(current)
    <3>1. {} \in SUBSET Children(current) /\ PassedFrom(kid, {})
      BY <2>4 DEF PassedFrom
    <3>2. \A q \in Proc : parent[q] = current => state[q] # "ZOMBIE"
      BY <1>0, <2>1, <3>1 DEF ScanCovers, Children
    <3> QED BY <2>1, <2>4, <3>2, BlockFamily
  <2>5. CASE kid = NULL /\ cptr[current] = NULL /\ wait_nokid(current)
    BY <2>1, <2>5, NokidFamily
  <2> QED BY <1>2, <2>2, <2>3, <2>4, <2>5 DEF wait_scan
<1> QED BY <1>1, <1>2

(* current goes on at another place, or to sleep in do_sleep.               *)
LEMMA MoveFamily ==
  ASSUME ProcInv, ProcInv', FamilyInv, halt = "no", pc[current] # "exit_reparent",
         state[current] = "RUNNABLE", state'[current] \in {"RUNNABLE", "SLEEPING"},
         wait_state'[current] # "WT_CHILD",
         NEW place, pc' = [pc EXCEPT ![current] = place],
         place \notin InitOnly \cup {"wait_scan"}, current = initproc => place \in InitPlaces,
         current # initproc \/ UNCHANGED want,
         \A q \in Proc : q # current => /\ state'[q] = state[q] /\ wait_state'[q] = wait_state[q]
                                       /\ want'[q] = want[q],
         UNCHANGED <<treevars, nr_process, current, halt>>
  PROVE  FamilyInv'
<1>1. \A q \in Proc : pc'[q] = IF q = current THEN place ELSE pc[q]
  BY TreeTypes
<1>2. pc'[current'] # "wait_scan" /\ pc'[current] = place /\ want'[initproc] = want[initproc]
  BY <1>1, TreeTypes
<1>3. /\ current = initproc =>
           /\ pc'[initproc] \in InitPlaces
           /\ pc'[initproc] = "init_done" => pc[initproc] = "init_done" \/ cptr[initproc] = NULL
      /\ current \in Slots => pc'[current] \notin InitOnly
  BY <1>2 DEF InitOnly
<1> QED BY <1>1, <1>2, <1>3, GoesOn, QuietFamily

(* wakeup_proc on sleepers, by a kill or the clock.                         *)
LEMMA WakeFamily ==
  ASSUME ProcInv, ProcInv', FamilyInv, halt = "no",
         NEW W \in SUBSET Proc, NEW slice, wakeup_proc(W, state, slice),
         \A q \in W : state[q] \notin {"UNUSED", "ZOMBIE"},
         \A q \in Proc :
            \/ pc'[q] = pc[q]
            \/ q = current /\ pc[q] = "user" /\ pc'[q] = "trapret"
            \/ pc[q] \in {"read_sched", "read_woken"} /\ pc'[q] = "read_again",
         UNCHANGED <<treevars, want, kid, current, nr_process>>
  PROVE  FamilyInv'
<1>1. state \in [Proc -> States] /\ \A q \in W : state[q] # "ZOMBIE"
  BY TreeTypes
<1>2. /\ halt' = halt
      /\ \A q \in Proc :
           /\ state'[q] = IF q \in W THEN "RUNNABLE" ELSE state[q]
           /\ wait_state'[q] = IF q \in W /\ state[q] # "RUNNABLE" THEN "0" ELSE wait_state[q]
  BY <1>1, WakeFacts
<1>3. \A q \in Proc : /\ state'[q] = "UNUSED" <=> state[q] = "UNUSED"
                      /\ state'[q] = "ZOMBIE" <=> state[q] = "ZOMBIE"
                      /\ wait_state'[q] = "WT_CHILD" => wait_state[q] = "WT_CHILD"
  BY <1>2
<1>4. current \in Proc /\ current' = current
  BY TreeTypes
<1>5. /\ \A q \in Proc : q # current =>
            \/ pc'[q] = pc[q]
            \/ pc[q] \in {"read_sched", "read_woken"} /\ pc'[q] = "read_again"
      /\ pc[current] = "exit_reparent" => pc'[current] = "exit_reparent"
      /\ pc'[current] = "wait_scan" => pc[current] = "wait_scan"
      /\ current = initproc => pc'[initproc] = pc[initproc]
      /\ current \in Slots => pc'[current] \notin InitOnly
  BY <1>4, FamilyParts, TreeTypes, ProcAssumption DEF InitOnly, InitPlaces
<1>6. current = initproc => pc'[initproc] \in InitPlaces
  BY <1>5, FamilyParts
<1> QED BY <1>2, <1>3, <1>4, <1>5, <1>6, GoesOn, QuietFamily

(* schedule moves no process in the tree.                                   *)
LEMMA ScheduleFamily ==
  ASSUME ProcInv, ProcInv', FamilyInv, schedule
  PROVE  FamilyInv'
<1>1. /\ halt = "no" /\ pc[current] \in DOMAIN Resume
      /\ pc' = [pc EXCEPT ![current] = Resume[pc[current]]]
      /\ UNCHANGED <<treevars, state, wait_state, want, kid, nr_process, halt>>
  BY DEF schedule
<1>2. /\ pc'[current] = Resume[pc[current]]
      /\ \A q \in Proc : q # current => pc'[q] = pc[q]
  BY <1>1, TreeTypes
<1>3. /\ pc[current] # "exit_reparent"
      /\ pc'[current] \in {"user", "wait_woken", "sleep_woken", "read_woken", "wait", "dead", "idle"}
      /\ pc[current] = "idle" => pc'[current] = "idle"
      /\ pc[current] \in InitPlaces => pc'[current] \in {"wait_woken", "wait"}
  BY <1>1, <1>2 DEF Resume, InitPlaces
<1>4. pc'[current'] # "wait_scan"
  <2>1. CASE current' = current
    BY <1>3, <2>1
  <2>2. CASE current' # current
    <3>1. current' \in Proc
      BY DEF ProcInv, TypeOK
    <3>2. pc[current'] # "wait_scan"
      BY <2>2, <3>1, OthersRest DEF AtRest
    <3> QED BY <1>2, <2>2, <3>1, <3>2
  <2> QED BY <2>1, <2>2
<1>5. /\ current = initproc => pc'[initproc] \in InitPlaces /\ pc'[initproc] # "init_done"
      /\ current \in Slots => pc'[current] \notin InitOnly
  BY <1>3, FamilyParts DEF InitPlaces, InitOnly
<1> QED BY <1>1, <1>2, <1>3, <1>4, <1>5, GoesOn, QuietFamily

(* The asserts at the end of init_main hold: nobody but the two kernel      *)
(* threads is left.                                                         *)
LEMMA AllReaped ==
  ASSUME ProcInv, FamilyInv, pc[current] = "init_done"
  PROVE  /\ \A p \in Slots : ~ Live(p)
         /\ cptr[initproc] = NULL /\ yptr[initproc] = NULL /\ optr[initproc] = NULL
         /\ nr_process = 2
<1>0. /\ InitprocWaits /\ ParentsLive /\ LinksAgree /\ ChildListComplete /\ NoCycle /\ CountAgrees
      /\ current = initproc
  BY FamilyParts DEF TreeConsistent, InitOnly
<1>1. cptr[initproc] = NULL /\ \A q \in Proc : parent[q] # initproc
  BY <1>0, NoChildren, TreeTypes DEF InitprocWaits
<1>2. {q \in Slots : Live(q)} = {}
  <2> SUFFICES ASSUME {q \in Slots : Live(q)} # {} PROVE FALSE
    OBVIOUS
  <2>1. PICK q \in {q \in Slots : Live(q)} : parent[q] \notin {r \in Slots : Live(r)}
    BY <1>0 DEF NoCycle
  <2>2. q \in Proc /\ q # initproc /\ q # idleproc
    BY ProcAssumption DEF Proc
  <2>3. Live(parent[q]) /\ parent[q] \in Proc /\ parent[q] # idleproc
    BY <1>0, <2>1, <2>2, TreeTypes DEF ParentsLive
  <2> QED BY <1>1, <2>1, <2>2, <2>3, TreeTypes
<1>3. parent[initproc] = idleproc /\ \A q \in Proc : parent[q] = idleproc => q = initproc
  BY <1>0, TreeTypes DEF ParentsLive, Live
<1>4. cptr[idleproc] = initproc
  <2>1. cptr[idleproc] # NULL
    BY <1>0, <1>3, NoChildren, TreeTypes
  <2> QED BY <1>0, <1>3, <2>1, TreeTypes DEF LinksAgree
<1>5. yptr[initproc] = NULL
  BY <1>0, <1>3, <1>4, TreeTypes DEF LinksAgree
<1>6. optr[initproc] = NULL
  <2> SUFFICES ASSUME optr[initproc] # NULL PROVE FALSE
    OBVIOUS
  <2>1. optr[initproc] = initproc
    BY <1>0, <1>3, TreeTypes DEF LinksAgree
  <2> QED BY <1>0, <1>4, <2>1, TreeTypes DEF LinksAgree
<1>7. nr_process = 2
  <2>1. {p \in Proc : Live(p)} = {idleproc} \cup {initproc}
    BY <1>2, TreeTypes DEF Live
  <2>2. IsFiniteSet({idleproc}) /\ Cardinality({idleproc}) = 1
    BY FS_Singleton
  <2>3. Cardinality({idleproc} \cup {initproc}) = 2
    <3>1. initproc \notin {idleproc}
      BY ProcAssumption
    <3>2. Cardinality({idleproc} \cup {initproc}) = Cardinality({idleproc}) + 1
      BY <2>2, <3>1, FS_AddElement
    <3> QED BY <2>2, <3>2
  <2> QED BY <1>0, <2>1, <2>3 DEF CountAgrees
<1> QED BY <1>1, <1>2, <1>5, <1>6, <1>7

(* dev_stdin_read going to sleep for a key.                                 *)
LEMMA ReadFamily ==
  ASSUME ProcInv, ProcInv', FamilyInv, halt = "no", pc[current] \in Busy,
         current # initproc, read_block(current)
  PROVE  FamilyInv'
<1>1. /\ state[current] = "RUNNABLE" /\ pc[current] # "exit_reparent"
      /\ wait_state \in [Proc -> WaitStates] /\ current \in Proc
  BY BusyCurrent DEF Busy, ProcInv, TypeOK
<1>2. /\ state' = [state EXCEPT ![current] = "SLEEPING"]
      /\ wait_state' = [wait_state EXCEPT ![current] = "WT_KBD"]
      /\ pc' = [pc EXCEPT ![current] = "read_sched"]
      /\ UNCHANGED <<treevars, want, nr_process, current, halt>>
  BY DEF read_block, Goto
<1>3. /\ state'[current] = "SLEEPING" /\ wait_state'[current] # "WT_CHILD"
      /\ \A q \in Proc : q # current => state'[q] = state[q] /\ wait_state'[q] = wait_state[q]
  BY <1>1, <1>2, TreeTypes
<1>4. "read_sched" \notin InitOnly \cup {"wait_scan"}
  BY DEF InitOnly
<1> QED BY <1>1, <1>2, <1>3, <1>4, MoveFamily

(* System calls of a user process.                                          *)
LEMMA UserFamily ==
  ASSUME ProcInv, ProcInv', FamilyInv, NEW p \in Slots, UserStep(p)
  PROVE  FamilyInv'
<1>1. /\ current = p /\ pc[current] = "user" /\ halt = "no"
      /\ pc[current] \in Busy \ {"sleep_woken"} /\ current # initproc
      /\ state[current] = "RUNNABLE" /\ wait_state[current] = "0" /\ current \in Proc
      /\ state[current] \in {"RUNNABLE", "SLEEPING"}
  <2>1. current = p /\ pc[current] = "user" /\ halt = "no"
    BY DEF UserStep, sys_fork, sys_noop, sys_exit, sys_wait, sys_kill, do_yield, do_sleep,
           sys_read, sys_panic, InUser
  <2>2. pc[current] \in Busy \ {"sleep_woken"}
    BY <2>1 DEF Busy
  <2> QED BY <2>1, <2>2, BusyCurrent, ProcAssumption
<1>2. /\ "trapret" \notin InitOnly \cup {"wait_scan"} /\ "wait" \notin InitOnly \cup {"wait_scan"}
      /\ "sleep_sched" \notin InitOnly \cup {"wait_scan"}
  BY DEF InitOnly
<1>3. CASE sys_fork(p)
  BY <1>1, <1>3, ForkFamily DEF sys_fork
<1>4. CASE sys_noop(p)
  <2>1. /\ pc' = [pc EXCEPT ![current] = "trapret"]
        /\ UNCHANGED <<treevars, state, wait_state, want, nr_process, current, halt>>
    BY <1>1, <1>4 DEF sys_noop, Jump, Goto
  <2> QED BY <1>1, <1>2, <2>1, MoveFamily
<1>5. CASE sys_exit(p)
  BY <1>1, <1>5, ExitFamily DEF sys_exit
<1>6. CASE sys_wait(p)
  <2>1. /\ pc' = [pc EXCEPT ![current] = "wait"]
        /\ UNCHANGED <<treevars, state, wait_state, nr_process, current, halt>>
        /\ \A q \in Proc : q # current => want'[q] = want[q]
    BY <1>1, <1>6 DEF sys_wait, Goto, ProcInv, TypeOK
  <2> QED BY <1>1, <1>2, <2>1, MoveFamily
<1>7. CASE sys_kill(p)
  <2>1. /\ pc' = [pc EXCEPT ![current] = "trapret"]
        /\ UNCHANGED <<treevars, want, kid, current, nr_process>>
    BY <1>1, <1>7 DEF sys_kill, Goto
  <2>2. PICK q \in Proc \ {idleproc} :
          IF Live(q) /\ ~ exiting[q]
          THEN wakeup_proc({r \in {q} : wait_state[r] \in Interruptible}, state, time_slice)
          ELSE UNCHANGED <<exiting, state, wait_state, run_list, time_slice, halt>>
    BY <1>7 DEF sys_kill
  <2>3. CASE Live(q) /\ ~ exiting[q]
    <3> DEFINE W == {r \in {q} : wait_state[r] \in Interruptible}
    <3>1. W \in SUBSET Proc /\ wakeup_proc(W, state, time_slice)
      BY <2>2, <2>3
    <3>2. \A r \in W : state[r] \notin {"UNUSED", "ZOMBIE"}
      BY FamilyParts DEF Interruptible
    <3>3. \A r \in Proc : pc'[r] = pc[r] \/ (r = current /\ pc[r] = "user" /\ pc'[r] = "trapret")
      BY <1>1, <2>1, TreeTypes
    <3> HIDE DEF W
    <3> QED BY <1>1, <2>1, <3>1, <3>2, <3>3, WakeFamily
  <2>4. CASE ~ (Live(q) /\ ~ exiting[q])
    <3>1. UNCHANGED <<state, wait_state, halt>>
      BY <2>2, <2>4
    <3> QED BY <1>1, <1>2, <2>1, <3>1, MoveFamily
  <2> QED BY <2>3, <2>4
<1>8. CASE do_yield(p)
  <2>1. /\ pc' = [pc EXCEPT ![current] = "trapret"]
        /\ UNCHANGED <<treevars, state, wait_state, want, nr_process, current, halt>>
    BY <1>1, <1>8 DEF do_yield, Goto
  <2> QED BY <1>1, <1>2, <2>1, MoveFamily
<1>9. CASE do_sleep(p)
  <2>1. UNCHANGED <<treevars, want, nr_process, current, halt>>
    BY <1>9 DEF do_sleep
  <2>2. PICK place \in {"trapret", "sleep_sched"} :
          /\ pc' = [pc EXCEPT ![current] = place]
          /\ IF place = "trapret" THEN UNCHANGED <<state, wait_state>>
             ELSE /\ state' = [state EXCEPT ![current] = "SLEEPING"]
                  /\ wait_state' = [wait_state EXCEPT ![current] = "WT_TIMER"]
    <3>1. \/ Goto(p, "trapret") /\ UNCHANGED <<state, wait_state>>
          \/ /\ state' = [state EXCEPT ![p] = "SLEEPING"]
             /\ wait_state' = [wait_state EXCEPT ![p] = "WT_TIMER"]
             /\ Goto(p, "sleep_sched")
      BY <1>9 DEF do_sleep
    <3> QED BY <1>1, <3>1 DEF Goto
  <2>3. wait_state \in [Proc -> WaitStates]
    BY DEF ProcInv, TypeOK
  <2>4. /\ state'[current] \in {"RUNNABLE", "SLEEPING"} /\ wait_state'[current] # "WT_CHILD"
        /\ \A q \in Proc : q # current => state'[q] = state[q] /\ wait_state'[q] = wait_state[q]
    BY <1>1, <2>2, <2>3, TreeTypes
  <2> QED BY <1>1, <1>2, <2>1, <2>2, <2>4, MoveFamily
<1>10. CASE sys_read(p)
  BY <1>1, <1>10, ReadFamily DEF sys_read
<1>11. CASE sys_panic(p)
  <2>1. /\ halt' = "trap"
        /\ UNCHANGED <<treevars, procvars, kid, current, run_list, nr_process>>
    BY <1>11 DEF sys_panic
  <2>2. EndsInOrder'
    BY <2>1 DEF EndsInOrder
  <2> QED BY <2>1, <2>2, StopFamily
<1> QED BY <1>3, <1>4, <1>5, <1>6, <1>7, <1>8, <1>9, <1>10, <1>11 DEF UserStep

(* current goes on at another place and nothing else changes.               *)
LEMMA JumpFamily ==
  ASSUME ProcInv, ProcInv', FamilyInv, halt = "no", pc[current] \in Busy,
         NEW place \in {"user", "trapret", "resched", "wait"}, Jump(current, place),
         current = initproc => place = "wait"
  PROVE  FamilyInv'
<1>1. state[current] = "RUNNABLE" /\ wait_state[current] = "0" /\ pc[current] # "exit_reparent"
  BY BusyCurrent DEF Busy
<1>2. /\ pc' = [pc EXCEPT ![current] = place]
      /\ UNCHANGED <<treevars, state, wait_state, want, nr_process, current, halt>>
  BY DEF Jump, Goto
<1>3. place \notin InitOnly \cup {"wait_scan"} /\ (current = initproc => place \in InitPlaces)
  BY DEF InitOnly, InitPlaces
<1> QED BY <1>1, <1>2, <1>3, MoveFamily

(* Steps of the kernel.                                                     *)
LEMMA KernelFamily ==
  ASSUME ProcInv, ProcInv', FamilyInv, KernelStep
  PROVE  FamilyInv'
<1>1. CASE exit_leave
  <2>1. /\ halt = "no" /\ pc[current] = "exit_reparent" /\ cptr[current] = NULL
        /\ pc' = [pc EXCEPT ![current] = "exit_sched"]
        /\ UNCHANGED <<treevars, state, wait_state, want, kid, current, nr_process, halt>>
    BY <1>1 DEF exit_leave, Jump, Goto
  <2>2. current # initproc
    BY <2>1, FamilyParts DEF InitPlaces
  <2>3. /\ pc'[current] = "exit_sched" /\ pc'[current'] # "wait_scan"
        /\ \A q \in Proc : q # current => pc'[q] = pc[q]
        /\ pc'[current] \notin InitOnly
    BY <2>1, TreeTypes DEF InitOnly
  <2> QED BY <2>1, <2>2, <2>3, GoesOn, QuietFamily
<1>2. CASE sleep_woken
  <2>1. /\ halt = "no" /\ pc[current] = "sleep_woken"
        /\ pc' = [pc EXCEPT ![current] = "trapret"]
        /\ UNCHANGED <<treevars, state, wait_state, want, nr_process, current, halt>>
    BY <1>2 DEF sleep_woken, Goto
  <2>2. /\ state[current] = "RUNNABLE" /\ wait_state[current] = "0" /\ current # initproc
        /\ "trapret" \notin InitOnly \cup {"wait_scan"}
    BY <2>1, BusyCurrent, FamilyParts DEF Busy, InitPlaces, InitOnly
  <2> QED BY <2>1, <2>2, MoveFamily
<1>3. CASE wait_woken
  <2>1. /\ halt = "no" /\ pc[current] = "wait_woken"
        /\ (do_exit(current) /\ exiting[current]) \/ Jump(current, "wait")
    BY <1>3 DEF wait_woken
  <2> QED BY <2>1, ExitFamily, JumpFamily DEF Busy
<1>4. CASE trap_return
  <2>1. /\ halt = "no" /\ pc[current] = "trapret"
        /\ do_exit(current) \/ Jump(current, "resched") \/ Jump(current, "user")
    BY <1>4 DEF trap_return
  <2>2. current # initproc
    BY <2>1, FamilyParts DEF InitPlaces
  <2> QED BY <2>1, <2>2, ExitFamily, JumpFamily DEF Busy
<1>5. CASE init_main
  <2>1. halt = "no" /\ current = initproc /\ pc[current] = "init_main"
    BY <1>5 DEF init_main
  <2>2. CASE \E c \in Slots : do_fork(initproc, c, "wait", "user_main")
    BY <2>1, <2>2, ForkFamily
  <2>3. CASE /\ halt' = "panic"
             /\ UNCHANGED <<treevars, procvars, kid, current, run_list, nr_process>>
    <3>1. EndsInOrder'
      BY <2>1, <2>3 DEF EndsInOrder, procvars
    <3> QED BY <2>3, <3>1, StopFamily
  <2> QED BY <1>5, <2>2, <2>3 DEF init_main
<1>6. CASE user_main
  <2>1. /\ halt = "no" /\ pc[current] = "user_main"
        /\ Jump(current, "user") \/ do_exit(current)
    BY <1>6 DEF user_main
  <2>2. current # initproc
    BY <2>1, FamilyParts DEF InitPlaces
  <2> QED BY <2>1, <2>2, ExitFamily, JumpFamily DEF Busy
<1>7. CASE init_done
  <2>1. /\ pc[current] = "init_done"
        /\ UNCHANGED <<treevars, procvars, kid, current, run_list, nr_process>>
    BY <1>7 DEF init_done
  <2>2. halt' = "end"
    BY <1>7, <2>1, AllReaped DEF init_done
  <2>3. EndsInOrder'
    BY <2>1, <2>2, AllReaped DEF EndsInOrder, Live, procvars
  <2> QED BY <2>1, <2>3, StopFamily
<1>8. CASE read_woken \/ read_again
  <2>1. /\ halt = "no" /\ pc[current] \in {"read_woken", "read_again"}
        /\ Jump(current, "trapret") \/ read_block(current)
    BY <1>8 DEF read_woken, read_again
  <2>2. current # initproc
    BY <2>1, FamilyParts DEF InitPlaces
  <2> QED BY <2>1, <2>2, JumpFamily, ReadFamily DEF Busy
<1> QED BY <1>1, <1>2, <1>3, <1>4, <1>5, <1>6, <1>7, <1>8,
           ScheduleFamily, ReparentFamily, WaitFamily
           DEF KernelStep

(* Whom a tick wakes: owners of timers that run out, and readers of stdin.  *)
LEMMA TickOwners ==
  ASSUME ProcInv, NEW p \in Proc, timer[p] = 1 \/ p \in stdin_queue
  PROVE  state[p] \in {"SLEEPING", "RUNNABLE"} /\ (wait_state[p] = "WT_TIMER" => timer[p] = 1)
<1>1. /\ pc[p] \in {"sleep_sched", "sleep_woken", "read_sched", "read_woken"}
      /\ wait_state[p] = "WT_TIMER" => timer[p] = 1
  BY DEF ProcInv, TimerOwnerInDoSleep, PlacesAgree, stdin_queue
<1>2. state[p] # "UNUSED" /\ state[p] # "ZOMBIE"
  BY <1>1 DEF ProcInv, PlacesAgree
<1> QED BY <1>1, <1>2, TreeTypes DEF States

(* A tick wakes sleepers and moves no process in the tree.                  *)
LEMMA TickFamily ==
  ASSUME ProcInv, ProcInv', FamilyInv, Tick
  PROVE  FamilyInv'
<1> DEFINE charged == IF current = idleproc THEN time_slice
                      ELSE [time_slice EXCEPT ![current] = Charge(@)]
<1>1. halt = "no" /\ UNCHANGED <<treevars, want, kid, current, nr_process>>
  BY DEF Tick
<1> PICK readers \in {{}, stdin_queue} :
        /\ wakeup_proc({p \in Proc : timer[p] = 1} \cup readers, state, charged)
        /\ pc' = [p \in Proc |->
                     CASE p \in readers -> "read_again"
                       [] p \notin readers /\ p = current /\ pc[p] = "user" -> "trapret"
                       [] OTHER -> pc[p]]
  BY DEF Tick
<1> DEFINE W == {p \in Proc : timer[p] = 1} \cup readers
<1>2. wakeup_proc(W, state, charged)
  OBVIOUS
<1>3. \A q \in Proc :
         \/ pc'[q] = pc[q]
         \/ q = current /\ pc[q] = "user" /\ pc'[q] = "trapret"
         \/ pc[q] \in {"read_sched", "read_woken"} /\ pc'[q] = "read_again"
  BY DEF stdin_queue
<1>4. W \in SUBSET Proc /\ \A q \in W : state[q] \notin {"UNUSED", "ZOMBIE"}
  BY TickOwners DEF stdin_queue
<1> HIDE DEF W, charged
<1> QED BY <1>1, <1>2, <1>3, <1>4, WakeFamily

(* Every step keeps the tree of processes consistent.                       *)
LEMMA FamilyStep == ProcInv /\ FamilyInv /\ [Next]_vars => FamilyInv'
<1> SUFFICES ASSUME ProcInv, FamilyInv, [Next]_vars PROVE FamilyInv'
  OBVIOUS
<1>0. ProcInv'
  BY ProcInvStep
<1>1. CASE Halted \/ UNCHANGED vars
  <2>1. halt' = halt /\ UNCHANGED <<treevars, procvars, kid, current, run_list, nr_process>>
    BY <1>1 DEF Halted, vars
  <2>2. EndsInOrder'
    BY <2>1, FamilyParts DEF EndsInOrder, Live, procvars
  <2> QED BY <1>0, <2>1, <2>2, StopFamily
<1> QED BY <1>0, <1>1, UserFamily, KernelFamily, TickFamily DEF Next

(* The tree after proc_init: initproc is the only child of idleproc.        *)
LEMMA FamilyInit == Init => FamilyInv
<1> SUFFICES ASSUME Init PROVE FamilyInv
  OBVIOUS
<1>0. /\ NULL \notin Proc /\ idleproc \in Proc /\ initproc \in Proc /\ idleproc # initproc
      /\ idleproc \notin Slots /\ initproc \notin Slots /\ Proc = Slots \cup {idleproc, initproc}
  BY ProcAssumption DEF Proc
<1>1. /\ \A q \in Proc : /\ state[q] = IF q \in Slots THEN "UNUSED" ELSE "RUNNABLE"
                         /\ wait_state[q] = "0" /\ want[q] = NULL
                         /\ parent[q] = IF q = initproc THEN idleproc ELSE NULL
                         /\ cptr[q] = IF q = idleproc THEN initproc ELSE NULL
                         /\ optr[q] = NULL /\ yptr[q] = NULL
      /\ nr_process = 2 /\ halt = "no" /\ current = idleproc
  BY <1>0 DEF Init
<1>2. pc[idleproc] = "idle" /\ pc[initproc] = "init_main" /\ \A p \in Slots : pc[p] = "unused"
  BY <1>0 DEF Init
<1>3. ParentsLive
  BY <1>0, <1>1 DEF ParentsLive, Live
<1>4. LinksAgree
  BY <1>0, <1>1 DEF LinksAgree
<1>5. ChildListComplete
  <2>1. \A p \in Proc : Children(p) = IF p = idleproc THEN {initproc} ELSE {}
    BY <1>0, <1>1 DEF Children
  <2> QED BY <1>0, <1>1, <2>1 DEF ChildListComplete, PassedFrom
<1>6. NoCycle
  BY <1>0, <1>1 DEF NoCycle, Live
<1>7. CountAgrees
  <2>1. {p \in Proc : Live(p)} = {idleproc} \cup {initproc}
    BY <1>0, <1>1 DEF Live
  <2>2. IsFiniteSet({idleproc}) /\ Cardinality({idleproc}) = 1 /\ initproc \notin {idleproc}
    BY <1>0, FS_Singleton
  <2>3. Cardinality({idleproc} \cup {initproc}) = Cardinality({idleproc}) + 1
    BY <2>2, FS_AddElement
  <2> QED BY <1>1, <2>1, <2>2, <2>3 DEF CountAgrees
<1>8. ScanCovers /\ NoLostChild /\ InitprocWaits /\ EndsInOrder
  BY <1>0, <1>1, <1>2 DEF ScanCovers, NoLostChild, InitprocWaits, EndsInOrder
<1> QED BY <1>3, <1>4, <1>5, <1>6, <1>7, <1>8 DEF FamilyInv, TreeConsistent

(* The process tree stays what do_fork, do_exit and do_wait take it for, no *)
(* parent sleeps beside a zombie it waits for, and do_exit, do_wait and     *)
(* init_main stop the kernel only in order, for any number of processes.    *)
THEOREM FamilyInvariant == Spec => []FamilyInv
<1>1. Init => ProcInv /\ FamilyInv
  BY ProcInvInit, FamilyInit
<1>2. ProcInv /\ FamilyInv /\ [Next]_vars => (ProcInv /\ FamilyInv)'
  BY ProcInvStep, FamilyStep
<1> QED BY <1>1, <1>2, PTL DEF Spec

(* The process tree, for any number of processes: links, lists of children, *)
(* ancestry and count fit after any sequence of forks, exits and reaps.     *)
THEOREM TreeCorrect == Spec => []TreeConsistent
<1>1. FamilyInv => TreeConsistent
  BY DEF FamilyInv
<1> QED BY <1>1, FamilyInvariant, PTL

(* No process sleeps in do_wait while the child it waits for is a zombie,   *)
(* although initproc inherits children, zombies among them, at any time.    *)
THEOREM NoWakeupLost == Spec => []NoLostChild
<1>1. FamilyInv => NoLostChild
  BY DEF FamilyInv
<1> QED BY <1>1, FamilyInvariant, PTL

(* The asserts of wakeup_proc and init_main hold: of the panics of do_exit, *)
(* do_wait and init_main none comes but without a first process or after a  *)
(* kill of initproc, and init_main ends only when every user process has    *)
(* been reaped.  The panics of sys_panic are not among them.                *)
THEOREM StopsInOrder == Spec => []EndsInOrder
<1>1. FamilyInv => EndsInOrder
  BY DEF FamilyInv
<1> QED BY <1>1, FamilyInvariant, PTL

-----------------------------------------------------------------------------
(* What a step may do to a zombie and to a sleeper.                        *)
Fate(q) ==
    /\ state[q] = "ZOMBIE" =>
         state'[q] = "ZOMBIE" \/ (state'[q] = "UNUSED" /\ parent[q] = current)
    /\ wait_state[q] = "WT_TIMER" =>
         \/ wait_state'[q] = "WT_TIMER"
         \/ timer[q] = 1 /\ timer'[q] = 0
         \/ exiting'[q]

(* wakeup_proc touches no zombie, and a sleeper only as the caller may.     *)
LEMMA WokenFate ==
  ASSUME ProcInv, NEW W \in SUBSET Proc, NEW st \in [Proc -> States], NEW slice,
         wakeup_proc(W, st, slice),
         \A q \in Proc : state[q] = "ZOMBIE" => st[q] = "ZOMBIE",
         \A q \in W : /\ st[q] # "ZOMBIE"
                      /\ wait_state[q] = "WT_TIMER" =>
                           \/ timer[q] = 1 /\ timer'[q] = 0
                           \/ exiting'[q]
  PROVE  \A q \in Proc : Fate(q)
<1>1. \A q \in Proc :
        /\ state'[q] = IF q \in W THEN "RUNNABLE" ELSE st[q]
        /\ wait_state'[q] = IF q \in W /\ st[q] # "RUNNABLE" THEN "0" ELSE wait_state[q]
  BY WakeFacts
<1> QED BY <1>1 DEF Fate

(* do_exit wakes a parent that waits for a child, which no timer waits for. *)
LEMMA ExitFate ==
  ASSUME ProcInv, pc[current] \in Busy, do_exit(current)
  PROVE  \A q \in Proc : Fate(q)
<1>0. /\ current \in Proc /\ state[current] = "RUNNABLE" /\ wait_state[current] = "0"
      /\ \A q \in Proc : wait_state[q] # "0" => state[q] = "SLEEPING"
  BY BusyCurrent DEF ProcInv, PlacesAgree
<1>1. CASE current \in {idleproc, initproc}
  BY <1>1 DEF do_exit, procvars, Fate
<1>2. CASE current \notin {idleproc, initproc}
  <2> DEFINE W == {q \in Proc : q = parent[current] /\ wait_state[q] = "WT_CHILD"}
             st == [state EXCEPT ![current] = "ZOMBIE"]
  <2>1. wakeup_proc(W, st, time_slice)
    BY <1>2 DEF do_exit
  <2>2. /\ W \in SUBSET Proc /\ st \in [Proc -> States]
        /\ \A q \in Proc : state[q] = "ZOMBIE" => st[q] = "ZOMBIE"
        /\ \A q \in W : st[q] # "ZOMBIE" /\ wait_state[q] # "WT_TIMER"
    BY <1>0, TreeTypes DEF States
  <2> HIDE DEF W, st
  <2> QED BY <2>1, <2>2, WokenFate
<1> QED BY <1>1, <1>2

(* do_fork wakes the new process, which neither was a zombie nor slept.     *)
LEMMA ForkFate ==
  ASSUME ProcInv, NEW p, NEW c \in Slots, NEW after, NEW entry, do_fork(p, c, after, entry)
  PROVE  \A q \in Proc : Fate(q)
<1>1. wakeup_proc({c}, state, time_slice) /\ state[c] = "UNUSED" /\ c \in Proc
  BY DEF do_fork, Live, Proc
<1>2. wait_state[c] # "WT_TIMER"
  BY <1>1 DEF ProcInv, PlacesAgree
<1>3. {c} \in SUBSET Proc /\ \A q \in {c} : state[q] # "ZOMBIE" /\ wait_state[q] # "WT_TIMER"
  BY <1>1, <1>2
<1> QED BY <1>1, <1>3, WokenFate, TreeTypes

(* do_kill wakes at most the process it marks as exiting.                   *)
LEMMA KillFate ==
  ASSUME ProcInv, NEW p \in Slots, sys_kill(p)
  PROVE  \A q \in Proc : Fate(q)
<1>1. PICK r \in Proc \ {idleproc} :
          IF Live(r) /\ ~ exiting[r]
          THEN /\ exiting' = [exiting EXCEPT ![r] = TRUE]
               /\ wakeup_proc({q \in {r} : wait_state[q] \in Interruptible}, state, time_slice)
          ELSE UNCHANGED <<exiting, state, wait_state, run_list, time_slice, halt>>
  BY DEF sys_kill
<1>2. CASE Live(r) /\ ~ exiting[r]
  <2> DEFINE W == {q \in {r} : wait_state[q] \in Interruptible}
  <2>1. W \in SUBSET Proc /\ wakeup_proc(W, state, time_slice)
    BY <1>1, <1>2
  <2>2. \A q \in W : state[q] # "ZOMBIE"
    BY DEF ProcInv, PlacesAgree, Interruptible
  <2>3. \A q \in W : exiting'[q]
    BY <1>1, <1>2 DEF ProcInv, TypeOK
  <2> HIDE DEF W
  <2> QED BY <2>1, <2>2, <2>3, WokenFate, TreeTypes
<1>3. CASE ~ (Live(r) /\ ~ exiting[r])
  BY <1>1, <1>3 DEF Fate
<1> QED BY <1>2, <1>3

(* A tick wakes no sleeper whose timer goes on.                             *)
LEMMA TickFate ==
  ASSUME ProcInv, Tick
  PROVE  \A q \in Proc : Fate(q)
<1> DEFINE charged == IF current = idleproc THEN time_slice
                      ELSE [time_slice EXCEPT ![current] = Charge(@)]
<1> PICK readers \in {{}, stdin_queue} :
        wakeup_proc({p \in Proc : timer[p] = 1} \cup readers, state, charged)
  BY DEF Tick
<1> DEFINE W == {p \in Proc : timer[p] = 1} \cup readers
<1>1. wakeup_proc(W, state, charged) /\ timer' = TimersAfterTick
  BY DEF Tick
<1>2. W \in SUBSET Proc
  BY DEF stdin_queue
<1>3. \A q \in W : state[q] # "ZOMBIE" /\ (wait_state[q] = "WT_TIMER" => timer[q] = 1 /\ timer'[q] = 0)
  BY <1>1, <1>2, TickOwners DEF TimersAfterTick
<1> HIDE DEF W, charged
<1> QED BY <1>1, <1>2, <1>3, WokenFate, TreeTypes

(* Handing children over wakes init only, and only if it waits for a child. *)
LEMMA ReparentFate ==
  ASSUME ProcInv, exit_reparent
  PROVE  \A q \in Proc : Fate(q)
<1> DEFINE W == {q \in {initproc} : state[cptr[current]] = "ZOMBIE" /\ wait_state[q] = "WT_CHILD"}
<1>1. wakeup_proc(W, state, time_slice)
  BY DEF exit_reparent
<1>2. W \in SUBSET Proc /\ \A q \in W : state[q] # "ZOMBIE" /\ wait_state[q] # "WT_TIMER"
  BY TreeTypes
<1> HIDE DEF W
<1> QED BY <1>1, <1>2, WokenFate, TreeTypes

(* The child that wait_scan reaps is one of the process that waits.         *)
LEMMA WaitFate ==
  ASSUME ProcInv, FamilyInv, do_wait \/ wait_scan
  PROVE  \A q \in Proc : Fate(q)
<1>0. /\ current \in Proc /\ state[current] = "RUNNABLE" /\ wait_state[current] = "0"
      /\ wait_state \in [Proc -> WaitStates]
  BY BusyCurrent DEF do_wait, wait_scan, Busy, ProcInv, TypeOK
<1>1. \/ UNCHANGED <<state, wait_state>>
      \/ wait_block(current)
      \/ \E c \in Proc : parent[c] = current /\ reap(current, c)
  <2>1. want[current] \in Proc \cup {NULL} /\ kid \in Proc \cup {NULL}
    BY <1>0 DEF ProcInv, TypeOK
  <2>2. CASE do_wait
    BY <2>1, <2>2 DEF do_wait, wait_nokid
  <2>3. CASE wait_scan
    <3>1. kid # NULL => parent[kid] = current
      BY <2>3, FamilyParts DEF ScanCovers, wait_scan
    <3> QED BY <2>1, <2>3, <3>1 DEF wait_scan, wait_nokid, procvars
  <2> QED BY <2>2, <2>3
<1>2. CASE UNCHANGED <<state, wait_state>>
  BY <1>2 DEF Fate
<1>3. CASE wait_block(current)
  <2>1. \A q \in Proc : q # current => state'[q] = state[q] /\ wait_state'[q] = wait_state[q]
    BY <1>0, <1>3, TreeTypes DEF wait_block
  <2> QED BY <1>0, <2>1 DEF Fate
<1>4. ASSUME NEW c \in Proc, parent[c] = current, reap(current, c) PROVE \A q \in Proc : Fate(q)
  <2>1. /\ wait_state' = wait_state
        /\ \A q \in Proc : state'[q] = state[q] \/ (q = c /\ state'[q] = "UNUSED")
    <3>1. /\ wait_state' = wait_state
          /\ state' = state \/ state' = [state EXCEPT ![c] = "UNUSED"]
      BY <1>4, Zenon DEF reap, procvars
    <3> QED BY <3>1, TreeTypes
  <2> QED BY <1>4, <2>1 DEF Fate
<1> QED BY <1>1, <1>2, <1>3, <1>4

(* Who goes to sleep for a key neither was a zombie nor slept.              *)
LEMMA ReadFate ==
  ASSUME ProcInv, pc[current] \in Busy, read_block(current)
  PROVE  \A q \in Proc : Fate(q)
<1>1. state[current] = "RUNNABLE" /\ wait_state[current] = "0"
  BY BusyCurrent
<1>2. \A q \in Proc : q # current => state'[q] = state[q] /\ wait_state'[q] = wait_state[q]
  BY TreeTypes DEF read_block, ProcInv, TypeOK
<1> QED BY <1>1, <1>2 DEF Fate

(* So only its parent's do_wait frees a zombie, and a sleeper goes on when its*)
(* timer runs out or it is killed.                                          *)
LEMMA StepFate ==
  ASSUME ProcInv, FamilyInv, [Next]_vars
  PROVE  \A q \in Proc : Fate(q)
<1>1. ASSUME NEW p \in Slots, UserStep(p) PROVE \A q \in Proc : Fate(q)
  <2>1. pc[current] \in Busy /\ current = p
    BY <1>1 DEF UserStep, sys_fork, sys_noop, sys_exit, sys_wait, sys_kill, do_yield, do_sleep,
                sys_read, sys_panic, InUser, Busy
  <2>2. CASE sys_fork(p)
    BY <2>2, ForkFate DEF sys_fork
  <2>3. CASE sys_noop(p) \/ sys_wait(p) \/ do_yield(p)
    BY <2>3 DEF sys_noop, sys_wait, do_yield, Jump, Fate
  <2>4. CASE sys_exit(p)
    BY <2>1, <2>4, ExitFate DEF sys_exit
  <2>5. CASE do_sleep(p)
    <3>1. \A q \in Proc : q # p => state'[q] = state[q] /\ wait_state'[q] = wait_state[q]
      BY <2>5, TreeTypes DEF do_sleep, ProcInv, TypeOK
    <3>2. state[p] = "RUNNABLE" /\ wait_state[p] = "0"
      BY <2>1, BusyCurrent
    <3> QED BY <3>1, <3>2 DEF Fate
  <2>6. CASE sys_read(p)
    BY <2>1, <2>6, ReadFate DEF sys_read
  <2>7. CASE sys_panic(p)
    BY <2>7 DEF sys_panic, procvars, Fate
  <2> QED BY <1>1, <2>2, <2>3, <2>4, <2>5, <2>6, <2>7, KillFate DEF UserStep
<1>2. CASE KernelStep
  <2>1. CASE schedule \/ exit_leave \/ sleep_woken \/ init_done
    BY <2>1 DEF schedule, exit_leave, sleep_woken, init_done, Jump, procvars, Fate
  <2>2. CASE wait_woken \/ trap_return \/ user_main
    <3>1. pc[current] \in Busy
      BY <2>2 DEF wait_woken, trap_return, user_main, Busy
    <3>2. do_exit(current) \/ UNCHANGED <<state, wait_state>>
      BY <2>2 DEF wait_woken, trap_return, user_main, Jump
    <3>3. UNCHANGED <<state, wait_state>> => \A q \in Proc : Fate(q)
      BY DEF Fate
    <3> QED BY <3>1, <3>2, <3>3, ExitFate
  <2>3. CASE init_main
    <3>1. \/ \E c \in Slots : do_fork(initproc, c, "wait", "user_main")
          \/ UNCHANGED <<state, wait_state>>
      BY <2>3 DEF init_main, procvars
    <3>2. UNCHANGED <<state, wait_state>> => \A q \in Proc : Fate(q)
      BY DEF Fate
    <3> QED BY <3>1, <3>2, ForkFate
  <2>4. CASE read_woken \/ read_again
    <3>1. /\ pc[current] \in Busy
          /\ UNCHANGED <<state, wait_state>> \/ read_block(current)
      BY <2>4 DEF read_woken, read_again, Jump, Busy
    <3>2. UNCHANGED <<state, wait_state>> => \A q \in Proc : Fate(q)
      BY DEF Fate
    <3> QED BY <3>1, <3>2, ReadFate
  <2> QED BY <1>2, <2>1, <2>2, <2>3, <2>4, ReparentFate, WaitFate DEF KernelStep
<1>3. CASE Halted \/ UNCHANGED vars
  BY <1>3 DEF Halted, vars, procvars, Fate
<1> QED BY <1>1, <1>2, <1>3, TickFate DEF Next

(* A zombie is freed by nobody but its parent of that moment, whether it    *)
(* was found by its identifier or in the list of children.                  *)
THEOREM ReapedByParent == Spec => ZombieReapedByParent
<1>1. ProcInv /\ FamilyInv /\ [Next]_vars =>
        [\A p \in Proc : state[p] = "ZOMBIE" /\ state'[p] # "ZOMBIE"
            => state'[p] = "UNUSED" /\ parent[p] = current]_vars
  BY StepFate DEF Fate
<1> QED BY <1>1, ProcInvariant, FamilyInvariant, PTL DEF Spec, ZombieReapedByParent

(* do_sleep ends with the last tick of its timer or by a kill, never by the *)
(* exit of a child or by a wakeup meant for somebody else.                  *)
THEOREM SleepLastsToTheEnd == Spec => SleepLasts
<1>1. ProcInv /\ FamilyInv /\ [Next]_vars =>
        [\A p \in Proc : wait_state[p] = "WT_TIMER" /\ wait_state'[p] # "WT_TIMER"
            => (timer[p] = 1 /\ timer'[p] = 0) \/ exiting'[p]]_vars
  BY StepFate DEF Fate
<1> QED BY <1>1, ProcInvariant, FamilyInvariant, PTL DEF Spec, SleepLasts
=============================================================================
