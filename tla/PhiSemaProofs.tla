---------------------------- MODULE PhiSemaProofs ----------------------------
(***************************************************************************)
(* Proofs about PhiSema for any number of philosophers and meals.           *)
(***************************************************************************)
EXTENDS PhiSema, DataLemmas, TLAPS

(* Remainders of small sums.                                                *)
LEMMA Wrap ==
  ASSUME NEW n \in Nat \ {0}, NEW a \in 0 .. n - 1
  PROVE  a % n = a /\ (a + n) % n = a
  OBVIOUS

(* LEFT and RIGHT go round the table in opposite directions.                *)
LEMMA Ring ==
  ASSUME NEW i \in Phi
  PROVE  /\ LEFT(i) \in Phi /\ RIGHT(i) \in Phi
         /\ RIGHT(LEFT(i)) = i /\ LEFT(RIGHT(i)) = i
         /\ LEFT(i) # i /\ RIGHT(i) # i
<1>1. ASSUME NEW j \in Phi
      PROVE  LEFT(j) = IF j = 0 THEN N - 1 ELSE j - 1
  BY Wrap, PhiAssumption DEF LEFT, Phi
<1>2. ASSUME NEW j \in Phi
      PROVE  RIGHT(j) = IF j = N - 1 THEN 0 ELSE j + 1
  BY Wrap, PhiAssumption DEF RIGHT, Phi
<1>3. /\ LEFT(i) = IF i = 0 THEN N - 1 ELSE i - 1
      /\ RIGHT(i) = IF i = N - 1 THEN 0 ELSE i + 1
  BY <1>1, <1>2
<1>4. LEFT(i) \in Phi /\ RIGHT(i) \in Phi /\ LEFT(i) # i /\ RIGHT(i) # i
  BY <1>3, PhiAssumption DEF Phi
<1>5. RIGHT(LEFT(i)) = IF LEFT(i) = N - 1 THEN 0 ELSE LEFT(i) + 1
  BY <1>2, <1>4
<1>6. LEFT(RIGHT(i)) = IF RIGHT(i) = 0 THEN N - 1 ELSE RIGHT(i) - 1
  BY <1>1, <1>4
<1> QED
  BY <1>3, <1>4, <1>5, <1>6, PhiAssumption DEF Phi

(* A thread that runs is in no queue.                                       *)
LEMMA Running ==
  ASSUME NEW i \in Phi, ~ Blocked(i)
  PROVE  /\ i \notin Range(wait_queue[mutex]) /\ wait_queue[i] # <<i>>
         /\ i \in 0 .. N /\ mutex \in 0 .. N /\ i # mutex
<1>1. i \in 0 .. N /\ mutex \in 0 .. N /\ i # mutex
  BY PhiAssumption DEF Phi, mutex
<1>2. i \notin Range(wait_queue[mutex]) /\ i \notin Range(wait_queue[i])
  BY <1>1 DEF Blocked
<1>3. i \in Range(<<i>>)
  BY DEF Range
<1> QED
  BY <1>1, <1>2, <1>3

(* The start of check_sync.                                                 *)
LEMMA PhiInvInit == Init => PhiInv
<1> SUFFICES ASSUME Init PROVE PhiInv
  OBVIOUS
<1>1. /\ value = [s \in 0 .. N |-> IF s = mutex THEN 1 ELSE 0]
      /\ wait_queue = [s \in 0 .. N |-> << >>]
      /\ state_sema = [i \in Phi |-> "THINKING"] /\ pc = [i \in Phi |-> "think"]
      /\ iter = [i \in Phi |-> 0]
  BY DEF Init, sem_init
<1>2. mutex \in 0 .. N /\ \A i \in Phi : i \in 0 .. N /\ i # mutex
  BY PhiAssumption DEF Phi, mutex
<1>3. TypeOK
  BY <1>1, PhiAssumption DEF TypeOK, SemTypeOK
<1>4. MutexHeld
  <2>1. IsInjective(wait_queue[mutex]) /\ Range(wait_queue[mutex]) = {}
    BY <1>1, <1>2 DEF IsInjective, Range
  <2> QED
    BY <1>1, <1>2, <2>1 DEF MutexHeld, Critical, InCritical
<1>5. ForkTokens
  BY <1>1, <1>2 DEF ForkTokens
<1>6. TestHolds
  BY <1>1 DEF TestHolds
<1>7. StatesExclusive
  BY <1>1 DEF StatesExclusive
<1> QED
  BY <1>3, <1>4, <1>5, <1>6, <1>7 DEF PhiInv

(* down(&mutex), before the critical sections.                              *)
LEMMA LockStep ==
  ASSUME PhiInv, NEW i \in Phi, ~ Blocked(i), NEW to,
         \/ pc[i] = "think" /\ to = "take_set"
         \/ pc[i] = "eat" /\ to = "put_set",
         down(mutex, i), Goto(i, to), UNCHANGED state_sema,
         iter' \in [Phi -> 0 .. TIMES]
  PROVE  PhiInv'
<1>0. TypeOK /\ MutexHeld /\ ForkTokens /\ TestHolds /\ StatesExclusive
  BY DEF PhiInv
<1>1. /\ i \notin Range(wait_queue[mutex]) /\ wait_queue[i] # <<i>>
      /\ mutex \in 0 .. N /\ \A j \in Phi : j \in 0 .. N /\ j # mutex
  BY Running, PhiAssumption DEF Phi, mutex
<1>2. value \in [0 .. N -> Nat] /\ wait_queue \in [0 .. N -> Seq(Phi)]
  BY <1>0 DEF TypeOK, SemTypeOK
<1>3. /\ pc' \in [Phi -> Critical \cup {"think", "take_down", "eat", "quit"}]
      /\ pc'[i] = to /\ \A j \in Phi : j # i => pc'[j] = pc[j]
  BY <1>0 DEF TypeOK, Goto, Critical
<1>4. CASE value[mutex] > 0
  <2>1. value' = [value EXCEPT ![mutex] = @ - 1] /\ wait_queue' = wait_queue
    BY <1>4 DEF down
  <2>2. value[mutex] = 1 /\ value' \in [0 .. N -> Nat] /\ value'[mutex] = 0
    BY <1>0, <1>1, <1>2, <1>4, <2>1 DEF MutexHeld
  <2>3. wait_queue[mutex] = << >> /\ \A j \in Phi : pc[j] \notin Critical
    BY <1>0, <2>2 DEF MutexHeld
  <2>4. \A j \in Phi : value'[j] = value[j]
    BY <1>1, <1>2, <2>1
  <2>5. TypeOK'
    BY <1>0, <1>3, <2>1, <2>2 DEF TypeOK, SemTypeOK
  <2>6. MutexHeld'
    <3>1. Range(wait_queue[mutex]) = {}
      BY <2>3 DEF Range
    <3> QED
      BY <1>0, <1>3, <2>1, <2>2, <2>3, <3>1 DEF MutexHeld, InCritical, mutex
  <2>7. ForkTokens'
    BY <1>0, <1>1, <1>3, <2>1, <2>4 DEF ForkTokens
  <2>8. TestHolds'
    BY <1>0, <1>3 DEF TestHolds, CanEat
  <2>9. StatesExclusive'
    BY <1>0 DEF StatesExclusive
  <2> QED
    BY <2>5, <2>6, <2>7, <2>8, <2>9 DEF PhiInv
<1>5. CASE ~ (value[mutex] > 0)
  <2>1. wait_queue' = [wait_queue EXCEPT ![mutex] = Append(@, i)] /\ value' = value
    BY <1>5 DEF down
  <2>2. /\ wait_queue[mutex] \in Seq(Phi) /\ IsInjective(wait_queue[mutex])
        /\ value[mutex] = 0
    <3>1. value[mutex] \in {0, 1} /\ IsInjective(wait_queue[mutex])
      BY <1>0 DEF MutexHeld
    <3> QED
      BY <1>1, <1>2, <1>5, <3>1
  <2>3. /\ wait_queue'[mutex] \in Seq(Phi) /\ IsInjective(wait_queue'[mutex])
        /\ Range(wait_queue'[mutex]) = Range(wait_queue[mutex]) \cup {i}
    BY <1>1, <1>2, <2>1, <2>2, QueueOne
  <2>4. \A j \in Phi : wait_queue'[j] = wait_queue[j]
    BY <1>1, <1>2, <2>1
  <2>5. wait_queue' \in [0 .. N -> Seq(Phi)]
    BY <1>1, <1>2, <2>1, <2>3
  <2>6. TypeOK'
    BY <1>0, <1>3, <2>1, <2>5 DEF TypeOK, SemTypeOK
  <2>7. MutexHeld'
    <3>1. \A j \in Range(wait_queue'[mutex]) : pc'[j] \in {"take_set", "put_set"}
      <4>1. Range(wait_queue[mutex]) \subseteq Phi
        BY <2>2 DEF Range
      <4> QED
        BY <1>0, <1>1, <1>3, <2>3, <4>1 DEF MutexHeld
    <3>2. \A j, k \in Phi : InCritical(j)' /\ InCritical(k)' => j = k
      <4>1. \A j \in Phi : InCritical(j)' => InCritical(j)
        BY <1>3, <2>3 DEF InCritical, mutex
      <4> QED
        BY <1>0, <4>1 DEF MutexHeld
    <3> QED
      BY <2>1, <2>2, <2>3, <3>1, <3>2 DEF MutexHeld, mutex
  <2>8. ForkTokens'
    BY <1>0, <1>1, <1>3, <2>1, <2>4 DEF ForkTokens
  <2>9. TestHolds'
    BY <1>0, <1>3 DEF TestHolds, CanEat
  <2>10. StatesExclusive'
    BY <1>0 DEF StatesExclusive
  <2> QED
    BY <2>6, <2>7, <2>8, <2>9, <2>10 DEF PhiInv
<1> QED
  BY <1>4, <1>5

(* up(&mutex), after the critical sections.                                 *)
LEMMA UnlockStep ==
  ASSUME PhiInv, NEW i \in Phi, ~ Blocked(i), NEW to,
         \/ pc[i] = "take_unlock" /\ to = "take_down"
         \/ pc[i] = "put_unlock" /\ to = "think",
         up(mutex), Goto(i, to), UNCHANGED <<state_sema, iter>>
  PROVE  PhiInv'
<1>0. TypeOK /\ MutexHeld /\ ForkTokens /\ TestHolds /\ StatesExclusive
  BY DEF PhiInv
<1>1. /\ i \notin Range(wait_queue[mutex])
      /\ mutex \in 0 .. N /\ \A j \in Phi : j \in 0 .. N /\ j # mutex
  BY Running, PhiAssumption DEF Phi, mutex
<1>2. value \in [0 .. N -> Nat] /\ wait_queue \in [0 .. N -> Seq(Phi)]
  BY <1>0 DEF TypeOK, SemTypeOK
<1>3. /\ pc' \in [Phi -> Critical \cup {"think", "take_down", "eat", "quit"}]
      /\ pc'[i] = to /\ to \notin Critical /\ \A j \in Phi : j # i => pc'[j] = pc[j]
  BY <1>0 DEF TypeOK, Goto, Critical
<1>4. /\ pc[i] \in Critical /\ value[mutex] = 0
      /\ \A j \in Phi : InCritical(j) => j = i
  BY <1>0, <1>1 DEF MutexHeld, InCritical, Critical
<1>5. TestHolds' /\ StatesExclusive'
  BY <1>0, <1>3 DEF TestHolds, CanEat, StatesExclusive
<1>6. CASE wait_queue[mutex] = << >>
  <2>1. value' = [value EXCEPT ![mutex] = @ + 1] /\ wait_queue' = wait_queue
    BY <1>6 DEF up
  <2>2. /\ value' \in [0 .. N -> Nat] /\ value'[mutex] = 1
        /\ \A j \in Phi : value'[j] = value[j]
    BY <1>1, <1>2, <1>4, <2>1
  <2>3. Range(wait_queue[mutex]) = {}
    BY <1>6 DEF Range
  <2>4. \A j \in Phi : pc'[j] \notin Critical
    BY <1>3, <1>4, <2>3 DEF InCritical
  <2>5. TypeOK'
    BY <1>0, <1>3, <2>1, <2>2 DEF TypeOK, SemTypeOK
  <2>6. MutexHeld'
    BY <1>0, <1>6, <2>1, <2>2, <2>3, <2>4 DEF MutexHeld, InCritical, mutex
  <2>7. ForkTokens'
    BY <1>0, <1>3, <2>1, <2>2 DEF ForkTokens
  <2> QED
    BY <1>5, <2>5, <2>6, <2>7 DEF PhiInv
<1>7. CASE wait_queue[mutex] # << >>
  <2>1. wait_queue' = [wait_queue EXCEPT ![mutex] = Tail(@)] /\ value' = value
    BY <1>7 DEF up
  <2>2. wait_queue[mutex] \in Seq(Phi) /\ IsInjective(wait_queue[mutex])
    BY <1>0, <1>1, <1>2 DEF MutexHeld
  <2>3. /\ wait_queue'[mutex] \in Seq(Phi) /\ IsInjective(wait_queue'[mutex])
        /\ Range(wait_queue'[mutex]) = Range(wait_queue[mutex]) \ {Head(wait_queue[mutex])}
    BY <1>1, <1>2, <1>7, <2>1, <2>2, TakeHead
  <2>4. wait_queue' \in [0 .. N -> Seq(Phi)] /\ \A j \in Phi : wait_queue'[j] = wait_queue[j]
    BY <1>1, <1>2, <2>1, <2>3
  <2>5. TypeOK'
    BY <1>0, <1>3, <2>1, <2>4 DEF TypeOK, SemTypeOK
  <2>6. MutexHeld'
    <3>1. \A j \in Range(wait_queue'[mutex]) : pc'[j] \in {"take_set", "put_set"}
      <4>1. Range(wait_queue[mutex]) \subseteq Phi
        BY <2>2 DEF Range
      <4> QED
        BY <1>0, <1>1, <1>3, <2>3, <4>1 DEF MutexHeld
    <3>2. \A j, k \in Phi : InCritical(j)' /\ InCritical(k)' => j = k
      BY <1>3, <1>4, <2>3 DEF InCritical, mutex
    <3> QED
      BY <1>4, <2>1, <2>3, <3>1, <3>2 DEF MutexHeld, mutex
  <2>7. ForkTokens'
    BY <1>0, <1>3, <2>1, <2>4 DEF ForkTokens
  <2> QED
    BY <1>5, <2>5, <2>6, <2>7 DEF PhiInv
<1> QED
  BY <1>6, <1>7

(* The thread in the critical section is alone in it: the others outside it *)
(* or wait at its two doors.                                                *)
LEMMA Alone ==
  ASSUME PhiInv, NEW i \in Phi, ~ Blocked(i), pc[i] \in Critical
  PROVE  \A j \in Phi : j # i => pc[j] \notin Critical \/ pc[j] \in {"take_set", "put_set"}
<1>1. InCritical(i)
  BY Running DEF InCritical
<1> QED
  BY <1>1 DEF PhiInv, MutexHeld, InCritical

(* A step inside the critical section leaves the mutex as it is.            *)
LEMMA InsideStep ==
  ASSUME PhiInv, NEW i \in Phi, ~ Blocked(i), NEW to \in Critical, pc[i] \in Critical,
         Goto(i, to), value'[mutex] = value[mutex],
         wait_queue'[mutex] = wait_queue[mutex]
  PROVE  /\ MutexHeld'
         /\ pc' \in [Phi -> Critical \cup {"think", "take_down", "eat", "quit"}]
         /\ pc'[i] = to /\ \A j \in Phi : j # i => pc'[j] = pc[j]
<1>0. TypeOK /\ MutexHeld
  BY DEF PhiInv
<1>1. /\ pc' \in [Phi -> Critical \cup {"think", "take_down", "eat", "quit"}]
      /\ pc'[i] = to /\ \A j \in Phi : j # i => pc'[j] = pc[j]
  BY <1>0 DEF TypeOK, Goto
<1>2. i \notin Range(wait_queue[mutex]) /\ mutex \in 0 .. N
  BY Running
<1>3. Range(wait_queue[mutex]) \subseteq Phi
  BY <1>0, <1>2 DEF TypeOK, SemTypeOK, Range
<1>4. \A j \in Phi : InCritical(j)' => InCritical(j)
  BY <1>1 DEF InCritical, mutex
<1>5. \A j, k \in Phi : InCritical(j)' /\ InCritical(k)' => j = k
  BY <1>0, <1>4 DEF MutexHeld
<1>6. \A j \in Range(wait_queue'[mutex]) : pc'[j] \in {"take_set", "put_set"}
  BY <1>0, <1>1, <1>2, <1>3 DEF MutexHeld
<1>7. value[mutex] = 0 /\ IsInjective(wait_queue[mutex])
  BY <1>0 DEF MutexHeld
<1> QED
  BY <1>1, <1>5, <1>6, <1>7 DEF MutexHeld, mutex

(* The two assignments to state_sema at the head of the critical sections.  *)
LEMMA SetStep ==
  ASSUME PhiInv, NEW i \in Phi, take_set(i) \/ put_set(i)
  PROVE  PhiInv'
<1> DEFINE new == IF pc[i] = "take_set" THEN "HUNGRY" ELSE "THINKING"
<1> DEFINE to == IF pc[i] = "take_set" THEN "test_self" ELSE "test_left"
<1>0. TypeOK /\ MutexHeld /\ ForkTokens /\ TestHolds /\ StatesExclusive
  BY DEF PhiInv
<1>1. /\ pc[i] \in {"take_set", "put_set"} /\ ~ Blocked(i) /\ Goto(i, to)
      /\ state_sema' = [state_sema EXCEPT ![i] = new]
      /\ iter' = iter /\ value' = value /\ wait_queue' = wait_queue
  BY DEF take_set, put_set, At
<1>2. pc[i] \in Critical /\ to \in Critical
  BY <1>1 DEF Critical
<1>3. /\ MutexHeld'
      /\ pc' \in [Phi -> Critical \cup {"think", "take_down", "eat", "quit"}]
      /\ pc'[i] = to /\ \A j \in Phi : j # i => pc'[j] = pc[j]
  BY <1>1, <1>2, InsideStep
<1>4. /\ state_sema' \in [Phi -> {"THINKING", "HUNGRY", "EATING"}]
      /\ state_sema'[i] = new /\ \A j \in Phi : j # i => state_sema'[j] = state_sema[j]
  BY <1>0, <1>1 DEF TypeOK
<1>5. TypeOK'
  BY <1>0, <1>1, <1>3, <1>4 DEF TypeOK, SemTypeOK
<1>6. ForkTokens'
  BY <1>0, <1>1, <1>3, <1>4 DEF ForkTokens
<1>7. TestHolds'
  <2>1. \A j \in Phi : pc'[j] \notin {"up_self", "up_left", "up_right"}
    BY <1>1, <1>2, <1>3, Alone DEF Critical
  <2> QED
    BY <2>1 DEF TestHolds
<1>8. StatesExclusive'
  BY <1>0, <1>4, Ring DEF StatesExclusive
<1> QED
  BY <1>3, <1>5, <1>6, <1>7, <1>8 DEF PhiInv

(* Where phi_test_sema goes from its condition, and whom it tests.          *)
LEMMA Tested ==
  ASSUME NEW i \in Phi, NEW at \in {"test_self", "test_left", "test_right"}
  PROVE  /\ at \in Critical /\ UpAt(at) \in Critical /\ AfterTest(at) \in Critical
         /\ UpAt(at) \in {"up_self", "up_left", "up_right"}
         /\ AfterTest(at) \notin {"up_self", "up_left", "up_right"}
         /\ Target(i, UpAt(at)) = Target(i, at)
  BY DEF Critical, UpAt, AfterTest, Target

(* phi_test_sema lets only a hungry philosopher between two that do not eat *)
(* go on.                                                                   *)
LEMMA TestStep ==
  ASSUME PhiInv, NEW i \in Phi, test(i)
  PROVE  PhiInv'
<1> DEFINE to == IF CanEat(Target(i, pc[i])) THEN UpAt(pc[i]) ELSE AfterTest(pc[i])
<1>0. TypeOK /\ MutexHeld /\ ForkTokens /\ TestHolds /\ StatesExclusive
  BY DEF PhiInv
<1>1. /\ pc[i] \in {"test_self", "test_left", "test_right"} /\ ~ Blocked(i) /\ Goto(i, to)
      /\ state_sema' = state_sema
      /\ iter' = iter /\ value' = value /\ wait_queue' = wait_queue
  BY DEF test
<1>2. pc[i] \in Critical /\ to \in Critical
  BY <1>1, Tested
<1>3. /\ MutexHeld'
      /\ pc' \in [Phi -> Critical \cup {"think", "take_down", "eat", "quit"}]
      /\ pc'[i] = to /\ \A j \in Phi : j # i => pc'[j] = pc[j]
  BY <1>1, <1>2, InsideStep
<1>4. TypeOK'
  BY <1>0, <1>1, <1>3 DEF TypeOK, SemTypeOK
<1>5. ForkTokens'
  <2>1. /\ pc[i] = "test_self" => pc'[i] \in {"up_self", "take_unlock"}
        /\ pc[i] = "test_left" => pc'[i] \in {"up_left", "test_right"}
        /\ pc[i] = "test_right" => pc'[i] \in {"up_right", "put_unlock"}
    BY <1>3 DEF UpAt, AfterTest
  <2> HIDE DEF to
  <2> QED
    BY <1>0, <1>1, <1>3, <2>1 DEF ForkTokens
<1>6. TestHolds'
  <2> SUFFICES ASSUME NEW j \in Phi, pc'[j] \in {"up_self", "up_left", "up_right"}
               PROVE  CanEat(Target(j, pc[j]))'
    BY DEF TestHolds
  <2>1. CanEat(Target(j, pc'[j]))
    <3>1. CASE j = i
      <4>1. CanEat(Target(i, pc[i])) /\ pc'[i] = UpAt(pc[i])
        BY <1>1, <1>3, <3>1, Tested
      <4> QED
        BY <1>1, <3>1, <4>1, Tested
    <3>2. CASE j # i
      BY <1>0, <1>3, <3>2 DEF TestHolds
    <3> QED
      BY <3>1, <3>2
  <2> QED
    BY <1>1, <2>1 DEF CanEat, Target
<1>7. StatesExclusive'
  BY <1>0, <1>1 DEF StatesExclusive
<1> QED
  BY <1>3, <1>4, <1>5, <1>6, <1>7 DEF PhiInv

(* Who is given the forks: the thread itself, or another one that is about  *)
(* to wait for them or already does.                                        *)
LEMMA Chosen ==
  ASSUME PhiInv, NEW i \in Phi, ~ Blocked(i), pc[i] \in {"up_self", "up_left", "up_right"},
         NEW t, t = Target(i, pc[i])
  PROVE  /\ t \in Phi /\ CanEat(t) /\ value[t] = 0
         /\ \/ t = i /\ pc[i] = "up_self" /\ wait_queue[t] = << >>
            \/ t # i /\ pc[i] # "up_self" /\ pc[t] = "take_down" /\ wait_queue[t] = << >>
            \/ t # i /\ pc[i] # "up_self" /\ pc[t] = "eat" /\ wait_queue[t] = <<t>>
<1>0. TypeOK /\ MutexHeld /\ ForkTokens /\ TestHolds
  BY DEF PhiInv
<1>1. t \in Phi /\ (t = i <=> pc[i] = "up_self")
  BY Ring DEF Target
<1>2. CanEat(t) /\ state_sema[t] = "HUNGRY"
  BY <1>0 DEF TestHolds, CanEat
<1>3. CASE t = i
  BY <1>0, <1>1, <1>2, <1>3 DEF ForkTokens
<1>4. CASE t # i
  <2>1. pc[t] \notin Critical \/ pc[t] \in {"take_set", "put_set"}
    BY <1>1, <1>4, Alone DEF Critical
  <2>2. pc[t] \in Critical \cup {"think", "take_down", "eat", "quit"}
    BY <1>0, <1>1 DEF TypeOK
  <2>3. pc[t] \in {"take_down", "eat"}
    BY <1>0, <1>1, <1>2, <2>1, <2>2 DEF ForkTokens
  <2> QED
    BY <1>0, <1>1, <1>2, <1>4, <2>3 DEF ForkTokens
<1> QED
  BY <1>3, <1>4

(* up(&s[t]) from phi_test_sema.                                            *)
LEMMA GiveStep ==
  ASSUME PhiInv, NEW i \in Phi, test_up(i)
  PROVE  PhiInv'
<1> DEFINE t == Target(i, pc[i])
<1> DEFINE to == AfterTest(pc[i])
<1>0. TypeOK /\ MutexHeld /\ ForkTokens /\ TestHolds /\ StatesExclusive
  BY DEF PhiInv
<1>1. /\ pc[i] \in {"up_self", "up_left", "up_right"} /\ ~ Blocked(i) /\ Goto(i, to)
      /\ state_sema' = [state_sema EXCEPT ![t] = "EATING"]
      /\ up(t) /\ iter' = iter
  BY DEF test_up
<1>2. /\ t \in Phi /\ CanEat(t) /\ value[t] = 0
      /\ \/ t = i /\ pc[i] = "up_self" /\ wait_queue[t] = << >>
         \/ t # i /\ pc[i] # "up_self" /\ pc[t] = "take_down" /\ wait_queue[t] = << >>
         \/ t # i /\ pc[i] # "up_self" /\ pc[t] = "eat" /\ wait_queue[t] = <<t>>
  BY <1>1, Chosen
<1>3. /\ pc[i] = "up_self" => to = "take_unlock"
      /\ pc[i] = "up_left" => to = "test_right"
      /\ pc[i] = "up_right" => to = "put_unlock"
  BY DEF AfterTest
<1>4. pc[i] \in Critical /\ to \in Critical
  BY <1>1, <1>3 DEF Critical
<1> HIDE DEF t, to
<1>5. /\ mutex \in 0 .. N /\ \A j \in Phi : j \in 0 .. N /\ j # mutex
      /\ value \in [0 .. N -> Nat] /\ wait_queue \in [0 .. N -> Seq(Phi)]
  BY <1>0, PhiAssumption DEF Phi, mutex, TypeOK, SemTypeOK
<1>6. /\ value' \in [0 .. N -> Nat] /\ wait_queue' \in [0 .. N -> Seq(Phi)]
      /\ \A j \in 0 .. N : j # t => value'[j] = value[j] /\ wait_queue'[j] = wait_queue[j]
      /\ wait_queue'[t] = << >>
      /\ value'[t] = IF wait_queue[t] = << >> THEN 1 ELSE 0
  <2>1. CASE wait_queue[t] = << >>
    <3>1. value' = [value EXCEPT ![t] = @ + 1] /\ wait_queue' = wait_queue
      BY <1>1, <2>1 DEF up
    <3> QED
      BY <1>2, <1>5, <2>1, <3>1
  <2>2. CASE wait_queue[t] = <<t>>
    <3>1. <<t>> # << >> /\ Tail(<<t>>) = << >> /\ << >> \in Seq(Phi)
      OBVIOUS
    <3>2. wait_queue' = [wait_queue EXCEPT ![t] = << >>] /\ value' = value
      BY <1>1, <1>2, <1>5, <2>2, <3>1 DEF up
    <3> QED
      BY <1>2, <1>5, <2>2, <3>1, <3>2
  <2> QED
    BY <1>2, <2>1, <2>2
<1>7. /\ MutexHeld'
      /\ pc' \in [Phi -> Critical \cup {"think", "take_down", "eat", "quit"}]
      /\ pc'[i] = to /\ \A j \in Phi : j # i => pc'[j] = pc[j]
  BY <1>1, <1>2, <1>4, <1>5, <1>6, InsideStep
<1>8. /\ state_sema' \in [Phi -> {"THINKING", "HUNGRY", "EATING"}]
      /\ state_sema'[t] = "EATING" /\ \A j \in Phi : j # t => state_sema'[j] = state_sema[j]
  BY <1>0, <1>1, <1>2 DEF TypeOK
<1>9. TypeOK'
  BY <1>0, <1>1, <1>6, <1>7, <1>8 DEF TypeOK, SemTypeOK
<1>10. ForkTokens'
  <2>1. ASSUME NEW j \in Phi, j # i, j # t
        PROVE  /\ pc'[j] = pc[j] /\ state_sema'[j] = state_sema[j]
               /\ value'[j] = value[j] /\ wait_queue'[j] = wait_queue[j]
    BY <1>5, <1>6, <1>7, <1>8, <2>1
  <2>2. CASE t = i
    BY <1>0, <1>2, <1>3, <1>6, <1>7, <1>8, <2>1, <2>2 DEF ForkTokens
  <2>3. CASE t # i
    <3>1. /\ to \in {"test_right", "put_unlock"} /\ pc'[t] = pc[t]
          /\ state_sema'[i] = state_sema[i]
          /\ value'[i] = value[i] /\ wait_queue'[i] = wait_queue[i]
          /\ pc[i] \in {"up_left", "up_right"}
      BY <1>1, <1>2, <1>3, <1>5, <1>6, <1>7, <1>8, <2>3
    <3>2. <<t>> # << >>
      OBVIOUS
    <3>3. /\ state_sema'[i] = "THINKING" /\ value'[i] = 0 /\ wait_queue'[i] = << >>
          /\ pc'[i] \in {"test_right", "put_unlock"}
      BY <1>0, <1>7, <3>1 DEF ForkTokens
    <3>4. /\ state_sema'[t] = "EATING" /\ wait_queue'[t] = << >>
          /\ \/ pc'[t] = "take_down" /\ value'[t] = 1
             \/ pc'[t] = "eat" /\ value'[t] = 0
      BY <1>2, <1>6, <1>8, <2>3, <3>1, <3>2
    <3> QED
      BY <1>0, <2>1, <3>3, <3>4 DEF ForkTokens
  <2> QED
    BY <2>2, <2>3
<1>11. TestHolds'
  <2>1. \A j \in Phi : pc'[j] \notin {"up_self", "up_left", "up_right"}
    BY <1>1, <1>3, <1>4, <1>7, Alone DEF Critical
  <2> QED
    BY <2>1 DEF TestHolds
<1>12. StatesExclusive'
  <2> SUFFICES ASSUME NEW k \in Phi, state_sema'[k] = "EATING", state_sema'[RIGHT(k)] = "EATING"
               PROVE  FALSE
    BY DEF StatesExclusive
  <2>1. /\ RIGHT(k) \in Phi /\ RIGHT(k) # k /\ LEFT(RIGHT(k)) = k
    BY Ring
  <2>2. CASE k = t
    BY <1>2, <1>8, <2>1, <2>2 DEF CanEat
  <2>3. CASE RIGHT(k) = t
    BY <1>2, <1>8, <2>1, <2>3 DEF CanEat
  <2>4. CASE k # t /\ RIGHT(k) # t
    BY <1>0, <1>8, <2>1, <2>4 DEF StatesExclusive
  <2> QED
    BY <2>2, <2>3, <2>4
<1> QED
  BY <1>7, <1>9, <1>10, <1>11, <1>12 DEF PhiInv

(* down(&s[i]): the forks are there already, or the thread waits for them.  *)
LEMMA TakeStep ==
  ASSUME PhiInv, NEW i \in Phi, take_down(i)
  PROVE  PhiInv'
<1>0. TypeOK /\ MutexHeld /\ ForkTokens /\ TestHolds /\ StatesExclusive
  BY DEF PhiInv
<1>1. /\ pc[i] = "take_down" /\ ~ Blocked(i) /\ Goto(i, "eat") /\ down(i, i)
      /\ state_sema' = state_sema /\ iter' = iter
  BY DEF take_down, At
<1>2. /\ mutex \in 0 .. N /\ \A j \in Phi : j \in 0 .. N /\ j # mutex
      /\ value \in [0 .. N -> Nat] /\ wait_queue \in [0 .. N -> Seq(Phi)]
      /\ i \notin Range(wait_queue[mutex])
  BY <1>0, <1>1, Running, PhiAssumption DEF Phi, mutex, TypeOK, SemTypeOK
<1>3. /\ pc' \in [Phi -> Critical \cup {"think", "take_down", "eat", "quit"}]
      /\ pc'[i] = "eat" /\ \A j \in Phi : j # i => pc'[j] = pc[j]
  BY <1>0, <1>1 DEF TypeOK, Goto
<1>4. /\ wait_queue[i] = << >>
      /\ \/ state_sema[i] = "HUNGRY" /\ value[i] = 0
         \/ state_sema[i] = "EATING" /\ value[i] = 1
  BY <1>0, <1>1 DEF ForkTokens
<1>5. /\ value' \in [0 .. N -> Nat] /\ wait_queue' \in [0 .. N -> Seq(Phi)]
      /\ \A j \in 0 .. N : j # i => value'[j] = value[j] /\ wait_queue'[j] = wait_queue[j]
      /\ value'[i] = 0
      /\ wait_queue'[i] = IF value[i] = 0 THEN <<i>> ELSE << >>
  <2>1. CASE value[i] = 1
    <3>1. value' = [value EXCEPT ![i] = @ - 1] /\ wait_queue' = wait_queue
      BY <1>1, <2>1 DEF down
    <3> QED
      BY <1>2, <1>4, <2>1, <3>1
  <2>2. CASE value[i] = 0
    <3>1. wait_queue' = [wait_queue EXCEPT ![i] = Append(@, i)] /\ value' = value
      BY <1>1, <2>2 DEF down
    <3>2. Append(<< >>, i) = <<i>> /\ <<i>> \in Seq(Phi)
      OBVIOUS
    <3>3. wait_queue' = [wait_queue EXCEPT ![i] = <<i>>]
      BY <1>4, <3>1, <3>2
    <3> QED
      BY <1>2, <2>2, <3>1, <3>2, <3>3
  <2> QED
    BY <1>4, <2>1, <2>2
<1>6. TypeOK'
  BY <1>0, <1>1, <1>3, <1>5 DEF TypeOK, SemTypeOK
<1>7. MutexHeld'
  <2>1. value'[mutex] = value[mutex] /\ wait_queue'[mutex] = wait_queue[mutex]
    BY <1>2, <1>5
  <2>2. Range(wait_queue[mutex]) \subseteq Phi
    BY <1>2 DEF Range
  <2>3. \A j \in Range(wait_queue'[mutex]) : pc'[j] \in {"take_set", "put_set"}
    BY <1>0, <1>2, <1>3, <2>1, <2>2 DEF MutexHeld
  <2>4. \A j \in Phi : (pc'[j] \in Critical => pc[j] \in Critical)
    BY <1>3 DEF Critical
  <2>5. \A j \in Phi : InCritical(j)' => InCritical(j)
    BY <2>1, <2>4 DEF InCritical, mutex
  <2>6. \A j, k \in Phi : InCritical(j)' /\ InCritical(k)' => j = k
    BY <1>0, <2>5 DEF MutexHeld
  <2> QED
    BY <1>0, <2>1, <2>3, <2>4, <2>6 DEF MutexHeld, mutex
<1>8. ForkTokens'
  <2>1. ASSUME NEW j \in Phi, j # i
        PROVE  /\ pc'[j] = pc[j] /\ state_sema'[j] = state_sema[j]
               /\ value'[j] = value[j] /\ wait_queue'[j] = wait_queue[j]
    BY <1>1, <1>2, <1>3, <1>5, <2>1
  <2>2. /\ pc'[i] = "eat" /\ value'[i] = 0
        /\ \/ state_sema'[i] = "HUNGRY" /\ wait_queue'[i] = <<i>>
           \/ state_sema'[i] = "EATING" /\ wait_queue'[i] = << >>
    BY <1>1, <1>3, <1>4, <1>5
  <2> QED
    BY <1>0, <2>1, <2>2 DEF ForkTokens
<1>9. TestHolds' /\ StatesExclusive'
  BY <1>0, <1>1, <1>3 DEF TestHolds, CanEat, StatesExclusive
<1> QED
  BY <1>6, <1>7, <1>8, <1>9 DEF PhiInv

(* The loop is over.                                                        *)
LEMMA QuitStep ==
  ASSUME PhiInv, NEW i \in Phi, At(i, "think"), Goto(i, "quit"),
         UNCHANGED <<iter, value, wait_queue, state_sema>>
  PROVE  PhiInv'
<1>0. TypeOK /\ MutexHeld /\ ForkTokens /\ TestHolds /\ StatesExclusive
  BY DEF PhiInv
<1>1. /\ pc' \in [Phi -> Critical \cup {"think", "take_down", "eat", "quit"}]
      /\ pc[i] = "think" /\ pc'[i] = "quit" /\ \A j \in Phi : j # i => pc'[j] = pc[j]
  BY <1>0 DEF TypeOK, Goto, At
<1>2. /\ i \notin Range(wait_queue[mutex]) /\ mutex \in 0 .. N
  BY Running DEF At
<1>3. TypeOK'
  BY <1>0, <1>1 DEF TypeOK, SemTypeOK
<1>4. MutexHeld'
  <2>1. Range(wait_queue[mutex]) \subseteq Phi
    BY <1>0, <1>2 DEF TypeOK, SemTypeOK, Range
  <2>2. \A j \in Range(wait_queue[mutex]) : pc'[j] \in {"take_set", "put_set"}
    BY <1>0, <1>1, <1>2, <2>1 DEF MutexHeld
  <2>3. \A j \in Phi : (pc'[j] \in Critical => pc[j] \in Critical)
    BY <1>1 DEF Critical
  <2>4. \A j \in Phi : InCritical(j)' => InCritical(j)
    BY <2>3 DEF InCritical, mutex
  <2>5. \A j, k \in Phi : InCritical(j)' /\ InCritical(k)' => j = k
    BY <1>0, <2>4 DEF MutexHeld
  <2> QED
    BY <1>0, <2>2, <2>3, <2>5 DEF MutexHeld, mutex
<1>5. ForkTokens'
  BY <1>0, <1>1 DEF ForkTokens
<1>6. TestHolds' /\ StatesExclusive'
  BY <1>0, <1>1 DEF TestHolds, CanEat, StatesExclusive
<1> QED
  BY <1>3, <1>4, <1>5, <1>6 DEF PhiInv

(* Every step of every thread keeps the invariant.                          *)
LEMMA PhiInvStep ==
  ASSUME PhiInv, [Next]_vars
  PROVE  PhiInv'
<1>1. CASE UNCHANGED vars
  BY <1>1 DEF vars, PhiInv, TypeOK, SemTypeOK, MutexHeld, ForkTokens, TestHolds,
     StatesExclusive, CanEat, InCritical
<1>2. ASSUME NEW i \in Phi, Step(i) PROVE PhiInv'
  <2>1. CASE think(i)
    <3>1. CASE iter[i] < TIMES
      <4>1. /\ pc[i] = "think" /\ ~ Blocked(i) /\ down(mutex, i) /\ Goto(i, "take_set")
            /\ iter' = [iter EXCEPT ![i] = @ + 1] /\ UNCHANGED state_sema
        BY <2>1, <3>1 DEF think, At
      <4>2. iter' \in [Phi -> 0 .. TIMES]
        BY <3>1, <4>1, PhiAssumption DEF PhiInv, TypeOK
      <4> QED
        BY <4>1, <4>2, LockStep
    <3>2. CASE ~ (iter[i] < TIMES)
      BY <2>1, <3>2, QuitStep DEF think
    <3> QED
      BY <3>1, <3>2
  <2>2. CASE take_set(i) \/ put_set(i)
    BY <2>2, SetStep
  <2>3. CASE test(i)
    BY <2>3, TestStep
  <2>4. CASE test_up(i)
    BY <2>4, GiveStep
  <2>5. CASE take_unlock(i)
    BY <2>5, UnlockStep DEF take_unlock, At
  <2>6. CASE take_down(i)
    BY <2>6, TakeStep
  <2>7. CASE eat(i)
    <3>1. /\ pc[i] = "eat" /\ ~ Blocked(i) /\ down(mutex, i) /\ Goto(i, "put_set")
          /\ iter' = iter /\ UNCHANGED state_sema
      BY <2>7 DEF eat, At
    <3>2. iter' \in [Phi -> 0 .. TIMES]
      BY <3>1 DEF PhiInv, TypeOK
    <3> QED
      BY <3>1, <3>2, LockStep
  <2>8. CASE put_unlock(i)
    BY <2>8, UnlockStep DEF put_unlock, At
  <2> QED
    BY <1>2, <2>1, <2>2, <2>3, <2>4, <2>5, <2>6, <2>7, <2>8 DEF Step
<1> QED
  BY <1>1, <1>2 DEF Next

(* The inductive invariant, for every number of philosophers and of meals:  *)
(* the mutex protects state_sema, and the forks' semaphores agree with it.  *)
THEOREM PhiInvariant == Spec => []PhiInv
<1>1. Init => PhiInv
  BY PhiInvInit
<1>2. PhiInv /\ [Next]_vars => PhiInv'
  BY PhiInvStep
<1> QED
  BY <1>1, <1>2, PTL DEF Spec

(* No unit of s[i] is lost, and none is given twice.                        *)
THEOREM TokensCorrect == Spec => []ForkTokens
<1>1. PhiInv => ForkTokens
  BY DEF PhiInv
<1> QED
  BY <1>1, PhiInvariant, PTL

(* No two neighbours of philosopher_using_semaphore eat at the same time.   *)
THEOREM ForksNeverShared == Spec => []ForksExclusive
<1>1. PhiInv => ForksExclusive
  <2> SUFFICES ASSUME PhiInv, NEW i \in Phi, Eats(i), Eats(RIGHT(i)) PROVE FALSE
    BY DEF ForksExclusive
  <2>1. ASSUME NEW j \in Phi, Eats(j) PROVE state_sema[j] = "EATING"
    BY <2>1, Running DEF Eats, At, PhiInv, ForkTokens
  <2>2. RIGHT(i) \in Phi
    BY Ring
  <2> QED
    BY <2>1, <2>2 DEF PhiInv, StatesExclusive
<1> QED
  BY <1>1, PhiInvariant, PTL

(* A step that leaves state_sema alone, of a thread with nobody to test     *)
(* before it or after it, forgets nobody.                                   *)
LEMMA RestStep ==
  ASSUME PhiInv, NoneForgotten, NEW i \in Phi, NEW to, UNCHANGED state_sema, Goto(i, to),
         pc[i] \notin {"test_self", "up_self", "test_left", "up_left", "test_right", "up_right"}
  PROVE  NoneForgotten'
<1>1. \A k \in Phi : k # i => pc'[k] = pc[k]
  BY DEF Goto, PhiInv, TypeOK
<1>2. ToTest(i) = {}
  BY DEF ToTest
<1>3. ASSUME NEW j \in Phi, CanEat(j)' PROVE \E k \in Phi : j \in ToTest(k)'
  <2>1. CanEat(j)
    BY <1>3 DEF CanEat
  <2>2. PICK k \in Phi : j \in ToTest(k)
    BY <2>1 DEF NoneForgotten
  <2>3. k # i
    BY <1>2, <2>2
  <2>4. j \in ToTest(k)'
    BY <1>1, <2>2, <2>3 DEF ToTest
  <2> QED
    BY <2>4
<1> QED
  BY <1>3 DEF NoneForgotten

(* A philosopher becomes able to eat only where he is tested afterwards,    *)
(* and is off the list only when he eats or cannot eat.                     *)
LEMMA NoneForgottenStep ==
  ASSUME PhiInv, NoneForgotten, [Next]_vars
  PROVE  NoneForgotten'
<1>1. CASE UNCHANGED vars
  BY <1>1 DEF vars, NoneForgotten, CanEat, ToTest
<1>2. ASSUME NEW i \in Phi, Step(i) PROVE NoneForgotten'
  <2>0. /\ pc \in [Phi -> Critical \cup {"think", "take_down", "eat", "quit"}]
        /\ state_sema \in [Phi -> {"THINKING", "HUNGRY", "EATING"}]
    BY DEF PhiInv, TypeOK
  <2>1. CASE think(i)
    BY <2>1, RestStep DEF think, At
  <2>2. CASE take_set(i)
    <3>1. /\ pc' = [pc EXCEPT ![i] = "test_self"] /\ pc[i] = "take_set"
          /\ state_sema' = [state_sema EXCEPT ![i] = "HUNGRY"] /\ ~ Blocked(i)
      BY <2>2 DEF take_set, At, Goto
    <3>2. i \in ToTest(i)' /\ ToTest(i) = {}
      BY <2>0, <3>1 DEF ToTest
    <3>3. ASSUME NEW j \in Phi, j # i, CanEat(j)' PROVE \E k \in Phi : j \in ToTest(k)'
      <4>1. state_sema[i] # "EATING"
        BY <3>1 DEF PhiInv, ForkTokens
      <4>2. CanEat(j)
        BY <2>0, <3>1, <3>3, <4>1, Ring DEF CanEat
      <4>3. PICK k \in Phi : j \in ToTest(k)
        BY <4>2 DEF NoneForgotten
      <4>4. j \in ToTest(k)'
        BY <2>0, <3>1, <3>2, <4>3 DEF ToTest
      <4> QED
        BY <4>4
    <3> QED
      BY <3>2, <3>3 DEF NoneForgotten
  <2>3. CASE test(i)
    <3>1. /\ pc[i] \in {"test_self", "test_left", "test_right"} /\ state_sema' = state_sema
          /\ pc' = [pc EXCEPT ![i] = IF CanEat(Target(i, pc[i])) THEN UpAt(pc[i])
                                                               ELSE AfterTest(pc[i])]
      BY <2>3 DEF test, Goto
    <3>2. ASSUME NEW j \in ToTest(i), CanEat(j) PROVE j \in ToTest(i)'
      <4>1. CASE CanEat(Target(i, pc[i]))
        <5>1. pc'[i] = UpAt(pc[i])
          BY <2>0, <3>1, <4>1
        <5> QED
          BY <3>1, <5>1 DEF UpAt, ToTest
      <4>2. CASE ~ CanEat(Target(i, pc[i]))
        <5>1. pc'[i] = AfterTest(pc[i]) /\ j # Target(i, pc[i])
          BY <2>0, <3>1, <3>2, <4>2
        <5> QED
          BY <3>1, <5>1 DEF AfterTest, Target, ToTest
      <4> QED
        BY <4>1, <4>2
    <3>3. ASSUME NEW j \in Phi, CanEat(j)' PROVE \E k \in Phi : j \in ToTest(k)'
      <4>1. CanEat(j)
        BY <3>1, <3>3 DEF CanEat
      <4>2. PICK k \in Phi : j \in ToTest(k)
        BY <4>1 DEF NoneForgotten
      <4>3. CASE k = i
        BY <3>2, <4>1, <4>2, <4>3
      <4>4. CASE k # i
        <5>1. pc'[k] = pc[k]
          BY <2>0, <3>1, <4>4
        <5>2. j \in ToTest(k)'
          BY <4>2, <5>1 DEF ToTest
        <5> QED
          BY <5>2
      <4> QED
        BY <4>3, <4>4
    <3> QED
      BY <3>3 DEF NoneForgotten
  <2>4. CASE test_up(i)
    <3>1. PICK t \in Phi : t = Target(i, pc[i])
      BY <2>4, Ring DEF test_up, Target
    <3>2. /\ pc[i] \in {"up_self", "up_left", "up_right"}
          /\ state_sema' = [state_sema EXCEPT ![t] = "EATING"]
          /\ pc' = [pc EXCEPT ![i] = AfterTest(pc[i])]
      BY <2>4, <3>1 DEF test_up, Goto
    <3>3. ASSUME NEW j \in ToTest(i), j # t PROVE j \in ToTest(i)'
      <4>1. pc'[i] = AfterTest(pc[i])
        BY <2>0, <3>2
      <4> QED
        BY <3>1, <3>2, <3>3, <4>1 DEF AfterTest, Target, ToTest
    <3>4. ASSUME NEW j \in Phi, CanEat(j)' PROVE \E k \in Phi : j \in ToTest(k)'
      <4>1. CanEat(j) /\ j # t
        BY <2>0, <3>2, <3>4, Ring DEF CanEat
      <4>2. PICK k \in Phi : j \in ToTest(k)
        BY <4>1 DEF NoneForgotten
      <4>3. CASE k = i
        BY <3>3, <4>1, <4>2, <4>3
      <4>4. CASE k # i
        <5>1. pc'[k] = pc[k]
          BY <2>0, <3>2, <4>4
        <5>2. j \in ToTest(k)'
          BY <4>2, <5>1 DEF ToTest
        <5> QED
          BY <5>2
      <4> QED
        BY <4>3, <4>4
    <3> QED
      BY <3>4 DEF NoneForgotten
  <2>5. CASE take_unlock(i) \/ take_down(i) \/ eat(i) \/ put_unlock(i)
    BY <2>5, RestStep DEF take_unlock, take_down, eat, put_unlock, At
  <2>6. CASE put_set(i)
    <3>1. /\ pc' = [pc EXCEPT ![i] = "test_left"] /\ pc[i] = "put_set"
          /\ state_sema' = [state_sema EXCEPT ![i] = "THINKING"]
      BY <2>6 DEF put_set, At, Goto
    <3>2. ToTest(i)' = {LEFT(i), RIGHT(i)} /\ ToTest(i) = {}
      BY <2>0, <3>1 DEF ToTest
    <3>3. ASSUME NEW j \in Phi, CanEat(j)' PROVE \E k \in Phi : j \in ToTest(k)'
      <4>1. CASE j \in {LEFT(i), RIGHT(i)}
        BY <3>2, <4>1
      <4>2. CASE j \notin {LEFT(i), RIGHT(i)}
        <5>1. LEFT(j) # i /\ RIGHT(j) # i
          BY <4>2, Ring
        <5>2. CanEat(j)
          BY <2>0, <3>1, <3>3, <5>1, Ring DEF CanEat
        <5>3. PICK k \in Phi : j \in ToTest(k)
          BY <5>2 DEF NoneForgotten
        <5>4. j \in ToTest(k)'
          BY <2>0, <3>1, <3>2, <5>3 DEF ToTest
        <5> QED
          BY <5>4
      <4> QED
        BY <4>1, <4>2
    <3> QED
      BY <3>3 DEF NoneForgotten
  <2> QED
    BY <1>2, <2>1, <2>2, <2>3, <2>4, <2>5, <2>6 DEF Step
<1> QED
  BY <1>1, <1>2 DEF Next

(* A hungry philosopher has an eating neighbour whenever no thread is in    *)
(* the critical section: phi_put_forks_sema tests both neighbours, so no    *)
(* one waits for forks that are free.                                       *)
THEOREM NobodyWaitsInVain == Spec => []HungryForReason
<1>1. Init => NoneForgotten
  BY DEF Init, NoneForgotten, CanEat
<1>2. PhiInv /\ NoneForgotten /\ [Next]_vars => NoneForgotten'
  BY NoneForgottenStep
<1>3. PhiInv /\ NoneForgotten => HungryForReason
  <2> SUFFICES ASSUME PhiInv, NoneForgotten, \A i \in Phi : ~ InCritical(i),
                      NEW j \in Phi, CanEat(j)
               PROVE  FALSE
    BY DEF HungryForReason, CanEat
  <2>1. PICK i \in Phi : j \in ToTest(i)
    BY DEF NoneForgotten
  <2>2. pc[i] \in Critical \ {"take_set", "put_set"}
    BY <2>1 DEF ToTest, Critical
  <2>3. InCritical(i)
    BY <2>2 DEF PhiInv, MutexHeld, InCritical
  <2> QED
    BY <2>3
<1> QED
  BY <1>1, <1>2, <1>3, PhiInvariant, PTL DEF Spec
==============================================================================
