----------------------------- MODULE PartsProofs -----------------------------
(***************************************************************************)
(* Proofs about the three parts that MCParts checks.                        *)
(*                                                                         *)
(* PidAlloc, for every MAX_PROCESS and MAX_PID: the inductive invariant     *)
(* PidInv, uniqueness of the identifier returned, and refinement of         *)
(* PidSpec.  TimerList, for any set of timers and any time asked for: the   *)
(* list of differences implements the independent countdowns of TimerSpec.  *)
(* StdinInput, for rings of any size and any readers: every key is          *)
(* accounted for and sleeping readers are in the queue.                     *)
(***************************************************************************)
EXTENDS PidAlloc, TimerList, StdinInput, DataLemmas

------------------------------------------------------------------------------
(* PidAlloc.                                                                *)

(* proc_init establishes the invariant.                                     *)
LEMMA PidInvInit == Init => PidInv
  BY MaxAssumption, FS_EmptySet DEF Init, PidInv, TypeOK, WindowFree, CountAgrees

(* Every step of get_pid, set_links and remove_links keeps the statics      *)
(* last_pid and next_safe in their ranges and the window between them free. *)
LEMMA PidInvStep == PidInv /\ [Next]_vars => PidInv'
<1> SUFFICES ASSUME PidInv, [Next]_vars PROVE PidInv'
  OBVIOUS
<1> USE MaxAssumption DEF PidInv, TypeOK, WindowFree, CountAgrees, Passed
<1>1. CASE get_pid
  <2>1. pc = "idle" /\ pids' = pids /\ nr_process' = nr_process /\ MAX_PID > 1
        /\ nr_process < MAX_PROCESS
    BY <1>1 DEF get_pid
  <2>2. CASE last_pid + 1 >= MAX_PID \/ last_pid + 1 >= next_safe
    <3>1. /\ last_pid' = IF last_pid + 1 >= MAX_PID THEN 1 ELSE last_pid + 1
          /\ next_safe' = MAX_PID /\ todo' = pids /\ pc' = "scan"
      BY <1>1, <2>2 DEF get_pid
    <3> QED
      BY <2>1, <3>1
  <2>3. CASE ~(last_pid + 1 >= MAX_PID \/ last_pid + 1 >= next_safe)
    <3>1. /\ last_pid' = last_pid + 1
          /\ next_safe' = next_safe /\ todo' = todo /\ pc' = "link"
      BY <1>1, <2>3 DEF get_pid
    <3>2. last_pid' \in 1 .. MAX_PID - 1 /\ last_pid' < next_safe'
      BY <2>3, <3>1
    <3> QED
      BY <2>1, <3>1, <3>2
  <2> QED
    BY <2>2, <2>3
<1>2. CASE Scan
  <2>1. PICK n \in todo : ScanOne(n)
    BY <1>2 DEF Scan
  <2>2. pc = "scan" /\ pc' = "scan" /\ pids' = pids /\ nr_process' = nr_process
    BY <1>2 DEF Scan
  <2>3. n \in 1 .. MAX_PID - 1
    BY <1>2
  <2>4. CASE n = last_pid /\ last_pid + 1 < next_safe
    <3>1. last_pid' = last_pid + 1 /\ next_safe' = next_safe /\ todo' = todo \ {n}
      BY <2>1, <2>4 DEF ScanOne
    <3>2. \A m \in pids \ todo' : Passed(m)'
      BY <2>2, <2>3, <2>4, <3>1
    <3> QED
      BY <2>2, <2>4, <3>1, <3>2
  <2>5. CASE n = last_pid /\ last_pid + 1 >= next_safe
    BY <2>1, <2>2, <2>3, <2>5 DEF ScanOne
  <2>6. CASE n # last_pid
    <3>1. /\ next_safe' = IF n > last_pid /\ next_safe > n THEN n ELSE next_safe
          /\ last_pid' = last_pid /\ todo' = todo \ {n}
      BY <2>1, <2>6 DEF ScanOne
    <3>2. next_safe' \in 1 .. MAX_PID /\ last_pid < next_safe' /\ next_safe' <= next_safe
      BY <2>2, <2>3, <3>1
    <3>3. Passed(n)'
      BY <2>3, <2>6, <3>1
    <3>4. \A m \in pids \ todo : Passed(m)'
      BY <2>2, <3>1, <3>2
    <3>5. \A m \in pids \ todo' : Passed(m)'
      BY <3>1, <3>3, <3>4
    <3> QED
      BY <2>2, <3>1, <3>2, <3>5
  <2> QED
    BY <2>3, <2>4, <2>5, <2>6
<1>3. CASE ScanEnd
  BY <1>3 DEF ScanEnd
<1>4. CASE set_links
  <2>1. last_pid \in (1 .. MAX_PID - 1) \ pids
    BY <1>4 DEF set_links
  <2>2. CountAgrees'
    BY <1>4, <2>1, FS_AddElement DEF set_links
  <2> QED
    BY <1>4, <2>1, <2>2 DEF set_links
<1>5. CASE remove_links
  <2>1. PICK n \in pids : pids' = pids \ {n}
    BY <1>5 DEF remove_links
  <2>2. nr_process' = nr_process - 1 /\ UNCHANGED <<last_pid, next_safe, todo, pc>>
    BY <1>5 DEF remove_links
  <2>3. /\ IsFiniteSet(pids') /\ Cardinality(pids') = Cardinality(pids) - 1
        /\ Cardinality(pids') \in Nat /\ Cardinality(pids) \in Nat
    <3>1. IsFiniteSet(pids')
      BY <2>1, FS_RemoveElement
    <3>2. Cardinality(pids') = Cardinality(pids) - 1
      BY <2>1, FS_RemoveElement
    <3> QED
      BY <3>1, <3>2, FS_CardinalityType
  <2>4. nr_process' \in 1 .. MAX_PROCESS
    BY <2>2, <2>3
  <2> QED
    BY <1>5, <2>1, <2>2, <2>3, <2>4 DEF remove_links
<1>6. CASE UNCHANGED vars
  BY <1>6 DEF vars
<1> QED
  BY <1>1, <1>2, <1>3, <1>4, <1>5, <1>6 DEF Next

(* The statics of get_pid and the process list always agree.                *)
THEOREM PidInvariant == Spec => []PidInv
<1>1. Init => PidInv
  BY PidInvInit
<1>2. PidInv /\ [Next]_vars => PidInv'
  BY PidInvStep
<1> QED
  BY <1>1, <1>2, PTL DEF Spec

(* get_pid never returns an identifier a live process holds.                *)
THEOREM PidUniqueness == Spec => []PidUnique
<1>1. PidInv => PidUnique
  BY MaxAssumption DEF PidInv, TypeOK, WindowFree, Passed, PidUnique
<1> QED
  BY <1>1, PidInvariant, PTL

(* do_fork's use of get_pid implements the identifier promise PidSpec.      *)
THEOREM PidRefinement == Spec => RefinesPidSpec
<1>1. Init => Abstract!Init
  BY DEF Init, Abstract!Init
<1>2. PidInv /\ [Next]_vars => [Abstract!Next]_Abstract!vars
  <2> SUFFICES ASSUME PidInv, [Next]_vars PROVE [Abstract!Next]_Abstract!vars
    OBVIOUS
  <2>1. CASE set_links
    <3>1. last_pid \in (1 .. MAX_PID - 1) \ pids
      BY <2>1, MaxAssumption DEF set_links, PidInv, TypeOK, WindowFree, Passed
    <3> QED
      BY <2>1, <3>1 DEF set_links, Abstract!Next, Abstract!Alloc
  <2>2. CASE remove_links
    BY <2>2 DEF remove_links, Abstract!Next, Abstract!Free
  <2>3. CASE get_pid \/ Scan \/ ScanEnd \/ UNCHANGED vars
    BY <2>3 DEF get_pid, Scan, ScanEnd, vars, Abstract!vars
  <2> QED
    BY <2>1, <2>2, <2>3 DEF Next
<1> QED
  BY <1>1, <1>2, PidInvariant, PTL DEF Spec, RefinesPidSpec, Abstract!Spec

------------------------------------------------------------------------------
(* TimerList.                                                               *)
(* What the sums along a list are.                                          *)
IsSum(s, q, e) == s[0] = 0 /\ \A k \in 1 .. Len(q) : s[k] = s[k - 1] + e[q[k]]

(* A list has such sums.                                                    *)
LEMMA SumExists ==
  ASSUME NEW T, NEW q \in Seq(T), NEW e \in [T -> Nat]
  PROVE  \E s \in [0 .. Len(q) -> Nat] : IsSum(s, q, e)
<1> DEFINE P == {n \in 0 .. Len(q) :
                   \E s \in [0 .. n -> Nat] :
                      s[0] = 0 /\ \A k \in 1 .. n : s[k] = s[k - 1] + e[q[k]]}
<1>1. 0 \in P
  <2> DEFINE z == [i \in 0 .. 0 |-> 0]
  <2>1. z \in [0 .. 0 -> Nat] /\ z[0] = 0 /\ 0 \in 0 .. Len(q)
    OBVIOUS
  <2>2. \A k \in 1 .. 0 : z[k] = z[k - 1] + e[q[k]]
    OBVIOUS
  <2> HIDE DEF z
  <2> QED
    BY <2>1, <2>2
<1>2. ASSUME NEW n \in 0 .. Len(q) - 1, n \in P PROVE n + 1 \in P
  <2>1. PICK s \in [0 .. n -> Nat] : s[0] = 0 /\ \A k \in 1 .. n : s[k] = s[k - 1] + e[q[k]]
    BY <1>2
  <2> DEFINE r == [i \in 0 .. n + 1 |-> IF i = n + 1 THEN s[n] + e[q[n + 1]] ELSE s[i]]
  <2>2. e[q[n + 1]] \in Nat
    BY <1>2
  <2>3. r \in [0 .. n + 1 -> Nat]
    BY <2>1, <2>2
  <2>4. r[0] = 0 /\ \A k \in 1 .. n + 1 : r[k] = r[k - 1] + e[q[k]]
    BY <2>1
  <2>5. n + 1 \in 0 .. Len(q)
    OBVIOUS
  <2> HIDE DEF r
  <2> QED
    BY <2>3, <2>4, <2>5
<1>3. Len(q) \in Nat /\ Len(q) \in 0 .. Len(q)
  OBVIOUS
<1>4. Len(q) \in P
  <2> HIDE DEF P
  <2> QED
    BY <1>1, <1>2, <1>3, Induction
<1> QED
  BY <1>4 DEF IsSum

(* Only one function is the sum.                                            *)
LEMMA SumUnique ==
  ASSUME NEW T, NEW q \in Seq(T), NEW e \in [T -> Nat], NEW s, NEW r,
         IsSum(s, q, e), IsSum(r, q, e)
  PROVE  \A k \in 0 .. Len(q) : s[k] = r[k]
<1> DEFINE P == {n \in 0 .. Len(q) : s[n] = r[n]}
<1>1. 0 \in P
  BY DEF IsSum
<1>2. ASSUME NEW n \in 0 .. Len(q) - 1, n \in P PROVE n + 1 \in P
  <2>1. /\ n + 1 \in 1 .. Len(q) /\ (n + 1) - 1 = n
    OBVIOUS
  <2>2. s[n + 1] = s[n] + e[q[n + 1]] /\ r[n + 1] = r[n] + e[q[n + 1]]
    BY <2>1 DEF IsSum
  <2> QED
    BY <1>2, <2>1, <2>2
<1>3. 0 .. Len(q) \subseteq P
  <2>1. Len(q) \in Nat
    OBVIOUS
  <2> HIDE DEF P
  <2> QED
    BY <1>1, <1>2, <2>1, Induction
<1> QED
  BY <1>3

(* The recursive definition of Sums has a solution, so it is the sum.       *)
LEMMA SumsDef ==
  ASSUME NEW T, NEW q \in Seq(T), NEW e \in [T -> Nat]
  PROVE  Sums(q, e) \in [0 .. Len(q) -> Nat] /\ IsSum(Sums(q, e), q, e)
<1>1. PICK s \in [0 .. Len(q) -> Nat] : IsSum(s, q, e)
  BY SumExists
<1> DEFINE F(f) == [k \in 0 .. Len(q) |-> IF k = 0 THEN 0 ELSE f[k - 1] + e[q[k]]]
<1>2. s = F(s)
  BY <1>1 DEF IsSum
<1>3. Sums(q, e) = CHOOSE f : f = F(f)
  BY DEF Sums
<1>4. Sums(q, e) = F(Sums(q, e))
  BY <1>2, <1>3
<1> HIDE DEF F
<1>5. IsSum(Sums(q, e), q, e)
  <2>1. \A k \in 0 .. Len(q) :
           Sums(q, e)[k] = IF k = 0 THEN 0 ELSE Sums(q, e)[k - 1] + e[q[k]]
    BY <1>4 DEF F
  <2> QED
    BY <2>1 DEF IsSum
<1>6. \A k \in 0 .. Len(q) : Sums(q, e)[k] = s[k]
  BY <1>1, <1>5, SumUnique
<1>7. Sums(q, e) = [k \in 0 .. Len(q) |-> Sums(q, e)[k]]
  BY <1>4 DEF F
<1> QED
  BY <1>1, <1>5, <1>6, <1>7

(* Who has found the sums of a list by other means knows Sums.              *)
LEMMA SumsAre ==
  ASSUME NEW T, NEW q \in Seq(T), NEW e \in [T -> Nat], NEW s, IsSum(s, q, e)
  PROVE  \A k \in 0 .. Len(q) : Sums(q, e)[k] = s[k]
  BY SumsDef, SumUnique

(* The sums grow along the list.                                            *)
LEMMA SumsGrow ==
  ASSUME NEW T, NEW q \in Seq(T), NEW e \in [T -> Nat],
         NEW i \in 0 .. Len(q), NEW j \in i .. Len(q)
  PROVE  Sums(q, e)[i] <= Sums(q, e)[j]
<1> DEFINE s == Sums(q, e)
<1>1. s \in [0 .. Len(q) -> Nat] /\ IsSum(s, q, e)
  BY SumsDef
<1> DEFINE P == {n \in 0 .. Len(q) - i : s[i] <= s[i + n]}
<1>2. 0 \in P
  BY <1>1
<1>3. ASSUME NEW n \in 0 .. (Len(q) - i) - 1, n \in P PROVE n + 1 \in P
  <2>1. /\ i + (n + 1) \in 1 .. Len(q) /\ (i + (n + 1)) - 1 = i + n
        /\ n + 1 \in 0 .. Len(q) - i /\ i + n \in 0 .. Len(q)
    OBVIOUS
  <2>2. s[i + (n + 1)] = s[i + n] + e[q[i + (n + 1)]] /\ e[q[i + (n + 1)]] \in Nat
    BY <1>1, <2>1 DEF IsSum
  <2>3. s[i] \in Nat /\ s[i + n] \in Nat /\ s[i] <= s[i + n]
    BY <1>1, <1>3, <2>1
  <2> HIDE DEF s
  <2> QED
    BY <2>1, <2>2, <2>3
<1>4. 0 .. Len(q) - i \subseteq P
  <2>1. Len(q) - i \in Nat
    OBVIOUS
  <2> HIDE DEF P
  <2> QED
    BY <1>2, <1>3, <2>1, Induction
<1>5. j - i \in 0 .. Len(q) - i /\ i + (j - i) = j
  OBVIOUS
<1> QED
  BY <1>4, <1>5

(* The ticks that are left to the timer at place i, and to a timer that is  *)
(* not listed.                                                              *)
LEMMA TicksLeftAt ==
  ASSUME NEW T, NEW q \in Seq(T), NEW e \in [T -> Nat], IsInjective(q)
  PROVE  /\ \A i \in 1 .. Len(q) : /\ q[i] \in ToSet(q) /\ Place(q, q[i]) = i
                                  /\ TicksLeft(q, e, q[i]) = Sums(q, e)[i]
         /\ \A t \in ToSet(q) : Place(q, t) \in 1 .. Len(q) /\ q[Place(q, t)] = t
         /\ \A t : t \notin ToSet(q) => TicksLeft(q, e, t) = 0
<1>1. \A i \in 1 .. Len(q) : q[i] \in ToSet(q) /\ Place(q, q[i]) = i
  <2> TAKE i \in 1 .. Len(q)
  <2>1. q[i] \in ToSet(q)
    BY DEF ToSet
  <2>2. \A j \in 1 .. Len(q) : q[j] = q[i] => j = i
    BY DEF IsInjective
  <2> QED
    BY <2>1, <2>2 DEF Place
<1>2. \A t \in ToSet(q) : \E i \in 1 .. Len(q) : q[i] = t
  BY DEF ToSet
<1> QED
  BY <1>1, <1>2 DEF TicksLeft

(* The same for a list and its differences as one thing, which the provers  *)
(* instantiate more easily than their types.                                *)
IsTimed(q, e, T) == q \in Seq(T) /\ e \in [T -> Nat]

(* Sums computes them.                                                      *)
LEMMA TimedSums ==
  \A q, e, T, s : IsTimed(q, e, T) /\ IsSum(s, q, e) =>
                     \A k \in 0 .. Len(q) : Sums(q, e)[k] = s[k]
  BY SumsAre DEF IsTimed

(* The ticks left of a timer are the sum up to its place, and 0 outside the *)
(* list.                                                                    *)
LEMMA TimedLeft ==
  \A q, e, T : IsTimed(q, e, T) /\ IsInjective(q) =>
                  /\ \A j \in 1 .. Len(q) : TicksLeft(q, e, q[j]) = Sums(q, e)[j]
                  /\ \A t : t \notin ToSet(q) => TicksLeft(q, e, t) = 0
<1> SUFFICES ASSUME NEW q, NEW e, NEW T, IsTimed(q, e, T), IsInjective(q)
             PROVE  /\ \A j \in 1 .. Len(q) : TicksLeft(q, e, q[j]) = Sums(q, e)[j]
                    /\ \A t : t \notin ToSet(q) => TicksLeft(q, e, t) = 0
  OBVIOUS
<1>1. q \in Seq(T) /\ e \in [T -> Nat]
  BY DEF IsTimed
<1>2. \A j \in 1 .. Len(q) : TicksLeft(q, e, q[j]) = Sums(q, e)[j]
  BY <1>1, TicksLeftAt
<1>3. \A t : t \notin ToSet(q) => TicksLeft(q, e, t) = 0
  BY DEF TicksLeft
<1> QED
  BY <1>2, <1>3

(* InsertAt and RemoveAt element by element.                                *)
LEMMA Inserted ==
  ASSUME NEW T, NEW q \in Seq(T), NEW t \in T, NEW i \in 0 .. Len(q)
  PROVE  InsertAt(q, i + 1, t) \in Seq(T) /\ IsInsert(InsertAt(q, i + 1, t), q, i, t)
<1>1. (i + 1) - 1 = i
  OBVIOUS
<1> QED
  BY <1>1, Spliced DEF InsertAt

(* RemoveAt takes out the i-th element and moves the rest down.             *)
LEMMA Removed ==
  ASSUME NEW T, NEW q \in Seq(T), NEW i \in 1 .. Len(q)
  PROVE  RemoveAt(q, i) \in Seq(T) /\ IsRemove(RemoveAt(q, i), q, i)
BY Dropped DEF RemoveAt

(* A new timer in the list: the timers are those from before and it.        *)
LEMMA InsertedSet ==
  ASSUME NEW T, NEW q \in Seq(T), IsInjective(q), NEW t \in T, t \notin ToSet(q),
         NEW i \in 0 .. Len(q), NEW r \in Seq(T), IsInsert(r, q, i, t)
  PROVE  /\ IsInjective(r) /\ ToSet(r) = ToSet(q) \cup {t}
         /\ \A j \in i + 2 .. Len(q) + 1 : j - 1 \in i + 1 .. Len(q) /\ r[j] = q[j - 1]
<1>0. /\ Len(r) = Len(q) + 1 /\ r[i + 1] = t
      /\ \A j \in 1 .. i : r[j] = q[j]
      /\ \A j \in i + 1 .. Len(q) : r[j + 1] = q[j]
  BY DEF IsInsert
<1>1. /\ \A j \in 1 .. Len(q) : q[j] \in ToSet(q) /\ q[j] # t
      /\ \A c, d \in 1 .. Len(q) : q[c] = q[d] => c = d
      /\ Len(q) \in Nat
  BY DEF ToSet, IsInjective
<1>2. ASSUME NEW j \in i + 2 .. Len(q) + 1
      PROVE  j - 1 \in i + 1 .. Len(q) /\ j - 1 \in 1 .. Len(q) /\ r[j] = q[j - 1]
  <2>1. j - 1 \in i + 1 .. Len(q) /\ (j - 1) + 1 = j /\ j - 1 \in 1 .. Len(q)
    BY <1>1
  <2> QED
    BY <1>0, <2>1
<1>3. IsInjective(r)
  <2> SUFFICES ASSUME NEW a \in 1 .. Len(q) + 1, NEW b \in 1 .. Len(q) + 1,
                      r[a] = r[b], a < b
               PROVE  FALSE
    BY <1>0, <1>1 DEF IsInjective
  <2>1. CASE b <= i
    BY <1>0, <1>1, <2>1
  <2>2. CASE a <= i /\ b = i + 1
    BY <1>0, <1>1, <2>2
  <2>3. CASE a <= i /\ b > i + 1
    <3>1. a \in 1 .. Len(q) /\ a \in 1 .. i /\ b \in i + 2 .. Len(q) + 1
      BY <1>1, <2>3
    <3>2. q[a] = q[b - 1] /\ b - 1 \in 1 .. Len(q) /\ a # b - 1
      BY <1>0, <1>2, <2>3, <3>1
    <3> QED
      BY <1>1, <3>1, <3>2
  <2>4. CASE a >= i + 1
    <3>1. b \in i + 2 .. Len(q) + 1 /\ (a # i + 1 => a \in i + 2 .. Len(q) + 1)
      BY <1>1, <2>4
    <3>2. r[b] = q[b - 1] /\ b - 1 \in 1 .. Len(q)
      BY <1>2, <3>1
    <3>3. CASE a = i + 1
      BY <1>0, <1>1, <3>2, <3>3
    <3>4. CASE a # i + 1
      <4>1. r[a] = q[a - 1] /\ a - 1 \in 1 .. Len(q) /\ a - 1 # b - 1
        BY <1>2, <3>1, <3>4
      <4> QED
        BY <1>1, <3>2, <4>1
    <3> QED
      BY <3>3, <3>4
  <2> QED
    BY <1>1, <2>1, <2>2, <2>3, <2>4
<1>4. \A j \in 1 .. Len(q) + 1 : r[j] \in ToSet(q) \cup {t}
  <2> TAKE j \in 1 .. Len(q) + 1
  <2>1. CASE j <= i
    BY <1>0, <1>1, <2>1
  <2>2. CASE j = i + 1
    BY <1>0, <2>2
  <2>3. CASE j > i + 1
    <3>1. j \in i + 2 .. Len(q) + 1
      BY <1>1, <2>3
    <3> QED
      BY <1>1, <1>2, <3>1
  <2> QED
    BY <1>1, <2>1, <2>2, <2>3
<1>5. t \in ToSet(r)
  BY <1>0, <1>1 DEF ToSet
<1>6. \A j \in 1 .. Len(q) : q[j] \in ToSet(r)
  <2> TAKE j \in 1 .. Len(q)
  <2>1. CASE j <= i
    <3>1. j \in 1 .. i /\ j \in 1 .. Len(r)
      BY <1>0, <1>1, <2>1
    <3> QED
      BY <1>0, <3>1 DEF ToSet
  <2>2. CASE j > i
    <3>1. j \in i + 1 .. Len(q) /\ j + 1 \in 1 .. Len(r)
      BY <1>0, <1>1, <2>2
    <3> QED
      BY <1>0, <3>1, SMTT(30) DEF ToSet
  <2> QED
    BY <1>1, <2>1, <2>2
<1>7. ToSet(r) = ToSet(q) \cup {t}
  <2>1. ToSet(r) \subseteq ToSet(q) \cup {t}
    BY <1>0, <1>4 DEF ToSet
  <2>2. ToSet(q) \subseteq ToSet(r)
    BY <1>6 DEF ToSet
  <2> QED
    BY <1>5, <2>1, <2>2
<1> QED
  BY <1>2, <1>3, <1>7

(* The loop of add_timer, for a list q with differences e: a timer that     *)
(* runs out after k ticks is put after the first i, which run out no later, *)
(* and the timer behind it counts from it.  Nobody else is moved.           *)
IsAdd(d, e, q, i, t, rest) ==
    /\ d[t] = rest
    /\ i < Len(q) => d[q[i + 1]] = e[q[i + 1]] - rest
    /\ \A p : p \in DOMAIN e /\ p # t /\ (i < Len(q) => p # q[i + 1]) => d[p] = e[p]

(* What has become of the list and its sums.                                *)
Added(r, d, q, e, i, t, k) ==
    /\ IsInjective(r)
    /\ Sums(r, d)[i + 1] = k
    /\ \A j \in 0 .. i : Sums(r, d)[j] = Sums(q, e)[j]
    /\ \A j \in i + 1 .. Len(q) : Sums(r, d)[j + 1] = Sums(q, e)[j]
    /\ \A p \in DOMAIN e : TicksLeft(r, d, p) = IF p = t THEN k ELSE TicksLeft(q, e, p)

(* add_timer: the sums before the new timer stay, the one behind it pays for*)
(* it.                                                                      *)
LEMMA AddSums ==
  \A q, e, r, d, T : \A t \in T, k \in Nat, i \in 0 .. Len(q) :
     /\ IsTimed(q, e, T) /\ IsInjective(q) /\ t \notin ToSet(q)
     /\ IsTimed(r, d, T) /\ IsInsert(r, q, i, t) /\ IsAdd(d, e, q, i, t, k - Sums(q, e)[i])
     => Added(r, d, q, e, i, t, k)
<1> SUFFICES ASSUME NEW q, NEW e, NEW r, NEW d, NEW T,
                    NEW t \in T, NEW k \in Nat, NEW i \in 0 .. Len(q),
                    IsTimed(q, e, T), IsInjective(q), t \notin ToSet(q),
                    IsTimed(r, d, T), IsInsert(r, q, i, t),
                    IsAdd(d, e, q, i, t, k - Sums(q, e)[i])
             PROVE  Added(r, d, q, e, i, t, k)
  OBVIOUS
<1> q \in Seq(T) /\ e \in [T -> Nat] /\ r \in Seq(T) /\ d \in [T -> Nat]
  BY DEF IsTimed
<1> DEFINE s == Sums(q, e)
<1> s \in [0 .. Len(q) -> Nat] /\ IsAdd(d, e, q, i, t, k - s[i])
  BY SumsDef
<1> s = Sums(q, e) /\ IsSum(s, q, e)
  BY SumsDef
<1> HIDE DEF s
<1>0. /\ Len(r) = Len(q) + 1 /\ r[i + 1] = t
      /\ \A j \in 1 .. i : r[j] = q[j]
      /\ \A j \in i + 1 .. Len(q) : r[j + 1] = q[j]
  BY DEF IsInsert
<1>1. IsSum(s, q, e) /\ s[i] \in Nat /\ Len(q) \in Nat
  <2>1. Len(q) \in Nat
    OBVIOUS
  <2>2. s[i] \in Nat
    OBVIOUS
  <2> QED
    BY <2>1, <2>2
<1>2. /\ IsInjective(r) /\ ToSet(r) = ToSet(q) \cup {t}
      /\ \A j \in i + 2 .. Len(q) + 1 : j - 1 \in i + 1 .. Len(q) /\ r[j] = q[j - 1]
  BY InsertedSet
<1>3. /\ \A j \in 1 .. Len(q) : q[j] \in T /\ q[j] # t
      /\ \A a, b \in 1 .. Len(q) : q[a] = q[b] => a = b
  <2>1. DOMAIN q = 1 .. Len(q) /\ \A j \in 1 .. Len(q) : q[j] \in T
    OBVIOUS
  <2>2. \A j \in DOMAIN q : q[j] # t
    BY DEF ToSet
  <2>3. \A a, b \in DOMAIN q : q[a] = q[b] => a = b
    BY DEF IsInjective
  <2> QED
    BY <2>1, <2>2, <2>3
<1>4. PICK x \in [0 .. Len(q) + 1 -> Nat] :
        \A j \in 0 .. Len(q) + 1 :
           x[j] = IF j <= i THEN s[j] ELSE IF j = i + 1 THEN k ELSE s[j - 1]
  <2> DEFINE x == [j \in 0 .. Len(q) + 1 |->
                     IF j <= i THEN s[j] ELSE IF j = i + 1 THEN k ELSE s[j - 1]]
  <2>1. x \in [0 .. Len(q) + 1 -> Nat]
    BY <1>1
  <2> QED
    BY <2>1
<1>5. x[0] = 0
  BY <1>1, <1>4 DEF IsSum
<1>6. ASSUME NEW j \in 1 .. Len(q) + 1 PROVE x[j] = x[j - 1] + d[r[j]]
  <2>0. j - 1 \in 0 .. Len(q) + 1 /\ j \in 0 .. Len(q) + 1
    BY <1>1
  <2>1. CASE j <= i
    <3>1. j \in 1 .. Len(q) /\ j \in 1 .. i /\ j - 1 <= i /\ j # i + 1
      BY <1>1, <2>1
    <3>2. r[j] = q[j] /\ q[j] # t /\ (i < Len(q) => q[j] # q[i + 1])
      <4>1. r[j] = q[j]
        BY <1>0, <3>1
      <4>2. q[j] # t
        BY <1>3, <3>1
      <4>3. i < Len(q) => i + 1 \in 1 .. Len(q)
        BY <1>1
      <4> QED
        BY <1>3, <3>1, <4>1, <4>2, <4>3
    <3>3. d[r[j]] = e[q[j]]
      BY <1>3, <3>1, <3>2 DEF IsAdd
    <3>4. s[j] = s[j - 1] + e[q[j]]
      BY <1>1, <3>1 DEF IsSum
    <3> QED
      BY <1>4, <2>0, <2>1, <3>1, <3>3, <3>4
  <2>2. CASE j = i + 1
    <3>1. x[j] = k /\ x[j - 1] = s[i] /\ d[r[j]] = k - s[i]
      BY <1>0, <1>1, <1>4, <2>0, <2>2 DEF IsAdd
    <3> QED
      BY <1>1, <3>1
  <2>3. CASE j = i + 2
    <3>1. i < Len(q) /\ i + 1 \in 1 .. Len(q) /\ j - 1 = i + 1 /\ j \in i + 2 .. Len(q) + 1
      BY <1>1, <2>3
    <3>2. x[j] = s[i + 1] /\ x[j - 1] = k /\ r[j] = q[i + 1]
      BY <1>1, <1>2, <1>4, <2>0, <2>3, <3>1
    <3>3. s[i + 1] = s[i] + e[q[i + 1]] /\ e[q[i + 1]] \in Nat
      <4>1. (i + 1) - 1 = i
        OBVIOUS
      <4> QED
        BY <1>1, <1>3, <3>1, <4>1 DEF IsSum
    <3>4. d[r[j]] = e[q[i + 1]] - (k - s[i])
      BY <3>1, <3>2 DEF IsAdd
    <3> QED
      BY <1>1, <3>2, <3>3, <3>4
  <2>4. CASE j > i + 2
    <3>1. /\ j - 1 \in 1 .. Len(q) /\ j - 1 # i + 1 /\ ~ (j <= i) /\ ~ (j - 1 <= i)
          /\ j # i + 1 /\ j \in i + 2 .. Len(q) + 1 /\ i < Len(q) /\ i + 1 \in 1 .. Len(q)
      BY <1>1, <2>4
    <3>2. r[j] = q[j - 1] /\ q[j - 1] # t /\ q[j - 1] # q[i + 1] /\ q[j - 1] \in T
      BY <1>2, <1>3, <3>1
    <3>3. d[r[j]] = e[q[j - 1]]
      BY <3>1, <3>2 DEF IsAdd
    <3>4. s[j - 1] = s[(j - 1) - 1] + e[q[j - 1]]
      BY <1>1, <3>1 DEF IsSum
    <3>5. x[j] = s[j - 1] /\ x[j - 1] = s[(j - 1) - 1]
      BY <1>4, <2>0, <3>1
    <3> QED
      BY <3>3, <3>4, <3>5
  <2> QED
    BY <1>1, <2>1, <2>2, <2>3, <2>4
<1>7. IsSum(x, r, d)
  BY <1>0, <1>5, <1>6 DEF IsSum
<1>8. \A j \in 0 .. Len(q) + 1 : Sums(r, d)[j] = x[j]
  <2>1. IsTimed(r, d, T)
    BY DEF IsTimed
  <2>2. \A j \in 0 .. Len(r) : Sums(r, d)[j] = x[j]
    BY <1>7, <2>1, TimedSums
  <2> QED
    BY <1>0, <2>2
<1>9. /\ Sums(r, d)[i + 1] = k
      /\ \A j \in 0 .. i : Sums(r, d)[j] = s[j]
      /\ \A j \in i + 1 .. Len(q) : Sums(r, d)[j + 1] = s[j]
  <2>1. i + 1 \in 0 .. Len(q) + 1 /\ ~ (i + 1 <= i)
    BY <1>1
  <2>2. \A j \in 0 .. i : j \in 0 .. Len(q) + 1 /\ j <= i
    BY <1>1
  <2>3. \A j \in i + 1 .. Len(q) : /\ j + 1 \in 0 .. Len(q) + 1 /\ (j + 1) - 1 = j
                                  /\ ~ (j + 1 <= i) /\ j + 1 # i + 1
    BY <1>1
  <2> QED
    BY <1>4, <1>8, <2>1, <2>2, <2>3
<1>10. ASSUME NEW p \in T
       PROVE  TicksLeft(r, d, p) = IF p = t THEN k ELSE TicksLeft(q, e, p)
  <2>0. /\ \A j \in 1 .. Len(r) : TicksLeft(r, d, r[j]) = Sums(r, d)[j]
        /\ p \notin ToSet(r) => TicksLeft(r, d, p) = 0
    <3>1. IsTimed(r, d, T) /\ IsInjective(r)
      BY <1>2 DEF IsTimed
    <3> QED
      BY <3>1, TimedLeft
  <2>00. /\ \A j \in 1 .. Len(q) : TicksLeft(q, e, q[j]) = s[j]
         /\ p \notin ToSet(q) => TicksLeft(q, e, p) = 0
    <3>1. IsTimed(q, e, T)
      BY DEF IsTimed
    <3> QED
      BY <3>1, TimedLeft
  <2>1. CASE p = t
    <3>1. i + 1 \in 1 .. Len(r)
      BY <1>0, <1>1
    <3> QED
      BY <1>0, <1>9, <2>0, <2>1, <3>1
  <2>2. CASE p # t /\ p \notin ToSet(q)
    BY <1>2, <2>0, <2>00, <2>2
  <2>3. CASE p # t /\ p \in ToSet(q)
    <3>1. PICK j \in 1 .. Len(q) : q[j] = p
      BY <2>3 DEF ToSet
    <3>2. TicksLeft(q, e, p) = s[j]
      BY <2>00, <3>1
    <3>3. CASE j <= i
      <4>1. j \in 0 .. i /\ j \in 1 .. i /\ j \in 1 .. Len(r)
        BY <1>0, <1>1, <3>3
      <4>2. r[j] = p /\ Sums(r, d)[j] = s[j]
        BY <1>0, <1>9, <3>1, <4>1
      <4> QED
        BY <2>0, <2>3, <3>2, <4>1, <4>2
    <3>4. CASE j > i
      <4>1. j \in i + 1 .. Len(q) /\ j + 1 \in 1 .. Len(r)
        <5>1. Len(r) = Len(q) + 1
          BY <1>0
        <5> QED
          BY <1>1, <3>4, <5>1
      <4>2. r[j + 1] = p /\ Sums(r, d)[j + 1] = s[j]
        BY <1>0, <1>9, <3>1, <4>1
      <4> QED
        BY <2>0, <2>3, <3>2, <4>1, <4>2
    <3> QED
      BY <1>1, <3>3, <3>4
  <2> QED
    BY <2>1, <2>2, <2>3
<1> QED
  <2> DOMAIN e = T
    OBVIOUS
  <2> QED
    BY <1>2, <1>9, <1>10 DEF Added

(* A timer out of the list.                                                 *)
LEMMA RemovedSet ==
  ASSUME NEW T, NEW q \in Seq(T), IsInjective(q), NEW i \in 1 .. Len(q),
         NEW r \in Seq(T), IsRemove(r, q, i)
  PROVE  IsInjective(r) /\ ToSet(r) = ToSet(q) \ {q[i]}
<1>1. IsInjective(r) /\ Range(r) = Range(q) \ {q[i]}
  BY DroppedSet
<1> QED BY <1>1 DEF ToSet, Range

(* del_timer of the timer at place i: the one behind it takes over its      *)
(* distance.                                                                *)
IsDel(d, e, q, i) ==
    /\ d[q[i]] = 0
    /\ i < Len(q) => d[q[i + 1]] = e[q[i + 1]] + e[q[i]]
    /\ \A p : p \in DOMAIN e /\ p # q[i] /\ (i < Len(q) => p # q[i + 1]) => d[p] = e[p]

Deleted(r, d, q, e, i) ==
    /\ IsInjective(r)
    /\ \A j \in 0 .. i - 1 : Sums(r, d)[j] = Sums(q, e)[j]
    /\ \A j \in i .. Len(q) - 1 : Sums(r, d)[j] = Sums(q, e)[j + 1]
    /\ \A p \in DOMAIN e : TicksLeft(r, d, p) = IF p = q[i] THEN 0 ELSE TicksLeft(q, e, p)

(* del_timer: the timer behind the removed one inherits its ticks.          *)
LEMMA DelSums ==
  \A q, e, r, d, T : \A i \in 1 .. Len(q) :
     /\ IsTimed(q, e, T) /\ IsInjective(q)
     /\ IsTimed(r, d, T) /\ IsRemove(r, q, i) /\ IsDel(d, e, q, i)
     => Deleted(r, d, q, e, i)
<1> SUFFICES ASSUME NEW q, NEW e, NEW r, NEW d, NEW T, NEW i \in 1 .. Len(q),
                    IsTimed(q, e, T), IsInjective(q),
                    IsTimed(r, d, T), IsRemove(r, q, i), IsDel(d, e, q, i)
             PROVE  Deleted(r, d, q, e, i)
  OBVIOUS
<1> q \in Seq(T) /\ e \in [T -> Nat] /\ r \in Seq(T) /\ d \in [T -> Nat]
  BY DEF IsTimed
<1> DEFINE s == Sums(q, e)
<1> s \in [0 .. Len(q) -> Nat]
  BY SumsDef
<1> s = Sums(q, e) /\ IsSum(s, q, e)
  BY SumsDef
<1> HIDE DEF s
<1>0. /\ Len(r) = Len(q) - 1
      /\ \A j \in 1 .. i - 1 : r[j] = q[j]
      /\ \A j \in i .. Len(q) - 1 : r[j] = q[j + 1]
  BY DEF IsRemove
<1>1. IsSum(s, q, e) /\ Len(q) \in Nat
  OBVIOUS
<1>2. IsInjective(r) /\ ToSet(r) = ToSet(q) \ {q[i]}
  BY RemovedSet
<1>3. /\ \A j \in 1 .. Len(q) : q[j] \in T
      /\ \A a, b \in 1 .. Len(q) : q[a] = q[b] => a = b
  <2>1. DOMAIN q = 1 .. Len(q) /\ \A j \in 1 .. Len(q) : q[j] \in T
    OBVIOUS
  <2>2. \A a, b \in DOMAIN q : q[a] = q[b] => a = b
    BY DEF IsInjective
  <2> QED
    BY <2>1, <2>2
<1>4. PICK x \in [0 .. Len(q) - 1 -> Nat] :
        \A j \in 0 .. Len(q) - 1 : x[j] = IF j < i THEN s[j] ELSE s[j + 1]
  <2> DEFINE x == [j \in 0 .. Len(q) - 1 |-> IF j < i THEN s[j] ELSE s[j + 1]]
  <2>1. \A j \in 0 .. Len(q) - 1 : j \in 0 .. Len(q) /\ j + 1 \in 0 .. Len(q)
    BY <1>1
  <2>2. \A j \in 0 .. Len(q) - 1 : (IF j < i THEN s[j] ELSE s[j + 1]) \in Nat
    BY <2>1
  <2>3. x \in [0 .. Len(q) - 1 -> Nat]
    BY <2>2
  <2> QED
    BY <2>3
<1>5. x[0] = 0
  BY <1>1, <1>4 DEF IsSum
<1>6. ASSUME NEW j \in 1 .. Len(q) - 1 PROVE x[j] = x[j - 1] + d[r[j]]
  <2>0. j - 1 \in 0 .. Len(q) - 1 /\ j \in 0 .. Len(q) - 1
    BY <1>1
  <2>1. CASE j < i
    <3>1. j \in 1 .. i - 1 /\ j \in 1 .. Len(q) /\ j - 1 < i /\ j # i /\ j # i + 1
      BY <1>1, <2>1
    <3>2. q[j] # q[i] /\ (i < Len(q) => q[j] # q[i + 1])
      <4>1. i < Len(q) => i + 1 \in 1 .. Len(q)
        BY <1>1
      <4> QED
        BY <1>3, <3>1, <4>1
    <3>3. d[r[j]] = e[q[j]]
      BY <1>0, <1>3, <3>1, <3>2 DEF IsDel
    <3>4. s[j] = s[j - 1] + e[q[j]]
      BY <1>1, <3>1 DEF IsSum
    <3> QED
      BY <1>4, <2>0, <2>1, <3>1, <3>3, <3>4
  <2>2. CASE j = i
    <3>1. i < Len(q) /\ i + 1 \in 1 .. Len(q) /\ i \in i .. Len(q) - 1 /\ i - 1 < i
          /\ i - 1 \in 0 .. Len(q) /\ (i + 1) - 1 = i
      BY <1>1, <2>2
    <3>2. d[r[j]] = e[q[i + 1]] + e[q[i]]
      BY <1>0, <2>2, <3>1 DEF IsDel
    <3>3. s[i + 1] = s[i] + e[q[i + 1]] /\ s[i] = s[i - 1] + e[q[i]]
      BY <1>1, <3>1 DEF IsSum
    <3>4. x[j] = s[i + 1] /\ x[j - 1] = s[i - 1]
      BY <1>4, <2>0, <2>2, <3>1
    <3>5. e[q[i]] \in Nat /\ e[q[i + 1]] \in Nat /\ s[i - 1] \in Nat
      BY <1>3, <3>1
    <3>6. \A a, b, c \in Nat : (a + b) + c = a + (c + b)
      OBVIOUS
    <3>7. (s[i - 1] + e[q[i]]) + e[q[i + 1]] = s[i - 1] + (e[q[i + 1]] + e[q[i]])
      BY <3>5, <3>6
    <3>8. s[i + 1] = s[i - 1] + (e[q[i + 1]] + e[q[i]])
      BY <3>3, <3>7
    <3>9. x[j] = x[j - 1] + (e[q[i + 1]] + e[q[i]])
      BY <3>4, <3>8
    <3> QED
      BY <3>2, <3>9
  <2>3. CASE j > i
    <3>1. /\ j + 1 \in 1 .. Len(q) /\ j \in i .. Len(q) - 1 /\ ~ (j < i) /\ ~ (j - 1 < i)
          /\ (j - 1) + 1 = j /\ (j + 1) - 1 = j /\ j + 1 # i /\ j + 1 # i + 1
      BY <1>1, <2>3
    <3>2. q[j + 1] # q[i] /\ (i < Len(q) => q[j + 1] # q[i + 1])
      <4>1. i < Len(q) => i + 1 \in 1 .. Len(q)
        BY <1>1
      <4> QED
        BY <1>3, <3>1, <4>1
    <3>3. d[r[j]] = e[q[j + 1]]
      <4>1. r[j] = q[j + 1]
        BY <1>0, <3>1
      <4>2. q[j + 1] \in DOMAIN e
        BY <1>3, <3>1
      <4> QED
        BY <3>2, <4>1, <4>2 DEF IsDel
    <3>4. s[j + 1] = s[j] + e[q[j + 1]]
      BY <1>1, <3>1 DEF IsSum
    <3>5. x[j] = s[j + 1] /\ x[j - 1] = s[j]
      BY <1>4, <2>0, <3>1
    <3> QED
      BY <3>3, <3>4, <3>5
  <2> QED
    BY <1>1, <2>1, <2>2, <2>3
<1>7. IsSum(x, r, d)
  BY <1>0, <1>5, <1>6 DEF IsSum
<1>8. \A j \in 0 .. Len(q) - 1 : Sums(r, d)[j] = x[j]
  <2>1. IsTimed(r, d, T)
    BY DEF IsTimed
  <2>2. \A j \in 0 .. Len(r) : Sums(r, d)[j] = x[j]
    BY <1>7, <2>1, TimedSums
  <2> QED
    BY <1>0, <2>2
<1>9. /\ \A j \in 0 .. i - 1 : Sums(r, d)[j] = s[j]
      /\ \A j \in i .. Len(q) - 1 : Sums(r, d)[j] = s[j + 1]
  <2>1. \A j \in 0 .. i - 1 : j \in 0 .. Len(q) - 1 /\ j < i
    BY <1>1
  <2>2. \A j \in i .. Len(q) - 1 : j \in 0 .. Len(q) - 1 /\ ~ (j < i)
    BY <1>1
  <2> QED
    BY <1>4, <1>8, <2>1, <2>2
<1>10. ASSUME NEW p \in T
       PROVE  TicksLeft(r, d, p) = IF p = q[i] THEN 0 ELSE TicksLeft(q, e, p)
  <2>1. /\ \A j \in 1 .. Len(r) : TicksLeft(r, d, r[j]) = Sums(r, d)[j]
        /\ p \notin ToSet(r) => TicksLeft(r, d, p) = 0
    <3>1. IsTimed(r, d, T) /\ IsInjective(r)
      BY <1>2 DEF IsTimed
    <3> QED
      BY <3>1, TimedLeft
  <2>2. /\ \A j \in 1 .. Len(q) : TicksLeft(q, e, q[j]) = s[j]
        /\ p \notin ToSet(q) => TicksLeft(q, e, p) = 0
    <3>1. IsTimed(q, e, T)
      BY DEF IsTimed
    <3> QED
      BY <3>1, TimedLeft
  <2>3. CASE p = q[i] \/ p \notin ToSet(q)
    BY <1>2, <2>1, <2>2, <2>3
  <2>4. CASE p # q[i] /\ p \in ToSet(q)
    <3>0. DOMAIN q = 1 .. Len(q)
      OBVIOUS
    <3>00. \E k \in DOMAIN q : q[k] = p
      BY <2>4, Zenon DEF ToSet
    <3>1. PICK k \in 1 .. Len(q) : q[k] = p
      BY <3>0, <3>00
    <3>2. TicksLeft(q, e, p) = s[k]
      BY <2>2, <3>1
    <3>3. CASE k < i
      <4>1. k \in 0 .. i - 1 /\ k \in 1 .. i - 1 /\ k \in 1 .. Len(q) - 1
        BY <1>1, <3>3
      <4>2. r[k] = p /\ Sums(r, d)[k] = s[k] /\ k \in 1 .. Len(r)
        BY <1>0, <1>9, <3>1, <4>1
      <4> QED
        BY <2>1, <2>4, <3>2, <4>2
    <3>4. CASE k > i
      <4>1. k - 1 \in i .. Len(q) - 1 /\ k - 1 \in 1 .. Len(q) - 1 /\ (k - 1) + 1 = k
        BY <1>1, <3>4
      <4>2. r[k - 1] = p /\ Sums(r, d)[k - 1] = s[k] /\ k - 1 \in 1 .. Len(r)
        BY <1>0, <1>9, <3>1, <4>1
      <4> QED
        BY <2>1, <2>4, <3>2, <4>2
    <3> QED
      BY <2>4, <3>1, <3>3, <3>4
  <2> QED
    BY <2>3, <2>4
<1> QED
  <2> DOMAIN e = T
    OBVIOUS
  <2> QED
    BY <1>2, <1>9, <1>10 DEF Deleted

(* run_timer_list: the first timer counts down; the first o timers have run *)
(* out after that, the next one has not.                                    *)
IsTick(d, e, q, o) ==
    /\ e[q[1]] > 0 /\ d[q[1]] = e[q[1]] - 1
    /\ \A j \in 2 .. Len(q) : d[q[j]] = e[q[j]]
    /\ \A j \in 1 .. o : d[q[j]] = 0
    /\ o < Len(q) => d[q[o + 1]] > 0

(* The timers that run out had one tick left, those behind them have more.  *)
LEMMA RunOut ==
  ASSUME NEW T, NEW q \in Seq(T), NEW e \in [T -> Nat], Len(q) > 0,
         NEW s \in [0 .. Len(q) -> Nat], s = Sums(q, e),
         NEW d \in [T -> Nat], NEW o \in 0 .. Len(q), IsTick(d, e, q, o)
  PROVE  /\ \A j \in 1 .. o : s[j] = 1
         /\ o < Len(q) => s[o + 1] = d[q[o + 1]] + 1
         /\ \A j \in o + 1 .. Len(q) : s[j] > 1
<1>1. IsSum(s, q, e) /\ Len(q) \in Nat
  <2>1. IsSum(Sums(q, e), q, e)
    BY SumsDef
  <2> QED
    BY <2>1
<1>2. \A j \in 1 .. Len(q) : q[j] \in T /\ e[q[j]] \in Nat /\ d[q[j]] \in Nat
  OBVIOUS
<1>3. s[1] = d[q[1]] + 1
  <2>1. 1 \in 1 .. Len(q) /\ 1 - 1 = 0
    OBVIOUS
  <2>2. s[1] = s[0] + e[q[1]] /\ s[0] = 0
    BY <1>1, <2>1 DEF IsSum
  <2>3. e[q[1]] = d[q[1]] + 1
    BY <1>2, <2>1 DEF IsTick
  <2> QED
    BY <1>2, <2>1, <2>2, <2>3
<1>4. ASSUME NEW j \in 1 .. Len(q) - 1 PROVE s[j + 1] = s[j] + d[q[j + 1]]
  <2>1. j + 1 \in 1 .. Len(q) /\ j + 1 \in 2 .. Len(q) /\ (j + 1) - 1 = j
    OBVIOUS
  <2> QED
    BY <1>1, <2>1 DEF IsSum, IsTick
<1>5. \A j \in 1 .. o : s[j] = 1
  <2> DEFINE P == {n \in 0 .. o : n = 0 \/ s[n] = 1}
  <2>1. 0 \in P
    OBVIOUS
  <2>2. ASSUME NEW n \in 0 .. o - 1, n \in P PROVE n + 1 \in P
    <3>1. n + 1 \in 1 .. o /\ n + 1 \in 0 .. o
      OBVIOUS
    <3>2. d[q[n + 1]] = 0
      BY <3>1 DEF IsTick
    <3>3. CASE n = 0
      BY <1>3, <3>1, <3>2, <3>3
    <3>4. CASE n # 0
      <4>1. n \in 1 .. Len(q) - 1
        BY <3>4
      <4>2. s[n] = 1
        BY <2>2, <3>4
      <4> QED
        BY <1>4, <3>1, <3>2, <4>1, <4>2
    <3> QED
      BY <3>3, <3>4
  <2>3. 0 .. o \subseteq P
    <3>1. o \in Nat
      OBVIOUS
    <3> HIDE DEF P
    <3> QED
      BY <2>1, <2>2, <3>1, Induction
  <2> QED
    BY <2>3
<1>6. o < Len(q) => s[o + 1] = d[q[o + 1]] + 1
  <2> SUFFICES ASSUME o < Len(q) PROVE s[o + 1] = d[q[o + 1]] + 1
    OBVIOUS
  <2>1. CASE o = 0
    BY <1>3, <2>1
  <2>2. CASE o # 0
    <3>1. o \in 1 .. Len(q) - 1 /\ o \in 1 .. o /\ o + 1 \in 1 .. Len(q)
      BY <2>2
    <3>2. s[o + 1] = s[o] + d[q[o + 1]] /\ s[o] = 1
      BY <1>4, <1>5, <3>1
    <3> QED
      BY <1>2, <3>1, <3>2
  <2> QED
    BY <2>1, <2>2
<1>7. ASSUME NEW j \in o + 1 .. Len(q) PROVE s[j] > 1
  <2>1. o < Len(q) /\ o + 1 \in 1 .. Len(q) /\ o + 1 \in 0 .. Len(q) /\ j \in 0 .. Len(q)
    OBVIOUS
  <2>2. s[o + 1] > 1
    BY <1>2, <1>6, <2>1 DEF IsTick
  <2>3. s[o + 1] <= s[j]
    <3>1. Sums(q, e)[o + 1] <= Sums(q, e)[j]
      BY <2>1, SumsGrow
    <3> QED
      BY <3>1
  <2>4. s[o + 1] \in Nat /\ s[j] \in Nat
    BY <2>1
  <2> QED
    BY <2>2, <2>3, <2>4
<1> QED
  BY <1>5, <1>6, <1>7

IsRunOut(s, d, q, o) ==
    /\ \A j \in 1 .. o : s[j] = 1
    /\ o < Len(q) => s[o + 1] = d[q[o + 1]] + 1
    /\ \A j \in o + 1 .. Len(q) : s[j] > 1

(* The timers that run out in a tick are those whose sum is 1.              *)
LEMMA TimedRunOut ==
  \A q, e, d, T : \A o \in 0 .. Len(q) :
     /\ IsTimed(q, e, T) /\ IsTimed(q, d, T) /\ Len(q) > 0 /\ IsTick(d, e, q, o)
     => IsRunOut(Sums(q, e), d, q, o)
<1> SUFFICES ASSUME NEW q, NEW e, NEW d, NEW T, NEW o \in 0 .. Len(q),
                    IsTimed(q, e, T), IsTimed(q, d, T), Len(q) > 0, IsTick(d, e, q, o)
             PROVE  IsRunOut(Sums(q, e), d, q, o)
  OBVIOUS
<1>1. q \in Seq(T) /\ e \in [T -> Nat] /\ d \in [T -> Nat]
  BY DEF IsTimed
<1>2. Sums(q, e) \in [0 .. Len(q) -> Nat]
  BY <1>1, SumsDef
<1> QED
  BY <1>1, <1>2, RunOut DEF IsRunOut

(* What stays in the list.                                                  *)
IsRest(r, q, o) == Len(r) = Len(q) - o /\ \A j \in 1 .. Len(q) - o : r[j] = q[o + j]

(* What stays in the list are the timers behind the o that ran out.         *)
LEMMA RestSet ==
  ASSUME NEW T, NEW q \in Seq(T), IsInjective(q), NEW o \in 0 .. Len(q),
         NEW r \in Seq(T), IsRest(r, q, o)
  PROVE  IsInjective(r) /\ ToSet(r) = {q[k] : k \in o + 1 .. Len(q)}
<1>0. Len(r) = Len(q) - o /\ \A j \in 1 .. Len(q) - o : r[j] = q[o + j]
  BY DEF IsRest
<1>1. (\A a, b \in 1 .. Len(q) : q[a] = q[b] => a = b) /\ Len(q) \in Nat
  BY DEF IsInjective
<1>2. IsInjective(r)
  <2> SUFFICES ASSUME NEW a \in 1 .. Len(q) - o, NEW b \in 1 .. Len(q) - o, r[a] = r[b]
               PROVE  a = b
    BY <1>0 DEF IsInjective
  <2>1. o + a \in 1 .. Len(q) /\ o + b \in 1 .. Len(q)
    BY <1>1
  <2>2. q[o + a] = q[o + b]
    BY <1>0
  <2>3. o + a = o + b
    BY <1>1, <2>1, <2>2
  <2> QED
    BY <2>3
<1>3. ToSet(r) \subseteq {q[k] : k \in o + 1 .. Len(q)}
  <2>1. \A j \in 1 .. Len(q) - o : o + j \in o + 1 .. Len(q)
    BY <1>1
  <2>2. ToSet(r) = {r[j] : j \in 1 .. Len(q) - o}
    BY <1>0 DEF ToSet
  <2> QED
    BY <1>0, <2>1, <2>2
<1>4. {q[k] : k \in o + 1 .. Len(q)} \subseteq ToSet(r)
  <2>1. ASSUME NEW k \in o + 1 .. Len(q) PROVE q[k] \in ToSet(r)
    <3>1. k - o \in 1 .. Len(q) - o /\ o + (k - o) = k
      BY <1>1
    <3>2. k - o \in 1 .. Len(r) /\ r[k - o] = q[k]
      BY <1>0, <3>1
    <3> QED
      BY <3>2 DEF ToSet
  <2> QED
    BY <2>1
<1> QED
  BY <1>2, <1>3, <1>4

Ticked(r, d, q, e, o) ==
    /\ IsInjective(r)
    /\ \A j \in 1 .. Len(q) - o : Sums(r, d)[j] = Sums(q, e)[o + j] - 1
    /\ \A p \in DOMAIN e : /\ TicksLeft(r, d, p) = IF TicksLeft(q, e, p) > 0
                                                  THEN TicksLeft(q, e, p) - 1 ELSE 0
                           /\ p \in {q[k] : k \in 1 .. o} <=>
                                TicksLeft(q, e, p) > 0 /\ TicksLeft(r, d, p) = 0

(* A tick brings every timer one tick nearer and takes out those at 0.      *)
LEMMA TickSums ==
  \A q, e, r, d, T : \A o \in 0 .. Len(q) :
     /\ IsTimed(q, e, T) /\ IsInjective(q) /\ Len(q) > 0
     /\ IsTimed(r, d, T) /\ IsTick(d, e, q, o) /\ IsRest(r, q, o)
     => Ticked(r, d, q, e, o)
<1> SUFFICES ASSUME NEW q, NEW e, NEW r, NEW d, NEW T, NEW o \in 0 .. Len(q),
                    IsTimed(q, e, T), IsInjective(q), Len(q) > 0,
                    IsTimed(r, d, T), IsTick(d, e, q, o), IsRest(r, q, o)
             PROVE  Ticked(r, d, q, e, o)
  OBVIOUS
<1> q \in Seq(T) /\ e \in [T -> Nat] /\ r \in Seq(T) /\ d \in [T -> Nat]
  BY DEF IsTimed
<1> DEFINE s == Sums(q, e)
<1> s \in [0 .. Len(q) -> Nat]
  BY SumsDef
<1> s = Sums(q, e) /\ IsSum(s, q, e)
  BY SumsDef
<1> HIDE DEF s
<1>0. Len(r) = Len(q) - o /\ \A j \in 1 .. Len(q) - o : r[j] = q[o + j]
  BY DEF IsRest
<1>1. IsSum(s, q, e) /\ Len(q) \in Nat
  OBVIOUS
<1>2. /\ \A j \in 1 .. o : s[j] = 1
      /\ o < Len(q) => s[o + 1] = d[q[o + 1]] + 1
      /\ \A j \in o + 1 .. Len(q) : s[j] > 1
  <2>1. IsTimed(q, e, T) /\ IsTimed(q, d, T)
    BY DEF IsTimed
  <2>2. IsRunOut(Sums(q, e), d, q, o)
    BY <2>1, TimedRunOut
  <2> QED
    BY <2>2 DEF IsRunOut
<1>3. IsInjective(r) /\ ToSet(r) = {q[k] : k \in o + 1 .. Len(q)}
  BY RestSet
<1>4. PICK x \in [0 .. Len(q) - o -> Nat] :
        \A j \in 0 .. Len(q) - o : x[j] = IF j = 0 THEN 0 ELSE s[o + j] - 1
  <2> DEFINE x == [j \in 0 .. Len(q) - o |-> IF j = 0 THEN 0 ELSE s[o + j] - 1]
  <2>1. ASSUME NEW j \in 1 .. Len(q) - o PROVE s[o + j] - 1 \in Nat
    <3>1. o + j \in o + 1 .. Len(q) /\ o + j \in 0 .. Len(q)
      BY <1>1
    <3>2. s[o + j] > 1 /\ s[o + j] \in Nat
      BY <1>2, <3>1
    <3> QED
      BY <3>2
  <2>2. \A j \in 0 .. Len(q) - o : j # 0 => j \in 1 .. Len(q) - o
    BY <1>1
  <2>3. \A j \in 0 .. Len(q) - o : (IF j = 0 THEN 0 ELSE s[o + j] - 1) \in Nat
    BY <2>1, <2>2
  <2>4. x \in [0 .. Len(q) - o -> Nat]
    BY <2>3
  <2> QED
    BY <2>4
<1>5. x[0] = 0
  BY <1>1, <1>4
<1>6. ASSUME NEW j \in 1 .. Len(q) - o PROVE x[j] = x[j - 1] + d[r[j]]
  <2>0. j - 1 \in 0 .. Len(q) - o /\ j \in 0 .. Len(q) - o /\ j # 0 /\ o < Len(q)
    BY <1>1
  <2>1. x[j] = s[o + j] - 1 /\ r[j] = q[o + j]
    BY <1>0, <1>4, <2>0
  <2>2. CASE j = 1
    <3>1. x[j - 1] = 0
      BY <1>4, <2>0, <2>2
    <3>2. s[o + 1] = d[q[o + 1]] + 1 /\ d[q[o + 1]] \in Nat
      <4>1. o + 1 \in 1 .. Len(q)
        BY <2>0
      <4> QED
        BY <1>2, <2>0, <4>1, SMTT(30)
    <3>3. s[o + j] - 1 = d[q[o + j]]
      BY <2>2, <3>2
    <3>4. d[q[o + j]] \in Nat
      BY <2>2, <3>2
    <3> QED
      BY <2>1, <3>1, <3>3, <3>4
  <2>3. CASE j # 1
    <3>1. /\ o + j \in 2 .. Len(q) /\ o + j \in 1 .. Len(q) /\ j - 1 # 0
          /\ (o + j) - 1 = o + (j - 1) /\ o + (j - 1) \in 0 .. Len(q)
          /\ o + (j - 1) \in o + 1 .. Len(q)
      BY <1>1, <2>0, <2>3
    <3>2. x[j - 1] = s[o + (j - 1)] - 1
      BY <1>4, <2>0, <3>1
    <3>3. s[o + j] = s[o + (j - 1)] + e[q[o + j]]
      BY <1>1, <3>1 DEF IsSum
    <3>4. d[q[o + j]] = e[q[o + j]]
      BY <3>1 DEF IsTick
    <3>5. s[o + (j - 1)] \in Nat /\ d[q[o + j]] \in Nat
      <4>1. \A c \in 1 .. Len(q) : q[c] \in T
        OBVIOUS
      <4>2. q[o + j] \in T
        BY <3>1, <4>1
      <4> QED
        BY <3>1, <4>2
    <3>6. \A a, b \in Nat : (a + b) - 1 = (a - 1) + b
      OBVIOUS
    <3>7. (s[o + (j - 1)] + d[q[o + j]]) - 1 = (s[o + (j - 1)] - 1) + d[q[o + j]]
      BY <3>5, <3>6
    <3>8. x[j] = (s[o + (j - 1)] + d[q[o + j]]) - 1
      BY <2>1, <3>3, <3>4
    <3> QED
      BY <2>1, <3>2, <3>7, <3>8
  <2> QED
    BY <2>2, <2>3
<1>7. IsSum(x, r, d)
  BY <1>0, <1>5, <1>6 DEF IsSum
<1>8. \A j \in 0 .. Len(q) - o : Sums(r, d)[j] = x[j]
  <2>1. IsTimed(r, d, T)
    BY DEF IsTimed
  <2>2. \A j \in 0 .. Len(r) : Sums(r, d)[j] = x[j]
    BY <1>7, <2>1, TimedSums
  <2> QED
    BY <1>0, <2>2
<1>9. \A j \in 1 .. Len(q) - o : Sums(r, d)[j] = s[o + j] - 1
  <2>1. \A j \in 1 .. Len(q) - o : j \in 0 .. Len(q) - o /\ j # 0
    BY <1>1
  <2> QED
    BY <1>4, <1>8, <2>1
<1>10. ASSUME NEW p \in T
       PROVE  /\ TicksLeft(r, d, p) = IF TicksLeft(q, e, p) > 0
                                      THEN TicksLeft(q, e, p) - 1 ELSE 0
              /\ p \in {q[k] : k \in 1 .. o} <=>
                   TicksLeft(q, e, p) > 0 /\ TicksLeft(r, d, p) = 0
  <2>1. /\ \A j \in 1 .. Len(r) : TicksLeft(r, d, r[j]) = Sums(r, d)[j]
        /\ p \notin ToSet(r) => TicksLeft(r, d, p) = 0
    <3>1. IsTimed(r, d, T) /\ IsInjective(r)
      BY <1>3 DEF IsTimed
    <3> QED
      BY <3>1, TimedLeft
  <2>2. /\ \A j \in 1 .. Len(q) : TicksLeft(q, e, q[j]) = s[j]
        /\ p \notin ToSet(q) => TicksLeft(q, e, p) = 0
    <3>1. IsTimed(q, e, T)
      BY DEF IsTimed
    <3> QED
      BY <3>1, TimedLeft
  <2>3. /\ \A a, b \in 1 .. Len(q) : q[a] = q[b] => a = b
        /\ ToSet(q) = {q[k] : k \in 1 .. Len(q)}
    <3>1. \A a, b \in 1 .. Len(q) : q[a] = q[b] => a = b
      BY SMTT(30) DEF IsInjective
    <3> QED
      BY <3>1 DEF ToSet
  <2>4. CASE p \notin ToSet(q)
    <3>1. p \notin {q[k] : k \in 1 .. o} /\ p \notin {q[k] : k \in o + 1 .. Len(q)}
      BY <1>1, <2>3, <2>4
    <3>2. TicksLeft(q, e, p) = 0
      BY <2>2, <2>4
    <3> QED
      BY <1>3, <2>1, <3>1, <3>2
  <2>5. CASE p \in ToSet(q)
    <3>1. PICK k \in 1 .. Len(q) : q[k] = p
      BY <2>3, <2>5
    <3>2. TicksLeft(q, e, p) = s[k] /\ s[k] \in Nat
      <4>1. k \in 0 .. Len(q)
        BY <3>1
      <4> QED
        BY <2>2, <3>1, <4>1
    <3>3. CASE k <= o
      <4>1. k \in 1 .. o /\ k \notin o + 1 .. Len(q)
        BY <1>1, <3>3
      <4>2. p \notin {q[c] : c \in o + 1 .. Len(q)}
        <5>1. \A c \in o + 1 .. Len(q) : c \in 1 .. Len(q) /\ c # k
          BY <1>1, <3>3
        <5> QED
          BY <2>3, <3>1, <5>1
      <4>3. TicksLeft(q, e, p) = 1 /\ TicksLeft(r, d, p) = 0
        BY <1>2, <1>3, <2>1, <3>2, <4>1, <4>2
      <4>4. p \in {q[c] : c \in 1 .. o}
        BY <3>1, <4>1
      <4> QED
        BY <4>3, <4>4
    <3>4. CASE k > o
      <4>1. /\ k \in o + 1 .. Len(q) /\ k - o \in 1 .. Len(q) - o /\ o + (k - o) = k
        BY <1>1, <3>4
      <4>2. r[k - o] = p /\ k - o \in 1 .. Len(r)
        BY <1>0, <3>1, <4>1
      <4>3. TicksLeft(r, d, p) = s[k] - 1
        BY <1>9, <2>1, <4>1, <4>2
      <4>4. s[k] > 1
        BY <1>2, <4>1
      <4>5. p \notin {q[c] : c \in 1 .. o}
        <5>1. \A c \in 1 .. o : c \in 1 .. Len(q) /\ c # k
          BY <1>1, <3>4
        <5> QED
          BY <2>3, <3>1, <5>1
      <4> QED
        BY <3>2, <4>3, <4>4, <4>5, SMTT(30)
    <3> QED
      BY <1>1, <3>3, <3>4
  <2> QED
    BY <2>4, <2>5
<1> QED
  <2> DOMAIN e = T
    OBVIOUS
  <2> QED
    BY <1>3, <1>9, <1>10 DEF Ticked

-----------------------------------------------------------------------------
(* What TimerInv says of the list and its differences.                      *)
ListOK(q, e) ==
    /\ q \in Seq(Timers) /\ IsInjective(q)
    /\ e \in [Timers -> 0 .. MaxTicks]
    /\ q # << >> => e[Head(q)] > 0
    /\ Sums(q, e)[Len(q)] <= MaxTicks

(* The parts of ListOK the steps need.                                      *)
LEMMA ListFacts ==
  ASSUME NEW q, NEW e, ListOK(q, e)
  PROVE  /\ q \in Seq(Timers) /\ IsInjective(q) /\ e \in [Timers -> Nat]
         /\ Len(q) \in Nat /\ \A j \in 1 .. Len(q) : q[j] \in Timers /\ e[q[j]] \in 0 .. MaxTicks
         /\ \A a, b \in 1 .. Len(q) : q[a] = q[b] => a = b
         /\ Len(q) > 0 => e[q[1]] > 0
         /\ Sums(q, e) \in [0 .. Len(q) -> Nat] /\ IsSum(Sums(q, e), q, e)
         /\ \A j \in 0 .. Len(q) : Sums(q, e)[j] <= MaxTicks
<1>1. q \in Seq(Timers) /\ IsInjective(q) /\ e \in [Timers -> 0 .. MaxTicks] /\ MaxTicks \in Nat
  BY TimerAssumption DEF ListOK
<1>2. e \in [Timers -> Nat] /\ Len(q) \in Nat
  BY <1>1
<1>3. \A j \in 1 .. Len(q) : q[j] \in Timers /\ e[q[j]] \in 0 .. MaxTicks
  BY <1>1
<1>4. \A a, b \in 1 .. Len(q) : q[a] = q[b] => a = b
  BY <1>1 DEF IsInjective
<1>5. Len(q) > 0 => e[q[1]] > 0
  <2>1. Len(q) > 0 => q # << >> /\ Head(q) = q[1]
    BY <1>1
  <2> QED
    BY <2>1 DEF ListOK
<1>6. Sums(q, e) \in [0 .. Len(q) -> Nat] /\ IsSum(Sums(q, e), q, e)
  BY <1>1, <1>2, SumsDef
<1>7. ASSUME NEW j \in 0 .. Len(q) PROVE Sums(q, e)[j] <= MaxTicks
  <2>1. Sums(q, e)[j] <= Sums(q, e)[Len(q)]
    <3>1. Len(q) \in j .. Len(q)
      BY <1>2
    <3> QED
      BY <1>1, <1>2, <3>1, SumsGrow
  <2>2. Sums(q, e)[Len(q)] <= MaxTicks
    BY DEF ListOK
  <2>3. Sums(q, e)[j] \in Nat /\ Sums(q, e)[Len(q)] \in Nat
    BY <1>2, <1>6
  <2> QED
    BY <1>1, <2>1, <2>2, <2>3
<1> QED
  BY <1>1, <1>2, <1>3, <1>4, <1>5, <1>6, <1>7

(* add_timer keeps the list in order and moves no other timer.              *)
Stops(q, e, k, i) == i = Len(q) \/ k - Sums(q, e)[i] < e[q[i + 1]]

(* add_timer keeps the list in order and the new timer has k ticks left.    *)
LEMMA AddOK ==
  ASSUME NEW q, NEW e, ListOK(q, e),
         NEW t \in Timers, t \notin ToSet(q), NEW k \in 1 .. MaxTicks,
         NEW i \in 0 .. Len(q), Stops(q, e, k, i),
         \A l \in 0 .. Len(q) : Stops(q, e, k, l) => i <= l,
         NEW r, r = InsertAt(q, i + 1, t),
         NEW d, d = [p \in Timers |->
                       CASE p = t -> k - Sums(q, e)[i]
                         [] i < Len(q) /\ p = q[i + 1] -> e[p] - (k - Sums(q, e)[i])
                         [] OTHER -> e[p]]
  PROVE  /\ ListOK(r, d)
         /\ \A p \in Timers : TicksLeft(r, d, p) = IF p = t THEN k ELSE TicksLeft(q, e, p)
<1> DEFINE S == Sums(q, e)
<1>1. /\ q \in Seq(Timers) /\ IsInjective(q) /\ e \in [Timers -> Nat]
      /\ Len(q) \in Nat /\ \A j \in 1 .. Len(q) : q[j] \in Timers /\ e[q[j]] \in 0 .. MaxTicks
      /\ \A a, b \in 1 .. Len(q) : q[a] = q[b] => a = b
      /\ Len(q) > 0 => e[q[1]] > 0
  BY ListFacts
<1>2. /\ S \in [0 .. Len(q) -> Nat] /\ IsSum(S, q, e)
      /\ \A j \in 0 .. Len(q) : S[j] <= MaxTicks
  BY ListFacts
<1>3. MaxTicks \in Nat /\ e \in [Timers -> 0 .. MaxTicks]
  BY TimerAssumption DEF ListOK
<1> HIDE DEF S
<1>4. S[i] <= k /\ S[i] \in Nat
  <2>1. S[i] \in Nat
    BY <1>2
  <2>2. CASE i = 0
    BY <1>2, <2>2 DEF IsSum
  <2>3. CASE i # 0
    <3>1. i - 1 \in 0 .. Len(q) /\ ~ (i <= i - 1) /\ i \in 1 .. Len(q) /\ (i - 1) + 1 = i
      BY <1>1, <2>3
    <3>2. ~ Stops(q, e, k, i - 1)
      BY <3>1
    <3>3. ~ (k - S[i - 1] < e[q[i]])
      BY <3>1, <3>2 DEF Stops, S
    <3>4. S[i] = S[i - 1] + e[q[i]]
      BY <1>2, <3>1 DEF IsSum
    <3>5. S[i - 1] \in Nat /\ e[q[i]] \in Nat
      BY <1>1, <1>2, <3>1
    <3> QED
      BY <3>3, <3>4, <3>5, SMTT(30)
  <2> QED
    BY <2>1, <2>2, <2>3
<1>5. k - S[i] \in 0 .. MaxTicks
  BY <1>3, <1>4
<1>6. i < Len(q) => /\ q[i + 1] \in Timers /\ q[i + 1] # t
                    /\ e[q[i + 1]] - (k - S[i]) \in 1 .. MaxTicks
  <2> SUFFICES ASSUME i < Len(q)
               PROVE  /\ q[i + 1] \in Timers /\ q[i + 1] # t
                      /\ e[q[i + 1]] - (k - S[i]) \in 1 .. MaxTicks
    OBVIOUS
  <2>1. i + 1 \in 1 .. Len(q) /\ i # Len(q)
    OBVIOUS
  <2>2. q[i + 1] \in Timers /\ e[q[i + 1]] \in 0 .. MaxTicks
    BY <1>1, <2>1
  <2>3. q[i + 1] \in ToSet(q)
    BY <1>1, <2>1 DEF ToSet
  <2>4. k - S[i] < e[q[i + 1]]
    BY <2>1 DEF Stops, S
  <2> QED
    BY <1>3, <1>5, <2>2, <2>3, <2>4
<1>7. d \in [Timers -> 0 .. MaxTicks] /\ d \in [Timers -> Nat]
  <2>1. \A p \in Timers : d[p] = CASE p = t -> k - S[i]
                                  [] i < Len(q) /\ p = q[i + 1] -> e[p] - (k - S[i])
                                  [] OTHER -> e[p]
    BY DEF S
  <2>2. \A p \in Timers : d[p] \in 0 .. MaxTicks
    BY <1>3, <1>5, <1>6, <2>1
  <2>3. d = [p \in Timers |-> d[p]]
    OBVIOUS
  <2>4. d \in [Timers -> 0 .. MaxTicks]
    BY <2>2, <2>3
  <2> QED
    BY <1>3, <2>4
<1>8. IsAdd(d, e, q, i, t, k - S[i])
  <2>1. \A p \in Timers : d[p] = CASE p = t -> k - S[i]
                                  [] i < Len(q) /\ p = q[i + 1] -> e[p] - (k - S[i])
                                  [] OTHER -> e[p]
    BY DEF S
  <2>2. d[t] = k - S[i]
    BY <1>6, <2>1
  <2>3. i < Len(q) => d[q[i + 1]] = e[q[i + 1]] - (k - S[i])
    BY <1>6, <2>1
  <2>4. \A p \in Timers : p # t /\ (i < Len(q) => p # q[i + 1]) => d[p] = e[p]
    BY <2>1
  <2>5. DOMAIN e = Timers
    BY <1>1
  <2> QED
    BY <2>2, <2>3, <2>4, <2>5 DEF IsAdd
<1>9. r \in Seq(Timers) /\ IsInsert(r, q, i, t)
  BY <1>1, Inserted
<1>10. /\ IsInjective(r)
       /\ Sums(r, d)[i + 1] = k
       /\ \A j \in 0 .. i : Sums(r, d)[j] = S[j]
       /\ \A j \in i + 1 .. Len(q) : Sums(r, d)[j + 1] = S[j]
       /\ \A p \in Timers : TicksLeft(r, d, p) = IF p = t THEN k ELSE TicksLeft(q, e, p)
  <2>1. IsTimed(q, e, Timers) /\ IsTimed(r, d, Timers) /\ k \in Nat
    BY <1>1, <1>7, <1>9 DEF IsTimed
  <2>2. IsAdd(d, e, q, i, t, k - Sums(q, e)[i])
    BY <1>8 DEF S
  <2>3. Added(r, d, q, e, i, t, k)
    BY <1>1, <1>9, <2>1, <2>2, AddSums
  <2>4. \A p \in Timers : TicksLeft(r, d, p) = IF p = t THEN k ELSE TicksLeft(q, e, p)
    BY <1>1, <2>3 DEF Added
  <2> QED
    BY <2>3, <2>4 DEF Added, S
<1>11. Sums(r, d)[Len(r)] <= MaxTicks
  <2>1. Len(r) = Len(q) + 1
    BY <1>9 DEF IsInsert
  <2>2. CASE i = Len(q)
    BY <1>10, <2>1, <2>2
  <2>3. CASE i # Len(q)
    <3>1. Len(q) \in i + 1 .. Len(q) /\ Len(q) \in 0 .. Len(q)
      BY <1>1, <2>3
    <3> QED
      BY <1>2, <1>10, <2>1, <3>1
  <2> QED
    BY <2>2, <2>3
<1>12. r # << >> => d[Head(r)] > 0
  <2>1. Head(r) = r[1]
    BY <1>9
  <2>2. CASE i = 0
    <3>1. r[1] = t /\ S[0] = 0
      BY <1>2, <1>9, <2>2 DEF IsInsert, IsSum
    <3> QED
      BY <1>8, <2>1, <2>2, <3>1 DEF IsAdd
  <2>3. CASE i # 0
    <3>1. 1 \in 1 .. i /\ 1 \in 1 .. Len(q) /\ Len(q) > 0
      BY <1>1, <2>3
    <3>2. r[1] = q[1]
      BY <1>9, <3>1 DEF IsInsert
    <3>3. q[1] # t /\ q[1] \in Timers /\ (i < Len(q) => q[1] # q[i + 1])
      <4>1. i < Len(q) => i + 1 \in 1 .. Len(q) /\ i + 1 # 1
        BY <1>1, <2>3
      <4>2. q[1] \in ToSet(q)
        BY <1>1, <3>1 DEF ToSet
      <4> QED
        BY <1>1, <3>1, <4>1, <4>2
    <3>4. DOMAIN e = Timers
      BY <1>1
    <3>5. d[q[1]] = e[q[1]]
      BY <1>8, <3>3, <3>4 DEF IsAdd
    <3> QED
      BY <1>1, <2>1, <3>1, <3>2, <3>5
  <2> QED
    BY <2>2, <2>3
<1> QED
  BY <1>7, <1>9, <1>10, <1>11, <1>12 DEF ListOK

(* del_timer keeps the list in order and moves no other timer.              *)
LEMMA DelOK ==
  ASSUME NEW q, NEW e, ListOK(q, e), NEW i \in 1 .. Len(q),
         NEW r, r = RemoveAt(q, i),
         NEW d, d = [p \in Timers |->
                       CASE p = q[i] -> 0
                         [] i < Len(q) /\ p = q[i + 1] -> e[p] + e[q[i]]
                         [] OTHER -> e[p]]
  PROVE  /\ ListOK(r, d)
         /\ \A p \in Timers : TicksLeft(r, d, p) = IF p = q[i] THEN 0 ELSE TicksLeft(q, e, p)
<1> DEFINE S == Sums(q, e)
<1>1. /\ q \in Seq(Timers) /\ IsInjective(q) /\ e \in [Timers -> Nat]
      /\ Len(q) \in Nat /\ \A j \in 1 .. Len(q) : q[j] \in Timers /\ e[q[j]] \in 0 .. MaxTicks
      /\ \A a, b \in 1 .. Len(q) : q[a] = q[b] => a = b
      /\ Len(q) > 0 => e[q[1]] > 0
  BY ListFacts
<1>2. /\ S \in [0 .. Len(q) -> Nat] /\ IsSum(S, q, e)
      /\ \A j \in 0 .. Len(q) : S[j] <= MaxTicks
  BY ListFacts
<1>3. MaxTicks \in Nat /\ e \in [Timers -> 0 .. MaxTicks]
  BY TimerAssumption DEF ListOK
<1> HIDE DEF S
<1>4. i < Len(q) => /\ q[i + 1] \in Timers /\ q[i + 1] # q[i]
                    /\ e[q[i + 1]] + e[q[i]] \in 0 .. MaxTicks
  <2> SUFFICES ASSUME i < Len(q)
               PROVE  /\ q[i + 1] \in Timers /\ q[i + 1] # q[i]
                      /\ e[q[i + 1]] + e[q[i]] \in 0 .. MaxTicks
    OBVIOUS
  <2>1. /\ i + 1 \in 1 .. Len(q) /\ i + 1 # i /\ (i + 1) - 1 = i
        /\ i - 1 \in 0 .. Len(q) /\ i + 1 \in 0 .. Len(q)
    BY <1>1, SMTT(30)
  <2>2. S[i + 1] = S[i] + e[q[i + 1]] /\ S[i] = S[i - 1] + e[q[i]]
    BY <1>2, <2>1 DEF IsSum
  <2>3. S[i - 1] \in Nat /\ S[i + 1] <= MaxTicks
    BY <1>2, <2>1
  <2>4. e[q[i]] \in Nat /\ e[q[i + 1]] \in Nat
    BY <1>1, <1>3, <2>1
  <2>5. (S[i - 1] + e[q[i]]) + e[q[i + 1]] <= MaxTicks
    BY <2>2, <2>3
  <2>6. e[q[i + 1]] + e[q[i]] \in 0 .. MaxTicks
    BY <1>3, <2>3, <2>4, <2>5
  <2> QED
    BY <1>1, <2>1, <2>6
<1>5. \A p \in Timers : d[p] = CASE p = q[i] -> 0
                               [] i < Len(q) /\ p = q[i + 1] -> e[p] + e[q[i]]
                               [] OTHER -> e[p]
  OBVIOUS
<1>6. d \in [Timers -> 0 .. MaxTicks] /\ d \in [Timers -> Nat]
  <2>1. \A p \in Timers : d[p] \in 0 .. MaxTicks
    BY <1>3, <1>4, <1>5
  <2>2. d = [p \in Timers |-> d[p]]
    OBVIOUS
  <2>3. d \in [Timers -> 0 .. MaxTicks]
    BY <2>1, <2>2
  <2> QED
    BY <1>3, <2>3
<1>7. IsDel(d, e, q, i)
  <2>1. d[q[i]] = 0
    BY <1>1, <1>4, <1>5
  <2>2. i < Len(q) => d[q[i + 1]] = e[q[i + 1]] + e[q[i]]
    BY <1>4, <1>5
  <2>3. \A p \in Timers : p # q[i] /\ (i < Len(q) => p # q[i + 1]) => d[p] = e[p]
    BY <1>5
  <2>4. DOMAIN e = Timers
    BY <1>1
  <2> QED
    BY <2>1, <2>2, <2>3, <2>4 DEF IsDel
<1>8. r \in Seq(Timers) /\ IsRemove(r, q, i)
  BY <1>1, Removed
<1>9. /\ IsInjective(r)
      /\ \A j \in 0 .. i - 1 : Sums(r, d)[j] = S[j]
      /\ \A j \in i .. Len(q) - 1 : Sums(r, d)[j] = S[j + 1]
      /\ \A p \in Timers : TicksLeft(r, d, p) = IF p = q[i] THEN 0 ELSE TicksLeft(q, e, p)
  <2>1. IsTimed(q, e, Timers) /\ IsTimed(r, d, Timers)
    BY <1>1, <1>6, <1>8 DEF IsTimed
  <2>2. Deleted(r, d, q, e, i)
    BY <1>1, <1>7, <1>8, <2>1, DelSums
  <2>3. \A p \in Timers : TicksLeft(r, d, p) = IF p = q[i] THEN 0 ELSE TicksLeft(q, e, p)
    BY <1>1, <2>2 DEF Deleted
  <2> QED
    BY <2>2, <2>3 DEF Deleted, S
<1>10. Sums(r, d)[Len(r)] <= MaxTicks
  <2>1. Len(r) = Len(q) - 1
    BY <1>8 DEF IsRemove
  <2>2. CASE i = Len(q)
    <3>1. Len(q) - 1 \in 0 .. i - 1 /\ Len(q) - 1 \in 0 .. Len(q)
      BY <1>1, <2>2
    <3> QED
      BY <1>2, <1>9, <2>1, <3>1
  <2>3. CASE i # Len(q)
    <3>1. Len(q) - 1 \in i .. Len(q) - 1 /\ (Len(q) - 1) + 1 \in 0 .. Len(q)
      BY <1>1, <2>3
    <3> QED
      BY <1>2, <1>9, <2>1, <3>1
  <2> QED
    BY <2>2, <2>3
<1>11. r # << >> => d[Head(r)] > 0
  <2> SUFFICES ASSUME r # << >> PROVE d[Head(r)] > 0
    OBVIOUS
  <2>1. Head(r) = r[1] /\ Len(q) >= 2
    <3>1. Len(r) > 0 /\ Head(r) = r[1]
      BY <1>8
    <3>2. Len(r) = Len(q) - 1
      BY <1>8 DEF IsRemove
    <3> QED
      BY <1>1, <3>1, <3>2
  <2>2. e[q[1]] > 0 /\ 1 \in 1 .. Len(q) /\ q[1] \in Timers
    BY <1>1, <2>1
  <2>3. CASE i = 1
    <3>1. r[1] = q[2]
      <4>1. 1 \in i .. Len(q) - 1 /\ 1 + 1 = 2
        BY <1>1, <2>1, <2>3
      <4> QED
        BY <1>8, <4>1 DEF IsRemove
    <3>2. d[q[2]] = e[q[2]] + e[q[1]]
      <4>1. i < Len(q) /\ i + 1 = 2
        BY <2>1, <2>3
      <4> QED
        BY <1>7, <2>3, <4>1 DEF IsDel
    <3>3. e[q[2]] \in Nat /\ e[q[1]] \in Nat
      BY <1>1, <1>3, <2>1, <2>2
    <3>4. e[q[2]] + e[q[1]] > 0
      BY <2>2, <3>3
    <3> QED
      BY <2>1, <3>1, <3>2, <3>4
  <2>4. CASE i # 1
    <3>1. r[1] = q[1]
      <4>1. 1 \in 1 .. i - 1
        BY <2>4
      <4> QED
        BY <1>8, <4>1 DEF IsRemove
    <3>2. q[1] # q[i] /\ (i < Len(q) => q[1] # q[i + 1])
      <4>1. i < Len(q) => i + 1 \in 1 .. Len(q) /\ i + 1 # 1
        BY <1>1, <2>4
      <4> QED
        BY <1>1, <2>2, <2>4, <4>1
    <3>3. d[q[1]] = e[q[1]]
      BY <1>1, <1>7, <2>2, <3>2 DEF IsDel
    <3> QED
      BY <2>1, <2>2, <3>1, <3>3
  <2> QED
    BY <2>3, <2>4
<1> QED
  BY <1>6, <1>8, <1>9, <1>10, <1>11 DEF ListOK

(* run_timer_list takes those that have run out off the list.               *)
IsCountDown(d, e, q) == d = [e EXCEPT ![Head(q)] = IF @ = 0 THEN 0 ELSE @ - 1]
AreOut(r, d, q, o) ==
    /\ \A j \in 1 .. o : ~ (d[q[j]] > 0)
    /\ o < Len(q) => d[q[o + 1]] > 0
    /\ r = SubSeq(q, o + 1, Len(q))

TickedOK(r, d, q, e, o) ==
    /\ e[Head(q)] # 0 /\ ListOK(r, d)
    /\ \A p \in Timers : /\ TicksLeft(r, d, p) = IF TicksLeft(q, e, p) > 0
                                                  THEN TicksLeft(q, e, p) - 1 ELSE 0
                         /\ p \in ToSet(SubSeq(q, 1, o)) <=>
                              TicksLeft(q, e, p) > 0 /\ TicksLeft(r, d, p) = 0

(* run_timer_list keeps the list in order.                                  *)
LEMMA TickOK ==
  \A q, e, d, r : \A o \in 0 .. Len(q) :
     /\ ListOK(q, e) /\ q # << >> /\ IsCountDown(d, e, q) /\ AreOut(r, d, q, o)
     => TickedOK(r, d, q, e, o)
<1> SUFFICES ASSUME NEW q, NEW e, NEW d, NEW r, NEW o \in 0 .. Len(q),
                    ListOK(q, e), q # << >>, IsCountDown(d, e, q), AreOut(r, d, q, o)
             PROVE  TickedOK(r, d, q, e, o)
  OBVIOUS
<1> DEFINE S == Sums(q, e)
<1>1. /\ q \in Seq(Timers) /\ IsInjective(q) /\ e \in [Timers -> Nat]
      /\ Len(q) \in Nat /\ \A j \in 1 .. Len(q) : q[j] \in Timers /\ e[q[j]] \in 0 .. MaxTicks
      /\ \A a, b \in 1 .. Len(q) : q[a] = q[b] => a = b
      /\ Len(q) > 0 => e[q[1]] > 0
  BY ListFacts
<1>2. /\ S \in [0 .. Len(q) -> Nat] /\ IsSum(S, q, e)
      /\ \A j \in 0 .. Len(q) : S[j] <= MaxTicks
  BY ListFacts
<1>3. MaxTicks \in Nat /\ e \in [Timers -> 0 .. MaxTicks]
  BY TimerAssumption DEF ListOK
<1> HIDE DEF S
<1>4. Len(q) > 0 /\ Head(q) = q[1] /\ 1 \in 1 .. Len(q) /\ q[1] \in Timers /\ e[q[1]] > 0
  <2>1. Len(q) > 0 /\ Head(q) = q[1]
    BY <1>1
  <2> QED
    BY <1>1, <2>1
<1>5. /\ d[q[1]] = e[q[1]] - 1
      /\ \A p \in Timers : p # q[1] => d[p] = e[p]
      /\ d \in [Timers -> 0 .. MaxTicks] /\ d \in [Timers -> Nat]
  <2>1. e[q[1]] \in 0 .. MaxTicks /\ e[q[1]] # 0
    BY <1>1, <1>3, <1>4
  <2>2. d = [e EXCEPT ![q[1]] = e[q[1]] - 1]
    BY <1>4, <2>1 DEF IsCountDown
  <2>3. e[q[1]] - 1 \in 0 .. MaxTicks
    BY <1>3, <2>1
  <2>4. d \in [Timers -> 0 .. MaxTicks]
    BY <1>3, <2>2, <2>3
  <2>5. d \in [Timers -> Nat]
    BY <1>3, <2>4
  <2> QED
    BY <1>3, <1>4, <2>2, <2>4, <2>5
<1>6. IsTick(d, e, q, o)
  <2>1. \A j \in 2 .. Len(q) : q[j] \in Timers /\ q[j] # q[1]
    <3>1. \A j \in 2 .. Len(q) : j \in 1 .. Len(q) /\ j # 1
      BY <1>1
    <3> QED
      BY <1>1, <1>4, <3>1
  <2>2. \A j \in 1 .. o : d[q[j]] = 0
    <3> TAKE j \in 1 .. o
    <3>1. j \in 1 .. Len(q)
      BY <1>1
    <3>2. d[q[j]] \in Nat
      BY <1>1, <1>5, <3>1
    <3>3. ~ (d[q[j]] > 0)
      BY DEF AreOut
    <3>4. \A c \in Nat : ~ (c > 0) => c = 0
      OBVIOUS
    <3> QED
      BY <3>2, <3>3, <3>4
  <2> QED
    BY <1>4, <1>5, <2>1, <2>2 DEF IsTick, AreOut
<1>7. r \in Seq(Timers) /\ IsRest(r, q, o)
  <2>1. r \in Seq(Timers) /\ Len(r) = Len(q) - o /\ \A j \in 1 .. Len(q) - o : r[j] = q[o + j]
    BY <1>1 DEF AreOut
  <2> QED
    BY <2>1 DEF IsRest
<1>8. Ticked(r, d, q, e, o)
  <2>1. IsTimed(q, e, Timers) /\ IsTimed(r, d, Timers)
    BY <1>1, <1>5, <1>7 DEF IsTimed
  <2> QED
    BY <1>1, <1>4, <1>6, <1>7, <2>1, TickSums
<1>9. Sums(r, d)[Len(r)] <= MaxTicks
  <2>1. Len(r) = Len(q) - o
    BY <1>7 DEF IsRest
  <2>2. CASE o = Len(q)
    <3>1. Len(r) = 0
      BY <1>1, <2>1, <2>2
    <3>2. IsSum(Sums(r, d), r, d)
      BY <1>5, <1>7, SumsDef
    <3> QED
      BY <1>3, <3>1, <3>2 DEF IsSum
  <2>3. CASE o # Len(q)
    <3>1. Len(q) - o \in 1 .. Len(q) - o /\ o + (Len(q) - o) = Len(q) /\ Len(q) \in 0 .. Len(q)
      BY <1>1, <2>3
    <3>2. Sums(r, d)[Len(r)] = S[Len(q)] - 1
      BY <1>8, <2>1, <3>1 DEF Ticked, S
    <3>3. S[Len(q)] <= MaxTicks /\ S[Len(q)] \in Nat
      BY <1>2, <3>1
    <3> QED
      BY <1>3, <3>2, <3>3
  <2> QED
    BY <2>2, <2>3
<1>10. r # << >> => d[Head(r)] > 0
  <2> SUFFICES ASSUME r # << >> PROVE d[Head(r)] > 0
    OBVIOUS
  <2>1. Len(r) > 0 /\ Head(r) = r[1]
    BY <1>7
  <2>2. Len(r) = Len(q) - o
    BY <1>7 DEF IsRest
  <2>3. o < Len(q) /\ 1 \in 1 .. Len(q) - o
    BY <1>1, <2>1, <2>2
  <2>4. r[1] = q[o + 1]
    BY <1>7, <2>3 DEF IsRest
  <2> QED
    BY <2>1, <2>3, <2>4 DEF AreOut
<1>11. ToSet(SubSeq(q, 1, o)) = {q[k] : k \in 1 .. o}
  <2> DEFINE w == SubSeq(q, 1, o)
  <2>1. \A k \in 1 .. o : w[k] = q[k]
    BY <1>1
  <2>2. DOMAIN w = 1 .. o
    BY <1>1
  <2> HIDE DEF w
  <2>3. ToSet(w) = {w[k] : k \in 1 .. o}
    BY <2>2 DEF ToSet
  <2>4. ToSet(w) = {q[k] : k \in 1 .. o}
    BY <2>1, <2>3
  <2> QED
    BY <2>4 DEF w
<1>12. DOMAIN e = Timers
  BY <1>1
<1>13. ListOK(r, d)
  BY <1>5, <1>7, <1>8, <1>9, <1>10 DEF ListOK, Ticked
<1>14. \A p \in Timers :
         /\ TicksLeft(r, d, p) = IF TicksLeft(q, e, p) > 0 THEN TicksLeft(q, e, p) - 1 ELSE 0
         /\ p \in {q[k] : k \in 1 .. o} <=> TicksLeft(q, e, p) > 0 /\ TicksLeft(r, d, p) = 0
  BY <1>8, <1>12 DEF Ticked
<1>15. e[Head(q)] # 0
  <2>1. e[q[1]] \in 0 .. MaxTicks /\ e[q[1]] > 0
    BY <1>1, <1>4
  <2> QED
    BY <1>3, <1>4, <2>1
<1> QED
  BY <1>11, <1>13, <1>14, <1>15 DEF TickedOK

-----------------------------------------------------------------------------
(* TimerInv is ListOK of the current list.                                  *)
LEMMA TimerInvOK ==
  TimerInv <=> ListOK(timer_list, expires) /\ woken \subseteq Timers /\ failed = FALSE
  BY DEF TimerInv, TimersTypeOK, HeadNotDue, LastInTime, Elapsed, ListOK

(* The actions in these words.                                              *)
LEMMA AddStep ==
  ASSUME ListOK(timer_list, expires),
         NEW t \in Timers, NEW k \in 1 .. MaxTicks, add_timer(t, k)
  PROVE  /\ ListOK(timer_list', expires') /\ t \notin ToSet(timer_list)
         /\ \A p \in Timers : TicksLeft(timer_list', expires', p) =
                              IF p = t THEN k ELSE TicksLeft(timer_list, expires, p)
         /\ failed' = failed /\ woken' = {}
<1> DEFINE stop == {i \in 0 .. Len(timer_list) : Stops(timer_list, expires, k, i)}
<1> DEFINE i == CHOOSE j \in stop : \A l \in stop : j <= l
<1>1. timer_list \in Seq(Timers) /\ Len(timer_list) \in Nat
  BY DEF ListOK
<1>2. i \in stop /\ \A l \in stop : i <= l
  <2>1. Len(timer_list) \in stop
    BY <1>1 DEF Stops
  <2>2. stop \in SUBSET Nat /\ stop # {}
    BY <2>1
  <2> HIDE DEF stop
  <2>3. \E j \in stop : \A l \in stop : j <= l
    BY <2>2, Least
  <2> QED
    BY <2>3
<1>3. /\ t \notin ToSet(timer_list)
      /\ timer_list' = InsertAt(timer_list, i + 1, t)
      /\ expires' = [p \in Timers |->
           CASE p = t -> k - Sums(timer_list, expires)[i]
             [] i < Len(timer_list) /\ p = timer_list[i + 1] ->
                  expires[p] - (k - Sums(timer_list, expires)[i])
             [] OTHER -> expires[p]]
      /\ failed' = failed /\ woken' = {}
  BY DEF add_timer, Listed, Elapsed, Stops
<1>4. /\ i \in 0 .. Len(timer_list) /\ Stops(timer_list, expires, k, i)
      /\ \A l \in 0 .. Len(timer_list) : Stops(timer_list, expires, k, l) => i <= l
  BY <1>2
<1> HIDE DEF i, stop
<1>5. /\ ListOK(timer_list', expires')
      /\ \A p \in Timers : TicksLeft(timer_list', expires', p) =
                           IF p = t THEN k ELSE TicksLeft(timer_list, expires, p)
  BY <1>3, <1>4, AddOK
<1> QED
  BY <1>3, <1>5

(* del_timer keeps the list and every other timer's time.                   *)
LEMMA DelStep ==
  ASSUME ListOK(timer_list, expires), NEW t \in Timers, del_timer(t)
  PROVE  /\ ListOK(timer_list', expires')
         /\ \A p \in Timers : TicksLeft(timer_list', expires', p) =
                              IF p = t THEN 0 ELSE TicksLeft(timer_list, expires, p)
         /\ failed' = failed /\ woken' = {}
<1> DEFINE i == Place(timer_list, t)
<1>1. i \in 1 .. Len(timer_list) /\ timer_list[i] = t
  <2>1. t \in ToSet(timer_list)
    BY DEF del_timer, Listed
  <2>2. /\ timer_list \in Seq(Timers) /\ expires \in [Timers -> Nat]
        /\ IsInjective(timer_list)
    BY ListFacts
  <2> QED
    BY <2>1, <2>2, TicksLeftAt
<1>2. /\ timer_list' = RemoveAt(timer_list, i)
      /\ expires' = [p \in Timers |->
           CASE p = timer_list[i] -> 0
             [] i < Len(timer_list) /\ p = timer_list[i + 1] ->
                  expires[p] + expires[timer_list[i]]
             [] OTHER -> expires[p]]
      /\ failed' = failed /\ woken' = {}
  BY <1>1 DEF del_timer
<1> HIDE DEF i
<1>3. /\ ListOK(timer_list', expires')
      /\ \A p \in Timers : TicksLeft(timer_list', expires', p) =
                   IF p = timer_list[i] THEN 0 ELSE TicksLeft(timer_list, expires, p)
  BY <1>1, <1>2, DelOK
<1> QED
  BY <1>1, <1>2, <1>3

(* run_timer_list takes one tick from every timer and wakes those without   *)
(* one left.                                                                *)
LEMMA TickStep ==
  ASSUME ListOK(timer_list, expires), failed = FALSE, run_timer_list
  PROVE  /\ ListOK(timer_list', expires') /\ failed' = FALSE /\ woken' \subseteq Timers
         /\ \A p \in Timers :
              /\ TicksLeft(timer_list', expires', p) =
                   IF TicksLeft(timer_list, expires, p) > 0
                   THEN TicksLeft(timer_list, expires, p) - 1 ELSE 0
              /\ p \in woken' <=> /\ TicksLeft(timer_list, expires, p) > 0
                                  /\ TicksLeft(timer_list', expires', p) = 0
<1>1. timer_list \in Seq(Timers) /\ Len(timer_list) \in Nat
  BY DEF ListOK
<1>2. CASE timer_list = << >>
  <2>1. timer_list' = timer_list /\ expires' = expires /\ failed' = failed /\ woken' = {}
    BY <1>2 DEF run_timer_list
  <2>2. ToSet(timer_list) = {}
    BY <1>2 DEF ToSet
  <2>3. \A p \in Timers : TicksLeft(timer_list, expires, p) = 0
    BY <2>2 DEF TicksLeft
  <2> QED
    BY <2>1, <2>3
<1>3. CASE timer_list # << >>
  <2> DEFINE stay == {i \in 1 .. Len(timer_list) : expires'[timer_list[i]] > 0}
  <2> DEFINE first == CHOOSE i \in stay : \A j \in stay : i <= j
  <2> DEFINE out == IF stay = {} THEN Len(timer_list) ELSE first - 1
  <2>1. /\ failed' = (expires[Head(timer_list)] = 0)
        /\ expires' = [expires EXCEPT ![Head(timer_list)] = IF @ = 0 THEN 0 ELSE @ - 1]
        /\ timer_list' = SubSeq(timer_list, out + 1, Len(timer_list))
        /\ woken' = ToSet(SubSeq(timer_list, 1, out))
    BY <1>3 DEF run_timer_list
  <2>2. /\ out \in 0 .. Len(timer_list)
        /\ \A j \in 1 .. out : ~ (expires'[timer_list[j]] > 0)
        /\ out < Len(timer_list) => expires'[timer_list[out + 1]] > 0
    <3>1. CASE stay = {}
      <4>1. out = Len(timer_list)
        BY <3>1
      <4>2. \A j \in 1 .. Len(timer_list) : ~ (expires'[timer_list[j]] > 0)
        BY <3>1
      <4> HIDE DEF out, stay
      <4> QED
        BY <1>1, <4>1, <4>2
    <3>2. CASE stay # {}
      <4>1. stay \in SUBSET Nat
        OBVIOUS
      <4>2. first \in stay /\ \A j \in stay : first <= j
        <5> HIDE DEF stay
        <5>1. \E i \in stay : \A j \in stay : i <= j
          BY <3>2, <4>1, Least
        <5> QED
          BY <5>1
      <4>3. out = first - 1
        BY <3>2
      <4>4. /\ first \in 1 .. Len(timer_list) /\ expires'[timer_list[first]] > 0
            /\ \A j \in 1 .. Len(timer_list) : expires'[timer_list[j]] > 0 => first <= j
        BY <4>2
      <4> HIDE DEF out, first, stay
      <4>5. out \in 0 .. Len(timer_list) /\ out + 1 = first
        BY <1>1, <4>3, <4>4
      <4>6. \A j \in 1 .. out : j \in 1 .. Len(timer_list) /\ ~ (first <= j)
        BY <1>1, <4>5, <4>4
      <4> QED
        BY <4>4, <4>5, <4>6
    <3> QED
      BY <3>1, <3>2
  <2> HIDE DEF out, first, stay
  <2>3. TickedOK(timer_list', expires', timer_list, expires, out)
    <3>1. IsCountDown(expires', expires, timer_list)
      BY <2>1 DEF IsCountDown
    <3>2. AreOut(timer_list', expires', timer_list, out)
      BY <2>1, <2>2 DEF AreOut
    <3> QED
      BY <1>3, <2>2, <3>1, <3>2, TickOK
  <2>4. ToSet(SubSeq(timer_list, 1, out)) \subseteq Timers
    <3>1. SubSeq(timer_list, 1, out) \in Seq(Timers)
      BY <1>1, <2>2
    <3> QED
      BY <3>1 DEF ToSet
  <2>5. ListOK(timer_list', expires') /\ failed' = FALSE /\ woken' \subseteq Timers
    BY <2>1, <2>3, <2>4 DEF TickedOK
  <2>6. ASSUME NEW p \in Timers
        PROVE  /\ TicksLeft(timer_list', expires', p) =
                    IF TicksLeft(timer_list, expires, p) > 0
                    THEN TicksLeft(timer_list, expires, p) - 1 ELSE 0
               /\ p \in ToSet(SubSeq(timer_list, 1, out)) <=>
                    /\ TicksLeft(timer_list, expires, p) > 0
                    /\ TicksLeft(timer_list', expires', p) = 0
    BY <2>3 DEF TickedOK
  <2> QED
    BY <2>1, <2>5, <2>6
<1> QED
  BY <1>2, <1>3

-----------------------------------------------------------------------------
(* What one step does, for the theorems.                                    *)
LEMMA NextStep ==
  ASSUME TimerInv, TimersNext
  PROVE  /\ ListOK(timer_list', expires') /\ failed' = FALSE /\ woken' \subseteq Timers
         /\ \/ \E t \in Timers, k \in 1 .. MaxTicks :
                 /\ add_timer(t, k) /\ t \notin ToSet(timer_list) /\ woken' = {}
                 /\ \A p \in Timers : TicksLeft(timer_list', expires', p) =
                                      IF p = t THEN k ELSE TicksLeft(timer_list, expires, p)
            \/ \E t \in Timers :
                 /\ del_timer(t) /\ woken' = {}
                 /\ \A p \in Timers : TicksLeft(timer_list', expires', p) =
                                      IF p = t THEN 0 ELSE TicksLeft(timer_list, expires, p)
            \/ /\ run_timer_list
               /\ \A p \in Timers :
                    /\ TicksLeft(timer_list', expires', p) =
                         IF TicksLeft(timer_list, expires, p) > 0
                         THEN TicksLeft(timer_list, expires, p) - 1 ELSE 0
                    /\ p \in woken' <=> /\ TicksLeft(timer_list, expires, p) > 0
                                        /\ TicksLeft(timer_list', expires', p) = 0
<1>1. ListOK(timer_list, expires) /\ failed = FALSE
  BY TimerInvOK
<1>2. CASE \E t \in Timers, k \in 1 .. MaxTicks : add_timer(t, k)
  <2>1. PICK t \in Timers, k \in 1 .. MaxTicks : add_timer(t, k)
    BY <1>2
  <2>2. /\ ListOK(timer_list', expires') /\ t \notin ToSet(timer_list)
        /\ \A p \in Timers : TicksLeft(timer_list', expires', p) =
                             IF p = t THEN k ELSE TicksLeft(timer_list, expires, p)
        /\ failed' = failed /\ woken' = {}
    BY <1>1, <2>1, AddStep
  <2> QED
    BY <1>1, <2>1, <2>2
<1>3. CASE \E t \in Timers : del_timer(t)
  <2>1. PICK t \in Timers : del_timer(t)
    BY <1>3
  <2>2. /\ ListOK(timer_list', expires')
        /\ \A p \in Timers : TicksLeft(timer_list', expires', p) =
                             IF p = t THEN 0 ELSE TicksLeft(timer_list, expires, p)
        /\ failed' = failed /\ woken' = {}
    BY <1>1, <2>1, DelStep
  <2> QED
    BY <1>1, <2>1, <2>2
<1>4. CASE run_timer_list
  BY <1>1, <1>4, TickStep
<1> QED
  BY <1>2, <1>3, <1>4 DEF TimersNext

(* The differences stay in range and the assert of run_timer_list holds,    *)
(* whatever is added and deleted.                                           *)
THEOREM TimerInvariant ==
  TimersSpec => []TimerInv
<1>1. TimersInit => TimerInv
  <2> SUFFICES ASSUME TimersInit PROVE TimerInv
    OBVIOUS
  <2>1. /\ timer_list = << >> /\ expires = [t \in Timers |-> 0] /\ woken = {} /\ failed = FALSE
        /\ MaxTicks \in Nat
    BY TimerAssumption DEF TimersInit
  <2>2. timer_list \in Seq(Timers) /\ Len(timer_list) = 0 /\ IsInjective(timer_list)
    BY <2>1 DEF IsInjective
  <2>3. expires \in [Timers -> 0 .. MaxTicks] /\ expires \in [Timers -> Nat]
    BY <2>1
  <2>4. Sums(timer_list, expires)[0] = 0
    BY <2>2, <2>3, SumsDef DEF IsSum
  <2>5. ListOK(timer_list, expires)
    BY <2>1, <2>2, <2>3, <2>4 DEF ListOK
  <2> QED
    BY <2>1, <2>5, TimerInvOK
<1>2. TimerInv /\ [TimersNext]_timervars => TimerInv'
  <2> SUFFICES ASSUME TimerInv, [TimersNext]_timervars PROVE TimerInv'
    OBVIOUS
  <2>1. CASE TimersNext
    <3>1. ListOK(timer_list', expires') /\ failed' = FALSE /\ woken' \subseteq Timers
      BY <2>1, NextStep
    <3> QED
      BY <3>1 DEF TimerInv, TimersTypeOK, HeadNotDue, LastInTime, Elapsed, ListOK
  <2>2. CASE UNCHANGED timervars
    BY <2>2 DEF TimerInv, TimersTypeOK, HeadNotDue, LastInTime, Elapsed, timervars
  <2> QED
    BY <2>1, <2>2
<1> QED
  BY <1>1, <1>2, PTL DEF TimersSpec

(* A tick wakes exactly the processes whose timers have run out.            *)
THEOREM WakesInTime ==
  TimersSpec => WakesOnTime
<1> DEFINE Wakes == \A t \in Timers : t \in woken' <=> Left(t) > 0 /\ Left(t)' = 0 /\ run_timer_list
<1>1. TimerInv /\ [TimersNext]_timervars => [Wakes]_timervars
  <2> SUFFICES ASSUME TimerInv, TimersNext, NEW t \in Timers
               PROVE  t \in woken' <=> Left(t) > 0 /\ Left(t)' = 0 /\ run_timer_list
    OBVIOUS
  <2>1. /\ Left(t) = TicksLeft(timer_list, expires, t)
        /\ Left(t)' = TicksLeft(timer_list', expires', t)
    BY DEF Left
  <2>2. CASE run_timer_list
    <3>1. ListOK(timer_list, expires) /\ failed = FALSE
      BY TimerInvOK
    <3>2. t \in woken' <=> /\ TicksLeft(timer_list, expires, t) > 0
                          /\ TicksLeft(timer_list', expires', t) = 0
      BY <2>2, <3>1, TickStep
    <3> QED
      BY <2>1, <2>2, <3>2
  <2>3. CASE ~ run_timer_list
    <3>1. woken' = {}
      BY <2>3, NextStep
    <3> QED
      BY <2>3, <3>1
  <2> QED
    BY <2>2, <2>3
<1>2. TimersSpec => []TimerInv
  BY TimerInvariant
<1> QED
  BY <1>1, <1>2, PTL DEF TimersSpec, WakesOnTime

(* The list implements independent timers: to add one is to arm it, to      *)
(* delete one is to cancel it, and a tick counts every timer down by one.   *)
THEOREM TimersIndependent ==
  TimersSpec => ImplementsTimers
<1> DEFINE lefts == [t \in Timers |-> Left(t)]
<1>1. TimersInit => Countdown!Init
  <2> SUFFICES ASSUME TimersInit PROVE Countdown!Init
    OBVIOUS
  <2>1. ToSet(timer_list) = {}
    BY DEF TimersInit, ToSet
  <2> QED
    BY <2>1 DEF Countdown!Init, Left, TicksLeft
<1>2. TimerInv /\ [TimersNext]_timervars => [Countdown!Next]_lefts
  <2> SUFFICES ASSUME TimerInv, [TimersNext]_timervars PROVE [Countdown!Next]_lefts
    OBVIOUS
  <2>1. CASE UNCHANGED timervars
    BY <2>1 DEF timervars, Left, TicksLeft
  <2>2. CASE TimersNext
    <3>1. \A p \in Timers : /\ lefts[p] = TicksLeft(timer_list, expires, p)
                            /\ (lefts[p])' = TicksLeft(timer_list', expires', p)
      BY DEF Left
    <3>2. lefts' = [p \in Timers |-> TicksLeft(timer_list', expires', p)]
      BY DEF Left
    <3>3. lefts = [p \in Timers |-> TicksLeft(timer_list, expires, p)]
      BY DEF Left
    <3>4. CASE \E t \in Timers, k \in 1 .. MaxTicks :
                 /\ add_timer(t, k) /\ t \notin ToSet(timer_list) /\ woken' = {}
                 /\ \A p \in Timers : TicksLeft(timer_list', expires', p) =
                                      IF p = t THEN k ELSE TicksLeft(timer_list, expires, p)
      <4>1. PICK t \in Timers, k \in 1 .. MaxTicks :
                 /\ t \notin ToSet(timer_list)
                 /\ \A p \in Timers : TicksLeft(timer_list', expires', p) =
                                      IF p = t THEN k ELSE TicksLeft(timer_list, expires, p)
        BY <3>4
      <4>2. lefts[t] = 0
        BY <3>1, <4>1 DEF TicksLeft
      <4>3. lefts' = [lefts EXCEPT ![t] = k]
        BY <3>2, <3>3, <4>1
      <4>4. Countdown!Arm(t, k)
        BY <4>2, <4>3 DEF Countdown!Arm
      <4> QED
        BY <4>4 DEF Countdown!Next
    <3>5. CASE \E t \in Timers :
                 /\ del_timer(t) /\ woken' = {}
                 /\ \A p \in Timers : TicksLeft(timer_list', expires', p) =
                                      IF p = t THEN 0 ELSE TicksLeft(timer_list, expires, p)
      <4>1. PICK t \in Timers :
                 \A p \in Timers : TicksLeft(timer_list', expires', p) =
                                   IF p = t THEN 0 ELSE TicksLeft(timer_list, expires, p)
        BY <3>5
      <4>2. lefts' = [lefts EXCEPT ![t] = 0]
        BY <3>2, <3>3, <4>1
      <4> QED
        BY <4>2 DEF Countdown!Next, Countdown!Cancel
    <3>6. CASE \A p \in Timers : TicksLeft(timer_list', expires', p) =
                         IF TicksLeft(timer_list, expires, p) > 0
                         THEN TicksLeft(timer_list, expires, p) - 1 ELSE 0
      <4>1. lefts' = [p \in Timers |-> IF lefts[p] > 0 THEN lefts[p] - 1 ELSE 0]
        BY <3>1, <3>2, <3>6
      <4> QED
        BY <4>1 DEF Countdown!Next, Countdown!Tick
    <3> QED
      BY <2>2, <3>4, <3>5, <3>6, NextStep
  <2> QED
    BY <2>1, <2>2
<1>3. TimersSpec => []TimerInv
  BY TimerInvariant
<1> QED
  BY <1>1, <1>2, <1>3, PTL DEF TimersSpec, ImplementsTimers, Countdown!Spec

------------------------------------------------------------------------------
(* StdinInput.                                                              *)

(* The i-th key that reached the buffer of stdin, and the i-th in the ring  *)
(* of the console.                                                          *)
KeyIn(i) == IF i <= p_rpos THEN log[i] ELSE stdin_buffer[(i - 1) % STDIN_BUFSIZE]
Held == (cons.wpos - cons.rpos) % CONSBUFSIZE
KeyInCons(i) == cons.buf[(cons.rpos + i - 1) % CONSBUFSIZE]

(* KeysAccounted, place by place.  A key in the ring of the console comes   *)
(* after all that have left it.                                             *)
KeysByPlace ==
    /\ Len(log) = p_rpos
    /\ \A i \in 1 .. p_wpos : KeyIn(i) \in 1 .. polled
    /\ \A i \in 1 .. Held : KeyInCons(i) \in 1 .. polled
    /\ \A i \in 1 .. p_wpos, j \in 1 .. Held : KeyIn(i) < KeyInCons(j)
    /\ \A i, j \in 1 .. Held : i < j => KeyInCons(i) < KeyInCons(j)
    /\ \A i, j \in 1 .. p_wpos : i # j => KeyIn(i) # KeyIn(j)
    /\ \A i, j \in 1 .. p_wpos :
          i < j /\ i - 1 \notin overwritten /\ j - 1 \notin overwritten => KeyIn(i) < KeyIn(j)
    /\ p_wpos + Held + missed = polled

StdinState == StdinTypeOK /\ KeysByPlace /\ SleepersQueued

(* Sizes and places as numbers.                                             *)
LEMMA StdinNumbers ==
  ASSUME StdinTypeOK
  PROVE  /\ STDIN_BUFSIZE \in Nat \ {0} /\ CONSBUFSIZE \in Nat \ {0} /\ MaxKeys \in Nat
         /\ p_rpos \in Nat /\ p_wpos \in Nat /\ p_rpos <= p_wpos
         /\ p_wpos <= p_rpos + STDIN_BUFSIZE
         /\ typed \in Nat /\ typed <= MaxKeys /\ polled \in Nat /\ polled <= typed
         /\ cons.rpos \in 0 .. CONSBUFSIZE - 1 /\ cons.wpos \in 0 .. CONSBUFSIZE - 1
         /\ cons.buf \in [0 .. CONSBUFSIZE - 1 -> 0 .. MaxKeys] /\ missed \in Nat
         /\ Held \in 0 .. CONSBUFSIZE - 1
<1>1. /\ STDIN_BUFSIZE \in Nat \ {0} /\ CONSBUFSIZE \in Nat \ {0} /\ MaxKeys \in Nat
  BY StdinAssumption
<1>2. /\ p_rpos \in Nat /\ p_wpos \in Nat /\ p_rpos <= p_wpos
      /\ p_wpos <= p_rpos + STDIN_BUFSIZE
      /\ typed \in Nat /\ typed <= MaxKeys /\ polled \in Nat /\ polled <= typed
      /\ missed \in Nat
  BY <1>1 DEF StdinTypeOK
<1>3. /\ cons.rpos \in 0 .. CONSBUFSIZE - 1 /\ cons.wpos \in 0 .. CONSBUFSIZE - 1
      /\ cons.buf \in [0 .. CONSBUFSIZE - 1 -> 0 .. MaxKeys]
  BY DEF StdinTypeOK
<1>4. PICK r \in 0 .. CONSBUFSIZE - 1 : r = (cons.wpos - cons.rpos) % CONSBUFSIZE
  <2>1. cons.wpos - cons.rpos \in Int
    BY <1>1, <1>3
  <2> QED BY <1>1, <2>1, Division
<1> QED BY <1>1, <1>2, <1>3, <1>4 DEF Held

(* The writing position of the ring is Held places behind the reading one.  *)
LEMMA WritePosition ==
  ASSUME StdinTypeOK, NEW k \in Int
  PROVE  (cons.wpos + k) % CONSBUFSIZE = (cons.rpos + Held + k) % CONSBUFSIZE
<1>1. /\ CONSBUFSIZE \in Nat \ {0} /\ cons.rpos \in Int /\ cons.wpos \in Int
      /\ cons.wpos - cons.rpos \in Int /\ Held \in Int
  BY StdinNumbers
<1>2. PICK q \in Int, r \in 0 .. CONSBUFSIZE - 1 :
         /\ r = (cons.wpos - cons.rpos) % CONSBUFSIZE
         /\ cons.wpos - cons.rpos = CONSBUFSIZE * q + r
  BY <1>1, Division
<1>3. r = Held
  BY <1>2 DEF Held
<1>4. PICK a \in Int : a = cons.rpos + Held + k
  BY <1>1
<1>5. cons.wpos + k = CONSBUFSIZE * q + a
  <2>1. PICK m \in Int : m = CONSBUFSIZE * q
    BY <1>1
  <2>2. cons.wpos - cons.rpos = m + Held
    BY <1>2, <1>3, <2>1
  <2>3. cons.wpos + k = m + a
    BY <1>1, <1>4, <2>2
  <2> QED BY <2>1, <2>3
<1>6. (CONSBUFSIZE * q + a) % CONSBUFSIZE = a % CONSBUFSIZE
  BY <1>1, Multiples
<1> QED BY <1>4, <1>5, <1>6

(* How many keys the ring has after n more have been put in.                *)
RingHeld(n) == (Held + n) % CONSBUFSIZE

(* cons_intr: the lengths of the ring, before and after.                    *)
LEMMA RingLength ==
  ASSUME StdinTypeOK, NEW n \in Nat
  PROVE  /\ cons_intr(n).rpos = cons.rpos
         /\ cons_intr(n).wpos = (cons.wpos + n) % CONSBUFSIZE
         /\ cons_intr(n).wpos \in 0 .. CONSBUFSIZE - 1
         /\ (cons_intr(n).wpos - cons.rpos) % CONSBUFSIZE = RingHeld(n)
         /\ RingHeld(n) \in 0 .. CONSBUFSIZE - 1
         /\ \E q \in Nat : /\ q = (Held + n) \div CONSBUFSIZE
                           /\ Held + n = CONSBUFSIZE * q + RingHeld(n)
<1>1. /\ CONSBUFSIZE \in Nat \ {0} /\ cons.rpos \in Int /\ cons.wpos \in Int /\ n \in Int
      /\ Held \in Nat
  BY StdinNumbers
<1>2. cons_intr(n).rpos = cons.rpos /\ cons_intr(n).wpos = (cons.wpos + n) % CONSBUFSIZE
  BY DEF cons_intr, StdinTypeOK
<1>3. PICK w \in 0 .. CONSBUFSIZE - 1 : w = (cons.wpos + n) % CONSBUFSIZE
  <2>1. cons.wpos + n \in Int
    BY <1>1
  <2> QED BY <1>1, <2>1, Division
<1>4. (w - cons.rpos) % CONSBUFSIZE = RingHeld(n)
  <2>1. PICK a \in Int, b \in Int : a = cons.wpos + n /\ b = 0 - cons.rpos
    BY <1>1
  <2>2. ((a % CONSBUFSIZE) + b) % CONSBUFSIZE = (a + b) % CONSBUFSIZE
    BY <1>1, RemainderFirst
  <2>3. PICK d \in Int : d = cons.wpos - cons.rpos
    BY <1>1
  <2>4. ((d % CONSBUFSIZE) + n) % CONSBUFSIZE = (d + n) % CONSBUFSIZE
    BY <1>1, RemainderFirst
  <2>5. d + n = a + b /\ w + b = w - cons.rpos
    BY <1>1, <2>1, <2>3
  <2> QED BY <1>3, <2>1, <2>2, <2>3, <2>4, <2>5 DEF RingHeld, Held
<1>5. PICK q \in Int, r \in 0 .. CONSBUFSIZE - 1 :
         /\ q = (Held + n) \div CONSBUFSIZE /\ r = (Held + n) % CONSBUFSIZE
         /\ Held + n = CONSBUFSIZE * q + r
  <2>1. Held + n \in Int
    BY <1>1
  <2> QED BY <1>1, <2>1, Division
<1>6. q >= 0
  <2>1. ASSUME NEW d \in Int, d <= -1 PROVE CONSBUFSIZE * d <= 0 - CONSBUFSIZE
    BY <1>1, <2>1
  <2>2. CONSBUFSIZE * q > 0 - CONSBUFSIZE
    BY <1>1, <1>5
  <2> QED BY <1>1, <1>5, <2>1, <2>2
<1> QED BY <1>2, <1>3, <1>4, <1>5, <1>6 DEF RingHeld

(* The i-th key of the ring after n more have been put in: one that was     *)
(* there before if there was room for all, or the one that came last to its *)
(* place.                                                                   *)
RingKey(n, i) == cons_intr(n).buf[(cons.rpos + i - 1) % CONSBUFSIZE]

(* cons_intr: which key is where.                                           *)
LEMMA RingPlace ==
  ASSUME StdinTypeOK, NEW n \in Nat, NEW i \in 1 .. RingHeld(n)
  PROVE  IF n - RingHeld(n) + i >= 1
         THEN RingKey(n, i) = polled + (n - RingHeld(n) + i)
         ELSE i <= Held /\ RingKey(n, i) = KeyInCons(i)
<1> DEFINE c == CONSBUFSIZE
           g == RingHeld(n)
           kk == n - g + i
<1>1. /\ c \in Nat \ {0} /\ Held \in 0 .. c - 1 /\ g \in 0 .. c - 1 /\ i \in 1 .. g
      /\ cons.rpos \in 0 .. c - 1 /\ polled \in Nat /\ kk \in Int /\ kk <= n
  <2>1. /\ c \in Nat \ {0} /\ Held \in 0 .. c - 1 /\ g \in 0 .. c - 1
        /\ cons.rpos \in 0 .. c - 1 /\ polled \in Nat
    BY StdinNumbers, RingLength
  <2> HIDE DEF g, c
  <2>2. i \in 1 .. g /\ kk \in Int /\ kk <= n
    BY <2>1 DEF g
  <2> QED BY <2>1, <2>2
<1>2. PICK q \in Nat : Held + n = c * q + g
  BY RingLength
<1>3. PICK x \in 0 .. c - 1 : x = (cons.rpos + i - 1) % c
  <2>1. PICK a \in Int : a = cons.rpos + i - 1
    BY <1>1
  <2>2. \E p \in Int, r \in 0 .. c - 1 : p = a \div c /\ r = a % c /\ a = c * p + r
    BY <1>1, Division
  <2> QED BY <2>1, <2>2
<1> DEFINE mine == {k \in 1 .. n : (cons.wpos + k - 1) % c = x}
<1>4. RingKey(n, i) = IF mine = {} THEN cons.buf[x]
                      ELSE polled + CHOOSE k \in mine : \A j \in mine : j <= k
  <2>1. cons_intr(n).buf = [p \in DOMAIN cons.buf |->
           LET here == {k \in 1 .. n : (cons.wpos + k - 1) % CONSBUFSIZE = p}
           IN  IF here = {} THEN cons.buf[p]
               ELSE polled + CHOOSE k \in here : \A j \in here : j <= k]
    BY DEF cons_intr, StdinTypeOK
  <2>2. x \in DOMAIN cons.buf /\ RingKey(n, i) = cons_intr(n).buf[x]
    BY <1>3, StdinNumbers DEF RingKey
  <2> QED BY <2>1, <2>2
<1>5. KeyInCons(i) = cons.buf[x]
  BY <1>3 DEF KeyInCons
<1> HIDE DEF g, kk
<1>6. (cons.rpos + Held + (kk - 1)) % c = x
  <2>1. PICK m \in Int : m = c * q
    BY <1>1, <1>2
  <2>2. PICK a \in Int : a = cons.rpos + i - 1
    BY <1>1
  <2>3. cons.rpos + Held + (kk - 1) = m + a
    <3>1. Held + n = m + g /\ g \in Int /\ i \in Int /\ kk = n - g + i
      BY <1>1, <1>2, <2>1 DEF kk
    <3>2. Held + (kk - 1) = m + i - 1
      BY <1>1, <3>1
    <3> QED BY <1>1, <2>2, <3>2
  <2>4. (c * q + a) % c = a % c
    <3>1. c \in Nat \ {0} /\ q \in Int
      BY <1>1
    <3> HIDE DEF c
    <3> QED BY <3>1, Multiples
  <2> QED BY <1>3, <2>1, <2>2, <2>3, <2>4
<1>7. \A k \in Int : (cons.wpos + k - 1) % c = (cons.rpos + Held + (k - 1)) % c
  <2> TAKE k \in Int
  <2>1. k - 1 \in Int /\ cons.wpos \in Int
    BY StdinNumbers
  <2>2. (cons.wpos + (k - 1)) % c = (cons.rpos + Held + (k - 1)) % c
    BY <2>1, WritePosition
  <2>3. cons.wpos + (k - 1) = cons.wpos + k - 1
    BY <2>1
  <2> QED BY <2>2, <2>3
<1>8. \A k \in mine : k \in 1 .. n /\ k <= kk
  <2> SUFFICES ASSUME NEW k \in 1 .. n, (cons.wpos + k - 1) % c = x, ~ (k <= kk) PROVE FALSE
    OBVIOUS
  <2>1. PICK a \in Int : a = cons.rpos + Held + (k - 1)
    BY <1>1
  <2>2. PICK b \in Int : b = cons.rpos + Held + (kk - 1)
    BY <1>1
  <2>3. a % c = b % c
    BY <1>6, <1>7, <2>1, <2>2
  <2>4. k > kk /\ k - kk < c
    BY <1>1 DEF kk
  <2>5. a < b + c /\ b < a + c /\ a # b
    BY <1>1, <2>1, <2>2, <2>4
  <2> QED BY <1>1, <2>3, <2>5, SameRemainder
<1>9. CASE kk >= 1
  <2>1. kk \in mine
    BY <1>1, <1>6, <1>7, <1>9
  <2> HIDE DEF mine
  <2>2. kk = CHOOSE k \in mine : \A j \in mine : j <= k
    <3>1. PICK top : top = CHOOSE k \in mine : \A j \in mine : j <= k
      OBVIOUS
    <3>2. top \in mine /\ \A j \in mine : j <= top
      BY <1>8, <2>1, <3>1
    <3>3. top \in Int /\ kk \in Int /\ top <= kk /\ kk <= top
      BY <1>8, <2>1, <3>2
    <3> QED BY <3>1, <3>3
  <2> QED BY <1>4, <1>9, <2>1, <2>2 DEF kk, g
<1>10. CASE ~ (kk >= 1)
  <2>1. mine = {}
    BY <1>1, <1>8, <1>10
  <2>2. q = 0
    <3>1. ASSUME NEW d \in Int, d >= 1 PROVE c * d >= c
      BY <1>1, <3>1
    <3>2. PICK m \in Int : m = c * q
      BY <1>1
    <3>3. m < c
      BY <1>1, <1>2, <1>10, <3>2 DEF kk
    <3> QED BY <1>1, <3>1, <3>2, <3>3
  <2>3. Held + n = g
    BY <1>1, <1>2, <2>2
  <2>4. i <= Held
    BY <1>1, <1>10, <2>3 DEF kk
  <2> QED BY <1>4, <1>5, <1>10, <2>1, <2>4 DEF kk, g
<1> QED BY <1>9, <1>10 DEF kk, g

(* After cons_intr the keys in the ring are in order, and come after all    *)
(* that have left it.                                                       *)
LEMMA RingKeys ==
  ASSUME StdinTypeOK, KeysByPlace, NEW n \in Nat, n = typed - polled
  PROVE  /\ \A i \in 1 .. RingHeld(n) : RingKey(n, i) \in 1 .. typed
         /\ \A i \in 1 .. p_wpos, j \in 1 .. RingHeld(n) : KeyIn(i) < RingKey(n, j)
         /\ \A i, j \in 1 .. RingHeld(n) : i < j => RingKey(n, i) < RingKey(n, j)
<1> DEFINE g == RingHeld(n)
           k(i) == RingKey(n, i)
<1>1. /\ typed \in Nat /\ polled \in Nat /\ g \in Nat /\ Held \in Nat /\ typed = polled + n
  BY StdinNumbers, RingLength
<1>2. /\ \A i \in 1 .. p_wpos : KeyIn(i) \in 1 .. polled
      /\ \A i \in 1 .. Held : KeyInCons(i) \in 1 .. polled
      /\ \A i \in 1 .. p_wpos, j \in 1 .. Held : KeyIn(i) < KeyInCons(j)
      /\ \A i, j \in 1 .. Held : i < j => KeyInCons(i) < KeyInCons(j)
  BY DEF KeysByPlace
<1>3. \A i \in 1 .. g : IF n - g + i >= 1 THEN k(i) = polled + (n - g + i)
                        ELSE i <= Held /\ k(i) = KeyInCons(i)
  BY RingPlace
<1> HIDE DEF g, k
<1>4. ASSUME NEW i \in 1 .. g
      PROVE  k(i) \in 1 .. typed /\ \A j \in 1 .. p_wpos : KeyIn(j) < k(i)
  <2>1. CASE n - g + i >= 1
    <3>1. k(i) \in Int /\ polled < k(i) /\ k(i) <= typed
      BY <1>1, <1>3, <2>1
    <3> QED BY <1>1, <1>2, <3>1
  <2>2. CASE ~ (n - g + i >= 1)
    <3>1. i \in 1 .. Held /\ k(i) = KeyInCons(i)
      BY <1>1, <1>3, <2>2
    <3>2. k(i) \in 1 .. polled /\ \A j \in 1 .. p_wpos : KeyIn(j) < k(i)
      BY <1>2, <3>1
    <3> QED BY <1>1, <3>2
  <2> QED BY <2>1, <2>2
<1>5. ASSUME NEW i \in 1 .. g, NEW j \in 1 .. g, i < j
      PROVE  k(i) < k(j)
  <2>1. CASE n - g + i >= 1
    <3>1. n - g + j >= 1
      BY <1>1, <1>5, <2>1
    <3>2. k(i) = polled + (n - g + i) /\ k(j) = polled + (n - g + j)
      BY <1>3, <2>1, <3>1
    <3> QED BY <1>1, <1>5, <3>2
  <2>2. CASE ~ (n - g + i >= 1) /\ n - g + j >= 1
    <3>1. i \in 1 .. Held /\ k(i) = KeyInCons(i) /\ k(j) = polled + (n - g + j)
      BY <1>1, <1>3, <2>2
    <3>2. k(i) \in 1 .. polled
      BY <1>2, <3>1
    <3> QED BY <1>1, <2>2, <3>1, <3>2
  <2>3. CASE ~ (n - g + j >= 1)
    <3>1. ~ (n - g + i >= 1)
      BY <1>1, <1>5, <2>3
    <3>2. i \in 1 .. Held /\ j \in 1 .. Held /\ k(i) = KeyInCons(i) /\ k(j) = KeyInCons(j)
      BY <1>1, <1>3, <2>3, <3>1
    <3> QED BY <1>2, <1>5, <3>2
  <2> QED BY <2>1, <2>2, <2>3
<1> QED BY <1>4, <1>5 DEF g, k

(* cons_intr leaves a ring.                                                 *)
LEMMA RingTyped ==
  ASSUME StdinTypeOK, NEW n \in Nat, n = typed - polled
  PROVE  cons_intr(n) \in [buf : [0 .. CONSBUFSIZE - 1 -> 0 .. MaxKeys],
                           rpos : 0 .. CONSBUFSIZE - 1, wpos : 0 .. CONSBUFSIZE - 1]
<1>1. cons_intr(n).rpos = cons.rpos /\ cons_intr(n).wpos \in 0 .. CONSBUFSIZE - 1
  BY RingLength
<1>2. DOMAIN cons.buf = 0 .. CONSBUFSIZE - 1 /\ cons.rpos \in 0 .. CONSBUFSIZE - 1
  BY StdinNumbers
<1> DEFINE at(p) == {k \in 1 .. n : (cons.wpos + k - 1) % CONSBUFSIZE = p}
           key(p) == IF at(p) = {} THEN cons.buf[p]
                     ELSE polled + CHOOSE k \in at(p) : \A j \in at(p) : j <= k
<1>3. cons_intr(n) = [cons EXCEPT !.buf = [p \in DOMAIN cons.buf |-> key(p)],
                                  !.wpos = (@ + n) % CONSBUFSIZE]
  BY DEF cons_intr
<1>4. ASSUME NEW p \in 0 .. CONSBUFSIZE - 1 PROVE key(p) \in 0 .. MaxKeys
  <2>1. CASE at(p) = {}
    BY <2>1, StdinNumbers
  <2>2. CASE at(p) # {}
    <3>1. at(p) \in SUBSET (0 .. n)
      OBVIOUS
    <3>2. \E m \in at(p) : \A j \in at(p) : j <= m
      BY <2>2, <3>1, Greatest
    <3>3. PICK m \in at(p) : m = CHOOSE k \in at(p) : \A j \in at(p) : j <= k
      BY <3>2
    <3>4. m \in 0 .. n
      BY <3>1, <3>3
    <3> HIDE DEF at
    <3>5. key(p) = polled + m
      BY <2>2, <3>3
    <3>6. polled + m \in 0 .. MaxKeys
      <4>1. /\ typed \in Int /\ polled \in Int /\ MaxKeys \in Int /\ m \in Int
            /\ 0 <= polled /\ 0 <= m /\ m <= n /\ typed <= MaxKeys
        BY <3>4, StdinNumbers
      <4> HIDE <3>2
      <4> QED BY <4>1
    <3> QED BY <3>5, <3>6
  <2> QED BY <2>1, <2>2
<1> HIDE DEF key
<1>5. [p \in DOMAIN cons.buf |-> key(p)] \in [0 .. CONSBUFSIZE - 1 -> 0 .. MaxKeys]
  BY <1>2, <1>4
<1>6. (cons.wpos + n) % CONSBUFSIZE \in 0 .. CONSBUFSIZE - 1
  BY RingLength
<1> QED BY <1>3, <1>5, <1>6 DEF StdinTypeOK

(* The keys at their places in the queue of readers' keys: what KeysByPlace *)
(* needs of a step is that the keys of the buffer stay, but for one that    *)
(* comes from the ring, and that the ring loses its first.                  *)
LEMMA KeysMove ==
  ASSUME StdinTypeOK, KeysByPlace, NEW n \in Nat, n = typed - polled, polled' = typed,
         UNCHANGED p_rpos, UNCHANGED log,
         NEW shift \in {0, 1}, shift <= RingHeld(n),
         Held' = RingHeld(n) - shift,
         \A i \in 1 .. Held' : KeyInCons(i)' = RingKey(n, i + shift),
         NEW at \in Nat, p_wpos' \in Nat,
         \A i \in 1 .. p_wpos' : i # at => i \in 1 .. p_wpos /\ KeyIn(i)' = KeyIn(i),
         at \in 1 .. p_wpos' => /\ shift = 1 /\ KeyIn(at)' = RingKey(n, 1)
                                /\ at = p_wpos' \/ at - 1 \in overwritten',
         overwritten \subseteq overwritten',
         p_wpos' + Held' + missed' = typed
  PROVE  KeysByPlace'
<1>0. /\ RingHeld(n) \in Nat /\ typed \in Nat /\ polled \in Nat /\ polled <= typed
      /\ p_wpos \in Nat
  BY StdinNumbers, RingLength
<1>1. /\ \A i \in 1 .. RingHeld(n) : RingKey(n, i) \in 1 .. typed
      /\ \A i \in 1 .. p_wpos, j \in 1 .. RingHeld(n) : KeyIn(i) < RingKey(n, j)
      /\ \A i, j \in 1 .. RingHeld(n) : i < j => RingKey(n, i) < RingKey(n, j)
  BY RingKeys
<1>2. /\ Len(log) = p_rpos
      /\ \A i \in 1 .. p_wpos : KeyIn(i) \in 1 .. polled
      /\ \A i, j \in 1 .. p_wpos : i # j => KeyIn(i) # KeyIn(j)
      /\ \A i, j \in 1 .. p_wpos :
            i < j /\ i - 1 \notin overwritten /\ j - 1 \notin overwritten => KeyIn(i) < KeyIn(j)
  BY DEF KeysByPlace
<1>3. /\ Held' \in Nat
      /\ \A i \in 1 .. Held' : i + shift \in 1 .. RingHeld(n)
  BY <1>0
<1>4. \A i \in 1 .. p_wpos' : KeyIn(i)' \in 1 .. typed
  <2> TAKE i \in 1 .. p_wpos'
  <2>1. CASE i = at
    <3>1. 1 \in 1 .. RingHeld(n)
      BY <1>0, <2>1
    <3> QED BY <1>1, <2>1, <3>1
  <2>2. CASE i # at
    <3>1. KeyIn(i)' \in 1 .. polled
      BY <1>2, <2>2
    <3> QED BY <1>0, <3>1
  <2> QED BY <2>1, <2>2
<1>5. \A i \in 1 .. Held' : KeyInCons(i)' \in 1 .. typed
  BY <1>1, <1>3
<1>6. ASSUME NEW i \in 1 .. p_wpos', NEW j \in 1 .. Held'
      PROVE  KeyIn(i)' < KeyInCons(j)'
  <2>1. CASE i = at
    <3>1. 1 \in 1 .. RingHeld(n) /\ 1 < j + shift /\ j + shift \in 1 .. RingHeld(n)
      BY <1>0, <1>3, <2>1
    <3>2. RingKey(n, 1) < RingKey(n, j + shift)
      BY <1>1, <3>1
    <3> QED BY <2>1, <3>2
  <2>2. CASE i # at
    <3>1. i \in 1 .. p_wpos /\ KeyIn(i)' = KeyIn(i) /\ j + shift \in 1 .. RingHeld(n)
      BY <1>3, <2>2
    <3>2. KeyIn(i) < RingKey(n, j + shift)
      BY <1>1, <3>1
    <3> QED BY <3>1, <3>2
  <2> QED BY <2>1, <2>2
<1>7. ASSUME NEW i \in 1 .. Held', NEW j \in 1 .. Held', i < j
      PROVE  KeyInCons(i)' < KeyInCons(j)'
  <2>1. i + shift \in 1 .. RingHeld(n) /\ j + shift \in 1 .. RingHeld(n) /\ i + shift < j + shift
    BY <1>0, <1>3, <1>7
  <2>2. RingKey(n, i + shift) < RingKey(n, j + shift)
    BY <1>1, <2>1
  <2> QED BY <2>2
<1>8. ASSUME NEW i \in 1 .. p_wpos', NEW j \in 1 .. p_wpos', i # j, i # at
      PROVE  j = at => KeyIn(i)' < KeyIn(j)'
  <2> SUFFICES ASSUME j = at PROVE KeyIn(i)' < KeyIn(j)'
    OBVIOUS
  <2>1. i \in 1 .. p_wpos /\ KeyIn(i)' = KeyIn(i) /\ KeyIn(j)' = RingKey(n, 1)
        /\ 1 \in 1 .. RingHeld(n)
    BY <1>0, <1>8
  <2>2. KeyIn(i) < RingKey(n, 1)
    BY <1>1, <2>1
  <2> QED BY <2>1, <2>2
<1>9. ASSUME NEW i \in 1 .. p_wpos', NEW j \in 1 .. p_wpos', i # j
      PROVE  KeyIn(i)' # KeyIn(j)'
  <2>1. CASE i # at /\ j # at
    <3>1. i \in 1 .. p_wpos /\ j \in 1 .. p_wpos /\ KeyIn(i)' = KeyIn(i) /\ KeyIn(j)' = KeyIn(j)
      BY <2>1
    <3> QED BY <1>2, <1>9, <3>1
  <2>2. CASE j = at
    <3>1. KeyIn(i)' < KeyIn(j)' /\ KeyIn(i)' \in Int /\ KeyIn(j)' \in Int
      BY <1>4, <1>8, <1>9, <2>2
    <3> QED BY <3>1
  <2>3. CASE i = at
    <3>1. KeyIn(j)' < KeyIn(i)' /\ KeyIn(i)' \in Int /\ KeyIn(j)' \in Int
      BY <1>4, <1>8, <1>9, <2>3
    <3> QED BY <3>1
  <2> QED BY <2>1, <2>2, <2>3
<1>10. ASSUME NEW i \in 1 .. p_wpos', NEW j \in 1 .. p_wpos', i < j,
              i - 1 \notin overwritten', j - 1 \notin overwritten'
       PROVE  KeyIn(i)' < KeyIn(j)'
  <2>1. i # at
    BY <1>10
  <2>2. CASE j = at
    <3>1. i # j
      BY <1>10
    <3> QED BY <1>8, <2>1, <2>2, <3>1
  <2>3. CASE j # at
    <3>1. i \in 1 .. p_wpos /\ j \in 1 .. p_wpos /\ KeyIn(i)' = KeyIn(i) /\ KeyIn(j)' = KeyIn(j)
      BY <2>1, <2>3
    <3>2. i - 1 \notin overwritten /\ j - 1 \notin overwritten
      BY <1>10
    <3> QED BY <1>2, <1>10, <3>1, <3>2
  <2> QED BY <2>2, <2>3
<1>11. Len(log') = p_rpos'
  BY <1>2
<1>12. p_wpos' + Held' + missed' = polled'
  OBVIOUS
<1> QED BY <1>4, <1>5, <1>6, <1>7, <1>9, <1>10, <1>11, <1>12 DEF KeysByPlace

(* The two rings are sequences of keys.                                     *)
LEMMA RingsAreSequences ==
  ASSUME StdinTypeOK
  PROVE  /\ InStdin \in Seq(0 .. MaxKeys) /\ Len(InStdin) = p_wpos - p_rpos
         /\ \A i \in 1 .. p_wpos - p_rpos :
              InStdin[i] = stdin_buffer[(p_rpos + i - 1) % STDIN_BUFSIZE]
         /\ InCons \in Seq(0 .. MaxKeys) /\ Len(InCons) = Held
         /\ \A i \in 1 .. Held : InCons[i] = KeyInCons(i)
<1>1. /\ p_rpos \in Int /\ p_wpos - p_rpos \in Nat /\ Held \in Nat /\ cons.rpos \in Int
      /\ STDIN_BUFSIZE \in Nat \ {0} /\ CONSBUFSIZE \in Nat \ {0}
      /\ cons.buf \in [0 .. CONSBUFSIZE - 1 -> 0 .. MaxKeys]
      /\ stdin_buffer \in [0 .. STDIN_BUFSIZE - 1 -> 0 .. MaxKeys]
  BY StdinNumbers DEF StdinTypeOK
<1>2. ASSUME NEW i \in Int
      PROVE  /\ stdin_buffer[(p_rpos + i - 1) % STDIN_BUFSIZE] \in 0 .. MaxKeys
             /\ cons.buf[(cons.rpos + i - 1) % CONSBUFSIZE] \in 0 .. MaxKeys
  <2>1. PICK a \in Int, b \in Int : a = p_rpos + i - 1 /\ b = cons.rpos + i - 1
    BY <1>1
  <2>2. a % STDIN_BUFSIZE \in 0 .. STDIN_BUFSIZE - 1
    BY <1>1, Division
  <2>3. b % CONSBUFSIZE \in 0 .. CONSBUFSIZE - 1
    BY <1>1, Division
  <2> QED BY <1>1, <2>1, <2>2, <2>3
<1>3. InStdin \in Seq(0 .. MaxKeys) /\ Len(InStdin) = p_wpos - p_rpos
  <2>1. InStdin \in [1 .. p_wpos - p_rpos -> 0 .. MaxKeys]
    <3>1. \A i \in 1 .. p_wpos - p_rpos :
             stdin_buffer[(p_rpos + i - 1) % STDIN_BUFSIZE] \in 0 .. MaxKeys
      BY <1>1, <1>2
    <3> QED BY <3>1 DEF InStdin
  <2> QED BY <1>1, <2>1, FunctionSequence
<1>4. InCons = [i \in 1 .. Held |-> KeyInCons(i)]
  BY DEF InCons, Held, KeyInCons
<1>5. \A i \in 1 .. Held : KeyInCons(i) \in 0 .. MaxKeys
  <2> HIDE DEF Held
  <2> QED BY <1>1, <1>2 DEF KeyInCons
<1> HIDE DEF Held, KeyInCons
<1>6. InCons \in Seq(0 .. MaxKeys) /\ Len(InCons) = Held
  <2>1. InCons \in [1 .. Held -> 0 .. MaxKeys]
    BY <1>4, <1>5
  <2> QED BY <1>1, <2>1, FunctionSequence
<1> QED BY <1>3, <1>4, <1>6 DEF InStdin

(* What holds place by place holds of the keys as one sequence.             *)
LEMMA PlacesAccount ==
  ASSUME StdinTypeOK, KeysByPlace
  PROVE  KeysAccounted
<1> DEFINE all == log \o InStdin \o InCons
           key(i) == IF i <= p_wpos THEN KeyIn(i) ELSE KeyInCons(i - p_wpos)
<1>1. /\ p_rpos \in Nat /\ p_wpos \in Nat /\ p_rpos <= p_wpos /\ Held \in Nat
      /\ polled \in Nat /\ missed \in Nat /\ MaxKeys \in Nat
  BY StdinNumbers
<1>2. log \in Seq(0 .. MaxKeys) /\ Len(log) = p_rpos
  <2>1. log \in Seq(1 .. MaxKeys)
    BY DEF StdinTypeOK
  <2>2. 1 .. MaxKeys \subseteq 0 .. MaxKeys
    BY <1>1
  <2> QED BY <2>1, <2>2, WiderSequence DEF KeysByPlace
<1>3. /\ InStdin \in Seq(0 .. MaxKeys) /\ Len(InStdin) = p_wpos - p_rpos
      /\ InCons \in Seq(0 .. MaxKeys) /\ Len(InCons) = Held
  BY RingsAreSequences
<1>4. /\ Len(all) = p_wpos + Held /\ DOMAIN all = 1 .. p_wpos + Held
      /\ \A i \in 1 .. p_wpos + Held :
           all[i] = IF i <= p_rpos THEN log[i]
                    ELSE IF i <= p_wpos THEN InStdin[i - p_rpos] ELSE InCons[i - p_wpos]
  <2>1. /\ p_wpos = p_rpos + Len(InStdin) /\ p_wpos + Held = p_wpos + Len(InCons)
        /\ p_wpos + Held \in Nat
    BY <1>1, <1>2, <1>3
  <2>2. PICK b \in Nat, c \in Nat : b = p_wpos /\ c = p_wpos + Held
    BY <1>1, <2>1
  <2>3. b = p_rpos + Len(InStdin) /\ c = b + Len(InCons)
    BY <2>1, <2>2
  <2>4. /\ Len(all) = c /\ DOMAIN all = 1 .. c
        /\ \A i \in 1 .. c :
             all[i] = IF i <= p_rpos THEN log[i]
                      ELSE IF i <= b THEN InStdin[i - p_rpos] ELSE InCons[i - b]
    <3>1. PICK v : v = log \o InStdin
      OBVIOUS
    <3>2. all = v \o InCons
      BY <3>1
    <3> HIDE DEF all
    <3>3. PICK K, s, t, u, a :
             K = 0 .. MaxKeys /\ s = log /\ t = InStdin /\ u = InCons /\ a = p_rpos
      OBVIOUS
    <3>4. /\ s \in Seq(K) /\ t \in Seq(K) /\ u \in Seq(K) /\ a \in Nat
          /\ a = Len(s) /\ b = a + Len(t) /\ c = b + Len(u)
      BY <1>1, <1>2, <1>3, <2>3, <3>3
    <3>5. v = s \o t /\ all = v \o u
      BY <3>1, <3>2, <3>3
    <3>6. /\ Len(all) = c /\ DOMAIN all = 1 .. c
          /\ \A i \in 1 .. c :
               all[i] = IF i <= a THEN s[i] ELSE IF i <= b THEN t[i - a] ELSE u[i - b]
      BY <3>4, <3>5, JoinedPlaces
    <3> QED BY <3>3, <3>6
  <2> QED BY <2>2, <2>4
<1>5. \A i \in 1 .. p_wpos + Held : all[i] = key(i)
  <2> TAKE i \in 1 .. p_wpos + Held
  <2>1. CASE i <= p_rpos
    BY <1>1, <1>4, <2>1 DEF KeyIn
  <2>2. CASE ~ (i <= p_rpos) /\ i <= p_wpos
    <3>1. i - p_rpos \in 1 .. p_wpos - p_rpos /\ p_rpos + (i - p_rpos) - 1 = i - 1
      BY <1>1, <2>2
    <3>2. InStdin[i - p_rpos] = stdin_buffer[(i - 1) % STDIN_BUFSIZE]
      BY <3>1, RingsAreSequences
    <3> QED BY <1>4, <2>2, <3>2 DEF KeyIn
  <2>3. CASE ~ (i <= p_wpos)
    <3>1. i - p_wpos \in 1 .. Held /\ ~ (i <= p_rpos)
      BY <1>1, <2>3
    <3>2. InCons[i - p_wpos] = KeyInCons(i - p_wpos)
      BY <3>1, RingsAreSequences
    <3> QED BY <1>4, <2>3, <3>1, <3>2
  <2> QED BY <2>1, <2>2, <2>3
<1>6. /\ \A i \in 1 .. p_wpos : KeyIn(i) \in 1 .. polled
      /\ \A i \in 1 .. Held : KeyInCons(i) \in 1 .. polled
      /\ \A i \in 1 .. p_wpos, j \in 1 .. Held : KeyIn(i) < KeyInCons(j)
      /\ \A i, j \in 1 .. Held : i < j => KeyInCons(i) < KeyInCons(j)
      /\ \A i, j \in 1 .. p_wpos : i # j => KeyIn(i) # KeyIn(j)
      /\ \A i, j \in 1 .. p_wpos :
            i < j /\ i - 1 \notin overwritten /\ j - 1 \notin overwritten => KeyIn(i) < KeyIn(j)
      /\ p_wpos + Held + missed = polled
  BY DEF KeysByPlace
<1> HIDE DEF all
<1>7. \A i \in 1 .. p_wpos + Held : i > p_wpos => i - p_wpos \in 1 .. Held
  BY <1>1
<1>8. \A i \in 1 .. p_wpos + Held : key(i) \in Int
  <2> TAKE i \in 1 .. p_wpos + Held
  <2>1. CASE i <= p_wpos
    BY <1>1, <1>6, <2>1
  <2>2. CASE ~ (i <= p_wpos)
    BY <1>1, <1>6, <1>7, <2>2
  <2> QED BY <2>1, <2>2
<1>9. ASSUME NEW i \in 1 .. p_wpos + Held, NEW j \in 1 .. p_wpos + Held, i < j, j > p_wpos
      PROVE  key(i) < key(j)
  <2>1. j - p_wpos \in 1 .. Held /\ key(j) = KeyInCons(j - p_wpos)
    BY <1>1, <1>7, <1>9
  <2>2. CASE i <= p_wpos
    <3>1. i \in 1 .. p_wpos /\ key(i) = KeyIn(i)
      BY <1>1, <2>2
    <3> QED BY <1>6, <2>1, <3>1
  <2>3. CASE ~ (i <= p_wpos)
    <3>1. i - p_wpos \in 1 .. Held /\ key(i) = KeyInCons(i - p_wpos) /\ i - p_wpos < j - p_wpos
      BY <1>1, <1>7, <1>9, <2>3
    <3> QED BY <1>6, <2>1, <3>1
  <2> QED BY <2>2, <2>3
<1>10. ASSUME NEW i \in 1 .. p_wpos + Held, NEW j \in 1 .. p_wpos + Held, i < j
       PROVE  key(i) # key(j) /\ ({i - 1, j - 1} \cap overwritten = {} => key(i) < key(j))
  <2>1. CASE j > p_wpos
    <3>1. key(i) < key(j) /\ key(i) \in Int /\ key(j) \in Int
      BY <1>8, <1>9, <1>10, <2>1
    <3> QED BY <3>1
  <2>2. CASE ~ (j > p_wpos)
    <3>1. i \in 1 .. p_wpos /\ j \in 1 .. p_wpos /\ i # j /\ key(i) = KeyIn(i) /\ key(j) = KeyIn(j)
      BY <1>1, <1>10, <2>2
    <3>2. KeyIn(i) # KeyIn(j)
      BY <1>6, <3>1
    <3>3. ASSUME {i - 1, j - 1} \cap overwritten = {} PROVE KeyIn(i) < KeyIn(j)
      <4>1. i - 1 \notin overwritten /\ j - 1 \notin overwritten
        BY <3>3
      <4> QED BY <1>6, <1>10, <3>1, <4>1
    <3> QED BY <3>1, <3>2, <3>3
  <2> QED BY <2>1, <2>2
<1> HIDE DEF key
<1>11. \A i, j \in 1 .. p_wpos + Held : i # j => all[i] # all[j]
  <2> TAKE i, j \in 1 .. p_wpos + Held
  <2>1. CASE i < j
    BY <1>5, <1>10, <2>1
  <2>2. CASE j < i
    BY <1>5, <1>10, <2>2
  <2> QED BY <1>1, <2>1, <2>2
<1>12. IsInjective(all)
  BY <1>4, <1>11 DEF IsInjective
<1>13. \A i, j \in 1 .. Len(all) :
         i < j /\ {i - 1, j - 1} \cap overwritten = {} => all[i] < all[j]
  BY <1>4, <1>5, <1>10
<1>14. Len(all) + missed = polled
  BY <1>4, <1>6
<1> QED BY <1>12, <1>13, <1>14 DEF KeysAccounted, all

(* wait_current_del: the reader is out of the queue, the others stay.       *)
LEMMA UnqueuedIs ==
  ASSUME StdinTypeOK, IsInjective(wait_queue), NEW r \in Readers
  PROVE  /\ Unqueued(r) \in Seq(Readers) /\ IsInjective(Unqueued(r))
         /\ Range(Unqueued(r)) = Range(wait_queue) \ {r}
<1>0. wait_queue \in Seq(Readers)
  BY DEF StdinTypeOK
<1>1. CASE r \in Range(wait_queue)
  <2> DEFINE i == CHOOSE i \in DOMAIN wait_queue : wait_queue[i] = r
  <2>1. i \in DOMAIN wait_queue /\ wait_queue[i] = r
    BY <1>1 DEF Range
  <2>2. DOMAIN wait_queue = 1 .. Len(wait_queue)
    BY <1>0
  <2>3. Unqueued(r) = SubSeq(wait_queue, 1, i - 1) \o SubSeq(wait_queue, i + 1, Len(wait_queue))
    BY <1>1 DEF Unqueued, RemoveAt
  <2> HIDE DEF i
  <2> DEFINE q == SubSeq(wait_queue, 1, i - 1) \o SubSeq(wait_queue, i + 1, Len(wait_queue))
  <2>4. q \in Seq(Readers) /\ IsRemove(q, wait_queue, i)
    BY <1>0, <2>1, <2>2, Dropped
  <2> HIDE DEF q
  <2>5. IsInjective(q) /\ Range(q) = Range(wait_queue) \ {wait_queue[i]}
    BY <1>0, <2>1, <2>2, <2>4, DroppedSet
  <2> QED BY <2>1, <2>3, <2>4, <2>5 DEF q
<1>2. CASE r \notin Range(wait_queue)
  BY <1>0, <1>2 DEF Unqueued
<1> QED BY <1>1, <1>2

(* The loop of dev_stdin_read takes the oldest keys of the buffer: all keys *)
(* keep their places.                                                       *)
LEMMA TakeKeys ==
  ASSUME StdinTypeOK, KeysByPlace, NEW n \in 0 .. p_wpos - p_rpos,
         log' = log \o [i \in 1 .. n |-> stdin_buffer[(p_rpos + i - 1) % STDIN_BUFSIZE]],
         p_rpos' = p_rpos + n,
         UNCHANGED <<keyboard, stdin_buffer, p_wpos, overwritten, missed>>
  PROVE  KeysByPlace' /\ log' \in Seq(1 .. MaxKeys)
<1> DEFINE taken == [i \in 1 .. n |-> stdin_buffer[(p_rpos + i - 1) % STDIN_BUFSIZE]]
<1>1. /\ p_rpos \in Nat /\ p_wpos \in Nat /\ p_rpos <= p_wpos /\ n \in Nat /\ p_rpos + n <= p_wpos
      /\ MaxKeys \in Nat /\ typed \in Nat /\ typed <= MaxKeys /\ polled \in Nat /\ polled <= typed
  BY StdinNumbers
<1>2. log \in Seq(1 .. MaxKeys) /\ Len(log) = p_rpos
  BY DEF StdinTypeOK, KeysByPlace
<1>3. \A i \in 1 .. n : p_rpos + i \in 1 .. p_wpos /\ taken[i] = KeyIn(p_rpos + i)
                        /\ taken[i] \in 1 .. MaxKeys
  <2> TAKE i \in 1 .. n
  <2>1. p_rpos + i \in 1 .. p_wpos /\ ~ (p_rpos + i <= p_rpos)
    BY <1>1
  <2>2. taken[i] = KeyIn(p_rpos + i)
    <3>1. taken[i] = stdin_buffer[(p_rpos + i - 1) % STDIN_BUFSIZE]
      OBVIOUS
    <3> HIDE DEF taken
    <3>2. PICK m \in Int : m = p_rpos + i
      BY <1>1
    <3>3. p_rpos + i - 1 = m - 1 /\ ~ (m <= p_rpos)
      BY <1>1, <3>2
    <3>4. KeyIn(m) = stdin_buffer[(m - 1) % STDIN_BUFSIZE]
      BY <3>3 DEF KeyIn
    <3>5. stdin_buffer[(p_rpos + i - 1) % STDIN_BUFSIZE] = stdin_buffer[(m - 1) % STDIN_BUFSIZE]
      BY <3>3
    <3> QED BY <3>1, <3>2, <3>4, <3>5, Zenon
  <2>3. KeyIn(p_rpos + i) \in 1 .. polled
    BY <2>1 DEF KeysByPlace
  <2> HIDE DEF taken
  <2> QED BY <1>1, <2>1, <2>2, <2>3
<1>4. taken \in Seq(1 .. MaxKeys) /\ Len(taken) = n
  <2>1. taken \in [1 .. n -> 1 .. MaxKeys]
    BY <1>3
  <2> QED BY <1>1, <2>1, FunctionSequence
<1>5. log' = log \o taken
  OBVIOUS
<1> HIDE DEF taken
<1>6. /\ log' \in Seq(1 .. MaxKeys) /\ Len(log') = p_rpos'
      /\ \A i \in 1 .. p_rpos + n : log'[i] = IF i <= p_rpos THEN log[i] ELSE taken[i - p_rpos]
  <2>1. PICK K, s, t, u, a, b :
           K = 1 .. MaxKeys /\ s = log /\ t = taken /\ u = log' /\ a = p_rpos /\ b = p_rpos + n
    OBVIOUS
  <2>2. /\ s \in Seq(K) /\ t \in Seq(K) /\ a \in Nat /\ a = Len(s)
        /\ b \in Nat /\ b = a + Len(t) /\ u = s \o t
    <3>1. s \in Seq(K) /\ t \in Seq(K) /\ u = s \o t
      BY <1>2, <1>4, <1>5, <2>1, Zenon
    <3>2. a \in Nat /\ a = Len(s) /\ b \in Nat /\ b = a + Len(t)
      BY <1>1, <1>2, <1>4, <2>1
    <3> QED BY <3>1, <3>2
  <2>3. /\ u \in Seq(K) /\ Len(u) = b
        /\ \A i \in 1 .. b : u[i] = IF i <= a THEN s[i] ELSE t[i - a]
    BY <2>2, JoinedTwo
  <2> QED BY <2>1, <2>3
<1>7. \A i \in 1 .. p_wpos : KeyIn(i)' = KeyIn(i)
  <2> TAKE i \in 1 .. p_wpos
  <2>1. CASE i <= p_rpos
    <3>1. i \in 1 .. p_rpos + n /\ i <= p_rpos'
      BY <1>1, <2>1
    <3>2. log'[i] = log[i]
      BY <1>6, <2>1, <3>1
    <3> QED BY <2>1, <3>1, <3>2 DEF KeyIn
  <2>2. CASE ~ (i <= p_rpos) /\ i <= p_rpos + n
    <3>1. /\ i \in 1 .. p_rpos + n /\ i <= p_rpos' /\ i - p_rpos \in 1 .. n
          /\ p_rpos + (i - p_rpos) = i
      BY <1>1, <2>2
    <3>2. log'[i] = taken[i - p_rpos]
      BY <1>6, <2>2, <3>1
    <3>3. taken[i - p_rpos] = KeyIn(i)
      BY <1>3, <3>1
    <3>4. KeyIn(i)' = log'[i]
      BY <3>1 DEF KeyIn
    <3> QED BY <3>2, <3>3, <3>4
  <2>3. CASE ~ (i <= p_rpos + n)
    <3>1. ~ (i <= p_rpos) /\ ~ (i <= p_rpos')
      BY <1>1, <2>3
    <3> QED BY <3>1 DEF KeyIn
  <2> QED BY <1>1, <2>1, <2>2, <2>3
<1>8. /\ p_wpos' = p_wpos /\ Held' = Held /\ polled' = polled /\ missed' = missed
      /\ overwritten' = overwritten /\ \A i \in 1 .. Held : KeyInCons(i)' = KeyInCons(i)
  BY DEF keyboard, Held, KeyInCons
<1>9. KeysByPlace'
  <2>1. /\ \A i \in 1 .. p_wpos : KeyIn(i) \in 1 .. polled
        /\ \A i \in 1 .. Held : KeyInCons(i) \in 1 .. polled
        /\ \A i \in 1 .. p_wpos, j \in 1 .. Held : KeyIn(i) < KeyInCons(j)
        /\ \A i, j \in 1 .. Held : i < j => KeyInCons(i) < KeyInCons(j)
        /\ \A i, j \in 1 .. p_wpos : i # j => KeyIn(i) # KeyIn(j)
        /\ \A i, j \in 1 .. p_wpos :
              i < j /\ i - 1 \notin overwritten /\ j - 1 \notin overwritten => KeyIn(i) < KeyIn(j)
        /\ p_wpos + Held + missed = polled
    BY DEF KeysByPlace
  <2>2. /\ \A i \in 1 .. p_wpos' : KeyIn(i)' \in 1 .. polled'
        /\ \A i \in 1 .. Held' : KeyInCons(i)' \in 1 .. polled'
        /\ \A i \in 1 .. p_wpos', j \in 1 .. Held' : KeyIn(i)' < KeyInCons(j)'
        /\ \A i, j \in 1 .. Held' : i < j => KeyInCons(i)' < KeyInCons(j)'
    BY <1>7, <1>8, <2>1
  <2>3. /\ \A i, j \in 1 .. p_wpos' : i # j => KeyIn(i)' # KeyIn(j)'
        /\ \A i, j \in 1 .. p_wpos' :
              i < j /\ i - 1 \notin overwritten' /\ j - 1 \notin overwritten' => KeyIn(i)' < KeyIn(j)'
        /\ p_wpos' + Held' + missed' = polled'
    BY <1>7, <1>8, <2>1
  <2> QED BY <1>6, <2>2, <2>3 DEF KeysByPlace
<1> QED BY <1>6, <1>9

(* The loop of dev_stdin_read as a whole.                                   *)
LEMMA TakeOrSleepState ==
  ASSUME StdinState, NEW r \in Readers, NEW len \in 0 .. MaxLen, TakeOrSleep(r, len),
         UNCHANGED <<keyboard, stdin_buffer, p_wpos, killed, overwritten, missed>>
  PROVE  StdinState'
<1>1. StdinTypeOK /\ KeysByPlace /\ SleepersQueued
  BY DEF StdinState
<1> DEFINE room == p_wpos - p_rpos
           n == IF len < room THEN len ELSE room
<1>2. /\ p_rpos \in Nat /\ p_wpos \in Nat /\ p_rpos <= p_wpos /\ room \in Nat
      /\ p_wpos <= p_rpos + STDIN_BUFSIZE /\ MaxLen \in Nat /\ len \in Nat /\ STDIN_BUFSIZE \in Nat
  BY <1>1, StdinNumbers, StdinAssumption
<1>3. n \in 0 .. room /\ n <= len /\ (n < len => n = room) /\ (room = 0 => n = 0)
      /\ len - n \in 0 .. MaxLen
  BY <1>2
<1>4. /\ log' = log \o [i \in 1 .. n |-> stdin_buffer[(p_rpos + i - 1) % STDIN_BUFSIZE]]
      /\ p_rpos' = p_rpos + n
      /\ left' = [left EXCEPT ![r] = len - n]
      /\ \/ /\ n = len
            /\ proc' = [proc EXCEPT ![r] = IF killed[r] THEN "dead" ELSE "user"]
            /\ wait_queue' = Unqueued(r)
            /\ UNCHANGED wakeup_flags
         \/ /\ n < len
            /\ proc' = [proc EXCEPT ![r] = "sleeping"]
            /\ wait_queue' = Append(Unqueued(r), r)
            /\ wakeup_flags' = [wakeup_flags EXCEPT ![r] = "WT_INTERRUPTED"]
  BY DEF TakeOrSleep
<1> HIDE DEF n
<1>5. KeysByPlace' /\ log' \in Seq(1 .. MaxKeys)
  <2>1. n \in 0 .. p_wpos - p_rpos
    BY <1>3
  <2> QED BY <1>1, <1>4, <2>1, TakeKeys
<1>6. /\ p_rpos' \in Nat /\ p_wpos' \in p_rpos' .. p_rpos' + STDIN_BUFSIZE
      /\ (n < len => p_rpos' = p_wpos') /\ (p_rpos = p_wpos => p_rpos' = p_wpos')
  BY <1>2, <1>3, <1>4
<1>7. /\ Unqueued(r) \in Seq(Readers) /\ IsInjective(Unqueued(r))
      /\ Range(Unqueued(r)) = Range(wait_queue) \ {r}
  BY <1>1, UnqueuedIs DEF SleepersQueued
<1>8. /\ Append(Unqueued(r), r) \in Seq(Readers) /\ IsInjective(Append(Unqueued(r), r))
      /\ Range(Append(Unqueued(r), r)) = Range(wait_queue) \cup {r}
  <2>1. PICK q : q = Unqueued(r)
    OBVIOUS
  <2>2. q \in Seq(Readers) /\ IsInjective(q) /\ r \notin Range(q)
    BY <1>7, <2>1
  <2>3. /\ Append(q, r) \in Seq(Readers) /\ IsInjective(Append(q, r))
        /\ Range(Append(q, r)) = Range(q) \cup {r}
    BY <2>2, QueueOne
  <2> QED BY <1>7, <2>1, <2>3
<1>9. /\ wakeup_flags \in [Readers -> {"WT_INTERRUPTED", "WT_KBD"}]
      /\ proc \in [Readers -> {"user", "sleeping", "woken", "dead"}]
      /\ killed \in [Readers -> BOOLEAN] /\ left \in [Readers -> 0 .. MaxLen]
  BY <1>1 DEF StdinTypeOK
<1>10. StdinTypeOK'
  <2>1. /\ wait_queue' \in Seq(Readers)
        /\ wakeup_flags' \in [Readers -> {"WT_INTERRUPTED", "WT_KBD"}]
        /\ proc' \in [Readers -> {"user", "sleeping", "woken", "dead"}]
        /\ left' \in [Readers -> 0 .. MaxLen]
    BY <1>3, <1>4, <1>7, <1>8, <1>9
  <2> QED BY <1>1, <1>5, <1>6, <2>1 DEF StdinTypeOK, keyboard
<1>11. SleepersQueued'
  <2>1. IsInjective(wait_queue')
    BY <1>4, <1>7, <1>8
  <2>2. \A p \in Readers \ {r} : /\ proc'[p] = proc[p] /\ wakeup_flags'[p] = wakeup_flags[p]
                                 /\ left'[p] = left[p] /\ killed'[p] = killed[p]
                                 /\ (p \in Range(wait_queue') <=> p \in Range(wait_queue))
    BY <1>4, <1>7, <1>8, <1>9
  <2>3. /\ n = len => proc'[r] # "sleeping" /\ r \notin Range(wait_queue')
        /\ n < len => /\ proc'[r] = "sleeping" /\ r \in Range(wait_queue')
                      /\ wakeup_flags'[r] = "WT_INTERRUPTED" /\ left'[r] > 0
    <3>1. CASE n = len
      <4>1. /\ proc' = [proc EXCEPT ![r] = IF killed[r] THEN "dead" ELSE "user"]
            /\ wait_queue' = Unqueued(r) /\ ~ (n < len)
        BY <1>2, <1>3, <1>4, <3>1
      <4> QED BY <1>7, <1>9, <4>1
    <3>2. CASE n # len
      <4>1. /\ proc' = [proc EXCEPT ![r] = "sleeping"]
            /\ wait_queue' = Append(Unqueued(r), r)
            /\ wakeup_flags' = [wakeup_flags EXCEPT ![r] = "WT_INTERRUPTED"]
            /\ left' = [left EXCEPT ![r] = len - n] /\ n < len
        BY <1>4, <3>2
      <4>2. len - n > 0
        BY <1>2, <1>3, <4>1
      <4> QED BY <1>8, <1>9, <4>1, <4>2
    <3> QED BY <3>1, <3>2
  <2>4. n = len \/ n < len
    BY <1>4
  <2>5. ASSUME NEW p \in Readers
        PROVE  /\ proc'[p] = "sleeping" => p \in Range(wait_queue') /\ p_rpos' = p_wpos'
               /\ p \in Range(wait_queue') =>
                    /\ proc'[p] = "sleeping" \/ (proc'[p] = "woken" /\ killed'[p])
                    /\ wakeup_flags'[p] = "WT_INTERRUPTED"
                    /\ left'[p] > 0
    <3>1. CASE p = r
      BY <1>6, <2>3, <2>4, <3>1
    <3>2. CASE p # r
      BY <1>1, <1>6, <2>2, <3>2 DEF SleepersQueued
    <3> QED BY <3>1, <3>2
  <2> QED BY <2>1, <2>5 DEF SleepersQueued
<1> QED BY <1>5, <1>10, <1>11 DEF StdinState

(* After cons_intr a ring whose positions are equal has no key.             *)
LEMMA RingEmpty ==
  ASSUME StdinTypeOK, NEW n \in Nat
  PROVE  cons_intr(n).rpos = cons_intr(n).wpos <=> RingHeld(n) = 0
<1>1. PICK r, w \in 0 .. CONSBUFSIZE - 1 :
         r = cons_intr(n).rpos /\ w = cons_intr(n).wpos /\ (w - r) % CONSBUFSIZE = RingHeld(n)
  <2>1. cons_intr(n).rpos \in 0 .. CONSBUFSIZE - 1
    BY RingLength, StdinNumbers
  <2>2. /\ cons_intr(n).wpos \in 0 .. CONSBUFSIZE - 1 /\ cons_intr(n).rpos = cons.rpos
        /\ (cons_intr(n).wpos - cons.rpos) % CONSBUFSIZE = RingHeld(n)
    BY RingLength
  <2> QED BY <2>1, <2>2, Zenon
<1>2. CONSBUFSIZE \in Nat \ {0} /\ w - r \in Int /\ r \in Int /\ w \in Int
  <2>1. CONSBUFSIZE \in Nat \ {0}
    BY StdinNumbers
  <2> QED BY <1>1, <2>1
<1>3. 0 % CONSBUFSIZE = 0
  <2>1. (CONSBUFSIZE * 0 + 0) % CONSBUFSIZE = 0
    BY <1>2, Remainder
  <2>2. CONSBUFSIZE * 0 + 0 = 0
    BY <1>2
  <2> QED BY <2>1, <2>2
<1>4. ASSUME r = w PROVE RingHeld(n) = 0
  <2>1. w - r = 0
    BY <1>4
  <2> QED BY <1>1, <1>3, <2>1
<1>5. ASSUME RingHeld(n) = 0 PROVE r = w
  <2>1. PICK a \in Int : a = w - r
    BY <1>2
  <2>2. a % CONSBUFSIZE = 0 % CONSBUFSIZE
    BY <1>1, <1>3, <1>5, <2>1
  <2>3. 0 \in Int /\ a < 0 + CONSBUFSIZE /\ 0 < a + CONSBUFSIZE
    BY <1>1, <1>2, <2>1
  <2>4. a = 0
    BY <1>2, <2>2, <2>3, SameRemainder
  <2> QED BY <1>1, <2>1, <2>4
<1> QED BY <1>1, <1>4, <1>5

(* The next place of a ring of c places: one key less is left behind it.    *)
LEMMA NextPlace ==
  ASSUME NEW c \in Nat \ {0}, NEW r \in 0 .. c - 1, NEW w \in 0 .. c - 1, NEW g \in 1 .. c - 1,
         NEW next \in 0 .. c - 1
  PROVE  next = (r + 1) % c /\ (w - r) % c = g =>
            /\ (w - next) % c = g - 1
            /\ \A i \in Int : (next + i - 1) % c = (r + (i + 1) - 1) % c
            /\ (r + 1 - 1) % c = r
<1>0. SUFFICES ASSUME next = (r + 1) % c, (w - r) % c = g
               PROVE  /\ (w - next) % c = g - 1
                      /\ \A i \in Int : (next + i - 1) % c = (r + (i + 1) - 1) % c
                      /\ (r + 1 - 1) % c = r
  OBVIOUS
<1>1. PICK d \in Int, e \in Int, m \in Int : d = w - r /\ e = r + 1 /\ m = -1
  OBVIOUS
<1>2. next = e % c /\ g = d % c
  BY <1>0, <1>1
<1>3. (w - next) % c = (w - e) % c
  <2>1. PICK x \in Int : x = w
    OBVIOUS
  <2>2. (x - (e % c)) % c = (x - e) % c
    BY RemainderFirst
  <2> QED BY <1>2, <2>1, <2>2
<1>4. (g + m) % c = (d + m) % c
  <2>1. ((d % c) + m) % c = (d + m) % c
    BY RemainderFirst
  <2> QED BY <1>2, <2>1
<1>5. PICK h \in 0 .. c - 1 : h = g - 1
  OBVIOUS
<1>6. h % c = h
  <2>1. PICK z \in Int : z = 0
    OBVIOUS
  <2>2. (c * z + h) % c = h
    BY Remainder
  <2>3. c * z + h = h
    BY <2>1
  <2> QED BY <2>2, <2>3
<1>7. w - e = d + m /\ g + m = h
  BY <1>1, <1>5
<1>8. ASSUME NEW i \in Int PROVE (next + i - 1) % c = (r + (i + 1) - 1) % c
  <2>1. PICK b \in Int : b = i - 1
    OBVIOUS
  <2>2. ((e % c) + b) % c = (e + b) % c
    BY RemainderFirst
  <2>3. next + i - 1 = next + b /\ r + (i + 1) - 1 = e + b
    BY <1>1, <2>1
  <2> QED BY <1>2, <2>2, <2>3
<1>9. (r + 1 - 1) % c = r
  <2>1. PICK z \in Int : z = 0
    OBVIOUS
  <2>2. (c * z + r) % c = r
    BY Remainder
  <2>3. c * z + r = r + 1 - 1
    BY <2>1
  <2> QED BY <2>2, <2>3
<1> QED BY <1>3, <1>4, <1>5, <1>6, <1>7, <1>8, <1>9

(* cons_getc takes the first key out of the ring, the others move up.       *)
LEMMA RingShifted ==
  ASSUME StdinTypeOK, NEW n \in Nat, RingHeld(n) # 0,
         cons' = [cons_intr(n) EXCEPT !.rpos = (@ + 1) % CONSBUFSIZE],
         cons_intr(n) \in [buf : [0 .. CONSBUFSIZE - 1 -> 0 .. MaxKeys],
                           rpos : 0 .. CONSBUFSIZE - 1, wpos : 0 .. CONSBUFSIZE - 1]
  PROVE  /\ cons' \in [buf : [0 .. CONSBUFSIZE - 1 -> 0 .. MaxKeys],
                       rpos : 0 .. CONSBUFSIZE - 1, wpos : 0 .. CONSBUFSIZE - 1]
         /\ Held' = RingHeld(n) - 1
         /\ \A i \in 1 .. RingHeld(n) - 1 : KeyInCons(i)' = RingKey(n, i + 1)
         /\ cons_intr(n).buf[cons_intr(n).rpos] = RingKey(n, 1)
<1> DEFINE c == CONSBUFSIZE
           ring == cons_intr(n)
<1>1. PICK r, w \in 0 .. c - 1 :
         r = ring.rpos /\ w = ring.wpos /\ r = cons.rpos /\ (w - r) % c = RingHeld(n)
  BY RingLength, StdinNumbers
<1>2. /\ c \in Nat \ {0} /\ w - r \in Int /\ r + 1 \in Int /\ r \in Int /\ w \in Int
      /\ RingHeld(n) \in 1 .. c - 1
  <2>1. CONSBUFSIZE \in Nat \ {0} /\ RingHeld(n) \in 0 .. CONSBUFSIZE - 1
    BY StdinNumbers, RingLength
  <2> QED BY <2>1
<1> HIDE DEF c
<1>3. PICK next \in 0 .. c - 1 : next = (r + 1) % c
  BY <1>2, Division
<1>4. cons' = [ring EXCEPT !.rpos = next]
  BY <1>1, <1>3 DEF c
<1>5. ring \in [buf : [0 .. c - 1 -> 0 .. MaxKeys], rpos : 0 .. c - 1, wpos : 0 .. c - 1]
  BY DEF c
<1> HIDE DEF ring
<1>6. /\ cons' \in [buf : [0 .. c - 1 -> 0 .. MaxKeys], rpos : 0 .. c - 1, wpos : 0 .. c - 1]
      /\ cons'.rpos = next /\ cons'.wpos = w /\ cons'.buf = ring.buf
  BY <1>1, <1>3, <1>4, <1>5
<1>7. /\ (w - next) % c = RingHeld(n) - 1
      /\ \A i \in Int : (next + i - 1) % c = (r + (i + 1) - 1) % c
      /\ (r + 1 - 1) % c = r
  <2>1. PICK g \in 1 .. c - 1 : g = RingHeld(n)
    BY <1>2
  <2>2. next = (r + 1) % c /\ (w - r) % c = g
    BY <1>1, <1>3, <2>1
  <2>3. /\ (w - next) % c = g - 1
        /\ \A i \in Int : (next + i - 1) % c = (r + (i + 1) - 1) % c
        /\ (r + 1 - 1) % c = r
    BY <1>2, <2>2, NextPlace, SMTT(60)
  <2> QED BY <2>1, <2>3
<1>8. Held' = RingHeld(n) - 1
  BY <1>6, <1>7 DEF Held, c
<1>9. ASSUME NEW i \in 1 .. RingHeld(n) - 1
      PROVE  KeyInCons(i)' = RingKey(n, i + 1)
  <2>1. i \in Int
    OBVIOUS
  <2>2. KeyInCons(i)' = ring.buf[(next + i - 1) % c]
    BY <1>6 DEF KeyInCons, c
  <2>3. RingKey(n, i + 1) = ring.buf[(r + (i + 1) - 1) % c]
    BY <1>1 DEF RingKey, c, ring
  <2> QED BY <1>7, <2>1, <2>2, <2>3
<1>10. ring.buf[r] = RingKey(n, 1)
  <2>1. RingKey(n, 1) = ring.buf[(r + 1 - 1) % c]
    BY <1>1 DEF RingKey, c, ring
  <2> QED BY <1>7, <2>1
<1> QED BY <1>1, <1>6, <1>8, <1>9, <1>10 DEF c, ring

(* Keys that the ring has lost, and those it has, are those it got.         *)
LEMMA Overrun ==
  ASSUME StdinTypeOK, KeysByPlace, NEW n \in Nat, n = typed - polled,
         NEW overrun, overrun = CONSBUFSIZE * ((Held + n) \div CONSBUFSIZE)
  PROVE  overrun \in Nat /\ p_wpos + RingHeld(n) + (missed + overrun) = typed
<1>1. /\ CONSBUFSIZE \in Nat \ {0} /\ p_wpos \in Nat /\ typed \in Nat /\ polled \in Nat
      /\ missed \in Nat /\ Held \in Nat
  BY StdinNumbers
<1>2. RingHeld(n) \in Nat
  BY RingLength, <1>1
<1>3. PICK q \in Nat : /\ q = (Held + n) \div CONSBUFSIZE
                       /\ Held + n = CONSBUFSIZE * q + RingHeld(n)
  BY RingLength
<1>4. overrun = CONSBUFSIZE * q
  BY <1>3
<1>5. overrun \in Nat
  <2>1. PICK m \in Nat : m = CONSBUFSIZE * q
    BY <1>1
  <2> QED BY <1>4, <2>1
<1>6. Held + n = overrun + RingHeld(n)
  BY <1>3, <1>4
<1>7. p_wpos + Held + missed = polled
  BY DEF KeysByPlace
<1>8. p_wpos + RingHeld(n) + (missed + overrun) = typed
  <2>1. PICK a, b, o, h \in Int : a = p_wpos /\ b = RingHeld(n) /\ o = overrun /\ h = Held
    BY <1>1, <1>2, <1>5
  <2>2. h + n = o + b /\ a + h + missed = polled /\ typed = polled + n
    BY <1>1, <1>6, <1>7, <2>1
  <2>3. a + b + (missed + o) = typed
    BY <1>1, <2>2
  <2> QED BY <2>1, <2>3
<1> QED BY <1>5, <1>8

(* The parts of Tick, with names for what it computes.                      *)
EmptyRing(n, overrun) ==
    /\ cons_intr(n).rpos = cons_intr(n).wpos
    /\ cons' = cons_intr(n)
    /\ missed' = missed + overrun
    /\ UNCHANGED <<stdin_buffer, p_wpos, wait_queue, wakeup_flags, proc, overwritten>>

PassKey(n, overrun) ==
    /\ cons_intr(n).rpos # cons_intr(n).wpos
    /\ cons' = [cons_intr(n) EXCEPT !.rpos = (@ + 1) % CONSBUFSIZE]
    /\ dev_stdin_write(cons_intr(n).buf[cons_intr(n).rpos])
    /\ missed' = missed + overrun + (IF p_wpos - p_rpos = STDIN_BUFSIZE THEN 1 ELSE 0)
    /\ overwritten' = IF p_wpos - p_rpos = STDIN_BUFSIZE
                      THEN overwritten \cup {p_wpos - STDIN_BUFSIZE} ELSE overwritten

(* cons_getc finds no key in the ring.                                      *)
LEMMA EmptyRingState ==
  ASSUME StdinState, NEW n \in Nat, n = typed - polled, polled' = typed,
         NEW overrun \in Nat, p_wpos + RingHeld(n) + (missed + overrun) = typed,
         EmptyRing(n, overrun), UNCHANGED <<typed, p_rpos, killed, left, log>>
  PROVE  StdinState'
<1>1. StdinTypeOK /\ KeysByPlace /\ SleepersQueued
  BY DEF StdinState
<1>2. /\ cons_intr(n).rpos = cons_intr(n).wpos /\ cons' = cons_intr(n)
      /\ missed' = missed + overrun
      /\ UNCHANGED <<stdin_buffer, p_wpos, wait_queue, wakeup_flags, proc, overwritten>>
  BY DEF EmptyRing
<1>3. RingHeld(n) = 0
  BY <1>1, <1>2, RingEmpty
<1>4. Held' = RingHeld(n)
  <2>1. cons_intr(n).rpos = cons.rpos
    BY <1>1, RingLength
  <2>2. (cons_intr(n).wpos - cons.rpos) % CONSBUFSIZE = RingHeld(n)
    BY <1>1, RingLength
  <2> QED BY <1>2, <2>1, <2>2 DEF Held
<1>5. /\ p_rpos \in Nat /\ p_wpos \in Nat /\ missed \in Nat /\ typed \in 0 .. MaxKeys
      /\ typed \in Nat
  BY <1>1, StdinNumbers DEF StdinTypeOK
<1>6. KeysByPlace'
  <2>1. PICK shift \in {0, 1} : shift = 0
    OBVIOUS
  <2>2. PICK at \in Nat : at = 0
    OBVIOUS
  <2>3. shift <= RingHeld(n) /\ Held' = RingHeld(n) - shift /\ ~ (at \in 1 .. p_wpos')
    BY <1>3, <1>4, <2>1, <2>2
  <2>4. \A i \in 1 .. Held' : KeyInCons(i)' = RingKey(n, i + shift)
    BY <1>3, <1>4
  <2>5. \A i \in 1 .. p_wpos' : i # at => i \in 1 .. p_wpos /\ KeyIn(i)' = KeyIn(i)
    BY <1>2 DEF KeyIn
  <2>6. /\ p_wpos' \in Nat /\ overwritten \subseteq overwritten'
        /\ p_wpos' + Held' + missed' = typed
    BY <1>2, <1>4, <1>5
  <2>7. UNCHANGED p_rpos /\ UNCHANGED log
    OBVIOUS
  <2> QED BY <1>1, <2>3, <2>4, <2>5, <2>6, <2>7, KeysMove
<1>7. StdinTypeOK'
  <2>1. cons' \in [buf : [0 .. CONSBUFSIZE - 1 -> 0 .. MaxKeys],
                   rpos : 0 .. CONSBUFSIZE - 1, wpos : 0 .. CONSBUFSIZE - 1]
    BY <1>1, <1>2, RingTyped
  <2>2. typed' \in 0 .. MaxKeys /\ polled' \in 0 .. typed' /\ missed' \in Nat
    BY <1>2, <1>5
  <2> QED BY <1>1, <1>2, <2>1, <2>2 DEF StdinTypeOK
<1>8. SleepersQueued'
  BY <1>1, <1>2 DEF SleepersQueued
<1> QED BY <1>6, <1>7, <1>8 DEF StdinState

(* dev_stdin_write: the key comes to its place and disturbs no other that   *)
(* is still to be read, but the oldest if the buffer is full.               *)
LEMMA Written ==
  ASSUME StdinTypeOK, NEW c, dev_stdin_write(c), UNCHANGED p_rpos, UNCHANGED log,
         NEW at \in Nat,
         at = (IF p_wpos - p_rpos = STDIN_BUFSIZE THEN p_rpos ELSE p_wpos) + 1
  PROVE  /\ p_wpos' = IF p_wpos - p_rpos = STDIN_BUFSIZE THEN p_wpos ELSE p_wpos + 1
         /\ at \in p_rpos + 1 .. p_wpos' /\ KeyIn(at)' = c
         /\ \A i \in 1 .. p_wpos' : i # at => i \in 1 .. p_wpos /\ KeyIn(i)' = KeyIn(i)
<1> DEFINE B == STDIN_BUFSIZE
<1>1. /\ B \in Nat \ {0} /\ p_rpos \in Nat /\ p_wpos \in Nat /\ p_rpos <= p_wpos
      /\ p_wpos <= p_rpos + B
  BY StdinNumbers
<1>2. /\ stdin_buffer' = [stdin_buffer EXCEPT ![p_wpos % B] = c]
      /\ p_wpos' = IF p_wpos - p_rpos < B THEN p_wpos + 1 ELSE p_wpos
  BY DEF dev_stdin_write
<1>3. DOMAIN stdin_buffer = 0 .. B - 1
  BY DEF StdinTypeOK
<1> HIDE DEF B
<1>4. PICK m \in 0 .. B - 1 : m = p_wpos % B
  <2>1. PICK x \in Int : x = p_wpos
    BY <1>1
  <2> QED BY <1>1, <2>1, Division
<1>5. p_wpos' = IF p_wpos - p_rpos = B THEN p_wpos ELSE p_wpos + 1
  BY <1>1, <1>2
<1>6. at \in p_rpos + 1 .. p_wpos' /\ (p_wpos - p_rpos = B => at = p_rpos + 1)
      /\ (p_wpos - p_rpos # B => at = p_wpos + 1)
  BY <1>1, <1>5 DEF B
<1>7. (at - 1) % B = m
  <2>1. CASE p_wpos - p_rpos = B
    <3>1. PICK q, a \in Int : q = 1 /\ a = p_rpos
      BY <1>1
    <3>2. (B * q + a) % B = a % B
      BY <1>1, Multiples
    <3>3. B * q + a = p_wpos /\ at - 1 = a
      <4>1. B * q = B
        BY <1>1, <3>1
      <4>2. B + a = p_wpos
        BY <1>1, <2>1, <3>1
      <4> QED BY <1>1, <1>6, <2>1, <3>1, <4>1, <4>2
    <3> QED BY <1>4, <3>2, <3>3
  <2>2. CASE p_wpos - p_rpos # B
    <3>1. at - 1 = p_wpos
      BY <1>1, <1>6, <2>2
    <3> QED BY <1>4, <3>1
  <2> QED BY <2>1, <2>2
<1>8. KeyIn(at)' = c
  <2>1. ~ (at <= p_rpos)
    BY <1>1, <1>6
  <2>2. KeyIn(at)' = stdin_buffer'[(at - 1) % B]
    BY <2>1 DEF KeyIn, B
  <2> QED BY <1>2, <1>3, <1>4, <1>7, <2>2
<1>9. ASSUME NEW i \in 1 .. p_wpos', i # at
      PROVE  i \in 1 .. p_wpos /\ KeyIn(i)' = KeyIn(i)
  <2>1. i \in 1 .. p_wpos
    BY <1>1, <1>5, <1>6, <1>9
  <2>2. CASE i <= p_rpos
    BY <2>1, <2>2 DEF KeyIn
  <2>3. CASE ~ (i <= p_rpos)
    <3>1. PICK x, y \in Int : x = i - 1 /\ y = at - 1
      BY <1>1
    <3>2. x # y /\ x < y + B /\ y < x + B
      BY <1>1, <1>5, <1>6, <1>9, <2>1, <2>3, <3>1
    <3>3. x % B # y % B
      BY <1>1, <3>2, SameRemainder
    <3>4. (i - 1) % B # m
      BY <1>7, <3>1, <3>3
    <3>5. x % B \in 0 .. B - 1
      BY <1>1, Division
    <3>6. stdin_buffer'[(i - 1) % B] = stdin_buffer[(i - 1) % B]
      BY <1>2, <1>3, <1>4, <3>1, <3>4, <3>5
    <3> QED BY <2>1, <2>3, <3>6 DEF KeyIn, B
  <2> QED BY <2>1, <2>2, <2>3
<1> QED BY <1>5, <1>6, <1>8, <1>9 DEF B

(* cons_getc takes a key out of the ring.                                   *)
LEMMA PassKeyState ==
  ASSUME StdinState, NEW n \in Nat, n = typed - polled, polled' = typed,
         NEW overrun \in Nat, p_wpos + RingHeld(n) + (missed + overrun) = typed,
         PassKey(n, overrun), UNCHANGED <<typed, p_rpos, killed, left, log>>
  PROVE  StdinState'
<1>1. StdinTypeOK /\ KeysByPlace /\ SleepersQueued
  BY DEF StdinState
<1> DEFINE B == STDIN_BUFSIZE
           full == p_wpos - p_rpos = B
           c == cons_intr(n).buf[cons_intr(n).rpos]
           ring == [buf : [0 .. CONSBUFSIZE - 1 -> 0 .. MaxKeys],
                    rpos : 0 .. CONSBUFSIZE - 1, wpos : 0 .. CONSBUFSIZE - 1]
<1>2. /\ cons_intr(n).rpos # cons_intr(n).wpos
      /\ cons' = [cons_intr(n) EXCEPT !.rpos = (@ + 1) % CONSBUFSIZE]
      /\ dev_stdin_write(c)
      /\ missed' = missed + overrun + (IF full THEN 1 ELSE 0)
      /\ overwritten' = IF full THEN overwritten \cup {p_wpos - B} ELSE overwritten
  BY DEF PassKey
<1>3. RingHeld(n) # 0
  BY <1>1, <1>2, RingEmpty
<1>4. /\ cons_intr(n) \in ring /\ cons_intr(n).rpos \in 0 .. CONSBUFSIZE - 1
  BY <1>1, RingTyped
<1>5. /\ cons' \in ring /\ Held' = RingHeld(n) - 1 /\ c = RingKey(n, 1)
      /\ \A i \in 1 .. RingHeld(n) - 1 : KeyInCons(i)' = RingKey(n, i + 1)
  BY <1>1, <1>2, <1>3, <1>4, RingShifted
<1>6. /\ B \in Nat \ {0} /\ p_rpos \in Nat /\ p_wpos \in Nat /\ p_rpos <= p_wpos
      /\ p_wpos <= p_rpos + B /\ missed \in Nat /\ typed \in Nat /\ RingHeld(n) \in Nat
  <2>1. CONSBUFSIZE \in Nat /\ RingHeld(n) \in 0 .. CONSBUFSIZE - 1
    BY <1>1, StdinNumbers, RingLength
  <2> QED BY <1>1, <2>1, StdinNumbers
<1>7. PICK at \in Nat : at = (IF full THEN p_rpos ELSE p_wpos) + 1
  BY <1>6
<1> HIDE DEF c
<1>8. /\ p_wpos' = IF full THEN p_wpos ELSE p_wpos + 1
      /\ at \in p_rpos + 1 .. p_wpos' /\ KeyIn(at)' = c
      /\ \A i \in 1 .. p_wpos' : i # at => i \in 1 .. p_wpos /\ KeyIn(i)' = KeyIn(i)
  BY <1>1, <1>2, <1>7, Written
<1> HIDE DEF B
<1>9. /\ p_wpos' \in Nat /\ p_rpos <= p_wpos' /\ p_wpos' <= p_rpos + B
      /\ (at = p_wpos' \/ at - 1 \in overwritten') /\ overwritten \subseteq overwritten'
      /\ overwritten' \subseteq overwritten \cup {p_rpos}
  <2>1. CASE full
    <3>1. p_wpos - B = p_rpos /\ at - 1 = p_rpos /\ p_wpos' = p_wpos
      BY <1>6, <1>7, <1>8, <2>1
    <3> QED BY <1>2, <1>6, <2>1, <3>1
  <2>2. CASE ~ full
    <3>1. p_wpos' = p_wpos + 1 /\ at = p_wpos' /\ overwritten' = overwritten
      BY <1>2, <1>7, <1>8, <2>2
    <3> QED BY <1>6, <2>2, <3>1
  <2> QED BY <2>1, <2>2
<1>10. missed' \in Nat /\ p_wpos' + Held' + missed' = typed
  <2>1. PICK x, y \in Nat : x = RingHeld(n) /\ y = missed + overrun
    BY <1>6
  <2>2. p_wpos + x + y = typed /\ Held' = x - 1
    BY <1>5, <2>1
  <2>3. CASE full
    <3>1. p_wpos' = p_wpos /\ missed' = y + 1
      BY <1>2, <1>8, <2>1, <2>3
    <3> QED BY <1>6, <2>2, <3>1
  <2>4. CASE ~ full
    <3>1. p_wpos' = p_wpos + 1 /\ missed' = y
      BY <1>2, <1>6, <1>8, <2>1, <2>4
    <3> QED BY <1>6, <2>2, <3>1
  <2> QED BY <2>3, <2>4
<1>11. KeysByPlace'
  <2>1. PICK shift \in {0, 1} : shift = 1
    OBVIOUS
  <2>2. shift <= RingHeld(n) /\ Held' = RingHeld(n) - shift
    BY <1>3, <1>5, <1>6, <2>1
  <2>3. \A i \in 1 .. Held' : KeyInCons(i)' = RingKey(n, i + shift)
    BY <1>5, <2>1
  <2>4. at \in 1 .. p_wpos' => /\ shift = 1 /\ KeyIn(at)' = RingKey(n, 1)
                               /\ at = p_wpos' \/ at - 1 \in overwritten'
    BY <1>5, <1>8, <1>9, <2>1
  <2>5. UNCHANGED p_rpos /\ UNCHANGED log
    OBVIOUS
  <2>6. /\ p_wpos' \in Nat /\ overwritten \subseteq overwritten'
        /\ p_wpos' + Held' + missed' = typed
    BY <1>9, <1>10
  <2>7. \A i \in 1 .. p_wpos' : i # at => i \in 1 .. p_wpos /\ KeyIn(i)' = KeyIn(i)
    BY <1>8
  <2> QED BY <1>1, <2>2, <2>3, <2>4, <2>5, <2>6, <2>7, KeysMove
<1>12. /\ wait_queue' = << >>
       /\ wakeup_flags' = [p \in Readers |->
             IF p \in Range(wait_queue) THEN "WT_KBD" ELSE wakeup_flags[p]]
       /\ proc' = [p \in Readers |->
             IF p \in Range(wait_queue) /\ proc[p] = "sleeping" THEN "woken" ELSE proc[p]]
  BY <1>2 DEF dev_stdin_write, wakeup_queue
<1>13. StdinTypeOK'
  <2>1. /\ typed' \in 0 .. MaxKeys /\ polled' \in 0 .. typed' /\ cons' \in ring
    BY <1>1, <1>5, <1>6 DEF StdinTypeOK
  <2>2. stdin_buffer' \in [0 .. B - 1 -> 0 .. MaxKeys]
    <3>1. c \in 0 .. MaxKeys
      BY <1>4 DEF c
    <3>2. stdin_buffer \in [0 .. B - 1 -> 0 .. MaxKeys]
      BY <1>1 DEF StdinTypeOK, B
    <3>3. stdin_buffer' = [stdin_buffer EXCEPT ![p_wpos % B] = c]
      BY <1>2 DEF dev_stdin_write, B
    <3> QED BY <3>1, <3>2, <3>3
  <2>3. p_rpos' \in Nat /\ p_wpos' \in p_rpos' .. p_rpos' + B
    BY <1>6, <1>9
  <2>4. /\ wait_queue' \in Seq(Readers)
        /\ wakeup_flags' \in [Readers -> {"WT_INTERRUPTED", "WT_KBD"}]
        /\ proc' \in [Readers -> {"user", "sleeping", "woken", "dead"}]
    BY <1>1, <1>12 DEF StdinTypeOK
  <2>5. overwritten' \subseteq Nat
    BY <1>1, <1>6, <1>9 DEF StdinTypeOK
  <2>6. /\ killed' \in [Readers -> BOOLEAN] /\ left' \in [Readers -> 0 .. MaxLen]
        /\ log' \in Seq(1 .. MaxKeys)
    BY <1>1 DEF StdinTypeOK
  <2> QED BY <1>10, <2>1, <2>2, <2>3, <2>4, <2>5, <2>6 DEF StdinTypeOK, B
<1>14. SleepersQueued'
  <2>1. IsInjective(wait_queue') /\ Range(wait_queue') = {}
    BY <1>12 DEF IsInjective, Range
  <2>2. ASSUME NEW p \in Readers PROVE proc'[p] # "sleeping"
    BY <1>1, <1>12 DEF SleepersQueued
  <2> QED BY <2>1, <2>2 DEF SleepersQueued
<1> QED BY <1>11, <1>13, <1>14 DEF StdinState

(* The timer interrupt.                                                     *)
LEMMA TickState == StdinState /\ Tick => StdinState'
<1> SUFFICES ASSUME StdinState, Tick PROVE StdinState'
  OBVIOUS
<1>1. StdinTypeOK /\ KeysByPlace
  BY DEF StdinState
<1>2. PICK n \in Nat : n = typed - polled
  <2>1. typed - polled \in Nat
    BY <1>1, StdinNumbers
  <2> QED BY <2>1
<1>3. PICK overrun : overrun = CONSBUFSIZE * ((Held + n) \div CONSBUFSIZE)
  OBVIOUS
<1>4. overrun \in Nat /\ p_wpos + RingHeld(n) + (missed + overrun) = typed
  BY <1>1, <1>2, <1>3, Overrun
<1>5. polled' = typed /\ UNCHANGED <<typed, p_rpos, killed, left, log>>
  BY DEF Tick
<1>6. EmptyRing(n, overrun) \/ PassKey(n, overrun)
  BY <1>2, <1>3 DEF Tick, EmptyRing, PassKey, Held
<1> QED BY <1>2, <1>4, <1>5, <1>6, EmptyRingState, PassKeyState

(* A key is typed.                                                          *)
LEMMA TypeState == StdinState /\ Type => StdinState'
<1> SUFFICES ASSUME StdinState, Type PROVE StdinState'
  OBVIOUS
<1>1. StdinTypeOK /\ KeysByPlace /\ SleepersQueued
  BY DEF StdinState
<1>2. /\ typed < MaxKeys /\ typed' = typed + 1
      /\ UNCHANGED <<polled, cons, stdin_buffer, p_rpos, p_wpos, wait_queue,
                     wakeup_flags, proc, killed, left, log, overwritten, missed>>
  BY DEF Type, history
<1>3. typed' \in 0 .. MaxKeys /\ polled' \in 0 .. typed'
  BY <1>1, <1>2, StdinNumbers
<1>4. StdinTypeOK'
  BY <1>1, <1>2, <1>3 DEF StdinTypeOK
<1>5. KeysByPlace'
  BY <1>1, <1>2 DEF KeysByPlace, KeyIn, Held, KeyInCons
<1>6. SleepersQueued'
  BY <1>1, <1>2 DEF SleepersQueued
<1> QED BY <1>4, <1>5, <1>6 DEF StdinState

(* A read starts,                                                           *)
LEMMA ReadState ==
  ASSUME StdinState, NEW r \in Readers, NEW len \in 1 .. MaxLen, dev_stdin_read(r, len)
  PROVE  StdinState'
<1>1. len \in 0 .. MaxLen
  BY StdinAssumption
<1>2. TakeOrSleep(r, len)
      /\ UNCHANGED <<keyboard, stdin_buffer, p_wpos, killed, overwritten, missed>>
  BY DEF dev_stdin_read
<1> QED BY <1>1, <1>2, TakeOrSleepState

(* and goes on after schedule().                                            *)
LEMMA ResumeState ==
  ASSUME StdinState, NEW r \in Readers, Resume(r)
  PROVE  StdinState'
<1>1. StdinTypeOK /\ KeysByPlace /\ SleepersQueued
  BY DEF StdinState
<1>2. /\ proc[r] = "woken"
      /\ UNCHANGED <<keyboard, stdin_buffer, p_wpos, killed, overwritten, missed>>
  BY DEF Resume
<1>3. CASE wakeup_flags[r] = "WT_KBD" /\ TakeOrSleep(r, left[r])
  <2>1. left[r] \in 0 .. MaxLen
    BY <1>1 DEF StdinTypeOK
  <2> QED BY <1>2, <1>3, <2>1, TakeOrSleepState
<1>4. CASE /\ wakeup_flags[r] # "WT_KBD"
           /\ wait_queue' = Unqueued(r)
           /\ proc' = [proc EXCEPT ![r] = IF killed[r] THEN "dead" ELSE "user"]
           /\ left' = [left EXCEPT ![r] = 0]
           /\ UNCHANGED <<p_rpos, wakeup_flags, log>>
  <2>1. /\ wait_queue' \in Seq(Readers) /\ IsInjective(wait_queue')
        /\ Range(wait_queue') = Range(wait_queue) \ {r}
    BY <1>1, <1>4, UnqueuedIs DEF SleepersQueued
  <2>2. /\ proc \in [Readers -> {"user", "sleeping", "woken", "dead"}]
        /\ left \in [Readers -> 0 .. MaxLen] /\ MaxLen \in Nat
    BY <1>1, StdinAssumption DEF StdinTypeOK
  <2>3. /\ proc' \in [Readers -> {"user", "sleeping", "woken", "dead"}]
        /\ left' \in [Readers -> 0 .. MaxLen]
    BY <1>4, <2>2
  <2>4. StdinTypeOK'
    BY <1>1, <1>2, <1>4, <2>1, <2>3 DEF StdinTypeOK, keyboard
  <2>5. KeysByPlace'
    BY <1>1, <1>2, <1>4 DEF KeysByPlace, KeyIn, Held, KeyInCons, keyboard
  <2>6. ASSUME NEW p \in Readers
        PROVE  /\ proc'[p] = "sleeping" => p \in Range(wait_queue') /\ p_rpos' = p_wpos'
               /\ p \in Range(wait_queue') =>
                    /\ proc'[p] = "sleeping" \/ (proc'[p] = "woken" /\ killed'[p])
                    /\ wakeup_flags'[p] = "WT_INTERRUPTED"
                    /\ left'[p] > 0
    <3>1. CASE p = r
      BY <1>4, <2>1, <2>2, <3>1
    <3>2. CASE p # r
      <4>1. /\ proc'[p] = proc[p] /\ left'[p] = left[p] /\ wakeup_flags'[p] = wakeup_flags[p]
            /\ killed'[p] = killed[p] /\ p_rpos' = p_rpos /\ p_wpos' = p_wpos
            /\ (p \in Range(wait_queue') <=> p \in Range(wait_queue))
        BY <1>2, <1>4, <2>1, <2>2, <3>2
      <4> QED BY <1>1, <4>1 DEF SleepersQueued
    <3> QED BY <3>1, <3>2
  <2> QED BY <2>1, <2>4, <2>5, <2>6 DEF StdinState, SleepersQueued
<1> QED BY <1>3, <1>4 DEF Resume

(* do_kill wakes a reader, which stays in the queue.                        *)
LEMMA KillState ==
  ASSUME StdinState, NEW r \in Readers, do_kill(r)
  PROVE  StdinState'
<1>1. StdinTypeOK /\ KeysByPlace /\ SleepersQueued
  BY DEF StdinState
<1>2. /\ killed' = [killed EXCEPT ![r] = TRUE]
      /\ proc' = [proc EXCEPT ![r] = IF @ = "sleeping" THEN "woken" ELSE @]
      /\ UNCHANGED <<typed, polled, cons, stdin_buffer, p_rpos, p_wpos, wait_queue,
                     wakeup_flags, left, log, overwritten, missed>>
  BY DEF do_kill, keyboard, history
<1>3. /\ proc \in [Readers -> {"user", "sleeping", "woken", "dead"}]
      /\ killed \in [Readers -> BOOLEAN]
  BY <1>1 DEF StdinTypeOK
<1>4. /\ proc' \in [Readers -> {"user", "sleeping", "woken", "dead"}]
      /\ killed' \in [Readers -> BOOLEAN]
  BY <1>2, <1>3
<1>5. StdinTypeOK'
  BY <1>1, <1>2, <1>4 DEF StdinTypeOK
<1>6. KeysByPlace'
  BY <1>1, <1>2 DEF KeysByPlace, KeyIn, Held, KeyInCons
<1>7. SleepersQueued'
  <2>1. ASSUME NEW p \in Readers
        PROVE  /\ proc'[p] = "sleeping" => proc[p] = "sleeping"
               /\ proc[p] = "sleeping" => proc'[p] = "sleeping" \/ (proc'[p] = "woken" /\ killed'[p])
               /\ proc[p] = "woken" /\ killed[p] => proc'[p] = "woken" /\ killed'[p]
    <3>1. CASE p = r
      BY <1>2, <1>3, <3>1
    <3>2. CASE p # r
      BY <1>2, <1>3, <3>2
    <3> QED BY <3>1, <3>2
  <2> QED BY <1>1, <1>2, <2>1 DEF SleepersQueued
<1> QED BY <1>5, <1>6, <1>7 DEF StdinState

(* The invariant holds at first,                                            *)
LEMMA StdinStateInit == StdinInit => StdinState
<1> SUFFICES ASSUME StdinInit PROVE StdinState
  OBVIOUS
<1> USE StdinAssumption DEF StdinInit
<1>1. StdinTypeOK
  BY DEF StdinTypeOK
<1>2. Held = 0
  <2>1. Held = 0 % CONSBUFSIZE
    BY DEF Held
  <2>2. PICK z \in Int, o \in 0 .. CONSBUFSIZE - 1 : z = 0 /\ o = 0
    OBVIOUS
  <2>3. (CONSBUFSIZE * z + o) % CONSBUFSIZE = o
    BY Remainder
  <2>4. CONSBUFSIZE * z + o = 0
    BY <2>2
  <2> QED BY <2>1, <2>2, <2>3, <2>4
<1>3. KeysByPlace
  BY <1>2 DEF KeysByPlace
<1>4. SleepersQueued
  BY DEF SleepersQueued, IsInjective, Range
<1> QED BY <1>1, <1>3, <1>4 DEF StdinState

(* and every step keeps it.                                                *)
LEMMA StdinStateStep == StdinState /\ [StdinNext]_stdinvars => StdinState'
<1> SUFFICES ASSUME StdinState, [StdinNext]_stdinvars PROVE StdinState'
  OBVIOUS
<1>1. CASE Type
  BY <1>1, TypeState
<1>2. CASE Tick
  BY <1>2, TickState
<1>3. ASSUME NEW r \in Readers, NEW len \in 1 .. MaxLen, dev_stdin_read(r, len)
      PROVE  StdinState'
  BY <1>3, ReadState
<1>4. ASSUME NEW r \in Readers, Resume(r) PROVE StdinState'
  BY <1>4, ResumeState
<1>5. ASSUME NEW r \in Readers, do_kill(r) PROVE StdinState'
  BY <1>5, KillState
<1>6. CASE UNCHANGED stdinvars
  BY <1>6 DEF stdinvars, StdinState, StdinTypeOK, KeysByPlace, KeyIn, Held, KeyInCons, SleepersQueued
<1> QED BY <1>1, <1>2, <1>3, <1>4, <1>5, <1>6 DEF StdinNext

(* cons_intr, dev_stdin_write and dev_stdin_read account for every key, in  *)
(* rings of any size, and a reader that sleeps on stdin is in the queue     *)
(* once and has nothing to read.                                            *)
THEOREM StdinInvariant == StdinSpec => []StdinInv
<1>1. StdinState => StdinInv
  BY PlacesAccount DEF StdinState, StdinInv
<1> QED BY <1>1, StdinStateInit, StdinStateStep, PTL DEF StdinSpec
==============================================================================
