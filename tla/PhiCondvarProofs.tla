-------------------------- MODULE PhiCondvarProofs --------------------------
(***************************************************************************)
(* MonitorInv is an invariant of PhiCondvar for any number of philosophers  *)
(* and meals.  MonitorState is inductive: the right to be in the monitor is *)
(* a token that a thread has or a semaphore keeps for one, so every action  *)
(* either keeps it (LocalStep), asks for it (DownStep) or passes it on      *)
(* (UpStep); what a signaller has found out holds until the thread it wakes *)
(* has left, because nobody else can have had the token in between.         *)
(***************************************************************************)
EXTENDS PhiCondvar, DataLemmas, TLAPS

(* The instance of Semaphore has the library's Range.                       *)
LEMMA SemRange == \A f : Sem!Range(f) = Range(f)
BY DEF Sem!Range, Range

(* The semaphores: mutex, next and one for each philosopher.                *)
LEMMA Names ==
    ASSUME PhiAssumption
    PROVE  /\ mutex \in 0 .. N + 1 /\ next \in 0 .. N + 1 /\ mutex # next
           /\ \A i \in Phi : i \in 0 .. N + 1 /\ i # mutex /\ i # next
           /\ \A s \in 0 .. N + 1 : s \in {mutex, next} \/ s \in Phi
           /\ mutex \notin Phi /\ next \notin Phi
BY DEF PhiAssumption, mutex, next, Phi

(* The places at which a thread can wait, semaphore by semaphore.           *)
LEMMA Doors ==
    ASSUME PhiAssumption
    PROVE  /\ Door(mutex) = {"take_set", "put_set"}
           /\ Door(next) = {"signal_back"}
           /\ \A i \in Phi : Door(i) = {"wait_back"}
           /\ \A s \in 0 .. N + 1 : Door(s) \subseteq Inside
<1>1. /\ Door(mutex) = {"take_set", "put_set"}
      /\ Door(next) = {"signal_back"}
      /\ \A i \in Phi : Door(i) = {"wait_back"}
  BY Names DEF Door
<1> QED BY <1>1, Names DEF Inside

(* Remainders of small sums.                                                *)
LEMMA Wrap ==
    ASSUME NEW n \in Nat \ {0}, NEW a \in 0 .. n - 1
    PROVE  a % n = a /\ (a + n) % n = a
OBVIOUS

(* LEFT and RIGHT go round the table in opposite directions.                *)
LEMMA Ring ==
    ASSUME PhiAssumption, NEW i \in Phi
    PROVE  /\ LEFT(i) \in Phi /\ RIGHT(i) \in Phi
           /\ LEFT(RIGHT(i)) = i /\ RIGHT(i) # i
<1>1. ASSUME NEW j \in Phi
      PROVE  /\ LEFT(j) = IF j = 0 THEN N - 1 ELSE j - 1
             /\ RIGHT(j) = IF j = N - 1 THEN 0 ELSE j + 1
  BY Wrap DEF PhiAssumption, LEFT, RIGHT, Phi
<1>2. /\ LEFT(i) = IF i = 0 THEN N - 1 ELSE i - 1
      /\ RIGHT(i) = IF i = N - 1 THEN 0 ELSE i + 1
  BY <1>1
<1>3. LEFT(i) \in Phi /\ RIGHT(i) \in Phi /\ RIGHT(i) # i
  BY <1>2 DEF PhiAssumption, Phi
<1>4. LEFT(RIGHT(i)) = IF RIGHT(i) = 0 THEN N - 1 ELSE RIGHT(i) - 1
  BY <1>1, <1>3
<1> QED BY <1>2, <1>3, <1>4 DEF PhiAssumption, Phi

(* Whom a call of phi_test_condvar is for, and where it returns to.         *)
LEMMA Targets ==
    ASSUME PhiAssumption, MonitorTypeOK, NEW i \in Phi,
           mpc[i][1] \in {"test", "mark", "signal_up", "signal_down", "signal_back"}
    PROVE  /\ mpc[i][2] \in Sites /\ Tested(i) \in Phi
           /\ AfterTestAt(mpc[i][2]) \in Places
           /\ AfterTestAt(mpc[i][2])[1] \in {"take_check", "test", "put_leave"}
           /\ AfterTestAt(mpc[i][2])[1] = "take_check" => mpc[i][2] = "self"
           /\ AfterTestAt(mpc[i][2])[2] # "self"
<1>1. mpc[i] \in Places
  BY DEF MonitorTypeOK
<1>2. mpc[i][2] \in Sites
  BY <1>1 DEF Places
<1>3. Tested(i) \in Phi
  BY <1>2, Ring DEF Sites, Tested
<1>4. /\ AfterTestAt("self") = <<"take_check", "">>
      /\ AfterTestAt("left") = <<"test", "right">>
      /\ AfterTestAt("right") = <<"put_leave", "">>
  BY DEF AfterTestAt
<1>5. /\ <<"take_check", "">>[1] = "take_check" /\ <<"take_check", "">>[2] # "self"
      /\ <<"test", "right">>[1] = "test" /\ <<"test", "right">>[2] # "self"
      /\ <<"put_leave", "">>[1] = "put_leave" /\ <<"put_leave", "">>[2] # "self"
      /\ "test" # "take_check" /\ "put_leave" # "take_check"
  OBVIOUS
<1>6. /\ AfterTestAt(mpc[i][2])[1] \in {"take_check", "test", "put_leave"}
      /\ AfterTestAt(mpc[i][2])[1] = "take_check" => mpc[i][2] = "self"
      /\ AfterTestAt(mpc[i][2])[2] # "self"
  BY <1>2, <1>4, <1>5, Zenon DEF Sites
<1>7. /\ <<"take_check", "">> \in Places /\ <<"test", "right">> \in Places
      /\ <<"put_leave", "">> \in Places
  <2>1. "take_check" \in {"take_check", "put_leave"} /\ "right" \in Sites
    BY DEF Sites
  <2> QED BY <2>1 DEF Places
<1>8. AfterTestAt(mpc[i][2]) \in Places
  BY <1>2, <1>4, <1>7, Zenon DEF Sites
<1> QED BY <1>2, <1>3, <1>6, <1>8
-----------------------------------------------------------------------------
(* A thread in a queue is at its door, so it is in no other queue.          *)
LEMMA Queued ==
    ASSUME PhiAssumption, MonitorTypeOK, AtDoors, NEW s \in 0 .. N + 1,
           NEW i \in Range(mqueue[s])
    PROVE  /\ i \in Phi /\ mpc[i][1] \in Door(s) /\ (s \in Phi => i = s)
           /\ Sem!Blocked(i)
           /\ \A r \in 0 .. N + 1 : i \in Range(mqueue[r]) => r = s
<1>1. i \in Phi
  BY DEF MonitorTypeOK, Sem!SemTypeOK, Range
<1>2. Sem!Blocked(i)
  BY SemRange DEF Sem!Blocked
<1>3. mpc[i][1] \in Door(s) /\ (s \in Phi => i = s)
  BY DEF AtDoors
<1>4. ASSUME NEW r \in 0 .. N + 1, i \in Range(mqueue[r]) PROVE r = s
  <2>1. mpc[i][1] \in Door(r) /\ (r \in Phi => i = r)
    BY <1>4 DEF AtDoors
  <2> QED BY <1>3, <2>1, Names, Doors
<1> QED BY <1>1, <1>2, <1>3, <1>4

(* A thread that is not at the door of a semaphore runs.                    *)
LEMMA NotQueued ==
    ASSUME PhiAssumption, MonitorTypeOK, AtDoors, NEW i \in Phi,
           mpc[i][1] \notin {"take_set", "put_set", "signal_back", "wait_back"}
    PROVE  ~ Sem!Blocked(i)
<1> SUFFICES ASSUME Sem!Blocked(i) PROVE FALSE
  OBVIOUS
<1>1. PICK s \in 0 .. N + 1 : i \in Range(mqueue[s])
  BY SemRange DEF Sem!Blocked
<1>2. mpc[i][1] \in Door(s)
  BY <1>1, Queued
<1> QED BY <1>2, Names, Doors

(* A step that keeps the token in the monitor.                              *)
LEMMA LocalStep ==
    ASSUME PhiAssumption, MonitorState, NEW i \in Phi, InMonitor(i),
           mpc'[i][1] \in Inside, \A j \in Phi : j # i => mpc'[j] = mpc[j],
           UNCHANGED <<mvalue, mqueue>>
    PROVE  /\ AtDoors' /\ OneToken'
           /\ \A s \in 0 .. N + 1 : mvalue[s] = 0
           /\ \A j \in Phi : (Sem!Blocked(j)' <=> Sem!Blocked(j)) /\ (InMonitor(j)' <=> j = i)
<1>0. MonitorTypeOK /\ AtDoors /\ OneToken
  BY DEF MonitorState
<1>1. \A s \in 0 .. N + 1 : i \notin Range(mqueue[s])
  BY SemRange DEF InMonitor, Sem!Blocked
<1>2. AtDoors'
  <2> SUFFICES ASSUME NEW s \in 0 .. N + 1, NEW j \in Range(mqueue[s])
               PROVE  mpc'[j][1] \in Door(s)
    BY <1>0 DEF AtDoors, Door, mutex, next
  <2>1. j \in Phi /\ j # i /\ mpc[j][1] \in Door(s)
    BY <1>0, <1>1, Queued
  <2> QED BY <2>1
<1>3. \A s \in 0 .. N + 1 : mvalue[s] = 0
  BY <1>0 DEF OneToken
<1>4. \A j \in Phi : Sem!Blocked(j)' <=> Sem!Blocked(j)
  BY SemRange DEF Sem!Blocked
<1>5. \A j \in Phi : InMonitor(j)' <=> j = i
  BY <1>0, <1>4 DEF OneToken, MonitorExclusive, InMonitor
<1>6. OneToken'
  BY <1>3, <1>5 DEF OneToken, MonitorExclusive
<1> QED BY <1>2, <1>3, <1>4, <1>5, <1>6

(* A step that asks for the token at semaphore s: down finds it there, or   *)
(* the thread is queued at its door.                                        *)
LEMMA DownStep ==
    ASSUME PhiAssumption, MonitorState, NEW i \in Phi, ~ Sem!Blocked(i), mpc[i][1] \notin Inside,
           NEW s \in 0 .. N + 1, mpc'[i][1] \in Door(s), s \in Phi => i = s,
           \A j \in Phi : j # i => mpc'[j] = mpc[j],
           Sem!down(s, i)
    PROVE  /\ Sem!SemTypeOK' /\ AtDoors' /\ OneToken'
           /\ mvalue[s] = 1 \/ mvalue' = mvalue
           /\ \A r \in 0 .. N + 1 : mvalue'[r] = 1 => mvalue[r] = 1 /\ r # s
           /\ InMonitor(i)' => mvalue[s] = 1
           /\ \A j \in Phi : j # i => (Sem!Blocked(j)' <=> Sem!Blocked(j)) /\ (InMonitor(j)' <=> InMonitor(j))
<1>0. MonitorTypeOK /\ AtDoors /\ OneToken
  BY DEF MonitorState
<1>1. mvalue \in [0 .. N + 1 -> Nat] /\ mqueue \in [0 .. N + 1 -> Seq(Phi)]
  BY <1>0 DEF MonitorTypeOK, Sem!SemTypeOK
<1>2. \A r \in 0 .. N + 1 : i \notin Range(mqueue[r])
  BY SemRange DEF Sem!Blocked
<1>3. mpc'[i][1] \in Inside
  BY Doors
<1>4. CASE mvalue[s] > 0
  <2>1. mvalue' = [mvalue EXCEPT ![s] = @ - 1] /\ mqueue' = mqueue
    BY <1>4 DEF Sem!down
  <2>2. /\ mvalue[s] = 1
        /\ \A j \in Phi : ~ InMonitor(j)
        /\ \A r \in 0 .. N + 1 : r # s => mvalue[r] = 0
    BY <1>0, <1>1, <1>4 DEF OneToken
  <2>3. \A r \in 0 .. N + 1 : mvalue'[r] = 0
    BY <1>1, <2>1, <2>2
  <2>4. Sem!SemTypeOK'
    BY <1>1, <2>1, <2>3 DEF Sem!SemTypeOK
  <2>5. \A j \in Phi : Sem!Blocked(j)' <=> Sem!Blocked(j)
    BY SemRange, <2>1 DEF Sem!Blocked
  <2>6. AtDoors'
    <3> SUFFICES ASSUME NEW r \in 0 .. N + 1, NEW j \in Range(mqueue[r])
                 PROVE  mpc'[j][1] \in Door(r)
      BY <1>0, <2>1 DEF AtDoors, Door, mutex, next
    <3>1. j \in Phi /\ j # i /\ mpc[j][1] \in Door(r)
      BY <1>0, <1>2, Queued
    <3> QED BY <3>1
  <2>7. InMonitor(i)' /\ \A j \in Phi : j # i => ~ InMonitor(j)'
    BY <1>3, <2>2, <2>5 DEF InMonitor
  <2>8. OneToken'
    BY <2>3, <2>7 DEF OneToken, MonitorExclusive
  <2> QED BY <2>2, <2>3, <2>4, <2>5, <2>6, <2>7, <2>8
<1>5. CASE ~ (mvalue[s] > 0)
  <2>1. mqueue' = [mqueue EXCEPT ![s] = Append(@, i)] /\ mvalue' = mvalue
    BY <1>5 DEF Sem!down
  <2>2. mvalue[s] = 0 /\ mqueue[s] \in Seq(Phi) /\ IsInjective(mqueue[s])
    BY <1>0, <1>1, <1>5 DEF AtDoors
  <2>3. /\ mqueue'[s] \in Seq(Phi) /\ IsInjective(mqueue'[s])
        /\ Range(mqueue'[s]) = Range(mqueue[s]) \cup {i}
        /\ \A r \in 0 .. N + 1 : r # s => mqueue'[r] = mqueue[r]
    BY <1>1, <1>2, <2>1, <2>2, QueueOne
  <2>4. Sem!SemTypeOK'
    BY <1>1, <2>1, <2>3 DEF Sem!SemTypeOK
  <2>5. Sem!Blocked(i)' /\ \A j \in Phi : j # i => (Sem!Blocked(j)' <=> Sem!Blocked(j))
    BY SemRange, <2>3 DEF Sem!Blocked
  <2>6. \A j \in Phi : j # i => (InMonitor(j)' <=> InMonitor(j))
    BY <2>5 DEF InMonitor
  <2>7. ~ InMonitor(i) /\ ~ InMonitor(i)'
    BY <2>5 DEF InMonitor
  <2>8. AtDoors'
    <3>1. ASSUME NEW r \in 0 .. N + 1 PROVE IsInjective(mqueue'[r])
      BY <1>0, <2>3 DEF AtDoors
    <3>2. ASSUME NEW r \in 0 .. N + 1, NEW j \in Range(mqueue'[r])
          PROVE  mpc'[j][1] \in Door(r) /\ (r \in Phi => j = r)
      <4>1. CASE j \in Range(mqueue[r])
        <5>1. j \in Phi /\ j # i /\ mpc[j][1] \in Door(r) /\ (r \in Phi => j = r)
          BY <1>0, <1>2, <4>1, Queued
        <5> QED BY <5>1
      <4>2. CASE r = s /\ j = i
        BY <4>2
      <4> QED BY <2>3, <3>2, <4>1, <4>2
    <3> QED BY <3>1, <3>2 DEF AtDoors, Door, mutex, next
  <2>9. OneToken'
    <3>1. MonitorExclusive'
      BY <1>0, <2>6, <2>7 DEF OneToken, MonitorExclusive
    <3>2. ASSUME NEW r \in 0 .. N + 1
          PROVE  /\ mvalue'[r] \in {0, 1}
                 /\ mvalue'[r] = 1 => /\ mqueue'[r] = << >>
                                     /\ \A j \in Phi : ~ InMonitor(j)'
                                     /\ \A q \in 0 .. N + 1 : mvalue'[q] = 1 => q = r
      BY <1>0, <2>1, <2>2, <2>3, <2>6, <2>7 DEF OneToken
    <3>3. (\E j \in Phi : InMonitor(j)') \/ (\E r \in 0 .. N + 1 : mvalue'[r] = 1)
      BY <1>0, <2>1, <2>6, <2>7 DEF OneToken
    <3> QED BY <3>1, <3>2, <3>3 DEF OneToken
  <2> QED BY <2>1, <2>2, <2>4, <2>5, <2>6, <2>7, <2>8, <2>9
<1> QED BY <1>4, <1>5

(* A step that passes the token on: the first thread in the queue has it    *)
(* then, or else the semaphore keeps it.                                    *)
LEMMA UpStep ==
    ASSUME PhiAssumption, MonitorState, NEW i \in Phi, InMonitor(i), mpc'[i][1] \notin Inside,
           NEW s \in 0 .. N + 1,
           \A j \in Phi : j # i => mpc'[j] = mpc[j],
           Sem!up(s)
    PROVE  /\ Sem!SemTypeOK' /\ AtDoors' /\ OneToken'
           /\ \A r \in 0 .. N + 1 : mvalue'[r] = 1 => r = s /\ mqueue[s] = << >>
           /\ ~ Sem!Blocked(i)' /\ ~ InMonitor(i)'
           /\ \A j \in Phi : Sem!Blocked(j)' => Sem!Blocked(j)
           /\ \A j \in Phi : Sem!Blocked(j) => Sem!Blocked(j)' \/ j \in Range(mqueue[s])
           /\ \A j \in Phi : InMonitor(j)' => j # i /\ j \in Range(mqueue[s])
<1>0. MonitorTypeOK /\ AtDoors /\ OneToken
  BY DEF MonitorState
<1>1. mvalue \in [0 .. N + 1 -> Nat] /\ mqueue \in [0 .. N + 1 -> Seq(Phi)]
  BY <1>0 DEF MonitorTypeOK, Sem!SemTypeOK
<1>2. ~ Sem!Blocked(i) /\ \A r \in 0 .. N + 1 : i \notin Range(mqueue[r])
  BY SemRange DEF Sem!Blocked, InMonitor
<1>3. /\ \A r \in 0 .. N + 1 : mvalue[r] = 0
      /\ \A j \in Phi : j # i => ~ InMonitor(j)
  BY <1>0 DEF OneToken, MonitorExclusive
<1>4. ASSUME NEW r \in 0 .. N + 1, NEW j \in Range(mqueue[r])
      PROVE  j \in Phi /\ j # i /\ mpc'[j][1] \in Door(r) /\ (r \in Phi => j = r)
  <2>1. j \in Phi /\ j # i /\ mpc[j][1] \in Door(r) /\ (r \in Phi => j = r)
    BY <1>0, <1>2, Queued
  <2> QED BY <2>1
<1>5. CASE mqueue[s] = << >>
  <2>1. mvalue' = [mvalue EXCEPT ![s] = @ + 1] /\ mqueue' = mqueue
    BY <1>5 DEF Sem!up
  <2>2. mvalue'[s] = 1 /\ \A r \in 0 .. N + 1 : r # s => mvalue'[r] = 0
    BY <1>1, <1>3, <2>1
  <2>3. Sem!SemTypeOK'
    BY <1>1, <2>1 DEF Sem!SemTypeOK
  <2>4. AtDoors'
    BY <1>0, <1>4, <2>1 DEF AtDoors, Door, mutex, next
  <2>5. \A j \in Phi : Sem!Blocked(j)' <=> Sem!Blocked(j)
    BY SemRange, <2>1 DEF Sem!Blocked
  <2>6. \A j \in Phi : ~ InMonitor(j)'
    BY <1>3, <2>5 DEF InMonitor
  <2>7. OneToken'
    BY <1>5, <2>1, <2>2, <2>6 DEF OneToken, MonitorExclusive
  <2> QED BY <1>2, <1>5, <2>2, <2>3, <2>4, <2>5, <2>6, <2>7
<1>6. CASE mqueue[s] # << >>
  <2> DEFINE h == Head(mqueue[s])
  <2>1. mqueue' = [mqueue EXCEPT ![s] = Tail(@)] /\ mvalue' = mvalue
    BY <1>6 DEF Sem!up
  <2>2. /\ h \in Range(mqueue[s])
        /\ mqueue'[s] \in Seq(Phi) /\ IsInjective(mqueue'[s])
        /\ Range(mqueue'[s]) = Range(mqueue[s]) \ {h}
        /\ \A r \in 0 .. N + 1 : r # s => mqueue'[r] = mqueue[r]
    <3>1. mqueue[s] \in Seq(Phi) /\ IsInjective(mqueue[s])
      BY <1>0, <1>1 DEF AtDoors
    <3> QED BY <1>1, <1>6, <2>1, <3>1, TakeHead
  <2>3. PICK w \in Phi : w = h
    BY <1>4, <2>2
  <2>4. Sem!SemTypeOK'
    BY <1>1, <2>1, <2>2 DEF Sem!SemTypeOK
  <2>5. AtDoors'
    <3>1. ASSUME NEW r \in 0 .. N + 1
          PROVE  IsInjective(mqueue'[r]) /\ Range(mqueue'[r]) \subseteq Range(mqueue[r])
      BY <1>0, <2>2 DEF AtDoors
    <3> QED BY <1>4, <3>1 DEF AtDoors, Door, mutex, next
  <2>6. /\ ~ Sem!Blocked(w)'
        /\ \A j \in Phi : j # w => (Sem!Blocked(j)' <=> Sem!Blocked(j))
    <3>1. \A r \in 0 .. N + 1 : r # s => w \notin Range(mqueue[r])
      BY <1>0, <2>2, <2>3, Queued
    <3>2. ~ Sem!Blocked(w)'
      BY SemRange, <2>2, <2>3, <3>1 DEF Sem!Blocked
    <3>3. \A j \in Phi : j # w => \A r \in 0 .. N + 1 :
             j \in Range(mqueue'[r]) <=> j \in Range(mqueue[r])
      BY <2>2, <2>3
    <3> QED BY SemRange, <3>2, <3>3 DEF Sem!Blocked
  <2>7. mpc'[w][1] \in Inside /\ w # i
    BY <1>4, <2>2, <2>3, Doors
  <2>8. InMonitor(w)' /\ \A j \in Phi : j # w => ~ InMonitor(j)'
    BY <1>3, <2>6, <2>7 DEF InMonitor
  <2>9. \A r \in 0 .. N + 1 : mvalue'[r] = 0
    BY <1>3, <2>1
  <2>10. OneToken'
    BY <2>8, <2>9 DEF OneToken, MonitorExclusive
  <2>11. Sem!Blocked(w)
    BY <1>0, <2>2, <2>3, Queued
  <2> QED BY <1>2, <2>2, <2>3, <2>4, <2>5, <2>6, <2>7, <2>8, <2>9, <2>10, <2>11
<1> QED BY <1>5, <1>6
-----------------------------------------------------------------------------
(* The places that the steps go to.                                         *)
LEMMA HasPlaces ==
    /\ \A step \in {"think", "take_set", "take_check", "wait_up", "wait_down", "wait_back",
                    "take_leave", "eat", "put_set", "put_leave", "quit"} : <<step, "">> \in Places
    /\ \A step \in {"test", "mark", "signal_up", "signal_down", "signal_back"}, site \in Sites :
          <<step, site>> \in Places
    /\ "self" \in Sites /\ "left" \in Sites
BY DEF Places, Sites

(* A step to one of the places that belong to no call of phi_test_condvar.  *)
LEMMA Went ==
    ASSUME MonitorTypeOK, NEW i \in Phi,
           NEW step \in {"think", "take_set", "take_check", "wait_up", "wait_down", "wait_back",
                        "take_leave", "eat", "put_set", "put_leave", "quit"},
           GotoPlace(i, step)
    PROVE  /\ mpc'[i][1] = step /\ mpc'[i][2] # "self"
           /\ \A j \in Phi : j # i => mpc'[j] = mpc[j]
           /\ mpc' \in [Phi -> Places]
<1>1. PICK place : place = <<step, "">>
  OBVIOUS
<1>2. place \in Places /\ place[1] = step /\ place[2] # "self"
  <2>1. place \in Places
    BY <1>1, HasPlaces
  <2>2. place[1] = step /\ place[2] = "" /\ "" # "self"
    BY <1>1, Zenon
  <2> QED BY <2>1, <2>2, Zenon
<1>3. mpc' = [mpc EXCEPT ![i] = place]
  BY <1>1, Zenon DEF GotoPlace
<1>4. mpc \in [Phi -> Places]
  BY DEF MonitorTypeOK
<1>5. mpc'[i] = place /\ (\A j \in Phi : j # i => mpc'[j] = mpc[j]) /\ mpc' \in [Phi -> Places]
  BY <1>2, <1>3, <1>4
<1> QED BY <1>2, <1>5, Zenon

(* The counts 0 and 1 are within the bound of the semaphores.               *)
LEMMA Small ==
    ASSUME PhiAssumption
    PROVE  0 \in 0 .. N /\ 1 \in 0 .. N
BY DEF PhiAssumption

(* A thread at one of these places has the token.                           *)
LEMMA Active ==
    ASSUME PhiAssumption, MonitorState, NEW i \in Phi,
           mpc[i][1] \in {"test", "mark", "signal_up", "take_check", "wait_up", "take_leave",
                        "put_leave"}
    PROVE  InMonitor(i)
BY NotQueued DEF MonitorState, InMonitor, Inside

(* The thread that has the token and is not about to leave after a signal   *)
(* is not between the steps of anybody's cond_signal.                       *)
LEMMA Alone ==
    ASSUME PhiAssumption, MonitorState, NEW i \in Phi, InMonitor(i)
    PROVE  /\ \A j \in Phi : j # i => mpc[j][1] \notin
                {"test", "mark", "signal_up", "take_check", "wait_up", "take_leave", "put_leave"}
           /\ mpc[i][1] \notin {"wait_back", "take_leave"} =>
                \A j \in Phi : j # i => mpc[j][1] \notin Signalling
           /\ mpc[i][1] \notin {"wait_back", "take_leave"} \cup Signalling =>
                next_count = 0 /\ \A j \in Phi : mpc[j][1] \notin Signalling
<1>1. \A j \in Phi : j # i => ~ InMonitor(j)
  BY DEF MonitorState, OneToken, MonitorExclusive
<1>2. \A j \in Phi : j # i => mpc[j][1] \notin
         {"test", "mark", "signal_up", "take_check", "wait_up", "take_leave", "put_leave"}
  BY <1>1, Active
<1> QED BY <1>2 DEF MonitorState, OneSignaller

(* After a step that leaves Target, states and counts of the others alone,  *)
(* what they were promised holds still.                                     *)
LEMMA SameTarget ==
    ASSUME NEW j, mpc'[j][2] = mpc[j][2]
    PROVE  Tested(j)' = Tested(j)
BY DEF Tested, LEFT, RIGHT

(* phi_test_condvar: its condition.                                         *)
LEMMA test_step ==
    ASSUME PhiAssumption, MonitorState, NEW i \in Phi, test_condvar(i)
    PROVE  MonitorState'
<1>0. MonitorTypeOK /\ OneSignaller /\ WaitersCounted /\ PromisesKept /\ CondvarStatesExclusive
  BY DEF MonitorState
<1>1. /\ mpc[i][1] = "test" /\ InMonitor(i)
      /\ UNCHANGED <<state_condvar, miter, next_count, count, mvalue, mqueue>>
  BY DEF test_condvar, AtPlace, InMonitor, Inside
<1>2. /\ mpc[i][2] \in Sites /\ Tested(i) \in Phi
      /\ AfterTestAt(mpc[i][2])[1] \in {"take_check", "test", "put_leave"}
      /\ AfterTestAt(mpc[i][2])[1] = "take_check" => mpc[i][2] = "self"
      /\ AfterTestAt(mpc[i][2])[2] # "self"
      /\ AfterTestAt(mpc[i][2]) \in Places
  BY <1>0, <1>1, Targets
<1>3. /\ \/ MayEat(Tested(i)) /\ mpc'[i] = <<"mark", mpc[i][2]>>
         \/ mpc'[i] = AfterTestAt(mpc[i][2])
      /\ \A j \in Phi : j # i => mpc'[j] = mpc[j]
      /\ mpc' \in [Phi -> Places]
  BY <1>0, <1>2, HasPlaces DEF test_condvar, GotoSame, GotoAfter, MonitorTypeOK
<1>4. /\ mpc'[i][1] \in {"mark", "test", "take_check", "put_leave"}
      /\ mpc'[i][1] = "mark" => MayEat(Tested(i)) /\ mpc'[i][2] = mpc[i][2]
      /\ mpc'[i][1] = "take_check" \/ mpc'[i][2] = "self" => mpc[i][2] = "self"
  BY <1>2, <1>3
<1>5. /\ AtDoors' /\ OneToken' /\ \A s \in 0 .. N + 1 : mvalue[s] = 0
      /\ \A j \in Phi : (Sem!Blocked(j)' <=> Sem!Blocked(j)) /\ (InMonitor(j)' <=> j = i)
  BY <1>1, <1>3, <1>4, LocalStep DEF Inside
<1>6. MonitorTypeOK'
  BY <1>0, <1>1, <1>3 DEF MonitorTypeOK, Sem!SemTypeOK
<1>7. TokenAwaited'
  BY <1>1, <1>5, Names DEF TokenAwaited, mutex, next
<1>8. OneSignaller'
  BY <1>1, <1>3, <1>4, Alone DEF OneSignaller, Signalling
<1>9. WaitersCounted'
  BY <1>0, <1>1, <1>3, <1>4 DEF WaitersCounted
<1>10. PromisesKept'
  <2>1. MayEat(Tested(i)) /\ mpc'[i][1] = "mark" => MayEat(Tested(i))'
    BY <1>1, <1>4, SameTarget DEF MayEat, LEFT, RIGHT
  <2> QED BY <1>0, <1>1, <1>3, <1>4, <1>5, <2>1, Alone DEF PromisesKept, AtPlace
<1>11. CondvarStatesExclusive'
  BY <1>0, <1>1 DEF CondvarStatesExclusive, RIGHT
<1> QED BY <1>5, <1>6, <1>7, <1>8, <1>9, <1>10, <1>11 DEF MonitorState

(* Its assignment.  A waiter is signalled, and there was no other signal.   *)
LEMMA mark_step ==
    ASSUME PhiAssumption, MonitorState, NEW i \in Phi, mark(i)
    PROVE  MonitorState'
<1>0. MonitorTypeOK /\ OneSignaller /\ WaitersCounted /\ PromisesKept /\ CondvarStatesExclusive
  BY DEF MonitorState
<1>1. /\ mpc[i][1] = "mark" /\ InMonitor(i)
      /\ UNCHANGED <<miter, count, mvalue, mqueue>>
  BY DEF mark, AtPlace, InMonitor, Inside
<1>2. /\ mpc[i][2] \in Sites /\ Tested(i) \in Phi
      /\ AfterTestAt(mpc[i][2])[1] \in {"take_check", "test", "put_leave"}
      /\ AfterTestAt(mpc[i][2])[1] = "take_check" => mpc[i][2] = "self"
      /\ AfterTestAt(mpc[i][2])[2] # "self"
      /\ AfterTestAt(mpc[i][2]) \in Places
  BY <1>0, <1>1, Targets
<1>3. PICK t \in Phi : t = Tested(i)
  BY <1>2
<1>4. MayEat(t) /\ count[t] \in {0, 1} /\ next_count = 0 /\ (mpc[i][2] = "self" => t = i)
  <2>1. count[t] \in {0, 1}
    BY <1>0 DEF WaitersCounted
  <2>2. next_count = 0
    BY <1>1, Alone DEF Signalling
  <2>3. MayEat(t)
    BY <1>0, <1>1, <1>3 DEF PromisesKept
  <2>4. mpc[i][2] = "self" => t = i
    BY <1>3 DEF Tested
  <2> QED BY <2>1, <2>2, <2>3, <2>4
<1>5. /\ \/ /\ count[t] = 1 /\ next_count' = 1 /\ mpc'[i] = <<"signal_up", mpc[i][2]>>
         \/ next_count' = 0 /\ mpc'[i] = AfterTestAt(mpc[i][2])
      /\ \A j \in Phi : j # i => mpc'[j] = mpc[j]
      /\ mpc' \in [Phi -> Places]
  <2>1. IF count[t] > 0
        THEN next_count' = next_count + 1 /\ GotoSame(i, "signal_up")
        ELSE next_count' = next_count /\ GotoAfter(i)
    BY <1>3 DEF mark
  <2>2. <<"signal_up", mpc[i][2]>> \in Places
    BY <1>2, HasPlaces
  <2>3. CASE count[t] > 0
    <3>1. mpc' = [mpc EXCEPT ![i] = <<"signal_up", mpc[i][2]>>] /\ next_count' = 1 /\ count[t] = 1
      BY <1>4, <2>1, <2>3 DEF GotoSame
    <3> QED BY <1>0, <2>2, <3>1 DEF MonitorTypeOK
  <2>4. CASE ~ (count[t] > 0)
    <3>1. mpc' = [mpc EXCEPT ![i] = AfterTestAt(mpc[i][2])] /\ next_count' = 0
      BY <1>4, <2>1, <2>4 DEF GotoAfter
    <3> QED BY <1>0, <1>2, <3>1 DEF MonitorTypeOK
  <2> QED BY <2>3, <2>4
<1>6. /\ \/ next_count' = 1 /\ mpc'[i][1] = "signal_up"
         \/ next_count' = 0 /\ mpc'[i][1] \in {"test", "take_check", "put_leave"}
      /\ mpc'[i][1] = "signal_up" => count[t] = 1 /\ mpc'[i][2] = mpc[i][2]
      /\ mpc'[i][1] = "take_check" \/ mpc'[i][2] = "self" => mpc[i][2] = "self"
  BY <1>2, <1>5
<1>7. /\ AtDoors' /\ OneToken' /\ \A s \in 0 .. N + 1 : mvalue[s] = 0
      /\ \A j \in Phi : (Sem!Blocked(j)' <=> Sem!Blocked(j)) /\ (InMonitor(j)' <=> j = i)
  BY <1>1, <1>5, <1>6, LocalStep DEF Inside
<1>8. /\ state_condvar'[t] = "EATING"
      /\ \A j \in Phi : j # t => state_condvar'[j] = state_condvar[j]
      /\ state_condvar' \in [Phi -> {"THINKING", "HUNGRY", "EATING"}]
  BY <1>0, <1>3 DEF mark, MonitorTypeOK
<1>9. MonitorTypeOK'
  BY <1>0, <1>1, <1>5, <1>6, <1>8, Small DEF MonitorTypeOK, Sem!SemTypeOK
<1>10. TokenAwaited'
  BY <1>1, <1>7, Names DEF TokenAwaited, mutex, next
<1>11. OneSignaller'
  BY <1>1, <1>5, <1>6, <1>7, Alone DEF OneSignaller, Signalling
<1>12. WaitersCounted'
  BY <1>0, <1>1, <1>5, <1>6 DEF WaitersCounted
<1>13. PromisesKept'
  <2>1. mpc'[i][1] = "signal_up" => Tested(i)' = t
    BY <1>3, <1>6, SameTarget
  <2> QED BY <1>0, <1>1, <1>4, <1>5, <1>6, <1>7, <1>8, <2>1, Alone DEF PromisesKept, AtPlace
<1>14. CondvarStatesExclusive'
  BY <1>0, <1>4, <1>8, Ring DEF CondvarStatesExclusive, MayEat, RIGHT
<1> QED BY <1>7, <1>9, <1>10, <1>11, <1>12, <1>13, <1>14 DEF MonitorState

(* The signaller is back: nobody else signals.                              *)
LEMMA signal_back_step ==
    ASSUME PhiAssumption, MonitorState, NEW i \in Phi, signal_back(i)
    PROVE  MonitorState'
<1>0. MonitorTypeOK /\ OneSignaller /\ WaitersCounted /\ PromisesKept /\ CondvarStatesExclusive
  BY DEF MonitorState
<1>1. /\ mpc[i][1] = "signal_back" /\ InMonitor(i) /\ next_count' = next_count - 1
      /\ UNCHANGED <<state_condvar, miter, count, mvalue, mqueue>>
  BY DEF signal_back, AtPlace, InMonitor, Inside
<1>2. next_count = 1 /\ \A j \in Phi : j # i => mpc[j][1] \notin Signalling
  BY <1>0, <1>1 DEF OneSignaller, Signalling
<1>3. /\ AfterTestAt(mpc[i][2])[1] \in {"take_check", "test", "put_leave"}
      /\ AfterTestAt(mpc[i][2])[1] = "take_check" => mpc[i][2] = "self"
      /\ AfterTestAt(mpc[i][2])[2] # "self"
      /\ AfterTestAt(mpc[i][2]) \in Places
  BY <1>0, <1>1, Targets
<1>4. /\ mpc'[i] = AfterTestAt(mpc[i][2])
      /\ \A j \in Phi : j # i => mpc'[j] = mpc[j]
      /\ mpc' \in [Phi -> Places]
  BY <1>0, <1>3 DEF signal_back, GotoAfter, MonitorTypeOK
<1>5. /\ mpc'[i][1] \in {"test", "take_check", "put_leave"}
      /\ mpc'[i][1] = "take_check" => mpc[i][2] = "self"
      /\ mpc'[i][2] # "self"
  BY <1>3, <1>4
<1>6. /\ AtDoors' /\ OneToken' /\ \A s \in 0 .. N + 1 : mvalue[s] = 0
      /\ \A j \in Phi : (Sem!Blocked(j)' <=> Sem!Blocked(j)) /\ (InMonitor(j)' <=> j = i)
  BY <1>1, <1>4, <1>5, LocalStep DEF Inside
<1>7. MonitorTypeOK'
  <2>1. Sem!SemTypeOK'
    BY <1>0, <1>1 DEF MonitorTypeOK, Sem!SemTypeOK
  <2>2. next_count' \in 0 .. N
    BY <1>1, <1>2, Small
  <2> QED BY <1>0, <1>1, <1>4, <2>1, <2>2 DEF MonitorTypeOK
<1>8. TokenAwaited'
  BY <1>1, <1>6, Names DEF TokenAwaited, mutex, next
<1>9. OneSignaller'
  BY <1>1, <1>2, <1>4, <1>5 DEF OneSignaller, Signalling
<1>10. WaitersCounted'
  BY <1>0, <1>1, <1>4, <1>5 DEF WaitersCounted
<1>11. PromisesKept'
  BY <1>0, <1>1, <1>4, <1>5, <1>6, Alone DEF PromisesKept, AtPlace
<1>12. CondvarStatesExclusive'
  BY <1>0, <1>1 DEF CondvarStatesExclusive, RIGHT
<1> QED BY <1>6, <1>7, <1>8, <1>9, <1>10, <1>11, <1>12 DEF MonitorState

(* take_forks and put_forks begin with an assignment of their own state.    *)
LEMMA set_step ==
    ASSUME PhiAssumption, MonitorState, NEW i \in Phi, take_set_condvar(i) \/ put_set_condvar(i)
    PROVE  MonitorState'
<1>0. MonitorTypeOK /\ OneSignaller /\ WaitersCounted /\ PromisesKept /\ CondvarStatesExclusive
  BY DEF MonitorState
<1>1. /\ mpc[i][1] \in {"take_set", "put_set"} /\ InMonitor(i)
      /\ UNCHANGED <<miter, next_count, count, mvalue, mqueue>>
  BY DEF take_set_condvar, put_set_condvar, AtPlace, InMonitor, Inside
<1>2. /\ mpc'[i] \in {<<"test", "self">>, <<"test", "left">>}
      /\ mpc'[i] = <<"test", "self">> => state_condvar'[i] = "HUNGRY"
      /\ \A j \in Phi : j # i => mpc'[j] = mpc[j] /\ state_condvar'[j] = state_condvar[j]
      /\ state_condvar'[i] # "EATING"
      /\ state_condvar' \in [Phi -> {"THINKING", "HUNGRY", "EATING"}]
      /\ mpc' \in [Phi -> Places]
  <2>1. <<"test", "self">> \in Places /\ <<"test", "left">> \in Places
    BY HasPlaces
  <2>2. <<"test", "self">> # <<"test", "left">>
    <3>1. "self" # "left"
      OBVIOUS
    <3> QED BY <3>1
  <2>3. CASE take_set_condvar(i)
    BY <1>0, <2>1, <2>3 DEF take_set_condvar, MonitorTypeOK
  <2>4. CASE put_set_condvar(i)
    BY <1>0, <2>1, <2>2, <2>4 DEF put_set_condvar, MonitorTypeOK
  <2> QED BY <2>3, <2>4
<1>3. mpc'[i][1] = "test" /\ (mpc'[i][2] = "self" => state_condvar'[i] = "HUNGRY")
  BY <1>2
<1>4. /\ AtDoors' /\ OneToken' /\ \A s \in 0 .. N + 1 : mvalue[s] = 0
      /\ \A j \in Phi : (Sem!Blocked(j)' <=> Sem!Blocked(j)) /\ (InMonitor(j)' <=> j = i)
  BY <1>1, <1>2, <1>3, LocalStep DEF Inside
<1>5. MonitorTypeOK'
  BY <1>0, <1>1, <1>2 DEF MonitorTypeOK, Sem!SemTypeOK
<1>6. TokenAwaited'
  BY <1>1, <1>4, Names DEF TokenAwaited, mutex, next
<1>7. OneSignaller'
  BY <1>1, <1>2, <1>3, Alone DEF OneSignaller, Signalling
<1>8. WaitersCounted'
  BY <1>0, <1>1, <1>2, <1>3 DEF WaitersCounted
<1>9. PromisesKept'
  BY <1>0, <1>1, <1>2, <1>3, <1>4, Alone DEF PromisesKept, AtPlace
<1>10. CondvarStatesExclusive'
  BY <1>0, <1>2, Ring DEF CondvarStatesExclusive, RIGHT
<1> QED BY <1>4, <1>5, <1>6, <1>7, <1>8, <1>9, <1>10 DEF MonitorState

(* take_forks after its test: it waits, or was found to eat.                *)
LEMMA take_check_step ==
    ASSUME PhiAssumption, MonitorState, NEW i \in Phi, take_check(i)
    PROVE  MonitorState'
<1>0. MonitorTypeOK /\ OneSignaller /\ WaitersCounted /\ PromisesKept /\ CondvarStatesExclusive
  BY DEF MonitorState
<1>1. /\ mpc[i][1] = "take_check" /\ InMonitor(i)
      /\ UNCHANGED <<state_condvar, miter, next_count, mvalue, mqueue>>
  BY DEF take_check, AtPlace, InMonitor, Inside
<1>2. count[i] = 0 /\ count \in [Phi -> 0 .. N]
  BY <1>0, <1>1 DEF WaitersCounted, MonitorTypeOK
<1>3. /\ \/ mpc'[i][1] = "wait_up" /\ count'[i] = 1
         \/ mpc'[i][1] = "take_leave" /\ count'[i] = 0 /\ state_condvar[i] = "EATING"
      /\ mpc'[i][2] # "self"
      /\ \A j \in Phi : j # i => mpc'[j] = mpc[j] /\ count'[j] = count[j]
      /\ mpc' \in [Phi -> Places] /\ count' \in [Phi -> 0 .. N]
  <2>1. CASE state_condvar[i] = "HUNGRY"
    <3>1. GotoPlace(i, "wait_up") /\ count' = [count EXCEPT ![i] = @ + 1]
      BY <2>1 DEF take_check
    <3>2. /\ count'[i] = 1 /\ \A j \in Phi : j # i => count'[j] = count[j]
          /\ count' \in [Phi -> 0 .. N]
      BY <1>2, <3>1, Small
    <3> QED BY <1>0, <3>1, <3>2, Went
  <2>2. CASE state_condvar[i] # "HUNGRY"
    <3>1. GotoPlace(i, "take_leave") /\ count' = count
      BY <2>2 DEF take_check
    <3>2. state_condvar[i] = "EATING"
      BY <1>0, <1>1, <2>2 DEF MonitorTypeOK, PromisesKept
    <3> QED BY <1>0, <1>2, <3>1, <3>2, Went
  <2> QED BY <2>1, <2>2
<1>5. /\ AtDoors' /\ OneToken' /\ \A s \in 0 .. N + 1 : mvalue[s] = 0
      /\ \A j \in Phi : (Sem!Blocked(j)' <=> Sem!Blocked(j)) /\ (InMonitor(j)' <=> j = i)
  BY <1>1, <1>3, LocalStep DEF Inside
<1>6. MonitorTypeOK'
  BY <1>0, <1>1, <1>3 DEF MonitorTypeOK, Sem!SemTypeOK
<1>7. TokenAwaited'
  BY <1>1, <1>5, Names DEF TokenAwaited, mutex, next
<1>8. OneSignaller'
  BY <1>1, <1>3, Alone DEF OneSignaller, Signalling
<1>9. WaitersCounted'
  BY <1>0, <1>3 DEF WaitersCounted
<1>10. PromisesKept'
  BY <1>0, <1>1, <1>3, <1>5, Alone DEF PromisesKept, AtPlace
<1>11. CondvarStatesExclusive'
  BY <1>0, <1>1 DEF CondvarStatesExclusive, RIGHT
<1> QED BY <1>5, <1>6, <1>7, <1>8, <1>9, <1>10, <1>11 DEF MonitorState

(* The woken waiter goes on to leave.                                       *)
LEMMA wait_back_step ==
    ASSUME PhiAssumption, MonitorState, NEW i \in Phi, wait_back(i)
    PROVE  MonitorState'
<1>0. MonitorTypeOK /\ OneSignaller /\ WaitersCounted /\ PromisesKept /\ CondvarStatesExclusive
  BY DEF MonitorState
<1>1. /\ mpc[i][1] = "wait_back" /\ InMonitor(i) /\ AtPlace(i, "wait_back")
      /\ UNCHANGED <<state_condvar, miter, next_count, mvalue, mqueue>>
  BY DEF wait_back, AtPlace, InMonitor, Inside
<1>2. count[i] = 1 /\ count \in [Phi -> 0 .. N] /\ state_condvar[i] = "EATING"
  BY <1>0, <1>1 DEF WaitersCounted, MonitorTypeOK, PromisesKept
<1>3. /\ mpc'[i][1] = "take_leave" /\ mpc'[i][2] # "self" /\ count'[i] = 0
      /\ \A j \in Phi : j # i => mpc'[j] = mpc[j] /\ count'[j] = count[j]
      /\ mpc' \in [Phi -> Places] /\ count' \in [Phi -> 0 .. N]
  <2>1. GotoPlace(i, "take_leave") /\ count' = [count EXCEPT ![i] = @ - 1]
    BY DEF wait_back
  <2>2. /\ count'[i] = 0 /\ \A j \in Phi : j # i => count'[j] = count[j]
        /\ count' \in [Phi -> 0 .. N]
    BY <1>2, <2>1, Small
  <2> QED BY <1>0, <2>1, <2>2, Went
<1>5. /\ AtDoors' /\ OneToken' /\ \A s \in 0 .. N + 1 : mvalue[s] = 0
      /\ \A j \in Phi : (Sem!Blocked(j)' <=> Sem!Blocked(j)) /\ (InMonitor(j)' <=> j = i)
  BY <1>1, <1>3, LocalStep DEF Inside
<1>6. MonitorTypeOK'
  BY <1>0, <1>1, <1>3 DEF MonitorTypeOK, Sem!SemTypeOK
<1>7. TokenAwaited'
  BY <1>1, <1>5, Names DEF TokenAwaited, mutex, next
<1>8. OneSignaller'
  BY <1>0, <1>1, <1>3, <1>5 DEF OneSignaller, Signalling
<1>9. WaitersCounted'
  BY <1>0, <1>3 DEF WaitersCounted
<1>10. PromisesKept'
  BY <1>0, <1>1, <1>2, <1>3, <1>5, Alone DEF PromisesKept, AtPlace
<1>11. CondvarStatesExclusive'
  BY <1>0, <1>1 DEF CondvarStatesExclusive, RIGHT
<1> QED BY <1>5, <1>6, <1>7, <1>8, <1>9, <1>10, <1>11 DEF MonitorState
-----------------------------------------------------------------------------
(* down(&mutex) at the two ends of a philosopher's round.  Whoever finds    *)
(* mutex open finds no signaller.                                           *)
LEMMA EnterStep ==
    ASSUME PhiAssumption, MonitorState, NEW i \in Phi, ~ Sem!Blocked(i),
           NEW to \in {"take_set", "put_set"}, mpc[i][1] \in {"think", "eat"},
           Sem!down(mutex, i), GotoPlace(i, to),
           UNCHANGED <<state_condvar, next_count, count>>, miter' \in [Phi -> 0 .. TIMES]
    PROVE  MonitorState'
<1>0. /\ MonitorTypeOK /\ TokenAwaited /\ OneSignaller /\ WaitersCounted /\ PromisesKept
      /\ CondvarStatesExclusive
  BY DEF MonitorState
<1>1. /\ mpc'[i][1] = to /\ mpc'[i][2] # "self"
      /\ \A j \in Phi : j # i => mpc'[j] = mpc[j]
      /\ mpc' \in [Phi -> Places]
  BY <1>0, Went
<1>3. /\ Sem!SemTypeOK' /\ AtDoors' /\ OneToken'
      /\ \A r \in 0 .. N + 1 : mvalue'[r] = 1 => mvalue[r] = 1 /\ r # mutex
      /\ InMonitor(i)' => mvalue[mutex] = 1
      /\ \A j \in Phi : j # i => (Sem!Blocked(j)' <=> Sem!Blocked(j)) /\ (InMonitor(j)' <=> InMonitor(j))
  <2>1. mutex \in 0 .. N + 1 /\ mutex \notin Phi /\ mpc'[i][1] \in Door(mutex)
    BY <1>1, Names, Doors
  <2>2. mpc[i][1] \notin Inside
    BY DEF Inside
  <2> QED BY <1>1, <2>1, <2>2, DownStep
<1>4. MonitorTypeOK'
  BY <1>0, <1>1, <1>3 DEF MonitorTypeOK
<1>5. TokenAwaited'
  <2>1. mvalue'[mutex] # 1 /\ next \in 0 .. N + 1
    BY <1>3, Names
  <2>2. mvalue'[next] = 1 => \E j \in Phi : mpc'[j][1] = "signal_down"
    BY <1>0, <1>1, <1>3, <2>1 DEF TokenAwaited
  <2>3. \A j \in Phi : mvalue'[j] = 1 => mpc'[j][1] = "wait_down" /\ state_condvar'[j] = "EATING"
    BY <1>0, <1>1, <1>3, Names DEF TokenAwaited
  <2> QED BY <2>1, <2>2, <2>3 DEF TokenAwaited, mutex, next
<1>6. OneSignaller'
  <2>1. InMonitor(i)' => next_count = 0
    BY <1>0, <1>3 DEF TokenAwaited
  <2> QED BY <1>0, <1>1, <1>3, <2>1 DEF OneSignaller, Signalling
<1>7. WaitersCounted'
  BY <1>0, <1>1 DEF WaitersCounted
<1>8. PromisesKept'
  <2>1. \A j \in Phi : j # i => Tested(j)' = Tested(j)
    BY <1>1, SameTarget
  <2>2. \A j \in Phi : MayEat(j)' <=> MayEat(j)
    BY DEF MayEat, LEFT, RIGHT
  <2>3. ASSUME NEW j \in Phi, j # i, mpc[j][1] = "mark" PROVE MayEat(Tested(j))'
    <3>1. PICK t : t = Tested(j)
      OBVIOUS
    <3> QED BY <1>0, <2>1, <2>3, <3>1 DEF PromisesKept, MayEat, LEFT, RIGHT
  <2> QED BY <1>0, <1>1, <1>3, <2>1, <2>3 DEF PromisesKept, AtPlace
<1>9. CondvarStatesExclusive'
  BY <1>0 DEF CondvarStatesExclusive, RIGHT
<1> QED BY <1>3, <1>4, <1>5, <1>6, <1>7, <1>8, <1>9 DEF MonitorState

(* GotoSame keeps the site of the call.                                     *)
LEMMA WentSame ==
    ASSUME PhiAssumption, MonitorTypeOK, NEW i \in Phi,
           mpc[i][1] \in {"test", "mark", "signal_up", "signal_down", "signal_back"},
           NEW step \in {"test", "mark", "signal_up", "signal_down", "signal_back"},
           GotoSame(i, step)
    PROVE  /\ mpc'[i][1] = step /\ mpc'[i][2] = mpc[i][2]
           /\ \A j \in Phi : j # i => mpc'[j] = mpc[j]
           /\ mpc' \in [Phi -> Places]
<1>1. PICK place : place = <<step, mpc[i][2]>>
  OBVIOUS
<1>2. place \in Places /\ place[1] = step /\ place[2] = mpc[i][2]
  BY <1>1, Targets, HasPlaces
<1>3. mpc' = [mpc EXCEPT ![i] = place] /\ mpc \in [Phi -> Places]
  BY <1>1 DEF GotoSame, MonitorTypeOK
<1> QED BY <1>2, <1>3

(* What was promised to the others holds after a step that leaves           *)
(* state_condvar and count alone, if nobody comes back from cond_wait.      *)
LEMMA PromisesStay ==
    ASSUME PromisesKept, NEW i \in Phi, UNCHANGED <<state_condvar, count>>,
           \A j \in Phi : j # i => mpc'[j] = mpc[j],
           \A j \in Phi : j # i /\ AtPlace(j, "wait_back")' => state_condvar[j] = "EATING",
           mpc'[i][1] \notin {"mark", "signal_up", "take_check"},
           AtPlace(i, "wait_back")' \/ mpc'[i][1] \in {"take_leave", "eat"} => state_condvar[i] = "EATING",
           mpc'[i][2] = "self" => state_condvar[i] # "THINKING"
    PROVE  PromisesKept'
<1>1. ASSUME NEW j \in Phi, j # i
      PROVE  /\ mpc[j][1] = "mark" => MayEat(Tested(j))'
             /\ mpc[j][1] = "signal_up" =>
                  state_condvar[Tested(j)'] = "EATING" /\ count[Tested(j)'] = 1
  <2>1. Tested(j)' = Tested(j)
    BY <1>1, SameTarget
  <2>2. PICK t : t = Tested(j)
    OBVIOUS
  <2> QED BY <2>1, <2>2 DEF PromisesKept, MayEat, LEFT, RIGHT
<1>2. ASSUME NEW j \in Phi, j # i
      PROVE  /\ mpc'[j][1] = "mark" => MayEat(Tested(j))'
             /\ mpc'[j][1] = "signal_up" =>
                  state_condvar'[Tested(j)'] = "EATING" /\ count'[Tested(j)'] = 1
             /\ AtPlace(j, "wait_back")' \/ mpc'[j][1] \in {"take_leave", "eat"} => state_condvar'[j] = "EATING"
             /\ mpc'[j][1] = "take_check" \/ mpc'[j][2] = "self" => state_condvar'[j] # "THINKING"
  <2>1. mpc'[j] = mpc[j]
    BY <1>2
  <2> QED BY <1>1, <1>2, <2>1 DEF PromisesKept
<1> QED BY <1>2 DEF PromisesKept

(* cond_signal hands the monitor to the waiter, who may eat.                *)
LEMMA signal_up_step ==
    ASSUME PhiAssumption, MonitorState, NEW i \in Phi, signal_up(i)
    PROVE  MonitorState'
<1>0. /\ MonitorTypeOK /\ AtDoors /\ TokenAwaited /\ OneSignaller /\ WaitersCounted /\ PromisesKept
      /\ CondvarStatesExclusive
  BY DEF MonitorState
<1>1. /\ mpc[i][1] = "signal_up" /\ InMonitor(i) /\ Sem!up(Tested(i)) /\ GotoSame(i, "signal_down")
      /\ UNCHANGED <<state_condvar, miter, next_count, count>>
  BY DEF signal_up, AtPlace, InMonitor, Inside
<1>2. PICK t \in Phi : t = Tested(i)
  BY <1>0, <1>1, Targets
<1>3. /\ mpc'[i][1] = "signal_down" /\ mpc'[i][2] = mpc[i][2]
      /\ \A j \in Phi : j # i => mpc'[j] = mpc[j]
      /\ mpc' \in [Phi -> Places]
  BY <1>0, <1>1, WentSame
<1>4. t # i /\ mpc[t][1] \in {"wait_down", "wait_back"} /\ state_condvar[t] = "EATING"
  <2>1. count[t] = 1 /\ state_condvar[t] = "EATING"
    BY <1>0, <1>1, <1>2 DEF PromisesKept
  <2>2. mpc[t][1] \in {"wait_up", "wait_down", "wait_back"}
    BY <1>0, <2>1 DEF WaitersCounted
  <2> QED BY <1>1, <2>1, <2>2, Alone
<1>5. mqueue[t] = << >> => mpc[t][1] = "wait_down"
  <2> SUFFICES ASSUME mpc[t][1] = "wait_back" PROVE mqueue[t] # << >>
    BY <1>4
  <2>1. ~ InMonitor(t)
    BY <1>1, <1>4 DEF MonitorState, OneToken, MonitorExclusive
  <2>2. PICK r \in 0 .. N + 1 : t \in Range(mqueue[r])
    BY SemRange, <2>1 DEF InMonitor, Inside, Sem!Blocked
  <2>3. r = t
    <3>1. mpc[t][1] \in Door(r) /\ (r \in Phi => t = r)
      BY <1>0, <2>2, Queued
    <3> QED BY <3>1, Names, Doors
  <2>4. Range(<< >>) = {}
    BY DEF Range
  <2> QED BY <2>2, <2>3, <2>4
<1>6. /\ t \in 0 .. N + 1 /\ t # mutex /\ t # next
      /\ mutex \in 0 .. N + 1 /\ next \in 0 .. N + 1
      /\ \A j \in Phi : j \in 0 .. N + 1
      /\ Door(t) = {"wait_back"}
  BY Names, Doors
<1>7. /\ Sem!SemTypeOK' /\ AtDoors' /\ OneToken'
      /\ \A r \in 0 .. N + 1 : mvalue'[r] = 1 => r = t /\ mqueue[t] = << >>
      /\ \A j \in Phi : Sem!Blocked(j) => Sem!Blocked(j)' \/ j \in Range(mqueue[t])
      /\ \A j \in Phi : InMonitor(j)' => j # i /\ j \in Range(mqueue[t])
  BY <1>1, <1>2, <1>3, <1>6, UpStep DEF Inside
<1>8. MonitorTypeOK'
  BY <1>0, <1>1, <1>3, <1>7 DEF MonitorTypeOK
<1>9. TokenAwaited'
  BY <1>1, <1>3, <1>4, <1>5, <1>6, <1>7 DEF TokenAwaited, mutex, next
<1>10. \A j \in Range(mqueue[t]) : j = t /\ mpc[j][1] = "wait_back"
  BY <1>0, <1>6, Queued
<1>11. OneSignaller'
  <2>1. next_count = 1 /\ \A j \in Phi : j # i => mpc[j][1] \notin Signalling
    BY <1>0, <1>1 DEF OneSignaller, Signalling
  <2>2. \A j \in Phi : InMonitor(j)' => mpc'[j][1] = "wait_back"
    BY <1>3, <1>7, <1>10
  <2> QED BY <1>1, <1>3, <2>1, <2>2 DEF OneSignaller, Signalling
<1>12. WaitersCounted'
  BY <1>0, <1>1, <1>3 DEF WaitersCounted
<1>13. PromisesKept'
  <2>1. ASSUME NEW j \in Phi, j # i, AtPlace(j, "wait_back")' PROVE state_condvar[j] = "EATING"
    <3>1. mpc[j][1] = "wait_back" /\ ~ Sem!Blocked(j)'
      BY <1>3, <2>1 DEF AtPlace
    <3>2. CASE Sem!Blocked(j)
      BY <1>4, <1>7, <1>10, <3>1, <3>2
    <3>3. CASE ~ Sem!Blocked(j)
      BY <1>0, <3>1, <3>3 DEF PromisesKept, AtPlace
    <3> QED BY <3>2, <3>3
  <2>2. mpc'[i][2] = "self" => state_condvar[i] # "THINKING"
    BY <1>0, <1>3 DEF PromisesKept
  <2>3. ~ AtPlace(i, "wait_back")'
    BY <1>3 DEF AtPlace
  <2> QED BY <1>0, <1>1, <1>3, <2>1, <2>2, <2>3, PromisesStay
<1>14. CondvarStatesExclusive'
  BY <1>0, <1>1 DEF CondvarStatesExclusive, RIGHT
<1> QED BY <1>7, <1>8, <1>9, <1>11, <1>12, <1>13, <1>14 DEF MonitorState

(* The signaller waits in next, or finds that the waiter has left already.  *)
LEMMA signal_down_step ==
    ASSUME PhiAssumption, MonitorState, NEW i \in Phi, signal_down(i)
    PROVE  MonitorState'
<1>0. /\ MonitorTypeOK /\ AtDoors /\ TokenAwaited /\ OneSignaller /\ WaitersCounted /\ PromisesKept
      /\ CondvarStatesExclusive
  BY DEF MonitorState
<1>1. /\ mpc[i][1] = "signal_down" /\ ~ Sem!Blocked(i) /\ Sem!down(next, i) /\ GotoSame(i, "signal_back")
      /\ UNCHANGED <<state_condvar, miter, next_count, count>>
  BY DEF signal_down, AtPlace
<1>2. /\ mpc'[i][1] = "signal_back" /\ mpc'[i][2] = mpc[i][2]
      /\ \A j \in Phi : j # i => mpc'[j] = mpc[j]
      /\ mpc' \in [Phi -> Places]
  BY <1>0, <1>1, WentSame
<1>3. /\ next \in 0 .. N + 1 /\ next \notin Phi /\ Door(next) = {"signal_back"}
      /\ mutex \in 0 .. N + 1 /\ \A j \in Phi : j \in 0 .. N + 1
  BY Names, Doors
<1>4. /\ Sem!SemTypeOK' /\ AtDoors' /\ OneToken'
      /\ \A r \in 0 .. N + 1 : mvalue'[r] = 1 => mvalue[r] = 1 /\ r # next
      /\ \A j \in Phi : j # i => (Sem!Blocked(j)' <=> Sem!Blocked(j)) /\ (InMonitor(j)' <=> InMonitor(j))
  <2>1. mpc[i][1] \notin Inside
    BY <1>1 DEF Inside
  <2> QED BY <1>1, <1>2, <1>3, <2>1, DownStep
<1>5. MonitorTypeOK'
  BY <1>0, <1>1, <1>2, <1>4 DEF MonitorTypeOK
<1>6. TokenAwaited'
  <2>1. mvalue'[next] # 1 /\ (mvalue'[mutex] = 1 => next_count' = 0)
    BY <1>0, <1>1, <1>3, <1>4 DEF TokenAwaited
  <2>2. \A j \in Phi : mvalue'[j] = 1 => mpc'[j][1] = "wait_down" /\ state_condvar'[j] = "EATING"
    BY <1>0, <1>1, <1>2, <1>3, <1>4 DEF TokenAwaited
  <2> QED BY <2>1, <2>2 DEF TokenAwaited, mutex, next
<1>7. OneSignaller'
  BY <1>0, <1>1, <1>2, <1>4 DEF OneSignaller, Signalling
<1>8. WaitersCounted'
  BY <1>0, <1>1, <1>2 DEF WaitersCounted
<1>9. PromisesKept'
  <2>1. \A j \in Phi : j # i /\ AtPlace(j, "wait_back")' => state_condvar[j] = "EATING"
    BY <1>0, <1>2, <1>4 DEF PromisesKept, AtPlace
  <2>2. mpc'[i][2] = "self" => state_condvar[i] # "THINKING"
    BY <1>0, <1>2 DEF PromisesKept
  <2>3. ~ AtPlace(i, "wait_back")'
    BY <1>2 DEF AtPlace
  <2> QED BY <1>0, <1>1, <1>2, <2>1, <2>2, <2>3, PromisesStay
<1>10. CondvarStatesExclusive'
  BY <1>0, <1>1 DEF CondvarStatesExclusive, RIGHT
<1> QED BY <1>4, <1>5, <1>6, <1>7, <1>8, <1>9, <1>10 DEF MonitorState

(* cond_wait: what the signal promised holds if it was there before.        *)
LEMMA wait_down_step ==
    ASSUME PhiAssumption, MonitorState, NEW i \in Phi, wait_down(i)
    PROVE  MonitorState'
<1>0. /\ MonitorTypeOK /\ AtDoors /\ TokenAwaited /\ OneSignaller /\ WaitersCounted /\ PromisesKept
      /\ CondvarStatesExclusive
  BY DEF MonitorState
<1>1. /\ mpc[i][1] = "wait_down" /\ ~ Sem!Blocked(i) /\ Sem!down(i, i) /\ GotoPlace(i, "wait_back")
      /\ UNCHANGED <<state_condvar, miter, next_count, count>>
  BY DEF wait_down, AtPlace
<1>2. /\ mpc'[i][1] = "wait_back" /\ mpc'[i][2] # "self"
      /\ \A j \in Phi : j # i => mpc'[j] = mpc[j]
      /\ mpc' \in [Phi -> Places]
  BY <1>0, <1>1, Went
<1>3. /\ next \in 0 .. N + 1 /\ Door(i) = {"wait_back"}
      /\ mutex \in 0 .. N + 1 /\ \A j \in Phi : j \in 0 .. N + 1
  BY Names, Doors
<1>4. /\ Sem!SemTypeOK' /\ AtDoors' /\ OneToken'
      /\ \A r \in 0 .. N + 1 : mvalue'[r] = 1 => mvalue[r] = 1 /\ r # i
      /\ InMonitor(i)' => mvalue[i] = 1
      /\ \A j \in Phi : j # i => (Sem!Blocked(j)' <=> Sem!Blocked(j)) /\ (InMonitor(j)' <=> InMonitor(j))
  <2>1. mpc[i][1] \notin Inside
    BY <1>1 DEF Inside
  <2> QED BY <1>1, <1>2, <1>3, <2>1, DownStep
<1>5. MonitorTypeOK'
  BY <1>0, <1>1, <1>2, <1>4 DEF MonitorTypeOK
<1>6. TokenAwaited'
  <2>1. mvalue'[mutex] = 1 => next_count' = 0
    BY <1>0, <1>1, <1>3, <1>4 DEF TokenAwaited
  <2>2. mvalue'[next] = 1 => \E j \in Phi : mpc'[j][1] = "signal_down"
    BY <1>0, <1>1, <1>2, <1>3, <1>4 DEF TokenAwaited
  <2>3. \A j \in Phi : mvalue'[j] = 1 => mpc'[j][1] = "wait_down" /\ state_condvar'[j] = "EATING"
    BY <1>0, <1>1, <1>2, <1>3, <1>4 DEF TokenAwaited
  <2> QED BY <2>1, <2>2, <2>3 DEF TokenAwaited, mutex, next
<1>7. OneSignaller'
  BY <1>0, <1>1, <1>2, <1>4 DEF OneSignaller, Signalling
<1>8. WaitersCounted'
  BY <1>0, <1>1, <1>2 DEF WaitersCounted
<1>9. PromisesKept'
  <2>1. \A j \in Phi : j # i /\ AtPlace(j, "wait_back")' => state_condvar[j] = "EATING"
    BY <1>0, <1>2, <1>4 DEF PromisesKept, AtPlace
  <2>2. AtPlace(i, "wait_back")' => state_condvar[i] = "EATING"
    BY <1>0, <1>2, <1>4 DEF TokenAwaited, AtPlace, InMonitor, Inside
  <2> QED BY <1>0, <1>1, <1>2, <2>1, <2>2, PromisesStay
<1>10. CondvarStatesExclusive'
  BY <1>0, <1>1 DEF CondvarStatesExclusive, RIGHT
<1> QED BY <1>4, <1>5, <1>6, <1>7, <1>8, <1>9, <1>10 DEF MonitorState

(* leave_monitor: a signaller that waits, or is about to wait, in next has  *)
(* the monitor back; there is none if whoever leaves did not wait for it.   *)
LEMMA LeaveStep ==
    ASSUME PhiAssumption, MonitorState, NEW i \in Phi, leave_monitor,
           \/ AtPlace(i, "wait_up") /\ GotoPlace(i, "wait_down")
           \/ AtPlace(i, "take_leave") /\ GotoPlace(i, "eat")
           \/ AtPlace(i, "put_leave") /\ GotoPlace(i, "think"),
           UNCHANGED <<state_condvar, miter, next_count, count>>
    PROVE  MonitorState'
<1>0. /\ MonitorTypeOK /\ AtDoors /\ TokenAwaited /\ OneSignaller /\ WaitersCounted /\ PromisesKept
      /\ CondvarStatesExclusive
  BY DEF MonitorState
<1>1. /\ InMonitor(i)
      /\ \/ mpc[i][1] = "wait_up" /\ mpc'[i][1] = "wait_down"
         \/ mpc[i][1] = "take_leave" /\ mpc'[i][1] = "eat"
         \/ mpc[i][1] = "put_leave" /\ mpc'[i][1] = "think"
      /\ mpc'[i][2] # "self"
      /\ \A j \in Phi : j # i => mpc'[j] = mpc[j]
      /\ mpc' \in [Phi -> Places]
  <2>1. PICK step \in {"wait_down", "eat", "think"} :
           /\ GotoPlace(i, step)
           /\ \/ AtPlace(i, "wait_up") /\ step = "wait_down"
              \/ AtPlace(i, "take_leave") /\ step = "eat"
              \/ AtPlace(i, "put_leave") /\ step = "think"
    OBVIOUS
  <2>2. /\ mpc'[i][1] = step /\ mpc'[i][2] # "self"
        /\ \A j \in Phi : j # i => mpc'[j] = mpc[j]
        /\ mpc' \in [Phi -> Places]
    BY <1>0, <2>1, Went
  <2> QED BY <2>1, <2>2 DEF AtPlace, InMonitor, Inside
<1>2. PICK s \in {mutex, next} :
         Sem!up(s) /\ (s = mutex => next_count = 0) /\ (s = next => next_count = 1)
  <2>1. mutex # next
    BY Names
  <2>2. CASE next_count = 0
    <3>1. Sem!up(mutex)
      BY <2>2 DEF leave_monitor
    <3> WITNESS mutex \in {mutex, next}
    <3> QED BY <2>1, <2>2, <3>1
  <2>3. CASE next_count = 1
    <3>1. Sem!up(next)
      BY <2>3 DEF leave_monitor
    <3> WITNESS next \in {mutex, next}
    <3> QED BY <2>1, <2>3, <3>1
  <2> QED BY <1>0, <2>2, <2>3 DEF OneSignaller
<1>3. /\ s \in 0 .. N + 1 /\ mutex \in 0 .. N + 1 /\ next \in 0 .. N + 1 /\ mutex # next
      /\ Door(mutex) = {"take_set", "put_set"} /\ Door(next) = {"signal_back"}
      /\ \A j \in Phi : j \in 0 .. N + 1 /\ j # mutex /\ j # next
  BY Names, Doors
<1>4. /\ Sem!SemTypeOK' /\ AtDoors' /\ OneToken'
      /\ \A r \in 0 .. N + 1 : mvalue'[r] = 1 => r = s /\ mqueue[s] = << >>
      /\ \A j \in Phi : Sem!Blocked(j) => Sem!Blocked(j)' \/ j \in Range(mqueue[s])
      /\ \A j \in Phi : InMonitor(j)' => j # i /\ j \in Range(mqueue[s])
  <2>1. mpc'[i][1] \notin Inside
    BY <1>1 DEF Inside
  <2> QED BY <1>1, <1>2, <1>3, <2>1, UpStep
<1>5. \A j \in Range(mqueue[s]) : mpc[j][1] \in {"take_set", "put_set", "signal_back"}
  BY <1>0, <1>2, <1>3, Queued
<1>6. MonitorTypeOK'
  BY <1>0, <1>1, <1>4 DEF MonitorTypeOK
<1>7. TokenAwaited'
  <2>1. mvalue'[mutex] = 1 => next_count' = 0
    BY <1>2, <1>3, <1>4
  <2>2. ASSUME mvalue'[next] = 1 PROVE \E j \in Phi : mpc'[j][1] = "signal_down"
    <3>1. s = next /\ mqueue[next] = << >> /\ next_count = 1
      BY <1>2, <1>3, <1>4, <2>2
    <3>2. PICK j \in Phi : mpc[j][1] \in Signalling
      BY <1>0, <3>1 DEF OneSignaller
    <3>3. j # i
      BY <1>1, <3>2 DEF Signalling
    <3>4. mpc[j][1] # "signal_up"
      BY <1>1, <3>3, Alone
    <3>5. mpc[j][1] # "signal_back"
      <4> SUFFICES ASSUME mpc[j][1] = "signal_back" PROVE FALSE
        OBVIOUS
      <4>1. ~ InMonitor(j)
        BY <1>1, <3>3 DEF MonitorState, OneToken, MonitorExclusive
      <4>2. PICK r \in 0 .. N + 1 : j \in Range(mqueue[r])
        BY SemRange, <4>1 DEF InMonitor, Inside, Sem!Blocked
      <4>3. r = next
        <5>1. mpc[j][1] \in Door(r) /\ (r \in Phi => j = r)
          BY <1>0, <4>2, Queued
        <5> QED BY <5>1, Names, Doors
      <4>4. Range(<< >>) = {}
        BY DEF Range
      <4> QED BY <3>1, <4>2, <4>3, <4>4
    <3> QED BY <1>1, <3>2, <3>3, <3>4, <3>5 DEF Signalling
  <2>3. \A j \in Phi : mvalue'[j] # 1
    BY <1>2, <1>3, <1>4
  <2> QED BY <2>1, <2>2, <2>3 DEF TokenAwaited, mutex, next
<1>8. OneSignaller'
  <2>1. CASE next_count = 0
    BY <1>0, <1>1, <2>1 DEF OneSignaller, Signalling
  <2>2. CASE next_count = 1
    <3>1. PICK j \in Phi : /\ mpc[j][1] \in Signalling
                           /\ \A k \in Phi : k # j => mpc[k][1] \notin Signalling
      BY <1>0, <2>2 DEF OneSignaller
    <3>2. j # i
      BY <1>1, <3>1 DEF Signalling
    <3>3. ASSUME NEW k \in Phi, InMonitor(k)' PROVE k = j
      <4>1. k \in Range(mqueue[next])
        BY <1>2, <1>4, <2>2, <3>3
      <4>2. mpc[k][1] = "signal_back"
        BY <1>0, <1>3, <4>1, Queued
      <4> QED BY <3>1, <4>2 DEF Signalling
    <3>4. mpc'[j][1] \in Signalling /\ \A k \in Phi : k # j => mpc'[k][1] \notin Signalling
      BY <1>1, <3>1, <3>2 DEF Signalling
    <3> QED BY <2>2, <3>3, <3>4 DEF OneSignaller
  <2> QED BY <1>2, <2>1, <2>2
<1>9. WaitersCounted'
  BY <1>0, <1>1 DEF WaitersCounted
<1>10. PromisesKept'
  <2>1. ASSUME NEW j \in Phi, j # i, AtPlace(j, "wait_back")' PROVE state_condvar[j] = "EATING"
    <3>1. mpc[j][1] = "wait_back" /\ ~ Sem!Blocked(j)'
      BY <1>1, <2>1 DEF AtPlace
    <3>2. ~ Sem!Blocked(j)
      BY <1>4, <1>5, <3>1
    <3> QED BY <1>0, <3>1, <3>2 DEF PromisesKept, AtPlace
  <2>2. ~ AtPlace(i, "wait_back")'
    BY <1>1 DEF AtPlace
  <2>3. mpc'[i][1] \in {"take_leave", "eat"} => state_condvar[i] = "EATING"
    BY <1>0, <1>1 DEF PromisesKept
  <2> QED BY <1>0, <1>1, <2>1, <2>2, <2>3, PromisesStay
<1>11. CondvarStatesExclusive'
  BY <1>0 DEF CondvarStatesExclusive, RIGHT
<1> QED BY <1>4, <1>6, <1>7, <1>8, <1>9, <1>10, <1>11 DEF MonitorState

(* A philosopher who has had his meals returns.                             *)
LEMMA quit_step ==
    ASSUME PhiAssumption, MonitorState, NEW i \in Phi, AtPlace(i, "think"), GotoPlace(i, "quit"),
           UNCHANGED <<state_condvar, miter, next_count, count, mvalue, mqueue>>
    PROVE  MonitorState'
<1>0. /\ MonitorTypeOK /\ AtDoors /\ OneToken /\ TokenAwaited /\ OneSignaller /\ WaitersCounted
      /\ PromisesKept /\ CondvarStatesExclusive
  BY DEF MonitorState
<1>1. mpc[i][1] = "think" /\ ~ Sem!Blocked(i)
  BY DEF AtPlace
<1>2. /\ mpc'[i][1] = "quit" /\ mpc'[i][2] # "self"
      /\ \A j \in Phi : j # i => mpc'[j] = mpc[j]
      /\ mpc' \in [Phi -> Places]
  BY <1>0, Went
<1>3. \A j \in Phi : (Sem!Blocked(j)' <=> Sem!Blocked(j)) /\ (InMonitor(j)' <=> InMonitor(j))
  BY SemRange, <1>1, <1>2 DEF Sem!Blocked, InMonitor, Inside
<1>4. AtDoors'
  <2> SUFFICES ASSUME NEW s \in 0 .. N + 1, NEW j \in Range(mqueue[s])
               PROVE  mpc'[j][1] \in Door(s)
    BY <1>0 DEF AtDoors, Door, mutex, next
  <2>1. j \in Phi /\ j # i /\ mpc[j][1] \in Door(s)
    BY <1>0, <1>1, Queued
  <2> QED BY <1>2, <2>1
<1>5. OneToken'
  BY <1>0, <1>3 DEF OneToken, MonitorExclusive
<1>6. MonitorTypeOK'
  BY <1>0, <1>2 DEF MonitorTypeOK, Sem!SemTypeOK
<1>7. TokenAwaited'
  BY <1>0, <1>1, <1>2 DEF TokenAwaited, mutex, next
<1>8. OneSignaller'
  BY <1>0, <1>1, <1>2, <1>3 DEF OneSignaller, Signalling
<1>9. WaitersCounted'
  BY <1>0, <1>1, <1>2 DEF WaitersCounted
<1>10. PromisesKept'
  <2>1. \A j \in Phi : j # i /\ AtPlace(j, "wait_back")' => state_condvar[j] = "EATING"
    BY <1>0, <1>2, <1>3 DEF PromisesKept, AtPlace
  <2>2. ~ AtPlace(i, "wait_back")'
    BY <1>2 DEF AtPlace
  <2> QED BY <1>0, <1>2, <2>1, <2>2, PromisesStay
<1>11. CondvarStatesExclusive'
  BY <1>0 DEF CondvarStatesExclusive, RIGHT
<1> QED BY <1>4, <1>5, <1>6, <1>7, <1>8, <1>9, <1>10, <1>11 DEF MonitorState

(* Thinking touches no semaphore.                                           *)
LEMMA think_step ==
    ASSUME PhiAssumption, MonitorState, NEW i \in Phi, think_condvar(i)
    PROVE  MonitorState'
<1>1. miter \in [Phi -> 0 .. TIMES] /\ TIMES \in Nat
  BY DEF MonitorState, MonitorTypeOK, PhiAssumption
<1>2. mpc[i][1] = "think" /\ ~ Sem!Blocked(i) /\ UNCHANGED <<state_condvar, next_count, count>>
  BY DEF think_condvar, AtPlace
<1>3. CASE miter[i] < TIMES
  <2>1. /\ miter' = [miter EXCEPT ![i] = @ + 1] /\ Sem!down(mutex, i) /\ GotoPlace(i, "take_set")
    BY <1>3 DEF think_condvar
  <2>2. miter' \in [Phi -> 0 .. TIMES]
    BY <1>1, <1>3, <2>1
  <2> QED BY <1>2, <2>1, <2>2, EnterStep
<1>4. CASE ~ (miter[i] < TIMES)
  <2>1. GotoPlace(i, "quit") /\ UNCHANGED <<miter, mvalue, mqueue>> /\ AtPlace(i, "think")
    BY <1>4 DEF think_condvar
  <2> QED BY <1>2, <2>1, quit_step
<1> QED BY <1>3, <1>4

(* After eating a philosopher asks for the monitor to put the forks down.   *)
LEMMA eat_step ==
    ASSUME PhiAssumption, MonitorState, NEW i \in Phi, eat_condvar(i)
    PROVE  MonitorState'
<1>1. /\ mpc[i][1] = "eat" /\ ~ Sem!Blocked(i) /\ Sem!down(mutex, i) /\ GotoPlace(i, "put_set")
      /\ UNCHANGED <<state_condvar, next_count, count>> /\ miter' = miter
  BY DEF eat_condvar, AtPlace
<1>2. miter' \in [Phi -> 0 .. TIMES]
  BY <1>1 DEF MonitorState, MonitorTypeOK
<1> QED BY <1>1, <1>2, EnterStep
-----------------------------------------------------------------------------
(* The start of check_sync: mutex is open.                                  *)
LEMMA MonitorStart == ASSUME PhiAssumption, MonitorInit PROVE MonitorState
<1>1. /\ mvalue = [s \in 0 .. N + 1 |-> IF s = mutex THEN 1 ELSE 0]
      /\ mqueue = [s \in 0 .. N + 1 |-> << >>]
      /\ next_count = 0 /\ count = [i \in Phi |-> 0]
      /\ state_condvar = [i \in Phi |-> "THINKING"]
      /\ miter = [i \in Phi |-> 0]
  BY DEF MonitorInit, Sem!sem_init
<1>2. mpc \in [Phi -> Places] /\ \A i \in Phi : mpc[i][1] = "think" /\ mpc[i][2] # "self"
  <2>1. PICK place : place = <<"think", "">>
    OBVIOUS
  <2>2. place \in Places
    BY <2>1, HasPlaces
  <2>3. place[1] = "think" /\ place[2] = "" /\ "" # "self"
    BY <2>1, Zenon
  <2>4. mpc = [i \in Phi |-> place]
    BY <2>1, Zenon DEF MonitorInit
  <2>5. mpc \in [Phi -> Places] /\ \A i \in Phi : mpc[i] = place
    BY <2>2, <2>4
  <2> QED BY <2>3, <2>5, Zenon
<1>3. MonitorTypeOK
  BY <1>1, <1>2, Small DEF MonitorTypeOK, Sem!SemTypeOK, PhiAssumption
<1>4. AtDoors
  <2>1. IsInjective(<< >>) /\ Range(<< >>) = {}
    BY DEF IsInjective, Range
  <2> QED BY <1>1, <2>1 DEF AtDoors
<1>5. \A i \in Phi : ~ InMonitor(i)
  BY <1>2 DEF InMonitor, Inside
<1>6. OneToken
  BY <1>1, <1>5, Names DEF OneToken, MonitorExclusive
<1>7. TokenAwaited
  BY <1>1, Names DEF TokenAwaited
<1>8. OneSignaller
  BY <1>1, <1>2 DEF OneSignaller, Signalling
<1>9. WaitersCounted
  BY <1>1, <1>2 DEF WaitersCounted
<1>10. PromisesKept
  BY <1>2 DEF PromisesKept, AtPlace
<1>11. CondvarStatesExclusive
  BY <1>1 DEF CondvarStatesExclusive
<1> QED BY <1>3, <1>4, <1>6, <1>7, <1>8, <1>9, <1>10, <1>11 DEF MonitorState

(* Every step of the monitor keeps the invariant.                           *)
LEMMA MonitorStep == ASSUME PhiAssumption, MonitorState, [MonitorNext]_monitorvars PROVE MonitorState'
<1>1. ASSUME NEW i \in Phi, MonitorThread(i) PROVE MonitorState'
  <2>1. CASE wait_up(i)
    BY <2>1, LeaveStep DEF wait_up
  <2>2. CASE take_leave(i)
    BY <2>2, LeaveStep DEF take_leave
  <2>3. CASE put_leave(i)
    BY <2>3, LeaveStep DEF put_leave
  <2> QED BY <1>1, <2>1, <2>2, <2>3, think_step, set_step, take_check_step, eat_step, test_step,
             mark_step, signal_up_step, signal_down_step, signal_back_step, wait_down_step,
             wait_back_step DEF MonitorThread
<1>2. CASE UNCHANGED monitorvars
  <2>0. /\ mpc' = mpc /\ state_condvar' = state_condvar /\ miter' = miter
        /\ next_count' = next_count /\ count' = count
        /\ mvalue' = mvalue /\ mqueue' = mqueue
    BY <1>2 DEF monitorvars
  <2>1. \A j \in Phi : /\ Sem!Blocked(j)' = Sem!Blocked(j) /\ InMonitor(j)' = InMonitor(j)
                       /\ Tested(j)' = Tested(j)
    BY SemRange, <2>0, Zenon DEF Sem!Blocked, InMonitor, Tested
  <2>2. MonitorTypeOK'
    BY <2>0 DEF MonitorState, MonitorTypeOK, Sem!SemTypeOK
  <2>3. AtDoors'
    BY <2>0, Zenon DEF MonitorState, AtDoors
  <2>4. OneToken'
    BY SemRange, <2>0, Zenon DEF MonitorState, OneToken, MonitorExclusive, InMonitor, Sem!Blocked
  <2>5. TokenAwaited'
    BY <2>0, Zenon DEF MonitorState, TokenAwaited, mutex, next
  <2>6. OneSignaller'
    BY SemRange, <2>0, Zenon DEF MonitorState, OneSignaller, InMonitor, Sem!Blocked
  <2>7. WaitersCounted'
    BY <2>0, Zenon DEF MonitorState, WaitersCounted
  <2>8. PromisesKept'
    <3>1. SUFFICES ASSUME NEW j \in Phi
                   PROVE  /\ mpc'[j][1] = "mark" => MayEat(Tested(j))'
                          /\ mpc'[j][1] = "signal_up" =>
                               state_condvar'[Tested(j)'] = "EATING" /\ count'[Tested(j)'] = 1
                          /\ AtPlace(j, "wait_back")' \/ mpc'[j][1] \in {"take_leave", "eat"} =>
                               state_condvar'[j] = "EATING"
                          /\ mpc'[j][1] = "take_check" \/ mpc'[j][2] = "self" =>
                               state_condvar'[j] # "THINKING"
      BY Zenon DEF PromisesKept
    <3>2. MayEat(Tested(j)) => MayEat(Tested(j))'
      <4>1. PICK k : k = Tested(j)
        OBVIOUS
      <4>2. Tested(j)' = k
        BY <4>1, <2>1
      <4> QED BY <2>0, <4>1, <4>2, Zenon DEF MayEat
    <3>3. AtPlace(j, "wait_back")' => AtPlace(j, "wait_back")
      BY <2>0, <2>1, Zenon DEF AtPlace
    <3> QED BY <2>0, <2>1, <3>2, <3>3, Zenon DEF MonitorState, PromisesKept
  <2>9. CondvarStatesExclusive'
    BY <2>0, Zenon DEF MonitorState, CondvarStatesExclusive
  <2> QED BY <2>2, <2>3, <2>4, <2>5, <2>6, <2>7, <2>8, <2>9 DEF MonitorState
<1> QED BY <1>1, <1>2 DEF MonitorNext

(* What the parts of MonitorState come to.                                  *)
LEMMA MonitorPromises == ASSUME PhiAssumption, MonitorState PROVE MonitorInv
<1>0. MonitorTypeOK /\ AtDoors /\ OneToken /\ TokenAwaited /\ PromisesKept /\ CondvarStatesExclusive
  BY DEF MonitorState
<1>1. MonitorExclusive
  BY <1>0 DEF OneToken
<1>2. MonitorReleased
  <2> SUFFICES ASSUME \A i \in Phi : ~ InMonitor(i) /\ mpc[i][1] \notin {"signal_down", "wait_down"}
               PROVE  mvalue[mutex] = 1 /\ next_count = 0
    BY DEF MonitorReleased
  <2>1. PICK s \in 0 .. N + 1 : mvalue[s] = 1
    BY <1>0 DEF OneToken
  <2>2. s # next /\ s \notin Phi
    BY <1>0, <2>1 DEF TokenAwaited
  <2> QED BY <1>0, <2>1, <2>2, Names DEF TokenAwaited
<1>3. SignalledMayEat
  BY <1>0 DEF SignalledMayEat, PromisesKept, AtPlace
<1>4. CondvarForksExclusive
  BY <1>0, Ring DEF CondvarForksExclusive, PromisesKept, CondvarStatesExclusive, AtPlace
<1> QED BY <1>1, <1>2, <1>3, <1>4 DEF MonitorInv

(* The monitor of check_sync, for any number of philosophers and meals: one *)
(* thread at a time works in it, it is never left locked, cond_signal hands *)
(* it to a philosopher who may eat still when he is back from cond_wait, so *)
(* phi_take_forks_condvar need not test again, and neighbours never eat     *)
(* together.                                                                *)
THEOREM MonitorInvariant == ASSUME PhiAssumption PROVE MonitorSpec => []MonitorInv
<1>1. MonitorInit => MonitorState
  BY MonitorStart
<1>2. MonitorState /\ [MonitorNext]_monitorvars => MonitorState'
  BY MonitorStep
<1>3. MonitorState => MonitorInv
  BY MonitorPromises
<1> QED BY <1>1, <1>2, <1>3, PTL DEF MonitorSpec

=============================================================================
