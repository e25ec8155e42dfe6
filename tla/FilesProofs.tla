----------------------------- MODULE FilesProofs -----------------------------
(***************************************************************************)
(* The invariants of the two components that count the users of an inode:  *)
(* the cache of inodes in memory (CacheInv) and the open file tables       *)
(* (FileInv), each for every finite set of its threads or processes.       *)
(***************************************************************************)
EXTENDS InodeCache, FileTable, FiniteSetTheorems, WellFoundedInduction, TLAPS

-----------------------------------------------------------------------------
(***************************************************************************)
(* Inodes in memory.  CacheInv is inductive as it stands, because it says  *)
(* both what a thread at each place may rely on and what the counts count. *)
(* One lemma per action; what each adds to or takes from the users and     *)
(* reclaimers of an inode is stated first, and the counts follow from it.  *)
(***************************************************************************)

(* The users and the reclaimers of an inode can be counted, and one more or *)
(* one less of them changes the count by one.                               *)
LEMMA CountFacts ==
    ASSUME NEW n, NEW t \in Threads
    PROVE  /\ Cardinality(Users(n)) \in Nat /\ Cardinality(Reclaimers(n)) \in Nat
           /\ Cardinality(Users(n)) = 0 <=> Users(n) = {}
           /\ Cardinality(Reclaimers(n)) = 0 <=> Reclaimers(n) = {}
           /\ Cardinality(Users(n)) = 1 /\ t \in Users(n) => Users(n) = {t}
           /\ Cardinality(Reclaimers(n)) = 1 /\ t \in Reclaimers(n) => Reclaimers(n) = {t}
<1>1. IsFiniteSet(Users(n)) /\ IsFiniteSet(Reclaimers(n))
  BY FS_Subset, CacheAssumption DEF Users, Reclaimers
<1>2. ASSUME NEW S, IsFiniteSet(S), Cardinality(S) = 1, t \in S PROVE S = {t}
  BY <1>2, FS_Singleton
<1> QED BY <1>1, <1>2, FS_CardinalityType, FS_EmptySet

(* A user of an inode more or less changes the number of users by one.      *)
LEMMA CountAdd ==
    ASSUME NEW S \in SUBSET Threads, NEW t \in Threads
    PROVE  /\ t \notin S => Cardinality(S \cup {t}) = Cardinality(S) + 1
           /\ t \in S => Cardinality(S \ {t}) = Cardinality(S) - 1
<1>1. IsFiniteSet(S)
  BY FS_Subset, CacheAssumption
<1> QED BY <1>1, FS_AddElement, FS_RemoveElement

(* NoChangeLost of one inode in memory.                                     *)
Preserved(n) ==
    /\ latest[ino[n]] <= din[n] /\ disk[ino[n]] <= din[n]
    /\ ~ dirty[n] => latest[ino[n]] <= disk[ino[n]]

(* No inode is in memory at first.                                          *)
LEMMA CacheInit == Init => CacheInv
<1> SUFFICES ASSUME Init PROVE CacheInv
  OBVIOUS
<1>1. TypeOK
  BY CacheAssumption DEF Init, TypeOK, Places
<1>2. LockHeld /\ PointersValid /\ OneInodePerIno /\ CountsExact /\ NoChangeLost
  BY CacheAssumption
  DEF Init, LockHeld, PointersValid, PointerValid, OneInodePerIno, CountsExact, Counted, NoChangeLost
<1> QED BY <1>1, <1>2 DEF CacheInv
-----------------------------------------------------------------------------
(* Asking for an inode touches no count yet.                                *)
LEMMA sfs_load_inode_step ==
    ASSUME CacheInv, NEW t \in Threads, NEW i \in Inos, sfs_load_inode(t, i)
    PROVE  CacheInv'
<1>1. TypeOK'
  BY DEF sfs_load_inode, Goto, data, CacheInv, TypeOK, Places
<1>2. /\ pc[t] = "idle" /\ pc'[t] = "locking" /\ want'[t] = i /\ i # NULL
      /\ \A u \in Threads : u # t => pc'[u] = pc[u] /\ want'[u] = want[u]
      /\ UNCHANGED <<node, fs_sem, ino, linked, ref_count, reclaim_count, dirty, din, disk, latest>>
  BY CacheAssumption DEF sfs_load_inode, Goto, data, CacheInv, TypeOK
<1>3. \A n : Users(n)' = Users(n) /\ Reclaimers(n)' = Reclaimers(n)
  BY <1>2 DEF Users, Reclaimers
<1>4. LockHeld'
  BY <1>2 DEF CacheInv, LockHeld
<1>5. PointersValid'
  BY <1>2 DEF CacheInv, PointersValid, PointerValid
<1>6. OneInodePerIno'
  BY <1>2 DEF CacheInv, OneInodePerIno
<1>7. CountsExact'
  BY <1>2, <1>3 DEF CacheInv, CountsExact, Counted
<1>8. NoChangeLost'
  BY <1>2 DEF CacheInv, NoChangeLost
<1> QED BY <1>1, <1>4, <1>5, <1>6, <1>7, <1>8 DEF CacheInv

(* fs_sem is free when it is taken.                                         *)
LEMMA lock_sfs_fs_step ==
    ASSUME CacheInv, NEW t \in Threads, lock_sfs_fs(t)
    PROVE  CacheInv'
<1>1. TypeOK'
  BY DEF lock_sfs_fs, Goto, data, CacheInv, TypeOK, Places
<1>2. /\ pc[t] = "locking" /\ pc'[t] = "lookup" /\ fs_sem = NULL /\ fs_sem' = t
      /\ \A u \in Threads : u # t => pc'[u] = pc[u]
      /\ UNCHANGED <<node, want, ino, linked, ref_count, reclaim_count, dirty, din, disk, latest>>
  BY DEF lock_sfs_fs, Goto, data, CacheInv, TypeOK
<1>3. \A n : Users(n)' = Users(n) /\ Reclaimers(n)' = Reclaimers(n)
  BY <1>2 DEF Users, Reclaimers
<1>4. LockHeld'
  BY <1>2, CacheAssumption DEF CacheInv, LockHeld
<1>5. PointersValid'
  BY <1>2 DEF CacheInv, PointersValid, PointerValid
<1>6. OneInodePerIno'
  BY <1>2 DEF CacheInv, OneInodePerIno
<1>7. CountsExact'
  BY <1>2, <1>3 DEF CacheInv, CountsExact, Counted
<1>8. NoChangeLost'
  BY <1>2 DEF CacheInv, NoChangeLost
<1> QED BY <1>1, <1>4, <1>5, <1>6, <1>7, <1>8 DEF CacheInv

(* A write makes an inode dirty that its user still holds, so it is linked; *)
(* nobody else has it in memory, so its number of changes is the last one.  *)
LEMMA write_step ==
    ASSUME CacheInv, NEW t \in Threads, write(t)
    PROVE  CacheInv'
<1> DEFINE n == node[t]
<1>1. pc[t] = "using" /\ n \in linked /\ n \in Nodes /\ ino[n] \in Inos
  BY DEF write, CacheInv, TypeOK, PointersValid, PointerValid, OneInodePerIno
<1>2. TypeOK'
  BY <1>1 DEF write, CacheInv, TypeOK
<1>3. /\ latest'[ino[n]] = din[n] + 1
      /\ \A i \in Inos : i # ino[n] => latest'[i] = latest[i]
      /\ din'[n] = din[n] + 1 /\ dirty'[n]
      /\ \A m \in Nodes : m # n => din'[m] = din[m] /\ dirty'[m] = dirty[m]
      /\ UNCHANGED <<pc, node, want, fs_sem, ino, linked, ref_count, reclaim_count, disk>>
  BY <1>1 DEF write, CacheInv, TypeOK
<1>4. \A m : Users(m)' = Users(m) /\ Reclaimers(m)' = Reclaimers(m)
  BY <1>3 DEF Users, Reclaimers
<1>5. LockHeld' /\ PointersValid' /\ OneInodePerIno'
  BY <1>3 DEF CacheInv, LockHeld, PointersValid, PointerValid, OneInodePerIno
<1>6. CountsExact'
  BY <1>3, <1>4 DEF CacheInv, CountsExact, Counted
<1>7. NoChangeLost'
  BY <1>1, <1>3 DEF CacheInv, TypeOK, OneInodePerIno, NoChangeLost
<1> QED BY <1>2, <1>5, <1>6, <1>7 DEF CacheInv

(* A block that is counted without a mark only adds to what is in memory.   *)
LEMMA count_block_step ==
    ASSUME CacheInv, NEW t \in Threads, count_block(t)
    PROVE  CacheInv'
<1> DEFINE n == node[t]
<1>1. n \in linked /\ n \in Nodes /\ ino[n] \in Inos
  BY DEF count_block, CacheInv, TypeOK, PointersValid, PointerValid, OneInodePerIno
<1>2. TypeOK'
  BY <1>1 DEF count_block, CacheInv, TypeOK
<1>3. /\ din'[n] = din[n] + 1
      /\ \A m \in Nodes : m # n => din'[m] = din[m]
      /\ UNCHANGED <<pc, node, want, fs_sem, ino, linked, ref_count, reclaim_count>>
      /\ UNCHANGED <<dirty, disk, latest>>
  BY <1>1 DEF count_block, CacheInv, TypeOK
<1>4. \A m : Users(m)' = Users(m) /\ Reclaimers(m)' = Reclaimers(m)
  BY <1>3 DEF Users, Reclaimers
<1>5. LockHeld' /\ PointersValid' /\ OneInodePerIno'
  BY <1>3 DEF CacheInv, LockHeld, PointersValid, PointerValid, OneInodePerIno
<1>6. CountsExact'
  BY <1>3, <1>4 DEF CacheInv, CountsExact, Counted
<1>7. NoChangeLost'
  BY <1>1, <1>3 DEF CacheInv, TypeOK, OneInodePerIno, NoChangeLost
<1> QED BY <1>2, <1>5, <1>6, <1>7 DEF CacheInv

(* A dirty inode of the list is written to disk, by fsync or by sync.       *)
LEMMA WriteBack ==
    ASSUME CacheInv, NEW n \in linked, sfs_fsync(n),
           UNCHANGED <<pc, node, want, fs_sem, ino, linked, ref_count, reclaim_count, din, latest>>
    PROVE  CacheInv'
<1>1. n \in Nodes /\ ino[n] \in Inos
  BY DEF CacheInv, TypeOK, OneInodePerIno
<1>2. TypeOK'
  BY <1>1 DEF sfs_fsync, CacheInv, TypeOK
<1>3. /\ disk'[ino[n]] = din[n] /\ \A i \in Inos : i # ino[n] => disk'[i] = disk[i]
      /\ ~ dirty'[n] /\ \A m \in Nodes : m # n => dirty'[m] = dirty[m]
  BY <1>1 DEF sfs_fsync, CacheInv, TypeOK
<1>4. \A m : Users(m)' = Users(m) /\ Reclaimers(m)' = Reclaimers(m)
  BY DEF Users, Reclaimers
<1>5. LockHeld' /\ PointersValid' /\ OneInodePerIno'
  BY DEF CacheInv, LockHeld, PointersValid, PointerValid, OneInodePerIno
<1>6. CountsExact'
  BY <1>4 DEF CacheInv, CountsExact, Counted
<1>7. NoChangeLost'
  BY <1>1, <1>3 DEF CacheInv, TypeOK, OneInodePerIno, NoChangeLost
<1> QED BY <1>2, <1>5, <1>6, <1>7 DEF CacheInv

(* The structure that is freed is linked nowhere and held by nobody.        *)
LEMMA inode_kill_step ==
    ASSUME CacheInv, NEW t \in Threads, inode_kill(t)
    PROVE  CacheInv'
<1> DEFINE n == node[t]
<1>1. pc[t] = "kill" /\ n \in Nodes /\ n \notin linked /\ \A u \in Threads : u # t => node[u] # n
  BY DEF inode_kill, CacheInv, TypeOK, PointersValid, PointerValid
<1>2. TypeOK'
  BY <1>1 DEF inode_kill, Goto, data, CacheInv, TypeOK, Places
<1>3. /\ pc'[t] = "idle" /\ node'[t] = NULL
      /\ \A u \in Threads : u # t => pc'[u] = pc[u] /\ node'[u] = node[u]
      /\ \A m \in Nodes : m # n => ino'[m] = ino[m]
      /\ UNCHANGED <<want, fs_sem, linked, ref_count, reclaim_count, dirty, din, disk, latest>>
  BY <1>1 DEF inode_kill, Goto, data, CacheInv, TypeOK
<1>4. \A m : Users(m)' = Users(m) /\ Reclaimers(m)' = Reclaimers(m)
  BY <1>1, <1>3 DEF Users, Reclaimers
<1>5. LockHeld'
  BY <1>1, <1>3 DEF CacheInv, LockHeld
<1>6. PointersValid'
  BY <1>1, <1>3 DEF CacheInv, TypeOK, PointersValid, PointerValid
<1>7. \A m \in linked : ino'[m] = ino[m]
  BY <1>1, <1>3 DEF CacheInv, TypeOK
<1>8. OneInodePerIno'
  BY <1>1, <1>3, <1>7 DEF CacheInv, OneInodePerIno
<1>9. CountsExact'
  BY <1>3, <1>4 DEF CacheInv, CountsExact, Counted
<1>10. NoChangeLost'
  BY <1>3, <1>7 DEF CacheInv, NoChangeLost
<1> QED BY <1>2, <1>5, <1>6, <1>8, <1>9, <1>10 DEF CacheInv

(* A thread that holds the lock finds an inode of the list; nobody can be   *)
(* flushing it, and it is in the list, so nobody kills it.                  *)
LEMMA lookup_sfs_nolock_step ==
    ASSUME CacheInv, NEW t \in Threads, lookup_sfs_nolock(t)
    PROVE  CacheInv'
<1> DEFINE found == {n \in linked : ino[n] = want[t]}
<1>1. pc[t] = "lookup" /\ fs_sem = t /\ node[t] = NULL /\ want[t] \in Inos
  BY DEF lookup_sfs_nolock, CacheInv, TypeOK, LockHeld, PointersValid, PointerValid
<1>2. UNCHANGED <<ino, linked, dirty, din, disk, latest>>
  BY DEF lookup_sfs_nolock, data
<1>3. CASE /\ found = {}
           /\ Goto(t, "loading")
           /\ UNCHANGED <<node, want, fs_sem, ref_count, reclaim_count>>
  <2>1. TypeOK'
    BY <1>2, <1>3 DEF Goto, CacheInv, TypeOK, Places
  <2>2. pc'[t] = "loading" /\ \A u \in Threads : u # t => pc'[u] = pc[u]
    BY <1>3 DEF Goto, CacheInv, TypeOK
  <2>3. \A n : Users(n)' = Users(n) /\ Reclaimers(n)' = Reclaimers(n)
    BY <1>1, <1>3, <2>2 DEF Users, Reclaimers
  <2>4. LockHeld' /\ PointersValid'
    BY <1>1, <1>2, <1>3, <2>2 DEF CacheInv, LockHeld, PointersValid, PointerValid
  <2>5. OneInodePerIno'
    BY <1>2, <1>3, <2>2 DEF CacheInv, OneInodePerIno
  <2>6. CountsExact' /\ NoChangeLost'
    BY <1>2, <1>3, <2>3 DEF CacheInv, CountsExact, Counted, NoChangeLost
  <2> QED BY <2>1, <2>4, <2>5, <2>6 DEF CacheInv
<1>4. ASSUME NEW n \in found,
             ref_count' = [ref_count EXCEPT ![n] = @ + 1],
             reclaim_count' = [reclaim_count EXCEPT ![n] = IF ref_count[n] = 0 THEN @ + 1 ELSE @],
             node' = [node EXCEPT ![t] = n],
             want' = [want EXCEPT ![t] = NULL],
             fs_sem' = NULL,
             Goto(t, "using")
      PROVE  CacheInv'
  <2>1. n \in linked /\ n \in Nodes /\ n # NULL
    BY CacheAssumption DEF CacheInv, TypeOK
  <2>2. TypeOK'
    BY <1>2, <1>4, <2>1 DEF Goto, CacheInv, TypeOK, Places
  <2>3. /\ pc'[t] = "using" /\ node'[t] = n /\ want'[t] = NULL /\ fs_sem' = NULL
        /\ \A u \in Threads : u # t =>
             pc'[u] = pc[u] /\ node'[u] = node[u] /\ want'[u] = want[u]
        /\ ref_count'[n] = ref_count[n] + 1
        /\ reclaim_count'[n] = IF ref_count[n] = 0 THEN reclaim_count[n] + 1
                               ELSE reclaim_count[n]
        /\ \A m \in Nodes : m # n =>
             ref_count'[m] = ref_count[m] /\ reclaim_count'[m] = reclaim_count[m]
    BY <1>4, <2>1 DEF Goto, CacheInv, TypeOK
  <2>4. \A u \in Threads : pc[u] \in {"flush", "kill"} => node[u] # n
    BY <1>1, <2>1 DEF CacheInv, LockHeld, PointersValid, PointerValid
  <2>5. /\ Users(n)' = Users(n) \cup {t} /\ t \notin Users(n)
        /\ Reclaimers(n)' = Reclaimers(n)
        /\ \A m : m # n => Users(m)' = Users(m) /\ Reclaimers(m)' = Reclaimers(m)
    BY <1>1, <2>3 DEF Users, Reclaimers
  <2>6. LockHeld'
    BY <1>1, <2>3, CacheAssumption DEF CacheInv, LockHeld
  <2>7. PointersValid'
    <3> SUFFICES ASSUME NEW u \in Threads
                 PROVE  PointerValid(u)'
      BY DEF PointersValid
    <3>1. CASE u = t
      BY <1>2, <2>1, <2>3, <3>1 DEF PointerValid
    <3>2. CASE u # t
      BY <1>2, <2>1, <2>3, <2>4, <3>2 DEF CacheInv, TypeOK, PointersValid, PointerValid
    <3> QED BY <3>1, <3>2
  <2>8. OneInodePerIno'
    BY <1>2, <2>3 DEF CacheInv, OneInodePerIno
  <2>9. CountsExact'
    <3>1. Cardinality(Users(n) \cup {t}) = Cardinality(Users(n)) + 1
      BY <2>5, CountAdd DEF Users
    <3>2. ref_count[n] = 0 <=> Users(n) = {}
      BY <2>1, CountFacts DEF CacheInv, CountsExact, Counted
    <3>3. Counted(n)'
      BY <2>1, <2>3, <2>5, <3>1, <3>2, CountFacts DEF CacheInv, CountsExact, Counted
    <3>4. \A m \in linked : m # n => Counted(m)'
      BY <2>3, <2>5 DEF CacheInv, TypeOK, CountsExact, Counted
    <3> QED BY <1>2, <3>3, <3>4 DEF CountsExact
  <2>10. NoChangeLost'
    BY <1>2 DEF CacheInv, NoChangeLost
  <2> QED BY <2>2, <2>6, <2>7, <2>8, <2>9, <2>10 DEF CacheInv
<1> QED BY <1>3, <1>4 DEF lookup_sfs_nolock

(* Another process gets a reference from one that has it.                   *)
LEMMA vop_ref_inc_step ==
    ASSUME CacheInv, NEW t \in Threads, NEW u \in Threads, vop_ref_inc(t, u)
    PROVE  CacheInv'
<1> DEFINE n == node[t]
<1>1. /\ pc[t] = "using" /\ pc[u] = "idle" /\ u # t
      /\ n \in linked /\ n \in Nodes /\ n # NULL /\ node[u] = NULL /\ t \in Users(n)
  BY CacheAssumption DEF vop_ref_inc, CacheInv, TypeOK, PointersValid, PointerValid, Users
<1>2. TypeOK'
  BY <1>1 DEF vop_ref_inc, Goto, data, CacheInv, TypeOK, Places
<1>3. /\ pc'[u] = "using" /\ node'[u] = n
      /\ \A v \in Threads : v # u => pc'[v] = pc[v] /\ node'[v] = node[v]
      /\ ref_count'[n] = ref_count[n] + 1
      /\ \A m \in Nodes : m # n => ref_count'[m] = ref_count[m]
      /\ UNCHANGED <<want, fs_sem, ino, linked, reclaim_count, dirty, din, disk, latest>>
  BY <1>1 DEF vop_ref_inc, Goto, data, CacheInv, TypeOK
<1>4. \A v \in Threads : pc[v] \in {"flush", "kill"} => node[v] # n
  BY <1>1 DEF CacheInv, PointersValid, PointerValid
<1>5. /\ Users(n)' = Users(n) \cup {u} /\ u \notin Users(n)
      /\ Reclaimers(n)' = Reclaimers(n)
      /\ \A m : m # n => Users(m)' = Users(m) /\ Reclaimers(m)' = Reclaimers(m)
  BY <1>1, <1>3 DEF Users, Reclaimers
<1>6. LockHeld' /\ OneInodePerIno' /\ NoChangeLost'
  BY <1>1, <1>3 DEF CacheInv, LockHeld, OneInodePerIno, NoChangeLost
<1>7. PointersValid'
  <2> SUFFICES ASSUME NEW v \in Threads
               PROVE  PointerValid(v)'
    BY DEF PointersValid
  <2>1. CASE v = u
    <3>1. want[u] = NULL
      BY <1>1 DEF CacheInv, PointersValid, PointerValid
    <3> QED BY <1>1, <1>3, <2>1, <3>1 DEF PointerValid
  <2>2. CASE v # u
    BY <1>1, <1>3, <1>4, <2>2 DEF CacheInv, TypeOK, PointersValid, PointerValid
  <2> QED BY <2>1, <2>2
<1>8. CountsExact'
  <2>1. Cardinality(Users(n) \cup {u}) = Cardinality(Users(n)) + 1
    BY <1>5, CountAdd DEF Users
  <2>2. Counted(n)'
    BY <1>1, <1>3, <1>5, <2>1 DEF CacheInv, CountsExact, Counted
  <2>3. \A m \in linked : m # n => Counted(m)'
    BY <1>3, <1>5 DEF CacheInv, TypeOK, CountsExact, Counted
  <2> QED BY <1>3, <2>2, <2>3 DEF CountsExact
<1> QED BY <1>2, <1>6, <1>7, <1>8 DEF CacheInv

(* Nobody knows a free inode; whoever reads one from disk holds the lock,   *)
(* has found no inode with its number, and there can be no other reader.    *)
LEMMA sfs_create_inode_step ==
    ASSUME CacheInv, NEW t \in Threads, sfs_create_inode(t)
    PROVE  CacheInv'
<1>1. /\ pc[t] = "loading" /\ fs_sem = t /\ node[t] = NULL /\ want[t] \in Inos
      /\ \A m \in linked : ino[m] # want[t]
      /\ \A u \in Threads : u # t => pc[u] \notin {"lookup", "loading", "flush"}
  BY DEF sfs_create_inode, CacheInv, TypeOK, LockHeld, PointersValid, PointerValid, OneInodePerIno
<1>2. /\ want' = [want EXCEPT ![t] = NULL] /\ fs_sem' = NULL /\ UNCHANGED <<disk, latest>>
  BY DEF sfs_create_inode
<1>3. ASSUME NEW n \in Nodes, ino[n] = NULL,
             ino' = [ino EXCEPT ![n] = want[t]],
             linked' = linked \cup {n},
             ref_count' = [ref_count EXCEPT ![n] = 1],
             reclaim_count' = [reclaim_count EXCEPT ![n] = 1],
             dirty' = [dirty EXCEPT ![n] = FALSE],
             din' = [din EXCEPT ![n] = disk[want[t]]],
             node' = [node EXCEPT ![t] = n],
             Goto(t, "using")
      PROVE  CacheInv'
  <2>1. n \notin linked /\ n # NULL /\ want[t] # NULL
    BY <1>1, <1>3, CacheAssumption DEF CacheInv, OneInodePerIno
  <2>2. \A u \in Threads : node[u] # n
    BY <1>3, <2>1 DEF CacheInv, TypeOK, PointersValid, PointerValid, Places
  <2>3. TypeOK'
    BY <1>1, <1>2, <1>3 DEF Goto, CacheInv, TypeOK, Places
  <2>4. /\ pc'[t] = "using" /\ node'[t] = n /\ want'[t] = NULL
        /\ \A u \in Threads : u # t =>
             pc'[u] = pc[u] /\ node'[u] = node[u] /\ want'[u] = want[u]
        /\ ino'[n] = want[t] /\ ref_count'[n] = 1 /\ reclaim_count'[n] = 1
        /\ ~ dirty'[n] /\ din'[n] = disk[want[t]]
        /\ \A m \in Nodes : m # n =>
             /\ ino'[m] = ino[m] /\ ref_count'[m] = ref_count[m]
             /\ reclaim_count'[m] = reclaim_count[m]
             /\ dirty'[m] = dirty[m] /\ din'[m] = din[m]
    BY <1>2, <1>3 DEF Goto, CacheInv, TypeOK
  <2>5. /\ Users(n)' = {t} /\ Reclaimers(n)' = {}
        /\ \A m : m # n => Users(m)' = Users(m) /\ Reclaimers(m)' = Reclaimers(m)
    BY <1>1, <2>2, <2>4 DEF Users, Reclaimers
  <2>6. LockHeld'
    BY <1>1, <1>2, <2>4, CacheAssumption DEF CacheInv, LockHeld
  <2>7. PointersValid'
    <3> SUFFICES ASSUME NEW u \in Threads
                 PROVE  PointerValid(u)'
      BY DEF PointersValid
    <3>1. CASE u = t
      BY <1>3, <2>1, <2>4, <3>1 DEF PointerValid
    <3>2. CASE u # t
      BY <1>2, <1>3, <2>1, <2>2, <2>4, <3>2 DEF CacheInv, TypeOK, PointersValid, PointerValid
    <3> QED BY <3>1, <3>2
  <2>8. \A m \in linked : m \in Nodes /\ m # n
    BY <2>1 DEF CacheInv, TypeOK
  <2>9. OneInodePerIno'
    BY <1>1, <1>3, <2>1, <2>4, <2>8 DEF CacheInv, OneInodePerIno
  <2>10. CountsExact'
    <3>1. Cardinality({t}) = 1 /\ Cardinality({}) = 0
      BY FS_Singleton, FS_EmptySet
    <3>2. Counted(n)'
      BY <2>4, <2>5, <3>1 DEF Counted
    <3>3. \A m \in linked : Counted(m)'
      BY <2>4, <2>5, <2>8 DEF CacheInv, CountsExact, Counted
    <3> QED BY <1>3, <3>2, <3>3 DEF CountsExact
  <2>11. NoChangeLost'
    <3>1. latest[want[t]] <= disk[want[t]] /\ disk[want[t]] \in Nat
      BY <1>1 DEF CacheInv, TypeOK, NoChangeLost
    <3>2. Preserved(n)'
      BY <1>2, <2>4, <3>1 DEF Preserved
    <3>3. \A m \in linked : Preserved(m)'
      BY <1>2, <2>4, <2>8 DEF CacheInv, NoChangeLost, Preserved
    <3>4. \A i \in Inos : (\A m \in linked' : ino'[m] # i) => latest'[i] <= disk'[i]
      BY <1>2, <1>3, <2>4, <2>8 DEF CacheInv, NoChangeLost
    <3> QED BY <1>3, <3>2, <3>3, <3>4 DEF NoChangeLost, Preserved
  <2> QED BY <2>3, <2>6, <2>7, <2>9, <2>10, <2>11 DEF CacheInv
<1>4. CASE /\ Goto(t, "idle")
           /\ UNCHANGED <<node, ino, linked, ref_count, reclaim_count, dirty, din>>
  <2>1. TypeOK'
    BY <1>2, <1>4 DEF Goto, CacheInv, TypeOK, Places
  <2>2. /\ pc'[t] = "idle" /\ want'[t] = NULL
        /\ \A u \in Threads : u # t => pc'[u] = pc[u] /\ want'[u] = want[u]
    BY <1>2, <1>4 DEF Goto, CacheInv, TypeOK
  <2>3. \A n : Users(n)' = Users(n) /\ Reclaimers(n)' = Reclaimers(n)
    BY <1>1, <1>4, <2>2 DEF Users, Reclaimers
  <2>4. LockHeld'
    BY <1>1, <1>2, <2>2, CacheAssumption DEF CacheInv, LockHeld
  <2>5. PointersValid'
    BY <1>1, <1>4, <2>2 DEF CacheInv, PointersValid, PointerValid
  <2>6. OneInodePerIno'
    BY <1>4, <2>2 DEF CacheInv, OneInodePerIno
  <2>7. CountsExact' /\ NoChangeLost'
    BY <1>2, <1>4, <2>3 DEF CacheInv, CountsExact, Counted, NoChangeLost
  <2> QED BY <2>1, <2>4, <2>5, <2>6, <2>7 DEF CacheInv
<1> QED BY <1>2, <1>3, <1>4 DEF sfs_create_inode

(* A user gives its reference back; the last one goes on to reclaim.        *)
LEMMA inode_ref_dec_step ==
    ASSUME CacheInv, NEW t \in Threads, inode_ref_dec(t)
    PROVE  CacheInv'
<1> DEFINE last == ref_count[node[t]] = 1
<1>0. PICK n \in Nodes : n = node[t]
  BY DEF inode_ref_dec, CacheInv, TypeOK, PointersValid, PointerValid
<1>1. /\ pc[t] = "using" /\ n \in linked /\ n # NULL
      /\ t \in Users(n) /\ t \notin Reclaimers(n) /\ want[t] = NULL
  BY <1>0, CacheAssumption
  DEF inode_ref_dec, CacheInv, TypeOK, PointersValid, PointerValid, Users, Reclaimers
<1>2. /\ ref_count[n] = Cardinality(Users(n)) /\ ref_count[n] \in Nat /\ ref_count[n] # 0
      /\ Cardinality(Users(n) \ {t}) = ref_count[n] - 1
      /\ Cardinality(Reclaimers(n) \cup {t}) = Cardinality(Reclaimers(n)) + 1
      /\ (last <=> Users(n) = {t})
  <2>1. ref_count[n] = Cardinality(Users(n))
    BY <1>1 DEF CacheInv, CountsExact, Counted
  <2>2. Cardinality(Users(n)) # 0 /\ Cardinality(Users(n)) \in Nat
    BY <1>1, CountFacts
  <2>3. /\ Cardinality(Users(n) \ {t}) = Cardinality(Users(n)) - 1
        /\ Cardinality(Reclaimers(n) \cup {t}) = Cardinality(Reclaimers(n)) + 1
    BY <1>1, CountAdd DEF Users, Reclaimers
  <2>4. Users(n) = {t} => Cardinality(Users(n)) = 1
    BY FS_Singleton
  <2>5. Cardinality(Users(n)) = 1 => Users(n) = {t}
    BY <1>1, CountFacts
  <2> QED BY <1>0, <2>1, <2>2, <2>3, <2>4, <2>5
<1>3. TypeOK'
  BY <1>0, <1>1, <1>2 DEF inode_ref_dec, Goto, data, CacheInv, TypeOK, Places
<1>4. /\ pc'[t] = IF last THEN "reclaim" ELSE "idle"
      /\ node'[t] = IF last THEN n ELSE NULL
      /\ \A u \in Threads : u # t => pc'[u] = pc[u] /\ node'[u] = node[u]
      /\ ref_count'[n] = ref_count[n] - 1
      /\ \A m \in Nodes : m # n => ref_count'[m] = ref_count[m]
      /\ UNCHANGED <<want, fs_sem, ino, linked, reclaim_count, dirty, din, disk, latest>>
  BY <1>0, <1>1 DEF inode_ref_dec, Goto, data, CacheInv, TypeOK
<1>5. \A u \in Threads : pc[u] \in {"flush", "kill"} => node[u] # n
  BY <1>0, <1>1 DEF CacheInv, PointersValid, PointerValid
<1>6. /\ Users(n)' = Users(n) \ {t}
      /\ Reclaimers(n)' = IF last THEN Reclaimers(n) \cup {t} ELSE Reclaimers(n)
      /\ \A m : m # n => Users(m)' = Users(m) /\ Reclaimers(m)' = Reclaimers(m)
  BY <1>1, <1>4 DEF Users, Reclaimers
<1>7. LockHeld' /\ OneInodePerIno' /\ NoChangeLost'
  BY <1>1, <1>4 DEF CacheInv, LockHeld, OneInodePerIno, NoChangeLost
<1>8. PointersValid'
  <2> SUFFICES ASSUME NEW u \in Threads
               PROVE  PointerValid(u)'
    BY DEF PointersValid
  <2>1. CASE u = t
    BY <1>1, <1>4, <2>1 DEF PointerValid
  <2>2. CASE u # t
    BY <1>1, <1>4, <1>5, <2>2 DEF CacheInv, TypeOK, PointersValid, PointerValid
  <2> QED BY <2>1, <2>2
<1>9. CountsExact'
  <2>1. /\ reclaim_count[n] = Cardinality(Reclaimers(n)) + 1
        /\ Cardinality(Reclaimers(n)) \in Nat
    <3>1. Users(n) # {}
      BY <1>1
    <3> QED BY <1>1, <3>1, CountFacts DEF CacheInv, CountsExact, Counted
  <2>2. Users(n)' = {} <=> last
    BY <1>1, <1>2, <1>6
  <2>3. Counted(n)'
    BY <1>2, <1>4, <1>6, <2>1, <2>2 DEF Counted
  <2>4. \A m \in linked : m # n => Counted(m)'
    BY <1>4, <1>6 DEF CacheInv, TypeOK, CountsExact, Counted
  <2> QED BY <1>4, <2>3, <2>4 DEF CountsExact
<1> QED BY <1>3, <1>7, <1>8, <1>9 DEF CacheInv

(* A thread that has got the lock to reclaim an inode is no longer counted; *)
(* it goes on only if nobody else uses it or waits to reclaim it.           *)
LEMMA sfs_reclaim_step ==
    ASSUME CacheInv, NEW t \in Threads, sfs_reclaim(t)
    PROVE  CacheInv'
<1>0. PICK n \in Nodes : n = node[t]
  BY DEF sfs_reclaim, CacheInv, TypeOK, PointersValid, PointerValid
<1> DEFINE busy == reclaim_count[node[t]] # 1 \/ ref_count[node[t]] # 0
<1>1. /\ pc[t] = "reclaim" /\ n \in linked /\ n # NULL /\ fs_sem = NULL
      /\ t \in Reclaimers(n) /\ t \notin Users(n) /\ want[t] = NULL
  BY <1>0, CacheAssumption
  DEF sfs_reclaim, CacheInv, TypeOK, PointersValid, PointerValid, Users, Reclaimers
<1>2. /\ reclaim_count[n] \in Nat /\ reclaim_count[n] # 0
      /\ Cardinality(Reclaimers(n) \ {t}) = Cardinality(Reclaimers(n)) - 1
      /\ ~ busy => Users(n) = {} /\ Reclaimers(n) = {t}
  <2>1. Counted(n)
    BY <1>1 DEF CacheInv, CountsExact
  <2>2. Cardinality(Reclaimers(n)) # 0 /\ Cardinality(Reclaimers(n)) \in Nat
    BY <1>1, CountFacts
  <2>3. Cardinality(Reclaimers(n) \ {t}) = Cardinality(Reclaimers(n)) - 1
    BY <1>1, CountAdd DEF Reclaimers
  <2>4. reclaim_count[n] \in Nat /\ reclaim_count[n] # 0
    BY <1>1, <2>1, <2>2 DEF Counted, CacheInv, TypeOK
  <2>5. ASSUME ~ busy PROVE Users(n) = {} /\ Reclaimers(n) = {t}
    <3>1. Cardinality(Users(n)) = 0
      BY <1>0, <2>1, <2>5 DEF Counted
    <3>2. Users(n) = {}
      BY <1>1, <3>1, CountFacts
    <3>3. Cardinality(Reclaimers(n)) = 1
      BY <1>0, <2>1, <2>2, <2>5, <3>2 DEF Counted
    <3> QED BY <1>1, <3>2, <3>3, CountFacts
  <2> QED BY <2>3, <2>4, <2>5
<1>3. TypeOK'
  BY <1>0, <1>1, <1>2 DEF sfs_reclaim, Goto, data, CacheInv, TypeOK, Places
<1>4. /\ pc'[t] = IF busy THEN "idle" ELSE "flush"
      /\ node'[t] = IF busy THEN NULL ELSE n
      /\ fs_sem' = IF busy THEN NULL ELSE t
      /\ \A u \in Threads : u # t => pc'[u] = pc[u] /\ node'[u] = node[u]
      /\ reclaim_count'[n] = reclaim_count[n] - 1
      /\ \A m \in Nodes : m # n => reclaim_count'[m] = reclaim_count[m]
      /\ UNCHANGED <<want, ino, linked, ref_count, dirty, din, disk, latest>>
  BY <1>0, <1>1 DEF sfs_reclaim, Goto, data, CacheInv, TypeOK
<1>5. \A u \in Threads : pc[u] \in {"flush", "kill"} => node[u] # n
  BY <1>0, <1>1 DEF CacheInv, PointersValid, PointerValid
<1>6. /\ Users(n)' = Users(n)
      /\ Reclaimers(n)' = Reclaimers(n) \ {t}
      /\ \A m : m # n => Users(m)' = Users(m) /\ Reclaimers(m)' = Reclaimers(m)
  BY <1>0, <1>1, <1>4 DEF Users, Reclaimers
<1>7. LockHeld' /\ OneInodePerIno' /\ NoChangeLost'
  BY <1>1, <1>4, CacheAssumption DEF CacheInv, LockHeld, OneInodePerIno, NoChangeLost
<1>8. PointersValid'
  <2>1. ASSUME ~ busy, NEW u \in Threads, u # t PROVE node[u] # n
    BY <1>1, <1>2, <1>5, <2>1
    DEF CacheInv, TypeOK, PointersValid, PointerValid, Users, Reclaimers, Places
  <2> SUFFICES ASSUME NEW u \in Threads
               PROVE  PointerValid(u)'
    BY DEF PointersValid
  <2>2. CASE u = t
    <3>1. CASE busy
      BY <1>1, <1>4, <2>2, <3>1 DEF PointerValid
    <3>2. CASE ~ busy
      <4>1. ref_count'[n] = 0 /\ reclaim_count'[n] = 0
        BY <1>0, <1>4, <3>2
      <4>2. \A v \in Threads : v # t => node'[v] # n
        BY <1>4, <2>1, <3>2
      <4> QED BY <1>1, <1>4, <2>2, <3>2, <4>1, <4>2 DEF PointerValid
    <3> QED BY <3>1, <3>2
  <2>3. CASE u # t
    BY <1>1, <1>4, <1>5, <2>3 DEF CacheInv, TypeOK, PointersValid, PointerValid
  <2> QED BY <2>2, <2>3
<1>9. CountsExact'
  <2>1. Counted(n)'
    <3>1. /\ reclaim_count[n] = Cardinality(Reclaimers(n)) + IF Users(n) = {} THEN 0 ELSE 1
          /\ ref_count[n] = Cardinality(Users(n))
          /\ Cardinality(Reclaimers(n)) \in Nat
      BY <1>1, CountFacts DEF CacheInv, CountsExact, Counted
    <3> QED BY <1>2, <1>4, <1>6, <3>1 DEF Counted
  <2>2. \A m \in linked : m # n => Counted(m)'
    BY <1>4, <1>6 DEF CacheInv, TypeOK, CountsExact, Counted
  <2> QED BY <1>4, <2>1, <2>2 DEF CountsExact
<1> QED BY <1>3, <1>7, <1>8, <1>9 DEF CacheInv

(* The inode leaves the list, and what it leaves on the disk is not behind; *)
(* or it cannot be written and stays, with nobody to count.                 *)
LEMMA sfs_remove_links_step ==
    ASSUME CacheInv, NEW t \in Threads, sfs_remove_links(t)
    PROVE  CacheInv'
<1>0. PICK n \in Nodes : n = node[t]
  BY DEF sfs_remove_links, CacheInv, TypeOK, PointersValid, PointerValid
<1>1. /\ pc[t] = "flush" /\ fs_sem = t /\ n \in linked /\ n # NULL /\ want[t] = NULL
      /\ ino[n] \in Inos /\ ref_count[n] = 0 /\ reclaim_count[n] = 0
      /\ \A u \in Threads : u # t => node[u] # n
      /\ \A u \in Threads : u # t => pc[u] \notin {"lookup", "loading", "flush"}
  BY <1>0, CacheAssumption
  DEF sfs_remove_links, CacheInv, TypeOK, LockHeld, PointersValid, PointerValid, OneInodePerIno
<1>2. fs_sem' = NULL /\ UNCHANGED <<want, ino, ref_count, reclaim_count, din, latest>>
  BY DEF sfs_remove_links
<1>3. CASE /\ IF dirty[n] THEN sfs_fsync(n) ELSE UNCHANGED <<dirty, disk>>
           /\ linked' = linked \ {n}
           /\ Goto(t, "kill")
           /\ UNCHANGED node
  <2>1. TypeOK'
    <3>1. dirty' \in [Nodes -> BOOLEAN] /\ disk' \in [Inos -> Nat]
      BY <1>1, <1>3 DEF sfs_fsync, CacheInv, TypeOK
    <3>2. pc' \in [Threads -> Places] /\ linked' \in SUBSET Nodes
      BY <1>3 DEF Goto, CacheInv, TypeOK, Places
    <3> QED BY <1>2, <1>3, <3>1, <3>2 DEF CacheInv, TypeOK
  <2>2. /\ pc'[t] = "kill" /\ \A u \in Threads : u # t => pc'[u] = pc[u]
        /\ \A m \in Nodes : m # n => dirty'[m] = dirty[m]
        /\ latest[ino[n]] <= disk'[ino[n]]
        /\ \A i \in Inos : i # ino[n] => disk'[i] = disk[i]
    BY <1>1, <1>3 DEF sfs_fsync, Goto, CacheInv, TypeOK, NoChangeLost
  <2>3. \A m : Users(m)' = Users(m) /\ Reclaimers(m)' = Reclaimers(m)
    BY <1>1, <1>3, <2>2 DEF Users, Reclaimers
  <2>4. LockHeld'
    BY <1>1, <1>2, <2>2, CacheAssumption DEF CacheInv, LockHeld
  <2>5. PointersValid'
    <3> SUFFICES ASSUME NEW u \in Threads
                 PROVE  PointerValid(u)'
      BY DEF PointersValid
    <3>1. CASE u = t
      BY <1>0, <1>1, <1>2, <1>3, <2>2, <3>1, CacheAssumption DEF PointerValid
    <3>2. CASE u # t
      BY <1>1, <1>2, <1>3, <2>2, <3>2 DEF CacheInv, TypeOK, PointersValid, PointerValid
    <3> QED BY <3>1, <3>2
  <2>6. OneInodePerIno'
    BY <1>1, <1>2, <1>3, <2>2 DEF CacheInv, OneInodePerIno
  <2>7. CountsExact'
    BY <1>2, <1>3, <2>3 DEF CacheInv, CountsExact, Counted
  <2>8. NoChangeLost'
    <3>1. \A m \in linked' : m \in linked /\ m \in Nodes /\ m # n /\ ino[m] \in Inos /\ ino[m] # ino[n]
      BY <1>1, <1>3 DEF CacheInv, TypeOK, OneInodePerIno
    <3>2. \A m \in linked' : Preserved(m)'
      BY <1>2, <2>2, <3>1 DEF CacheInv, NoChangeLost, Preserved
    <3>3. ASSUME NEW i \in Inos, \A m \in linked' : ino'[m] # i PROVE latest'[i] <= disk'[i]
      <4>1. CASE i = ino[n]
        BY <1>1, <1>2, <2>2, <4>1 DEF CacheInv, NoChangeLost
      <4>2. CASE i # ino[n]
        BY <1>2, <1>3, <2>2, <3>3, <4>2 DEF CacheInv, NoChangeLost
      <4> QED BY <4>1, <4>2
    <3> QED BY <3>2, <3>3 DEF NoChangeLost, Preserved
  <2> QED BY <2>1, <2>4, <2>5, <2>6, <2>7, <2>8 DEF CacheInv
<1>4. CASE /\ dirty[n]
           /\ Goto(t, "idle")
           /\ node' = [node EXCEPT ![t] = NULL]
           /\ UNCHANGED <<linked, dirty, disk>>
  <2>1. TypeOK'
    BY <1>2, <1>4 DEF Goto, CacheInv, TypeOK, Places
  <2>2. /\ pc'[t] = "idle" /\ node'[t] = NULL
        /\ \A u \in Threads : u # t => pc'[u] = pc[u] /\ node'[u] = node[u]
    BY <1>4 DEF Goto, CacheInv, TypeOK
  <2>3. \A m : Users(m)' = Users(m) /\ Reclaimers(m)' = Reclaimers(m)
    BY <1>1, <2>2 DEF Users, Reclaimers
  <2>4. LockHeld'
    BY <1>1, <1>2, <2>2, CacheAssumption DEF CacheInv, LockHeld
  <2>5. PointersValid'
    <3> SUFFICES ASSUME NEW u \in Threads
                 PROVE  PointerValid(u)'
      BY DEF PointersValid
    <3>1. CASE u = t
      BY <1>1, <1>2, <2>2, <3>1 DEF PointerValid
    <3>2. CASE u # t
      BY <1>1, <1>2, <1>4, <2>2, <3>2, CacheAssumption
      DEF CacheInv, TypeOK, PointersValid, PointerValid
    <3> QED BY <3>1, <3>2
  <2>6. OneInodePerIno'
    BY <1>1, <1>2, <1>4, <2>2 DEF CacheInv, OneInodePerIno
  <2>7. CountsExact' /\ NoChangeLost'
    BY <1>2, <1>4, <2>3 DEF CacheInv, CountsExact, Counted, NoChangeLost
  <2> QED BY <2>1, <2>4, <2>5, <2>6, <2>7 DEF CacheInv
<1> QED BY <1>0, <1>3, <1>4 DEF sfs_remove_links
-----------------------------------------------------------------------------
(* Every step of InodeCache keeps the invariant.                            *)
LEMMA CacheStep == CacheInv /\ [Next]_vars => CacheInv'
<1> SUFFICES ASSUME CacheInv, [Next]_vars PROVE CacheInv'
  OBVIOUS
<1>1. ASSUME NEW t \in Threads, fsync(t) PROVE CacheInv'
  <2>1. node[t] \in linked
    BY <1>1 DEF fsync, CacheInv, PointersValid, PointerValid
  <2> QED BY <1>1, <2>1, WriteBack DEF fsync
<1>2. ASSUME NEW n \in Nodes, sfs_sync(n) PROVE CacheInv'
  BY <1>2, WriteBack DEF sfs_sync
<1>3. CASE UNCHANGED vars
  <2>1. \A m : Users(m)' = Users(m) /\ Reclaimers(m)' = Reclaimers(m)
    BY <1>3 DEF vars, Users, Reclaimers
  <2>2. TypeOK' /\ LockHeld' /\ PointersValid' /\ OneInodePerIno' /\ NoChangeLost'
    BY <1>3 DEF vars, CacheInv, TypeOK, LockHeld, PointersValid, PointerValid,
                OneInodePerIno, NoChangeLost
  <2>3. CountsExact'
    BY <1>3, <2>1 DEF vars, CacheInv, CountsExact, Counted
  <2> QED BY <2>2, <2>3 DEF CacheInv
<1> QED
  BY <1>1, <1>2, <1>3, sfs_load_inode_step, lock_sfs_fs_step, lookup_sfs_nolock_step,
     sfs_create_inode_step, vop_ref_inc_step, write_step, count_block_step, inode_ref_dec_step,
     sfs_reclaim_step, sfs_remove_links_step, inode_kill_step DEF Next

(* However sfs_load_inode, inode_ref_dec, sfs_fsync and sfs_reclaim of any  *)
(* number of threads interleave: an inode number is in memory once, the     *)
(* counts are exact, no thread has an inode that is gone, and no change     *)
(* that set dirty is lost.                                                  *)
THEOREM CacheInvariant == Spec => []CacheInv
BY CacheInit, CacheStep, PTL DEF Spec

-----------------------------------------------------------------------------
(***************************************************************************)
(* Open file tables.  FileInv is inductive, but the counts are not counted *)
(* directly: a step changes the table of one process, so a process's own   *)
(* uses of an inode, its open entries, its working directory and its call, *)
(* are compared before and after (CountsFollow), and an entry at a time    *)
(* where the step takes or gives up one entry (EntryStep).                 *)
(***************************************************************************)

(* The least of a non-empty set of descriptors is one of them.              *)
LEMMA MinInside ==
  ASSUME NEW S \in SUBSET Nat, S # {}
  PROVE  Min(S) \in S
<1> DEFINE R == {ss \in Nat \X Nat : ss[1] < ss[2]}
<1>1. IsWellFoundedOn(R, Nat)
  BY NatLessThanWellFounded DEF OpToRel
<1>2. \A k, m \in S : k < m => <<k, m>> \in R
  OBVIOUS
<1> HIDE DEF R
<1>3. \E m \in S : \A k \in S : <<k, m>> \notin R
  BY <1>1, WFMin
<1>4. PICK m \in S : \A k \in S : ~ (k < m)
  BY <1>2, <1>3
<1>5. \A k \in S : m <= k
  BY <1>4
<1> QED BY <1>5 DEF Min

(* As many descriptors as pairs of a process and such a descriptor.         *)
LEMMA PairCount ==
  ASSUME NEW p, NEW S, IsFiniteSet(S)
  PROVE  /\ IsFiniteSet({p} \X S)
         /\ Cardinality({p} \X S) = Cardinality(S)
<1> DEFINE f == [x \in S |-> <<p, x>>]
<1>1. f \in Bijection(S, {p} \X S)
  BY DEF Bijection, Injection, Surjection, IsInjective
<1> QED BY <1>1, FS_Bijection DEF ExistsBijection

Is(j, i) == IF j = i THEN 1 ELSE 0

(* A count that loses some and gains some.                                  *)
Moved(new, old, gone, come) == new = old - gone + come

(* The entries of one table that are open on i, or being opened.            *)
RowUsers(row, i) == {fd \in Fds : row[fd].node = i}
(* The same in all tables: Holders(i) counts them.                          *)
TableUsers(table, i) == {e \in Procs \X Fds : table[e[1]][e[2]].node = i}

(* The descriptors and processes are finite sets, so their users can be     *)
(* counted.                                                                 *)
LEMMA FdsFinite ==
  /\ IsFiniteSet(Fds) /\ IsFiniteSet(Procs) /\ IsFiniteSet(Procs \X Fds)
  /\ Fds \in SUBSET Nat
  /\ \A row, i : IsFiniteSet(RowUsers(row, i)) /\ Cardinality(RowUsers(row, i)) \in Nat
  /\ \A table, i : IsFiniteSet(TableUsers(table, i)) /\ Cardinality(TableUsers(table, i)) \in Nat
<1>1. NENTRY \in Nat /\ IsFiniteSet(Procs)
  BY FileAssumption
<1>2. IsFiniteSet(Fds) /\ Fds \in SUBSET Nat
  BY <1>1, FS_Interval DEF Fds
<1>3. IsFiniteSet(Procs \X Fds)
  BY <1>1, <1>2, FS_Product
<1>4. \A row, i : RowUsers(row, i) \in SUBSET Fds
  BY DEF RowUsers
<1>5. \A table, i : TableUsers(table, i) \in SUBSET (Procs \X Fds)
  BY DEF TableUsers
<1>6. \A row, i : IsFiniteSet(RowUsers(row, i))
  BY <1>2, <1>4, FS_Subset
<1>7. \A table, i : IsFiniteSet(TableUsers(table, i))
  BY <1>3, <1>5, FS_Subset
<1> QED BY <1>1, <1>2, <1>3, <1>6, <1>7, FS_CardinalityType

(* The table of one process changes.                                        *)
LEMMA RowChanged ==
  ASSUME NEW t, NEW u, NEW p \in Procs, NEW i,
         \A q \in Procs \ {p} : u[q] = t[q]
  PROVE  Moved(Cardinality(TableUsers(u, i)), Cardinality(TableUsers(t, i)),
               Cardinality(RowUsers(t[p], i)), Cardinality(RowUsers(u[p], i)))
<1> DEFINE rest == {e \in (Procs \ {p}) \X Fds : t[e[1]][e[2]].node = i}
<1>1. rest \subseteq TableUsers(t, i)
  BY DEF TableUsers
<1>2. IsFiniteSet(rest) /\ Cardinality(rest) \in Nat
  BY <1>1, FdsFinite, FS_Subset, FS_CardinalityType
<1>3. TableUsers(t, i) = rest \cup ({p} \X RowUsers(t[p], i))
  BY DEF TableUsers, RowUsers
<1>4. TableUsers(u, i) = rest \cup ({p} \X RowUsers(u[p], i))
  BY DEF TableUsers, RowUsers
<1>5. \A S : rest \cap ({p} \X S) = {}
  OBVIOUS
<1> HIDE DEF rest
<1>6. ASSUME NEW row
      PROVE  Cardinality(rest \cup ({p} \X RowUsers(row, i))) =
               Cardinality(rest) + Cardinality(RowUsers(row, i))
  <2>1. /\ IsFiniteSet({p} \X RowUsers(row, i))
        /\ Cardinality({p} \X RowUsers(row, i)) = Cardinality(RowUsers(row, i))
    BY FdsFinite, PairCount
  <2>2. Cardinality(rest \cap ({p} \X RowUsers(row, i))) = 0
    BY <1>5, FS_EmptySet
  <2>3. Cardinality(RowUsers(row, i)) \in Nat
    BY FdsFinite
  <2> DEFINE mine == {p} \X RowUsers(row, i)
  <2> HIDE DEF mine
  <2>4. Cardinality(rest \cup mine) =
          Cardinality(rest) + Cardinality(mine) - Cardinality(rest \cap mine)
    BY <1>2, <2>1, FS_Union DEF mine
  <2> QED BY <1>2, <2>1, <2>2, <2>3, <2>4 DEF mine
<1> QED BY <1>2, <1>3, <1>4, <1>6, FdsFinite DEF Moved

(* One entry of a table changes.                                            *)
LEMMA EntryChanged ==
  ASSUME NEW t, NEW u, NEW fd \in Fds, NEW i,
         \A g \in Fds \ {fd} : u[g].node = t[g].node
  PROVE  Moved(Cardinality(RowUsers(u, i)), Cardinality(RowUsers(t, i)),
               Is(t[fd].node, i), Is(u[fd].node, i))
<1> DEFINE rest == RowUsers(t, i) \ {fd}
<1>1. /\ IsFiniteSet(rest)
      /\ Cardinality(rest) = Cardinality(RowUsers(t, i)) - (IF t[fd].node = i THEN 1 ELSE 0)
  <2>1. IsFiniteSet(RowUsers(t, i)) /\ Cardinality(RowUsers(t, i)) \in Nat
    BY FdsFinite
  <2>2. fd \in RowUsers(t, i) <=> t[fd].node = i
    BY DEF RowUsers
  <2>3. CASE t[fd].node = i
    BY <2>1, <2>2, <2>3, FS_RemoveElement
  <2>4. CASE t[fd].node # i
    <3>1. rest = RowUsers(t, i)
      BY <2>2, <2>4
    <3>2. IsFiniteSet(rest) /\ Cardinality(rest) = Cardinality(RowUsers(t, i))
      BY <2>1, <3>1
    <3>3. Cardinality(RowUsers(t, i)) - 0 = Cardinality(RowUsers(t, i))
      BY <2>1
    <3> HIDE DEF rest
    <3> QED BY <2>4, <3>2, <3>3
  <2> QED BY <2>3, <2>4
<1>2. RowUsers(u, i) = IF u[fd].node = i THEN rest \cup {fd} ELSE rest
  BY DEF RowUsers
<1>3. fd \notin rest
  OBVIOUS
<1> HIDE DEF rest
<1>4. Cardinality(rest \cup {fd}) = Cardinality(rest) + 1
  BY <1>1, <1>3, FS_AddElement
<1> QED BY <1>1, <1>2, <1>4, FdsFinite DEF Moved, Is

(* The users of an inode in a table depend on the nodes of its entries only.*)
LEMMA RowKept ==
  ASSUME NEW t, NEW u, NEW i, \A g \in Fds : u[g].node = t[g].node
  PROVE  RowUsers(u, i) = RowUsers(t, i)
BY DEF RowUsers

Entry == [status : {"FD_NONE", "FD_INIT", "FD_OPENED"}, node : Inodes \cup {NULL}, open_count : 0 .. 2]

(* EntriesAgree for one entry f; `busy': the call at work is about it.      *)
EntryOK(f, busy) ==
  /\ f.status = "FD_NONE" <=> f.node = NULL
  /\ f.status = "FD_INIT" => busy
  /\ f.open_count = IF f.status # "FD_OPENED" THEN 0 ELSE IF busy THEN 2 ELSE 1

(* The parts of FileInv that every operation needs, with the types of the   *)
(* entries.                                                                 *)
LEMMA TableFacts ==
  ASSUME FileInv
  PROVE  /\ proc \in [Procs -> {"none", "kernel", "user", "left"}]
         /\ fd_array \in [Procs -> [Fds -> Entry]]
         /\ pwd \in [Procs -> Inodes \cup {NULL}] /\ call \in [Procs -> Fds \cup {NULL}]
         /\ inode_ref_count \in [Inodes -> Nat] /\ inode_open_count \in [Inodes -> Nat]
         /\ lost \in [Inodes -> Nat]
         /\ NULL \notin Inodes /\ NULL \notin Fds
         /\ \A p \in Procs : \A fd \in Fds : EntryOK(fd_array[p][fd], call[p] = fd)
         /\ \A p \in Procs : \A fd \in Fds :
              fd_array[p][fd].node \in Inodes <=> fd_array[p][fd].status # "FD_NONE"
<1>1. TableTypeOK /\ NULL \notin Inodes /\ NULL \notin Fds
  BY FileAssumption DEF FileInv, Inodes, Fds
<1>2. \A p \in Procs : \A fd \in Fds : EntryOK(fd_array[p][fd], call[p] = fd)
  BY DEF FileInv, EntriesAgree, EntryOK
<1>3. fd_array \in [Procs -> [Fds -> Entry]]
  BY <1>1 DEF TableTypeOK, Entry
<1>4. ASSUME NEW p \in Procs, NEW fd \in Fds
      PROVE  fd_array[p][fd].node \in Inodes <=> fd_array[p][fd].status # "FD_NONE"
  <2>1. fd_array[p][fd] \in Entry
    BY <1>3
  <2> QED BY <1>1, <1>2, <2>1 DEF Entry, EntryOK
<1> QED BY <1>1, <1>2, <1>3, <1>4 DEF TableTypeOK

(* What a step adds to the counts is what it adds to the entries of p and   *)
(* to its working directory.                                                *)
CountsFollow(p) ==
  \A i \in Inodes :
     /\ inode_open_count'[i] = inode_open_count[i]
          - Cardinality(RowUsers(fd_array[p], i)) + Cardinality(RowUsers(fd_array'[p], i))
     /\ inode_ref_count'[i] - lost'[i] = inode_ref_count[i] - lost[i]
          - Cardinality(RowUsers(fd_array[p], i)) + Cardinality(RowUsers(fd_array'[p], i))
          - (IF pwd[p] = i THEN 1 ELSE 0) + (IF pwd'[p] = i THEN 1 ELSE 0)

(* The step leaves the other processes alone.                               *)
OthersRest(p) ==
  \A q \in Procs \ {p} :
     fd_array'[q] = fd_array[q] /\ pwd'[q] = pwd[q] /\ call'[q] = call[q] /\ proc'[q] = proc[q]

CountTypes ==
  /\ inode_open_count' \in [Inodes -> Int] /\ inode_ref_count' \in [Inodes -> Int]
  /\ lost' \in [Inodes -> Nat]

(* If the counts follow what p's table gained and lost they still agree with*)
(* all tables.                                                              *)
LEMMA CountsKept ==
  ASSUME FileInv, NEW p \in Procs, OthersRest(p), CountsFollow(p), CountTypes
  PROVE  /\ UsersCounted'
         /\ inode_open_count' \in [Inodes -> Nat] /\ inode_ref_count' \in [Inodes -> Nat]
<1> USE DEF OthersRest, CountsFollow, CountTypes
<1>1. ASSUME NEW i \in Inodes
      PROVE  /\ Holders(i) \in Nat /\ Holders(i)' \in Nat
             /\ Holders(i)' = Holders(i)
                  - Cardinality(RowUsers(fd_array[p], i)) + Cardinality(RowUsers(fd_array'[p], i))
  <2>1. Holders(i) = Cardinality(TableUsers(fd_array, i))
        /\ Holders(i)' = Cardinality(TableUsers(fd_array', i))
    BY DEF Holders, TableUsers
  <2>2. Moved(Cardinality(TableUsers(fd_array', i)), Cardinality(TableUsers(fd_array, i)),
              Cardinality(RowUsers(fd_array[p], i)), Cardinality(RowUsers(fd_array'[p], i)))
    BY RowChanged
  <2> QED BY <2>1, <2>2, FdsFinite DEF Moved
<1>2. ASSUME NEW i \in Inodes
      PROVE  /\ Dwellers(i) \in Nat /\ Dwellers(i)' \in Nat
             /\ Dwellers(i)' = Dwellers(i)
                  - (IF pwd[p] = i THEN 1 ELSE 0) + (IF pwd'[p] = i THEN 1 ELSE 0)
  <2> DEFINE D == {q \in Procs : pwd[q] = i}
             E == {q \in Procs : pwd'[q] = i}
  <2>1. IsFiniteSet(D) /\ IsFiniteSet(E)
    BY FdsFinite, FS_Subset
  <2>2. IsFiniteSet(D \ {p})
        /\ Cardinality(D \ {p}) = Cardinality(D) - (IF pwd[p] = i THEN 1 ELSE 0)
    <3>1. p \in D <=> pwd[p] = i
      OBVIOUS
    <3> HIDE DEF D
    <3>2. Cardinality(D) \in Nat
      BY <2>1, FS_CardinalityType
    <3> QED BY <2>1, <3>1, <3>2, FS_RemoveElement
  <2>3. E = IF pwd'[p] = i THEN (D \ {p}) \cup {p} ELSE D \ {p}
    OBVIOUS
  <2>4. Cardinality((D \ {p}) \cup {p}) = Cardinality(D \ {p}) + 1
    BY <2>2, FS_AddElement
  <2>5. Cardinality(D) \in Nat /\ Cardinality(E) \in Nat
    BY <2>1, FS_CardinalityType
  <2>6. Dwellers(i) = Cardinality(D) /\ Dwellers(i)' = Cardinality(E)
    BY DEF Dwellers
  <2> HIDE DEF D, E
  <2> QED BY <2>2, <2>3, <2>4, <2>5, <2>6
<1>3. \A i \in Inodes : Kept(i) \in Nat /\ Kept(i)' = Kept(i)
  BY DEF Kept
<1>4. ASSUME NEW i \in Inodes
      PROVE  /\ inode_open_count'[i] = Holders(i)'
             /\ inode_ref_count'[i] = Kept(i)' + Holders(i)' + Dwellers(i)' + lost'[i]
             /\ inode_open_count'[i] \in Nat /\ inode_ref_count'[i] \in Nat
  <2>1. /\ inode_open_count[i] = Holders(i)
        /\ inode_ref_count[i] = Kept(i) + Holders(i) + Dwellers(i) + lost[i]
    BY DEF FileInv, UsersCounted
  <2>2. /\ inode_open_count[i] \in Nat /\ inode_ref_count[i] \in Nat /\ lost[i] \in Nat
        /\ inode_ref_count'[i] \in Int /\ lost'[i] \in Nat
    BY TableFacts
  <2>3. /\ Cardinality(RowUsers(fd_array[p], i)) \in Nat
        /\ Cardinality(RowUsers(fd_array'[p], i)) \in Nat
    BY FdsFinite
  <2> DEFINE a == Cardinality(RowUsers(fd_array[p], i))
             b == Cardinality(RowUsers(fd_array'[p], i))
             c == IF pwd[p] = i THEN 1 ELSE 0
             d == IF pwd'[p] = i THEN 1 ELSE 0
  <2>4. /\ a \in Nat /\ b \in Nat /\ c \in Nat /\ d \in Nat
        /\ inode_open_count'[i] = inode_open_count[i] - a + b
        /\ inode_ref_count'[i] - lost'[i] = inode_ref_count[i] - lost[i] - a + b - c + d
        /\ Holders(i)' = Holders(i) - a + b
        /\ Dwellers(i)' = Dwellers(i) - c + d
    BY <1>1, <1>2, <2>3
  <2> HIDE DEF a, b, c, d
  <2>5. Kept(i) \in Nat /\ Kept(i)' = Kept(i) /\ Holders(i) \in Nat /\ Holders(i)' \in Nat
        /\ Dwellers(i) \in Nat /\ Dwellers(i)' \in Nat
    BY <1>1, <1>2, <1>3
  <2> QED BY <2>1, <2>2, <2>4, <2>5
<1> QED BY <1>4 DEF UsersCounted

(* What an operation of p has to show of p alone so that FileInv holds after*)
(* it.                                                                      *)
LEMMA StepKeeps ==
  ASSUME FileInv, NEW p \in Procs, OthersRest(p), CountsFollow(p), CountTypes,
         proc' \in [Procs -> {"none", "kernel", "user", "left"}],
         fd_array' \in [Procs -> [Fds -> Entry]],
         pwd' \in [Procs -> Inodes \cup {NULL}], call' \in [Procs -> Fds \cup {NULL}],
         \A fd \in Fds : EntryOK(fd_array'[p][fd], call'[p] = fd),
         proc'[p] = "none" => fd_array'[p] = EmptyTable /\ pwd'[p] = NULL /\ call'[p] = NULL
  PROVE  FileInv'
<1>1. UsersCounted' /\ TableTypeOK'
  BY CountsKept DEF TableTypeOK, Entry, CountTypes
<1>2. EntriesAgree'
  <2>1. \A q \in Procs : \A fd \in Fds : EntryOK(fd_array'[q][fd], call'[q] = fd)
    BY TableFacts DEF OthersRest
  <2> QED BY <2>1 DEF EntriesAgree, EntryOK
<1>3. UnusedEmpty'
  BY DEF FileInv, UnusedEmpty, OthersRest, EmptyTable, NoFile
<1> QED BY <1>1, <1>2, <1>3 DEF FileInv

(* Only one entry fd of p changes.                                          *)
LEMMA OneEntry ==
  ASSUME FileInv, NEW p \in Procs, NEW fd \in Fds, NEW f \in Entry, NEW i,
         fd_array' = [fd_array EXCEPT ![p] = [fd_array[p] EXCEPT ![fd] = f]]
  PROVE  /\ Cardinality(RowUsers(fd_array[p], i)) \in Nat
         /\ Cardinality(RowUsers(fd_array'[p], i)) = Cardinality(RowUsers(fd_array[p], i))
              - Is(fd_array[p][fd].node, i) + Is(f.node, i)
<1>1. fd_array'[p] = [fd_array[p] EXCEPT ![fd] = f]
      /\ fd_array[p] \in [Fds -> Entry]
  BY TableFacts
<1>2. fd_array'[p][fd] = f /\ \A g \in Fds \ {fd} : fd_array'[p][g].node = fd_array[p][g].node
  BY <1>1
<1>3. Moved(Cardinality(RowUsers(fd_array'[p], i)), Cardinality(RowUsers(fd_array[p], i)),
            Is(fd_array[p][fd].node, i), Is(fd_array'[p][fd].node, i))
  BY <1>2, EntryChanged
<1>4. Cardinality(RowUsers(fd_array[p], i)) \in Nat
  BY FdsFinite
<1> QED BY <1>2, <1>3, <1>4 DEF Moved

(* Between two calls of p each of its entries is open on an inode or free.  *)
LEMMA AllOpen ==
  ASSUME FileInv, NEW p \in Procs, call[p] = NULL, NEW fd \in Fds
  PROVE  \/ fd_array[p][fd].status = "FD_OPENED" /\ fd_array[p][fd].node \in Inodes
         \/ fd_array[p][fd] = NoFile
<1>1. /\ fd_array[p][fd] \in Entry /\ EntryOK(fd_array[p][fd], call[p] = fd)
      /\ call[p] # fd /\ NULL \notin Inodes
  BY TableFacts
<1>2. \A f \in Entry : f = [status |-> f.status, node |-> f.node, open_count |-> f.open_count]
  BY DEF Entry
<1> QED BY <1>1, <1>2 DEF Entry, EntryOK, NoFile

(* Between two calls all entries of a process are free or open, so what is  *)
(* counted for all of them is the number of its users.                      *)
LEMMA UsesAll ==
  ASSUME FileInv, NEW p \in Procs, call[p] = NULL, NEW i \in Inodes
  PROVE  Uses(p, Fds, i) = Cardinality(RowUsers(fd_array[p], i))
<1>1. \A fd \in Fds : fd_array[p][fd].node = i => fd_array[p][fd].status = "FD_OPENED"
  BY AllOpen, TableFacts DEF NoFile
<1>2. {fd \in Fds \cap OpenFds(p) : fd_array[p][fd].node = i} = RowUsers(fd_array[p], i)
  BY <1>1 DEF OpenFds, RowUsers
<1> QED BY <1>2 DEF Uses

(* Closing the entries `fds' takes away those of the users that they are.   *)
LEMMA UsesSome ==
  ASSUME FileInv, NEW p \in Procs, call[p] = NULL, NEW fds \in SUBSET Fds, NEW i \in Inodes,
         NEW table, \A fd \in Fds : table[fd] = IF fd \in fds THEN NoFile ELSE fd_array[p][fd]
  PROVE  /\ Uses(p, fds, i) \in Nat
         /\ Cardinality(RowUsers(table, i)) = Cardinality(RowUsers(fd_array[p], i)) - Uses(p, fds, i)
<1> DEFINE closed == {fd \in fds \cap OpenFds(p) : fd_array[p][fd].node = i}
<1>1. \A fd \in Fds : fd_array[p][fd].node = i => fd_array[p][fd].status = "FD_OPENED"
  BY AllOpen, TableFacts DEF NoFile
<1>2. RowUsers(table, i) = RowUsers(fd_array[p], i) \ closed
  BY <1>1, TableFacts DEF RowUsers, OpenFds, NoFile
<1>3. closed \subseteq RowUsers(fd_array[p], i)
  BY DEF RowUsers
<1>4. RowUsers(fd_array[p], i) \cap closed = closed
  BY <1>3
<1>5. Uses(p, fds, i) = Cardinality(closed)
  BY DEF Uses
<1> HIDE DEF closed
<1>6. IsFiniteSet(closed) /\ Cardinality(closed) \in Nat
  BY <1>3, FdsFinite, FS_Subset, FS_CardinalityType
<1> DEFINE all == RowUsers(fd_array[p], i)
<1>7. IsFiniteSet(all) /\ Cardinality(all) \in Nat
  BY FdsFinite
<1> HIDE DEF all
<1>8. Cardinality(all \ closed) = Cardinality(all) - Cardinality(all \cap closed)
  BY <1>7, FS_Difference
<1> QED BY <1>2, <1>4, <1>5, <1>6, <1>7, <1>8 DEF all

(* The three forms of an entry, free, being opened and open, are entries.   *)
LEMMA Entries ==
  /\ NoFile \in Entry /\ NoFile.node = NULL
  /\ \A i \in Inodes : Opened(i, 1) \in Entry /\ Initial(i) \in Entry
  /\ \A i \in Inodes : Opened(i, 1).node = i /\ Initial(i).node = i
  /\ EntryOK(NoFile, TRUE) /\ EntryOK(NoFile, FALSE)
  /\ \A i \in Inodes : EntryOK(Opened(i, 1), FALSE) /\ EntryOK(Initial(i), TRUE)
BY FileAssumption DEF Entry, EntryOK, NoFile, Opened, Initial, Inodes

(* An entry that was used for the inode `old' is used for `new'; either may *)
(* be NULL.                                                                 *)
EntryCounts(old, new) ==
  \A i \in Inodes :
     /\ inode_open_count'[i] = inode_open_count[i] - Is(old, i) + Is(new, i)
     /\ inode_ref_count'[i] - lost'[i] = inode_ref_count[i] - lost[i] - Is(old, i) + Is(new, i)

(* A step that changes one entry fd of p.                                   *)
LEMMA EntryStep ==
  ASSUME FileInv, NEW p \in Procs, NEW fd \in Fds, NEW f \in Entry, proc[p] # "none",
         fd_array' = [fd_array EXCEPT ![p] = [fd_array[p] EXCEPT ![fd] = f]],
         pwd' = pwd, proc' = proc, CountTypes, EntryCounts(fd_array[p][fd].node, f.node),
         call' \in [Procs -> Fds \cup {NULL}], \A q \in Procs \ {p} : call'[q] = call[q],
         EntryOK(f, call'[p] = fd),
         \A g \in Fds \ {fd} : call'[p] = g <=> call[p] = g
  PROVE  FileInv'
<1>1. /\ fd_array' \in [Procs -> [Fds -> Entry]] /\ fd_array \in [Procs -> [Fds -> Entry]]
      /\ pwd' \in [Procs -> Inodes \cup {NULL}]
      /\ proc' \in [Procs -> {"none", "kernel", "user", "left"}]
  BY TableFacts
<1>2. OthersRest(p)
  BY <1>1 DEF OthersRest
<1>3. CountsFollow(p)
  <2> SUFFICES ASSUME NEW i \in Inodes
      PROVE
     /\ inode_open_count'[i] = inode_open_count[i]
          - Cardinality(RowUsers(fd_array[p], i)) + Cardinality(RowUsers(fd_array'[p], i))
     /\ inode_ref_count'[i] - lost'[i] = inode_ref_count[i] - lost[i]
          - Cardinality(RowUsers(fd_array[p], i)) + Cardinality(RowUsers(fd_array'[p], i))
          - (IF pwd[p] = i THEN 1 ELSE 0) + (IF pwd'[p] = i THEN 1 ELSE 0)
    BY DEF CountsFollow
  <2>1. /\ inode_open_count[i] \in Nat /\ inode_ref_count[i] \in Nat /\ lost[i] \in Nat
    BY TableFacts
  <2>2. inode_open_count'[i] \in Int /\ inode_ref_count'[i] \in Int /\ lost'[i] \in Nat
    BY DEF CountTypes
  <2>3. /\ Cardinality(RowUsers(fd_array[p], i)) \in Nat
        /\ Cardinality(RowUsers(fd_array'[p], i)) = Cardinality(RowUsers(fd_array[p], i))
             - Is(fd_array[p][fd].node, i) + Is(f.node, i)
    BY OneEntry
  <2>4. Is(fd_array[p][fd].node, i) \in Nat /\ Is(f.node, i) \in Nat
    BY DEF Is
  <2>5. /\ inode_open_count'[i] = inode_open_count[i]
             - Is(fd_array[p][fd].node, i) + Is(f.node, i)
        /\ inode_ref_count'[i] - lost'[i] = inode_ref_count[i] - lost[i]
             - Is(fd_array[p][fd].node, i) + Is(f.node, i)
    BY DEF EntryCounts
  <2> QED BY <2>1, <2>2, <2>3, <2>4, <2>5
<1>4. \A g \in Fds : EntryOK(fd_array'[p][g], call'[p] = g)
  <2>1. fd_array'[p] = [fd_array[p] EXCEPT ![fd] = f] /\ fd_array[p] \in [Fds -> Entry]
    BY <1>1
  <2>2. fd_array'[p][fd] = f
    BY <2>1
  <2>3. \A g \in Fds \ {fd} : fd_array'[p][g] = fd_array[p][g]
    BY <2>1
  <2>4. \A g \in Fds \ {fd} : EntryOK(fd_array[p][g], call[p] = g)
    BY TableFacts
  <2>5. \A g \in Fds \ {fd} : EntryOK(fd_array'[p][g], call'[p] = g)
    BY <2>3, <2>4 DEF EntryOK
  <2> QED BY <2>2, <2>5
<1> QED BY <1>1, <1>2, <1>3, <1>4, StepKeeps
-----------------------------------------------------------------------------
(* file_open finds the free entry it uses, and nothing else refers to it.   *)
LEMMA FreeEntry ==
  ASSUME FileInv, NEW p \in Procs, FreeFds(p) # {}
  PROVE  /\ Min(FreeFds(p)) \in Fds
         /\ fd_array[p][Min(FreeFds(p))].status = "FD_NONE"
         /\ fd_array[p][Min(FreeFds(p))].node = NULL
<1>1. FreeFds(p) \in SUBSET Fds /\ Fds \in SUBSET Nat
  BY FdsFinite DEF FreeFds
<1>2. Min(FreeFds(p)) \in FreeFds(p)
  BY <1>1, MinInside
<1>3. \A fd \in FreeFds(p) : fd_array[p][fd].status = "FD_NONE" /\ fd_array[p][fd].node = NULL
  BY <1>1, TableFacts DEF FreeFds, EntryOK
<1> QED BY <1>1, <1>2, <1>3

(* file_open keeps the counts on each of its returns.                       *)
LEMMA file_open_step ==
  ASSUME FileInv, NEW p \in Procs, NEW i \in Inodes,
         NEW writes \in BOOLEAN, NEW excl \in BOOLEAN, NEW trunc \in BOOLEAN,
         file_open(p, i, writes, excl, trunc)
  PROVE  FileInv'
<1> DEFINE fd == Min(FreeFds(p))
<1>0. /\ fd \in Fds /\ fd_array[p][fd].node = NULL /\ NULL \notin Inodes /\ NULL \notin Fds
      /\ call[p] = NULL /\ proc[p] = "user" /\ proc' = proc /\ pwd' = pwd
  BY FreeEntry, TableFacts DEF file_open, User
<1>1. CASE /\ fd_array' = fd_array /\ call' = call /\ inode_open_count' = inode_open_count
           /\ \/ /\ inode_ref_count' = [inode_ref_count EXCEPT ![i] = @ + 1]
                 /\ lost' = [lost EXCEPT ![i] = @ + 1]
              \/ inode_ref_count' = inode_ref_count /\ lost' = lost
  <2>1. CountTypes
    BY <1>1, TableFacts DEF CountTypes
  <2>2. OthersRest(p)
    BY <1>0, <1>1 DEF OthersRest
  <2>3. ASSUME NEW j \in Inodes
        PROVE  inode_open_count'[j] = inode_open_count[j]
               /\ inode_ref_count'[j] - lost'[j] = inode_ref_count[j] - lost[j]
    <3>1. inode_ref_count[j] \in Nat /\ lost[j] \in Nat
      BY TableFacts
    <3>2. \E n \in {0, 1} : inode_ref_count'[j] = inode_ref_count[j] + n /\ lost'[j] = lost[j] + n
      BY <1>1, <3>1, TableFacts
    <3> QED BY <1>1, <3>1, <3>2
  <2>4. CountsFollow(p)
    <3> SUFFICES ASSUME NEW j \in Inodes
        PROVE
          /\ inode_open_count'[j] = inode_open_count[j]
               - Cardinality(RowUsers(fd_array[p], j)) + Cardinality(RowUsers(fd_array'[p], j))
          /\ inode_ref_count'[j] - lost'[j] = inode_ref_count[j] - lost[j]
               - Cardinality(RowUsers(fd_array[p], j)) + Cardinality(RowUsers(fd_array'[p], j))
               - (IF pwd[p] = j THEN 1 ELSE 0) + (IF pwd'[p] = j THEN 1 ELSE 0)
      BY DEF CountsFollow
    <3>1. /\ Cardinality(RowUsers(fd_array[p], j)) \in Nat
          /\ inode_ref_count[j] \in Nat /\ lost[j] \in Nat /\ inode_open_count[j] \in Nat
      BY FdsFinite, TableFacts
    <3> QED BY <1>0, <1>1, <2>3, <3>1
  <2> QED BY <1>0, <1>1, <2>1, <2>2, <2>4, TableFacts, StepKeeps
<1>2. CASE /\ vfs_open(i, writes, excl)
           /\ inode_ref_count' = [inode_ref_count EXCEPT ![i] = @ + 1]
           /\ inode_open_count' = [inode_open_count EXCEPT ![i] = @ + 1]
           /\ fd_array' = [fd_array EXCEPT ![p][fd] = IF trunc THEN Initial(i) ELSE Opened(i, 1)]
           /\ call' = [call EXCEPT ![p] = IF trunc THEN fd ELSE NULL]
           /\ lost' = lost
  <2> DEFINE f == IF trunc THEN Initial(i) ELSE Opened(i, 1)
  <2>1. f \in Entry /\ f.node = i
    BY Entries
  <2>2. /\ call' \in [Procs -> Fds \cup {NULL}] /\ \A q \in Procs \ {p} : call'[q] = call[q]
        /\ call'[p] = IF trunc THEN fd ELSE NULL
    BY <1>0, <1>2, TableFacts
  <2>3. EntryOK(f, call'[p] = fd)
    BY <1>0, <2>2, Entries DEF EntryOK
  <2>4. \A g \in Fds \ {fd} : call'[p] = g <=> call[p] = g
    BY <1>0, <2>2
  <2>5. CountTypes
    BY <1>2, TableFacts DEF CountTypes
  <2>6. EntryCounts(fd_array[p][fd].node, f.node)
    <3>1. \A j \in Inodes : inode_ref_count[j] \in Nat /\ lost[j] \in Nat /\ inode_open_count[j] \in Nat
      BY TableFacts
    <3>2. \A j \in Inodes : inode_ref_count'[j] = inode_ref_count[j] + Is(i, j)
                             /\ inode_open_count'[j] = inode_open_count[j] + Is(i, j)
      BY <1>2, <3>1, TableFacts DEF Is
    <3>3. \A j \in Inodes : Is(NULL, j) = 0 /\ Is(i, j) \in Nat
      BY <1>0 DEF Is
    <3> HIDE DEF f
    <3> QED BY <1>0, <1>2, <2>1, <3>1, <3>2, <3>3 DEF EntryCounts
  <2>7. fd_array' = [fd_array EXCEPT ![p] = [fd_array[p] EXCEPT ![fd] = f]]
    BY <1>2, TableFacts
  <2> HIDE DEF f
  <2> QED BY <1>0, <2>1, <2>2, <2>3, <2>4, <2>5, <2>6, <2>7, EntryStep
<1> QED BY <1>1, <1>2 DEF file_open

(* The entry being opened becomes open or free again.                       *)
LEMMA truncated_step ==
  ASSUME FileInv, NEW p \in Procs, NEW ok \in BOOLEAN, truncated(p, ok)
  PROVE  FileInv'
<1> DEFINE fd == call[p]
           i == fd_array[p][fd].node
           f == IF ok THEN Opened(i, 1) ELSE NoFile
<1>0. /\ fd \in Fds /\ fd_array[p][fd].status = "FD_INIT" /\ i \in Inodes
      /\ NULL \notin Inodes /\ NULL \notin Fds
  BY TableFacts DEF truncated
<1>1. /\ call' = [call EXCEPT ![p] = NULL] /\ proc' = proc /\ pwd' = pwd /\ lost' = lost
      /\ fd_array' = [fd_array EXCEPT ![p][fd] = f]
      /\ inode_ref_count' = IF ok THEN inode_ref_count ELSE [inode_ref_count EXCEPT ![i] = @ - 1]
      /\ inode_open_count' = IF ok THEN inode_open_count ELSE [inode_open_count EXCEPT ![i] = @ - 1]
  BY DEF truncated
<1>2. f \in Entry /\ f.node = (IF ok THEN i ELSE NULL) /\ EntryOK(f, FALSE)
  BY <1>0, Entries
<1>3. proc[p] # "none"
  BY <1>0, TableFacts DEF FileInv, UnusedEmpty
<1>4. /\ call' \in [Procs -> Fds \cup {NULL}] /\ \A q \in Procs \ {p} : call'[q] = call[q]
      /\ call'[p] = NULL
  BY <1>1, TableFacts
<1>5. EntryOK(f, call'[p] = fd)
  BY <1>0, <1>2, <1>4 DEF EntryOK
<1>6. \A g \in Fds \ {fd} : call'[p] = g <=> call[p] = g
  BY <1>0, <1>4
<1>7. CountTypes
  BY <1>0, <1>1, TableFacts DEF CountTypes
<1>8. EntryCounts(i, f.node)
  <2>1. \A j \in Inodes : inode_ref_count[j] \in Nat /\ lost[j] \in Nat /\ inode_open_count[j] \in Nat
    BY TableFacts
  <2>2. \A j \in Inodes : /\ Is(NULL, j) = 0 /\ Is(i, j) \in {0, 1}
                          /\ Is(f.node, j) = IF ok THEN Is(i, j) ELSE 0
    BY <1>0, <1>2 DEF Is
  <2>3. ok => EntryCounts(i, f.node)
    <3> HIDE DEF f, i
    <3> QED BY <1>1, <2>1, <2>2 DEF EntryCounts
  <2>4. ASSUME ~ ok PROVE EntryCounts(i, f.node)
    <3>1. \A j \in Inodes : inode_ref_count'[j] = inode_ref_count[j] - Is(i, j)
                            /\ inode_open_count'[j] = inode_open_count[j] - Is(i, j)
      BY <1>0, <1>1, <2>1, <2>4, TableFacts DEF Is
    <3> HIDE DEF f, i
    <3> QED BY <1>1, <2>1, <2>2, <2>4, <3>1 DEF EntryCounts
  <2> QED BY <2>3, <2>4
<1>9. fd_array' = [fd_array EXCEPT ![p] = [fd_array[p] EXCEPT ![fd] = f]]
  BY <1>1, TableFacts
<1> HIDE DEF f
<1> QED BY <1>0, <1>1, <1>2, <1>3, <1>4, <1>5, <1>6, <1>7, <1>8, <1>9, EntryStep

(* file_close gives back the reference and the open count of its entry.     *)
LEMMA file_close_step ==
  ASSUME FileInv, NEW p \in Procs, NEW fd \in Fds, file_close(p, fd)
  PROVE  FileInv'
<1> DEFINE i == fd_array[p][fd].node
<1>0. /\ fd_array[p][fd].status = "FD_OPENED" /\ i \in Inodes
      /\ NULL \notin Inodes /\ NULL \notin Fds /\ call[p] = NULL /\ proc[p] # "none"
  BY TableFacts DEF file_close, User, OpenFds
<1>1. /\ call' = call /\ proc' = proc /\ pwd' = pwd /\ lost' = lost
      /\ fd_array' = [fd_array EXCEPT ![p][fd] = NoFile]
      /\ inode_ref_count' = [inode_ref_count EXCEPT ![i] = @ - 1]
      /\ inode_open_count' = [inode_open_count EXCEPT ![i] = @ - 1]
  BY DEF file_close
<1>2. NoFile \in Entry /\ NoFile.node = NULL /\ EntryOK(NoFile, call'[p] = fd)
  BY <1>0, <1>1, Entries DEF EntryOK
<1>3. CountTypes
  BY <1>0, <1>1, TableFacts DEF CountTypes
<1>4. EntryCounts(fd_array[p][fd].node, NoFile.node)
  <2>1. \A j \in Inodes : inode_ref_count[j] \in Nat /\ lost[j] \in Nat /\ inode_open_count[j] \in Nat
    BY TableFacts
  <2>2. \A j \in Inodes : Is(NULL, j) = 0 /\ Is(i, j) \in {0, 1}
    BY <1>0 DEF Is
  <2>3. \A j \in Inodes : inode_ref_count'[j] = inode_ref_count[j] - Is(i, j)
                          /\ inode_open_count'[j] = inode_open_count[j] - Is(i, j)
    BY <1>0, <1>1, <2>1, TableFacts DEF Is
  <2>4. EntryCounts(i, NULL)
    <3> HIDE DEF i
    <3> QED BY <1>1, <2>1, <2>2, <2>3 DEF EntryCounts
  <2> QED BY <1>2, <2>4
<1>5. fd_array' = [fd_array EXCEPT ![p] = [fd_array[p] EXCEPT ![fd] = NoFile]]
  BY <1>1, TableFacts
<1>6. call' \in [Procs -> Fds \cup {NULL}] /\ \A q \in Procs : call'[q] = call[q]
  BY <1>1, TableFacts
<1> QED BY <1>0, <1>1, <1>2, <1>3, <1>4, <1>5, <1>6, EntryStep

(* file_dup takes both for the second entry.                                *)
LEMMA file_dup_step ==
  ASSUME FileInv, NEW p \in Procs, NEW fd1 \in Fds, NEW fd2 \in Fds, file_dup(p, fd1, fd2)
  PROVE  FileInv'
<1> DEFINE i == fd_array[p][fd1].node
<1>0. /\ fd_array[p][fd1].status = "FD_OPENED" /\ i \in Inodes
      /\ fd_array[p][fd2].status = "FD_NONE"
      /\ NULL \notin Inodes /\ NULL \notin Fds /\ call[p] = NULL /\ proc[p] # "none"
  BY TableFacts DEF file_dup, User, OpenFds, FreeFds
<1>1. /\ call' = call /\ proc' = proc /\ pwd' = pwd /\ lost' = lost
      /\ fd_array' = [fd_array EXCEPT ![p][fd2] = Opened(i, 1)]
      /\ inode_ref_count' = [inode_ref_count EXCEPT ![i] = @ + 1]
      /\ inode_open_count' = [inode_open_count EXCEPT ![i] = @ + 1]
  BY DEF file_dup
<1>2. /\ Opened(i, 1) \in Entry /\ Opened(i, 1).node = i
      /\ EntryOK(Opened(i, 1), call'[p] = fd2)
      /\ fd_array[p][fd2].node = NULL
  BY <1>0, <1>1, Entries, TableFacts DEF EntryOK
<1>3. CountTypes
  BY <1>0, <1>1, TableFacts DEF CountTypes
<1>4. EntryCounts(fd_array[p][fd2].node, Opened(i, 1).node)
  <2>1. \A j \in Inodes : inode_ref_count[j] \in Nat /\ lost[j] \in Nat /\ inode_open_count[j] \in Nat
    BY TableFacts
  <2>2. \A j \in Inodes : Is(NULL, j) = 0 /\ Is(i, j) \in {0, 1}
    BY <1>0 DEF Is
  <2>3. \A j \in Inodes : inode_ref_count'[j] = inode_ref_count[j] + Is(i, j)
                          /\ inode_open_count'[j] = inode_open_count[j] + Is(i, j)
    BY <1>0, <1>1, <2>1, TableFacts DEF Is
  <2> HIDE DEF i
  <2> QED BY <1>1, <1>2, <2>1, <2>2, <2>3 DEF EntryCounts
<1>5. fd_array' = [fd_array EXCEPT ![p] = [fd_array[p] EXCEPT ![fd2] = Opened(i, 1)]]
  BY <1>1, TableFacts
<1>6. call' \in [Procs -> Fds \cup {NULL}] /\ \A q \in Procs : call'[q] = call[q]
  BY <1>1, TableFacts
<1> HIDE DEF i
<1> QED BY <1>0, <1>1, <1>2, <1>3, <1>4, <1>5, <1>6, EntryStep

(* What file_io and io_done do to the entry at work changes no inode count. *)
LEMMA CallStep ==
  ASSUME FileInv, NEW p \in Procs, NEW fd \in Fds, NEW c \in {fd, NULL}, NEW f \in Entry,
         proc[p] # "none", call[p] \in {fd, NULL},
         f.node = fd_array[p][fd].node, EntryOK(f, c = fd),
         fd_array' = [fd_array EXCEPT ![p] = [fd_array[p] EXCEPT ![fd] = f]],
         call' = [call EXCEPT ![p] = c],
         UNCHANGED <<proc, pwd, inode_ref_count, inode_open_count, lost>>
  PROVE  FileInv'
<1>1. NULL \notin Fds
  BY TableFacts
<1>2. /\ call' \in [Procs -> Fds \cup {NULL}] /\ \A q \in Procs \ {p} : call'[q] = call[q]
      /\ call'[p] = c
  BY TableFacts
<1>3. EntryOK(f, call'[p] = fd)
  BY <1>2
<1>4. \A g \in Fds \ {fd} : call'[p] = g <=> call[p] = g
  BY <1>1, <1>2
<1>5. CountTypes
  BY TableFacts DEF CountTypes
<1>6. EntryCounts(fd_array[p][fd].node, f.node)
  <2>1. \A j \in Inodes : inode_ref_count[j] \in Nat /\ lost[j] \in Nat /\ inode_open_count[j] \in Nat
    BY TableFacts
  <2>2. \A j \in Inodes : Is(f.node, j) \in Nat
    BY DEF Is
  <2> QED BY <2>1, <2>2 DEF EntryCounts
<1> QED BY <1>2, <1>3, <1>4, <1>5, <1>6, EntryStep

(* A read or write holds its entry during the call.                         *)
LEMMA file_io_step ==
  ASSUME FileInv, NEW p \in Procs, NEW fd \in Fds, file_io(p, fd)
  PROVE  FileInv'
<1> DEFINE f == [fd_array[p][fd] EXCEPT !.open_count = 2]
<1>1. /\ fd_array[p][fd].status = "FD_OPENED" /\ call[p] = NULL /\ proc[p] # "none"
      /\ EntryOK(fd_array[p][fd], FALSE) /\ fd_array[p][fd] \in Entry
  BY TableFacts DEF file_io, User, OpenFds, EntryOK
<1>2. fd_array[p][fd].open_count + 1 = 2
  BY <1>1 DEF EntryOK
<1>3. fd_array' = [fd_array EXCEPT ![p] = [fd_array[p] EXCEPT ![fd] = f]]
  BY <1>1, <1>2, TableFacts DEF file_io, Entry
<1>4. /\ call' = [call EXCEPT ![p] = fd]
      /\ UNCHANGED <<proc, pwd, inode_ref_count, inode_open_count, lost>>
  BY DEF file_io
<1>5. f \in Entry /\ f.node = fd_array[p][fd].node /\ EntryOK(f, fd = fd)
  BY <1>1 DEF Entry, EntryOK
<1> HIDE DEF f
<1> QED BY <1>1, <1>3, <1>4, <1>5, CallStep

(* It lets the entry go at its end and the inode stays open.                *)
LEMMA io_done_step ==
  ASSUME FileInv, NEW p \in Procs, io_done(p)
  PROVE  FileInv'
<1> DEFINE fd == call[p]
           f == [fd_array[p][fd] EXCEPT !.open_count = 1]
<1>1. /\ fd \in Fds /\ NULL \notin Fds /\ fd_array[p][fd].status = "FD_OPENED"
      /\ EntryOK(fd_array[p][fd], TRUE) /\ fd_array[p][fd] \in Entry
  BY TableFacts DEF io_done, OpenFds, EntryOK
<1>2. fd_array[p][fd].open_count - 1 = 1
  BY <1>1 DEF EntryOK
<1>3. fd_array' = [fd_array EXCEPT ![p] = [fd_array[p] EXCEPT ![fd] = f]]
  BY <1>1, <1>2, TableFacts DEF io_done, Entry
<1>4. /\ call' = [call EXCEPT ![p] = NULL]
      /\ UNCHANGED <<proc, pwd, inode_ref_count, inode_open_count, lost>>
  BY DEF io_done
<1>5. proc[p] # "none"
  BY <1>1, TableFacts DEF FileInv, UnusedEmpty
<1>6. f \in Entry /\ f.node = fd_array[p][fd].node /\ EntryOK(f, NULL = fd)
  BY <1>1 DEF Entry, EntryOK
<1> HIDE DEF f
<1> QED BY <1>1, <1>3, <1>4, <1>5, <1>6, CallStep
-----------------------------------------------------------------------------
(* The steps that change a whole table or a working directory.              *)
LEMMA DirIs == \A p, i : Dir(p, i) = Is(pwd[p], i) /\ Dir(p, i) \in Nat
BY DEF Dir, Is

(* CountsFollow from what a step does to the counts of each inode: it takes *)
(* `gone' of them away and adds `come'.                                     *)
LEMMA CountsByRow ==
  ASSUME FileInv, NEW p \in Procs, CountTypes, lost' = lost,
         NEW gone, NEW come,
         \A i \in Inodes :
            /\ gone[i] \in Nat /\ come[i] \in Nat
            /\ Moved(Cardinality(RowUsers(fd_array'[p], i)), Cardinality(RowUsers(fd_array[p], i)),
                     gone[i], come[i])
            /\ Moved(inode_open_count'[i], inode_open_count[i], gone[i], come[i])
            /\ Moved(inode_ref_count'[i], inode_ref_count[i],
                     gone[i] + Is(pwd[p], i), come[i] + Is(pwd'[p], i))
  PROVE  CountsFollow(p)
<1> SUFFICES ASSUME NEW i \in Inodes
    PROVE
      /\ inode_open_count'[i] = inode_open_count[i]
           - Cardinality(RowUsers(fd_array[p], i)) + Cardinality(RowUsers(fd_array'[p], i))
      /\ inode_ref_count'[i] - lost'[i] = inode_ref_count[i] - lost[i]
           - Cardinality(RowUsers(fd_array[p], i)) + Cardinality(RowUsers(fd_array'[p], i))
           - (IF pwd[p] = i THEN 1 ELSE 0) + (IF pwd'[p] = i THEN 1 ELSE 0)
  BY DEF CountsFollow
<1>1. /\ inode_open_count[i] \in Nat /\ inode_ref_count[i] \in Nat /\ lost[i] \in Nat
      /\ Cardinality(RowUsers(fd_array[p], i)) \in Nat
      /\ Cardinality(RowUsers(fd_array'[p], i)) \in Nat
  BY TableFacts, FdsFinite
<1>2. /\ gone[i] \in Nat /\ come[i] \in Nat
      /\ Moved(Cardinality(RowUsers(fd_array'[p], i)), Cardinality(RowUsers(fd_array[p], i)),
               gone[i], come[i])
      /\ Moved(inode_open_count'[i], inode_open_count[i], gone[i], come[i])
      /\ Moved(inode_ref_count'[i], inode_ref_count[i],
               gone[i] + Is(pwd[p], i), come[i] + Is(pwd'[p], i))
  OBVIOUS
<1>3. Is(pwd[p], i) = (IF pwd[p] = i THEN 1 ELSE 0) /\ Is(pwd'[p], i) = (IF pwd'[p] = i THEN 1 ELSE 0)
  BY DEF Is
<1>4. Is(pwd[p], i) \in Nat /\ Is(pwd'[p], i) \in Nat
  BY DEF Is
<1> QED BY <1>1, <1>2, <1>3, <1>4 DEF Moved

(* vfs_chdir moves one reference from the old directory to the new one.     *)
LEMMA vfs_chdir_step ==
  ASSUME FileInv, NEW p \in Procs, NEW i \in Inodes, vfs_chdir(p, i)
  PROVE  FileInv'
<1> DEFINE none == [j \in Inodes |-> 0]
<1>0. /\ proc[p] # "none" /\ pwd' = [pwd EXCEPT ![p] = i] /\ pwd'[p] = i
      /\ UNCHANGED <<proc, fd_array, call, inode_open_count, lost>>
      /\ inode_ref_count' = [j \in Inodes |->
            inode_ref_count[j] + (IF j = i THEN 1 ELSE 0) - Dir(p, j)]
  BY TableFacts DEF vfs_chdir, User
<1>1. CountTypes
  BY <1>0, TableFacts, DirIs DEF CountTypes
<1>2. OthersRest(p)
  BY <1>0, TableFacts DEF OthersRest
<1>3. ASSUME NEW j \in Inodes
      PROVE  /\ none[j] \in Nat
             /\ Moved(Cardinality(RowUsers(fd_array'[p], j)), Cardinality(RowUsers(fd_array[p], j)),
                      none[j], none[j])
             /\ Moved(inode_open_count'[j], inode_open_count[j], none[j], none[j])
             /\ Moved(inode_ref_count'[j], inode_ref_count[j],
                      none[j] + Is(pwd[p], j), none[j] + Is(pwd'[p], j))
  <2>1. /\ Cardinality(RowUsers(fd_array[p], j)) \in Nat
        /\ inode_open_count[j] \in Nat /\ inode_ref_count[j] \in Nat
    BY TableFacts, FdsFinite
  <2>2. inode_ref_count'[j] = inode_ref_count[j] + Is(i, j) - Is(pwd[p], j)
    BY <1>0, DirIs DEF Is
  <2>3. Is(i, j) \in Nat /\ Is(pwd[p], j) \in Nat
    BY DEF Is
  <2> QED BY <1>0, <2>1, <2>2, <2>3 DEF Moved
<1> HIDE DEF none
<1>4. CountsFollow(p)
  BY <1>0, <1>1, <1>3, CountsByRow
<1>5. \A fd \in Fds : EntryOK(fd_array'[p][fd], call'[p] = fd)
  BY <1>0, TableFacts
<1> QED BY <1>0, <1>1, <1>2, <1>4, <1>5, TableFacts, StepKeeps

(* A kernel thread leaves with its table: nothing is given back.            *)
LEMMA do_exit_no_mm_step ==
  ASSUME FileInv, NEW p \in Procs, do_exit_no_mm(p)
  PROVE  FileInv'
<1>1. /\ proc' = [proc EXCEPT ![p] = "left"] /\ proc'[p] = "left"
      /\ UNCHANGED <<fd_array, pwd, call, inode_ref_count, inode_open_count, lost>>
  BY TableFacts DEF do_exit_no_mm
<1>2. TableTypeOK' /\ UsersCounted' /\ EntriesAgree'
  <2>1. TableTypeOK'
    BY <1>1 DEF FileInv, TableTypeOK
  <2>2. \A i : Holders(i)' = Holders(i) /\ Dwellers(i)' = Dwellers(i) /\ Kept(i)' = Kept(i)
    BY <1>1 DEF Holders, Dwellers, Kept
  <2>3. UsersCounted'
    BY <1>1, <2>2 DEF FileInv, UsersCounted
  <2>4. EntriesAgree'
    BY <1>1 DEF FileInv, EntriesAgree
  <2> QED BY <2>1, <2>3, <2>4
<1>3. UnusedEmpty'
  BY <1>1, TableFacts DEF FileInv, UnusedEmpty, EmptyTable
<1> QED BY <1>2, <1>3 DEF FileInv

(* files_destroy gives back all that the table holds.                       *)
LEMMA files_destroy_step ==
  ASSUME FileInv, NEW p \in Procs, files_destroy(p)
  PROVE  FileInv'
<1> DEFINE used == [i \in Inodes |-> Cardinality(RowUsers(fd_array[p], i))]
           none == [i \in Inodes |-> 0]
<1>0. /\ call[p] = NULL /\ proc' = [proc EXCEPT ![p] = "none"] /\ pwd' = [pwd EXCEPT ![p] = NULL]
      /\ pwd'[p] = NULL /\ fd_array' = [fd_array EXCEPT ![p] = EmptyTable]
      /\ fd_array'[p] = EmptyTable /\ UNCHANGED <<call, lost>> /\ NULL \notin Inodes /\ NULL \notin Fds
      /\ inode_ref_count' = [i \in Inodes |-> inode_ref_count[i] - Uses(p, Fds, i) - Dir(p, i)]
      /\ inode_open_count' = [i \in Inodes |-> inode_open_count[i] - Uses(p, Fds, i)]
  BY TableFacts DEF files_destroy, User
<1>1. ASSUME NEW i \in Inodes
      PROVE  /\ Uses(p, Fds, i) = used[i] /\ used[i] \in Nat
             /\ inode_open_count[i] \in Nat /\ inode_ref_count[i] \in Nat
             /\ Cardinality(RowUsers(fd_array[p], i)) = used[i]
             /\ Cardinality(RowUsers(EmptyTable, i)) = 0
  <2>1. RowUsers(EmptyTable, i) = {}
    BY <1>0 DEF RowUsers, EmptyTable, NoFile
  <2> QED BY <1>0, <2>1, UsesAll, FdsFinite, FS_EmptySet, TableFacts
<1>2. CountTypes
  <2>1. \A i \in Inodes : /\ inode_ref_count[i] - Uses(p, Fds, i) - Dir(p, i) \in Int
                          /\ inode_open_count[i] - Uses(p, Fds, i) \in Int
    <3> HIDE DEF used
    <3> QED BY <1>1, DirIs
  <2> QED BY <1>0, <2>1, TableFacts DEF CountTypes
<1>3. OthersRest(p)
  BY <1>0, TableFacts DEF OthersRest
<1>4. ASSUME NEW j \in Inodes
      PROVE  /\ used[j] \in Nat /\ none[j] \in Nat
             /\ Moved(Cardinality(RowUsers(fd_array'[p], j)), Cardinality(RowUsers(fd_array[p], j)),
                      used[j], none[j])
             /\ Moved(inode_open_count'[j], inode_open_count[j], used[j], none[j])
             /\ Moved(inode_ref_count'[j], inode_ref_count[j],
                      used[j] + Is(pwd[p], j), none[j] + Is(pwd'[p], j))
  <2>1. Is(pwd[p], j) \in Nat /\ Is(pwd'[p], j) = 0 /\ Dir(p, j) = Is(pwd[p], j)
    BY <1>0, DirIs DEF Is
  <2>2. none[j] = 0
    OBVIOUS
  <2> HIDE DEF used, none
  <2>3. inode_open_count'[j] = inode_open_count[j] - used[j]
        /\ inode_ref_count'[j] = inode_ref_count[j] - used[j] - Is(pwd[p], j)
    BY <1>0, <1>1, <2>1
  <2> QED BY <1>0, <1>1, <2>1, <2>2, <2>3 DEF Moved
<1> HIDE DEF used, none
<1>5. CountsFollow(p)
  BY <1>0, <1>2, <1>4, CountsByRow
<1>6. \A fd \in Fds : EntryOK(fd_array'[p][fd], call'[p] = fd)
  BY <1>0, Entries DEF EmptyTable, EntryOK
<1>7. /\ EmptyTable \in [Fds -> Entry] /\ fd_array' \in [Procs -> [Fds -> Entry]]
      /\ pwd' \in [Procs -> Inodes \cup {NULL}] /\ call' \in [Procs -> Fds \cup {NULL}]
      /\ proc' \in [Procs -> {"none", "kernel", "user", "left"}]
  <2>1. EmptyTable \in [Fds -> Entry]
    BY Entries DEF EmptyTable
  <2> QED BY <1>0, <2>1, TableFacts
<1> QED BY <1>0, <1>2, <1>3, <1>5, <1>6, <1>7, StepKeeps

(* dup_files takes for the child what the parent's table holds.             *)
LEMMA dup_files_step ==
  ASSUME FileInv, NEW p \in Procs, NEW c \in Procs, dup_files(p, c)
  PROVE  FileInv'
<1> DEFINE row == [fd \in Fds |->
                     IF fd \in OpenFds(p) THEN Opened(fd_array[p][fd].node, 1) ELSE NoFile]
           used == [i \in Inodes |-> Cardinality(RowUsers(fd_array[p], i))]
           none == [i \in Inodes |-> 0]
<1>0. /\ call[p] = NULL /\ proc[p] \in {"kernel", "user"} /\ NULL \notin Inodes /\ NULL \notin Fds
      /\ fd_array[c] = EmptyTable /\ pwd[c] = NULL /\ call[c] = NULL
      /\ proc' = [proc EXCEPT ![c] = proc[p]] /\ pwd' = [pwd EXCEPT ![c] = pwd[p]]
      /\ fd_array' = [fd_array EXCEPT ![c] = row] /\ UNCHANGED <<call, lost>>
      /\ pwd'[c] = pwd[p] /\ proc'[c] = proc[p] /\ fd_array'[c] = row
      /\ inode_ref_count' = [i \in Inodes |-> inode_ref_count[i] + Uses(p, Fds, i) + Dir(p, i)]
      /\ inode_open_count' = [i \in Inodes |-> inode_open_count[i] + Uses(p, Fds, i)]
  BY TableFacts DEF dup_files, Running, FileInv, UnusedEmpty
<1>1. ASSUME NEW fd \in Fds
      PROVE  row[fd] \in Entry /\ EntryOK(row[fd], call'[c] = fd) /\ row[fd].node = fd_array[p][fd].node
  <2>1. CASE fd_array[p][fd].status = "FD_OPENED" /\ fd_array[p][fd].node \in Inodes
    <3>1. row[fd] = Opened(fd_array[p][fd].node, 1)
      BY <2>1 DEF OpenFds
    <3> HIDE DEF row
    <3> QED BY <1>0, <2>1, <3>1, Entries DEF EntryOK
  <2>2. CASE fd_array[p][fd] = NoFile
    <3>1. row[fd] = NoFile
      BY <2>2 DEF OpenFds, NoFile
    <3> HIDE DEF row
    <3> QED BY <1>0, <2>2, <3>1, Entries DEF EntryOK
  <2> QED BY <1>0, <2>1, <2>2, AllOpen
<1>2. ASSUME NEW i \in Inodes
      PROVE  /\ Uses(p, Fds, i) = used[i] /\ used[i] \in Nat
             /\ inode_open_count[i] \in Nat /\ inode_ref_count[i] \in Nat
             /\ Cardinality(RowUsers(row, i)) = used[i]
             /\ Cardinality(RowUsers(fd_array[c], i)) = 0
  <2>1. RowUsers(EmptyTable, i) = {}
    BY <1>0 DEF RowUsers, EmptyTable, NoFile
  <2>2. RowUsers(row, i) = RowUsers(fd_array[p], i)
    <3> HIDE DEF row
    <3> QED BY <1>1, RowKept
  <2> HIDE DEF row
  <2> QED BY <1>0, <2>1, <2>2, UsesAll, FdsFinite, FS_EmptySet, TableFacts
<1>3. CountTypes
  <2>1. \A i \in Inodes : /\ inode_ref_count[i] + Uses(p, Fds, i) + Dir(p, i) \in Int
                          /\ inode_open_count[i] + Uses(p, Fds, i) \in Int
    <3> HIDE DEF used, row
    <3> QED BY <1>2, DirIs
  <2> QED BY <1>0, <2>1, TableFacts DEF CountTypes
<1>4. OthersRest(c)
  BY <1>0, TableFacts DEF OthersRest
<1>5. ASSUME NEW j \in Inodes
      PROVE  /\ used[j] \in Nat /\ none[j] \in Nat
             /\ Moved(Cardinality(RowUsers(fd_array'[c], j)), Cardinality(RowUsers(fd_array[c], j)),
                      none[j], used[j])
             /\ Moved(inode_open_count'[j], inode_open_count[j], none[j], used[j])
             /\ Moved(inode_ref_count'[j], inode_ref_count[j],
                      none[j] + Is(pwd[c], j), used[j] + Is(pwd'[c], j))
  <2>1. Is(pwd'[c], j) \in Nat /\ Is(pwd[c], j) = 0 /\ Dir(p, j) = Is(pwd'[c], j)
    BY <1>0, DirIs DEF Is
  <2>2. none[j] = 0
    OBVIOUS
  <2> HIDE DEF used, none, row
  <2>3. inode_open_count'[j] = inode_open_count[j] + used[j]
        /\ inode_ref_count'[j] = inode_ref_count[j] + used[j] + Is(pwd'[c], j)
    BY <1>0, <1>2, <2>1
  <2> QED BY <1>0, <1>2, <2>1, <2>2, <2>3 DEF Moved
<1>6. row \in [Fds -> Entry]
  BY <1>1
<1> HIDE DEF used, none, row
<1>7. CountsFollow(c)
  BY <1>0, <1>3, <1>5, CountsByRow
<1>8. \A fd \in Fds : EntryOK(fd_array'[c][fd], call'[c] = fd)
  BY <1>0, <1>1
<1>9. /\ fd_array' \in [Procs -> [Fds -> Entry]]
      /\ pwd' \in [Procs -> Inodes \cup {NULL}] /\ call' \in [Procs -> Fds \cup {NULL}]
      /\ proc' \in [Procs -> {"none", "kernel", "user", "left"}] /\ proc'[c] # "none"
  BY <1>0, <1>6, TableFacts
<1> QED BY <1>3, <1>4, <1>7, <1>8, <1>9, StepKeeps

(* do_execve closes all but the first two entries, opens the program and    *)
(* closes it again.                                                         *)
LEMMA do_execve_step ==
  ASSUME FileInv, NEW p \in Procs, NEW i \in Inodes, NEW loaded \in BOOLEAN, do_execve(p, i, loaded)
  PROVE  FileInv'
<1> DEFINE closed == Fds \ {0, 1}
           table == [fd \in Fds |-> IF fd \in closed THEN NoFile ELSE fd_array[p][fd]]
           free == {fd \in Fds : table[fd].status = "FD_NONE"}
           new == [table EXCEPT ![Min(free)] = Opened(i, 1)]
           gone == [j \in Inodes |-> Uses(p, closed, j)]
           come == [j \in Inodes |-> Is(i, j)]
<1>0. /\ call[p] = NULL /\ proc[p] # "none" /\ free # {} /\ NULL \notin Inodes /\ NULL \notin Fds
      /\ fd_array' = [fd_array EXCEPT ![p] = new] /\ UNCHANGED <<pwd, call, lost>>
      /\ proc' = [proc EXCEPT ![p] = IF loaded THEN "user" ELSE "left"]
      /\ inode_ref_count' = [j \in Inodes |->
            inode_ref_count[j] - Uses(p, closed, j) + IF j = i THEN 1 ELSE 0]
      /\ inode_open_count' = [j \in Inodes |->
            inode_open_count[j] - Uses(p, closed, j) + IF j = i THEN 1 ELSE 0]
  BY TableFacts DEF do_execve, Running
<1>1. Min(free) \in free /\ Min(free) \in Fds
  <2>1. free \in SUBSET Nat
    BY FdsFinite
  <2> HIDE DEF free
  <2>2. Min(free) \in free
    BY <1>0, <2>1, MinInside
  <2> QED BY <2>2 DEF free
<1>2. ASSUME NEW fd \in Fds
      PROVE  \/ table[fd].status = "FD_OPENED" /\ table[fd] = fd_array[p][fd]
             \/ table[fd] = NoFile
  BY <1>0, AllOpen
<1>3. table[Min(free)].node = NULL
  <2>1. \A fd \in free : fd \in Fds /\ table[fd].status = "FD_NONE"
    OBVIOUS
  <2> HIDE DEF free, table
  <2> QED BY <1>1, <1>2, <2>1 DEF NoFile
<1>4. ASSUME NEW fd \in Fds
      PROVE  new[fd] \in Entry /\ EntryOK(new[fd], call[p] = fd)
  <2>1. CASE fd = Min(free)
    <3>1. new[fd] = Opened(i, 1)
      BY <2>1
    <3> HIDE DEF new
    <3> QED BY <1>0, <3>1, Entries DEF EntryOK
  <2>2. CASE fd # Min(free)
    <3>1. new[fd] = table[fd]
      BY <2>2
    <3> HIDE DEF new, table, free
    <3> QED BY <1>0, <1>2, <3>1, Entries, TableFacts DEF EntryOK
  <2> QED BY <2>1, <2>2
<1>5. ASSUME NEW j \in Inodes
      PROVE  /\ gone[j] = Uses(p, closed, j) /\ gone[j] \in Nat /\ come[j] = Is(i, j) /\ come[j] \in Nat
             /\ Moved(Cardinality(RowUsers(new, j)), Cardinality(RowUsers(fd_array[p], j)),
                      gone[j], come[j])
  <2>1. /\ Uses(p, closed, j) \in Nat
        /\ Moved(Cardinality(RowUsers(table, j)), Cardinality(RowUsers(fd_array[p], j)),
                 Uses(p, closed, j), 0)
    <3>1. closed \in SUBSET Fds
          /\ \A fd \in Fds : table[fd] = IF fd \in closed THEN NoFile ELSE fd_array[p][fd]
      OBVIOUS
    <3> HIDE DEF closed, table
    <3>2. /\ Uses(p, closed, j) \in Nat
          /\ Cardinality(RowUsers(table, j)) =
               Cardinality(RowUsers(fd_array[p], j)) - Uses(p, closed, j)
      BY <1>0, <3>1, UsesSome
    <3> QED BY <3>2, FdsFinite DEF Moved
  <2>2. Moved(Cardinality(RowUsers(new, j)), Cardinality(RowUsers(table, j)),
              Is(table[Min(free)].node, j), Is(new[Min(free)].node, j))
    <3>1. Min(free) \in Fds /\ \A g \in Fds \ {Min(free)} : new[g].node = table[g].node
      BY <1>1
    <3> HIDE DEF new, table, free
    <3> QED BY <3>1, EntryChanged
  <2>3. new[Min(free)].node = i
    BY <1>1, Entries
  <2>4. Is(table[Min(free)].node, j) = 0 /\ Is(i, j) \in Nat
    BY <1>0, <1>3 DEF Is
  <2>5. gone[j] = Uses(p, closed, j) /\ come[j] = Is(i, j)
    OBVIOUS
  <2> HIDE DEF new, table, free, closed, gone, come
  <2> QED BY <2>1, <2>2, <2>3, <2>4, <2>5, FdsFinite DEF Moved
<1>6. ASSUME NEW j \in Inodes
      PROVE  /\ inode_open_count'[j] = inode_open_count[j] - gone[j] + come[j]
             /\ inode_ref_count'[j] = inode_ref_count[j] - gone[j] + come[j]
             /\ inode_open_count[j] \in Nat /\ inode_ref_count[j] \in Nat
             /\ inode_open_count'[j] \in Int /\ inode_ref_count'[j] \in Int
  <2>1. come[j] = IF j = i THEN 1 ELSE 0
    BY DEF Is
  <2>2. inode_open_count[j] \in Nat /\ inode_ref_count[j] \in Nat
    BY TableFacts
  <2> HIDE DEF gone, come, closed
  <2>3. /\ inode_open_count'[j] = inode_open_count[j] - gone[j] + come[j]
        /\ inode_ref_count'[j] = inode_ref_count[j] - gone[j] + come[j]
    BY <1>0, <1>5, <2>1
  <2>4. gone[j] \in Nat /\ come[j] \in Nat
    BY <1>5
  <2> QED BY <2>2, <2>3, <2>4
<1>7. CountTypes
  <2> HIDE DEF gone, come, closed
  <2>1. /\ inode_open_count' = [j \in Inodes |-> inode_open_count'[j]]
        /\ inode_ref_count' = [j \in Inodes |-> inode_ref_count'[j]]
    BY <1>0
  <2>2. lost' \in [Inodes -> Nat]
    BY <1>0, TableFacts
  <2> QED BY <1>6, <2>1, <2>2 DEF CountTypes
<1>8. new \in [Fds -> Entry]
  <2>1. DOMAIN new = Fds /\ new = [fd \in Fds |-> new[fd]]
    OBVIOUS
  <2> HIDE DEF new
  <2> QED BY <1>4, <2>1
<1> HIDE DEF gone, come, new, table, free, closed
<1>9. OthersRest(p)
  BY <1>0, TableFacts DEF OthersRest
<1>10. fd_array'[p] = new /\ fd_array' \in [Procs -> [Fds -> Entry]]
  BY <1>0, <1>8, TableFacts
<1>11. CountsFollow(p)
  <2>1. ASSUME NEW j \in Inodes
        PROVE  /\ gone[j] \in Nat /\ come[j] \in Nat
               /\ Moved(Cardinality(RowUsers(fd_array'[p], j)), Cardinality(RowUsers(fd_array[p], j)),
                        gone[j], come[j])
               /\ Moved(inode_open_count'[j], inode_open_count[j], gone[j], come[j])
               /\ Moved(inode_ref_count'[j], inode_ref_count[j],
                        gone[j] + Is(pwd[p], j), come[j] + Is(pwd'[p], j))
    <3>1. pwd' = pwd /\ Is(pwd[p], j) \in Nat
      BY <1>0 DEF Is
    <3> QED BY <1>5, <1>6, <1>10, <3>1 DEF Moved
  <2> QED BY <1>0, <1>7, <2>1, CountsByRow
<1>12. \A fd \in Fds : EntryOK(fd_array'[p][fd], call'[p] = fd)
  BY <1>0, <1>4, <1>10
<1>13. /\ pwd' \in [Procs -> Inodes \cup {NULL}] /\ call' \in [Procs -> Fds \cup {NULL}]
       /\ proc' \in [Procs -> {"none", "kernel", "user", "left"}] /\ proc'[p] # "none"
  BY <1>0, TableFacts
<1> QED BY <1>7, <1>9, <1>10, <1>11, <1>12, <1>13, StepKeeps

(* The counts agree when init's table is set up.                            *)
LEMMA TableInitOK == TableInit => FileInv
<1> SUFFICES ASSUME TableInit PROVE FileInv
  OBVIOUS
<1>1. /\ NULL \notin Inodes /\ NULL \notin Fds /\ root \in Inodes /\ init \in Procs
      /\ \A i : Kept(i) \in Nat
  BY FileAssumption DEF Inodes, Fds, Kept
<1>2. EmptyTable \in [Fds -> Entry]
  BY Entries DEF EmptyTable
<1>3. TableTypeOK
  BY <1>1, <1>2 DEF TableInit, TableTypeOK, Entry
<1>4. EntriesAgree
  BY <1>1 DEF TableInit, EntriesAgree, EmptyTable, NoFile
<1>5. UnusedEmpty
  BY <1>1 DEF TableInit, UnusedEmpty
<1>6. ASSUME NEW i \in Inodes
      PROVE  /\ inode_open_count[i] = Holders(i)
             /\ inode_ref_count[i] = Kept(i) + Holders(i) + Dwellers(i) + lost[i]
  <2>1. Holders(i) = 0
    <3>1. {e \in Procs \X Fds : fd_array[e[1]][e[2]].node = i} = {}
      BY <1>1 DEF TableInit, EmptyTable, NoFile
    <3> QED BY <3>1, FS_EmptySet DEF Holders
  <2>2. Dwellers(i) = IF i = root THEN 1 ELSE 0
    <3>1. {p \in Procs : pwd[p] = i} = IF i = root THEN {init} ELSE {}
      BY <1>1 DEF TableInit
    <3> QED BY <3>1, FS_EmptySet, FS_Singleton DEF Dwellers
  <2> QED BY <1>1, <2>1, <2>2 DEF TableInit
<1> QED BY <1>3, <1>4, <1>5, <1>6 DEF FileInv, UsersCounted

(* Every step of FileTable keeps FileInv.                                   *)
LEMMA TableNextKeeps == FileInv /\ [TableNext]_tablevars => FileInv'
<1> SUFFICES ASSUME FileInv, [TableNext]_tablevars PROVE FileInv'
  OBVIOUS
<1>1. CASE UNCHANGED tablevars
  <2>1. \A i : Holders(i)' = Holders(i) /\ Dwellers(i)' = Dwellers(i) /\ Kept(i)' = Kept(i)
    BY <1>1 DEF tablevars, Holders, Dwellers, Kept
  <2> QED BY <1>1, <2>1
    DEF tablevars, FileInv, TableTypeOK, UsersCounted, EntriesAgree, UnusedEmpty
<1>2. ASSUME NEW p \in Procs, NEW i \in Inodes, NEW writes \in BOOLEAN, NEW excl \in BOOLEAN,
             NEW trunc \in BOOLEAN, file_open(p, i, writes, excl, trunc)
      PROVE  FileInv'
  BY <1>2, file_open_step
<1>3. ASSUME NEW p \in Procs, NEW ok \in BOOLEAN, truncated(p, ok) PROVE FileInv'
  BY <1>3, truncated_step
<1>4. ASSUME NEW p \in Procs, NEW fd \in Fds, file_close(p, fd) \/ file_io(p, fd) PROVE FileInv'
  BY <1>4, file_close_step, file_io_step
<1>5. ASSUME NEW p \in Procs, io_done(p) PROVE FileInv'
  BY <1>5, io_done_step
<1>6. ASSUME NEW p \in Procs, NEW fd1 \in Fds, NEW fd2 \in Fds, file_dup(p, fd1, fd2) PROVE FileInv'
  BY <1>6, file_dup_step
<1>7. ASSUME NEW p \in Procs, NEW i \in Inodes, vfs_chdir(p, i) PROVE FileInv'
  BY <1>7, vfs_chdir_step
<1>8. ASSUME NEW p \in Procs, NEW c \in Procs, dup_files(p, c) PROVE FileInv'
  BY <1>8, dup_files_step
<1>9. ASSUME NEW p \in Procs, NEW i \in Files, NEW loaded \in BOOLEAN, do_execve(p, i, loaded)
      PROVE  FileInv'
  <2>1. i \in Inodes
    BY DEF Inodes
  <2> QED BY <1>9, <2>1, do_execve_step
<1>10. ASSUME NEW p \in Procs, files_destroy(p) \/ do_exit_no_mm(p) PROVE FileInv'
  BY <1>10, files_destroy_step, do_exit_no_mm_step
<1> QED
  BY <1>1, <1>2, <1>3, <1>4, <1>5, <1>6, <1>7, <1>8, <1>9, <1>10 DEF TableNext

(* The counts of inodes and descriptors are exactly the numbers of their    *)
(* users, for any processes, inodes and table size: over all calls of       *)
(* file.c, fs.c and vfsfile.c, calls that block and calls that fail.        *)
THEOREM TableInvariant == TableSpec => []FileInv
<1>1. TableInit => FileInv
  BY TableInitOK
<1>2. FileInv /\ [TableNext]_tablevars => FileInv'
  BY TableNextKeeps
<1> QED BY <1>1, <1>2, PTL DEF TableSpec
=============================================================================
