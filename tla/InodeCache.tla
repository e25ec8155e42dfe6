---------------------------- MODULE InodeCache ----------------------------
(***************************************************************************)
(* The in-memory inodes of the simple file system: sfs_load_inode,          *)
(* lookup_sfs_nolock and sfs_reclaim of kern/fs/sfs/sfs_inode.c, with the   *)
(* reference counts of kern/fs/vfs/inode.c.                                 *)
(*                                                                         *)
(* The hash list is protected by fs_sem (lock_sfs_fs), but inode_ref_dec    *)
(* lowers ref_count without it and only then waits for the lock to reclaim  *)
(* the inode.  Meanwhile others may find the inode, use it and drop it      *)
(* again; reclaim_count settles who frees it.  A thread may lose the        *)
(* processor between any two actions, more often than in the kernel.        *)
(***************************************************************************)
EXTENDS Integers, FiniteSets, Null

CONSTANTS
    Threads,
    Inos,             \* inode numbers
    Nodes,            \* memory for struct inode
    MaxWrites         \* bound: changes of an inode

ASSUME CacheAssumption ==
    /\ IsFiniteSet(Threads)
    /\ NULL \notin Threads \cup Inos \cup Nodes
    /\ MaxWrites \in Nat

VARIABLES
    pc,               \* where each thread is
    node,             \* its inode pointer
    want,             \* the inode number it looks up
    fs_sem,           \* who holds the lock of the file system
    ino,              \* of each inode in memory; NULL: not allocated
    linked,           \* the inodes in the hash list
    ref_count,
    reclaim_count,
    dirty,
    din,              \* the changes that the inode in memory has seen
    disk,             \* those that the inode on disk has seen
    latest            \* history: those up to the last one that set dirty

vars == <<pc, node, want, fs_sem, ino, linked, ref_count, reclaim_count, dirty, din, disk, latest>>

Places == {"idle", "locking", "lookup", "loading", "using", "reclaim", "flush", "kill"}

TypeOK ==
    /\ pc \in [Threads -> Places]
    /\ node \in [Threads -> Nodes \cup {NULL}]
    /\ want \in [Threads -> Inos \cup {NULL}]
    /\ fs_sem \in Threads \cup {NULL}
    /\ ino \in [Nodes -> Inos \cup {NULL}]
    /\ linked \in SUBSET Nodes
    /\ ref_count \in [Nodes -> Nat]
    /\ reclaim_count \in [Nodes -> Nat]
    /\ dirty \in [Nodes -> BOOLEAN]
    /\ din \in [Nodes -> Nat]
    /\ disk \in [Inos -> Nat]
    /\ latest \in [Inos -> Nat]

Init ==
    /\ pc = [t \in Threads |-> "idle"]
    /\ node = [t \in Threads |-> NULL]
    /\ want = [t \in Threads |-> NULL]
    /\ fs_sem = NULL
    /\ ino = [n \in Nodes |-> NULL]
    /\ linked = {}
    /\ ref_count = [n \in Nodes |-> 0]
    /\ reclaim_count = [n \in Nodes |-> 0]
    /\ dirty = [n \in Nodes |-> FALSE]
    /\ din = [n \in Nodes |-> 0]
    /\ disk = [i \in Inos |-> 0]
    /\ latest = [i \in Inos |-> 0]
-----------------------------------------------------------------------------
Goto(t, place) == pc' = [pc EXCEPT ![t] = place]
data == <<dirty, din, disk, latest>>

(* sfs_load_inode begins.                                                   *)
sfs_load_inode(t, i) ==
    /\ pc[t] = "idle"
    /\ Goto(t, "locking")
    /\ want' = [want EXCEPT ![t] = i]
    /\ UNCHANGED <<node, fs_sem, ino, linked, ref_count, reclaim_count, data>>

lock_sfs_fs(t) ==
    /\ pc[t] = "locking"
    /\ fs_sem = NULL
    /\ fs_sem' = t
    /\ Goto(t, "lookup")
    /\ UNCHANGED <<node, want, ino, linked, ref_count, reclaim_count, data>>

(* Mutant: an inode that is about to be reclaimed does not get another      *)
(* reclaim_count when it is found again.                                    *)
lookup_sfs_nolockKeepsCount(t) ==
    LET found == {n \in linked : ino[n] = want[t]}
    IN  /\ pc[t] = "lookup"
        /\ \/ /\ found = {}
              /\ Goto(t, "loading")
              /\ UNCHANGED <<node, want, fs_sem, ref_count, reclaim_count>>
           \/ \E n \in found :
                /\ ref_count' = [ref_count EXCEPT ![n] = @ + 1]
                /\ node' = [node EXCEPT ![t] = n]
                /\ want' = [want EXCEPT ![t] = NULL]
                /\ fs_sem' = NULL
                /\ Goto(t, "using")
                /\ UNCHANGED reclaim_count
        /\ UNCHANGED <<ino, linked, data>>

(* An inode in the hash list gets another reference, and another            *)
(* reclaim_count if it had no reference left.                               *)
lookup_sfs_nolock(t) ==
    LET found == {n \in linked : ino[n] = want[t]}
    IN  /\ pc[t] = "lookup"
        /\ \/ /\ found = {}
              /\ Goto(t, "loading")
              /\ UNCHANGED <<node, want, fs_sem, ref_count, reclaim_count>>
           \/ \E n \in found :
                /\ ref_count' = [ref_count EXCEPT ![n] = @ + 1]
                /\ reclaim_count' = [reclaim_count EXCEPT ![n] =
                      IF ref_count[n] = 0 THEN @ + 1 ELSE @]
                /\ node' = [node EXCEPT ![t] = n]
                /\ want' = [want EXCEPT ![t] = NULL]
                /\ fs_sem' = NULL
                /\ Goto(t, "using")
        /\ UNCHANGED <<ino, linked, data>>

(* The inode is read from disk, which may block: sfs_create_inode and       *)
(* sfs_set_links, or the error paths.                                       *)
sfs_create_inode(t) ==
    /\ pc[t] = "loading"
    /\ \/ \E n \in Nodes :
            /\ ino[n] = NULL
            /\ ino' = [ino EXCEPT ![n] = want[t]]
            /\ linked' = linked \cup {n}
            /\ ref_count' = [ref_count EXCEPT ![n] = 1]
            /\ reclaim_count' = [reclaim_count EXCEPT ![n] = 1]
            /\ dirty' = [dirty EXCEPT ![n] = FALSE]
            /\ din' = [din EXCEPT ![n] = disk[want[t]]]
            /\ node' = [node EXCEPT ![t] = n]
            /\ Goto(t, "using")
       \/ /\ Goto(t, "idle")
          /\ UNCHANGED <<node, ino, linked, ref_count, reclaim_count, dirty, din>>
    /\ want' = [want EXCEPT ![t] = NULL]
    /\ fs_sem' = NULL
    /\ UNCHANGED <<disk, latest>>

(* vop_ref_inc by the holder of a reference, for a descriptor or a working  *)
(* directory of another process (dup_files).                                *)
vop_ref_inc(t, u) ==
    /\ pc[t] = "using"
    /\ pc[u] = "idle"
    /\ ref_count' = [ref_count EXCEPT ![node[t]] = @ + 1]
    /\ node' = [node EXCEPT ![u] = node[t]]
    /\ Goto(u, "using")
    /\ UNCHANGED <<want, fs_sem, ino, linked, reclaim_count, data>>

(* A change of the disk inode in memory that marks it: a new size, a block  *)
(* less, a block number stored in the inode itself.                         *)
write(t) ==
    /\ pc[t] = "using"
    /\ din[node[t]] < MaxWrites
    /\ din' = [din EXCEPT ![node[t]] = @ + 1]
    /\ latest' = [latest EXCEPT ![ino[node[t]]] = din[node[t]] + 1]
    /\ dirty' = [dirty EXCEPT ![node[t]] = TRUE]
    /\ UNCHANGED <<pc, node, want, fs_sem, ino, linked, ref_count, reclaim_count, disk>>

(* One that does not: sfs_bmap_load_nolock counts a block more whose number *)
(* is in an entry block, and the call stops there (a full disk in           *)
(* sfs_truncfile) or goes on without a new size (a read, a write inside).   *)
count_block(t) ==
    /\ pc[t] = "using"
    /\ din[node[t]] < MaxWrites
    /\ din' = [din EXCEPT ![node[t]] = @ + 1]
    /\ UNCHANGED <<pc, node, want, fs_sem, ino, linked, ref_count, reclaim_count>>
    /\ UNCHANGED <<dirty, disk, latest>>

(* sfs_fsync of a dirty inode that succeeds, by its user or by sfs_sync;    *)
(* one that fails leaves it dirty.                                          *)
sfs_fsync(n) ==
    /\ dirty[n]
    /\ dirty' = [dirty EXCEPT ![n] = FALSE]
    /\ disk' = [disk EXCEPT ![ino[n]] = din[n]]

fsync(t) ==
    /\ pc[t] = "using"
    /\ sfs_fsync(node[t])
    /\ UNCHANGED <<pc, node, want, fs_sem, ino, linked, ref_count, reclaim_count, din, latest>>

(* sfs_sync holds the lock and writes the inodes of the list one by one.    *)
sfs_sync(n) ==
    /\ fs_sem = NULL
    /\ n \in linked
    /\ sfs_fsync(n)
    /\ UNCHANGED <<pc, node, want, fs_sem, ino, linked, ref_count, reclaim_count, din, latest>>

(* inode_ref_dec: without the lock; the last one goes on to sfs_reclaim.    *)
inode_ref_dec(t) ==
    LET n == node[t]
    IN  /\ pc[t] = "using"
        /\ ref_count' = [ref_count EXCEPT ![n] = @ - 1]
        /\ Goto(t, IF ref_count[n] = 1 THEN "reclaim" ELSE "idle")
        /\ node' = [node EXCEPT ![t] = IF ref_count[n] = 1 THEN n ELSE NULL]
        /\ UNCHANGED <<want, fs_sem, ino, linked, reclaim_count, data>>

(* sfs_reclaim has got the lock: -E_BUSY if somebody else will reclaim the  *)
(* inode or uses it.                                                        *)
sfs_reclaim(t) ==
    LET n == node[t]
        busy == reclaim_count[n] # 1 \/ ref_count[n] # 0
    IN  /\ pc[t] = "reclaim"
        /\ fs_sem = NULL
        /\ reclaim_count' = [reclaim_count EXCEPT ![n] = @ - 1]
        /\ Goto(t, IF busy THEN "idle" ELSE "flush")
        /\ node' = [node EXCEPT ![t] = IF busy THEN NULL ELSE n]
        /\ fs_sem' = IF busy THEN NULL ELSE t
        /\ UNCHANGED <<want, ino, linked, ref_count, data>>

(* A dirty inode is written first; if that fails it stays in the list with  *)
(* reclaim_count 0.  Otherwise sfs_remove_links.  (The link count of a file *)
(* is never 0: nothing unlinks one.)                                        *)
sfs_remove_links(t) ==
    LET n == node[t]
    IN  /\ pc[t] = "flush"
        /\ fs_sem' = NULL
        /\ \/ /\ IF dirty[n] THEN sfs_fsync(n) ELSE UNCHANGED <<dirty, disk>>
              /\ linked' = linked \ {n}
              /\ Goto(t, "kill")
              /\ UNCHANGED node
           \/ /\ dirty[n]
              /\ Goto(t, "idle")
              /\ node' = [node EXCEPT ![t] = NULL]
              /\ UNCHANGED <<linked, dirty, disk>>
        /\ UNCHANGED <<want, ino, ref_count, reclaim_count, din, latest>>

(* vop_kill, outside the lock.                                              *)
inode_kill(t) ==
    /\ pc[t] = "kill"
    /\ ino' = [ino EXCEPT ![node[t]] = NULL]
    /\ node' = [node EXCEPT ![t] = NULL]
    /\ Goto(t, "idle")
    /\ UNCHANGED <<want, fs_sem, linked, ref_count, reclaim_count, data>>

Next ==
    \/ \E t \in Threads :
         \/ \E i \in Inos : sfs_load_inode(t, i)
         \/ lock_sfs_fs(t) \/ lookup_sfs_nolock(t) \/ sfs_create_inode(t)
         \/ \E u \in Threads : vop_ref_inc(t, u)
         \/ write(t) \/ count_block(t) \/ fsync(t)
         \/ inode_ref_dec(t) \/ sfs_reclaim(t) \/ sfs_remove_links(t) \/ inode_kill(t)
    \/ \E n \in Nodes : sfs_sync(n)

Spec == Init /\ [][Next]_vars
-----------------------------------------------------------------------------
Users(n) == {t \in Threads : pc[t] = "using" /\ node[t] = n}
Reclaimers(n) == {t \in Threads : pc[t] = "reclaim" /\ node[t] = n}

(* fs_sem is held by exactly the thread that works on the list.             *)
LockHeld ==
    \A t \in Threads : pc[t] \in {"lookup", "loading", "flush"} <=> fs_sem = t

(* What a thread has in its hands is still there: a user and a thread that  *)
(* waits to reclaim have an inode in the list; one that flushes or kills    *)
(* has an inode that nobody else knows.                                     *)
PointerValid(t) ==
    /\ pc[t] \in {"using", "reclaim", "flush"} => node[t] \in linked
    /\ pc[t] \in {"flush", "kill"} =>
         /\ ref_count[node[t]] = 0 /\ reclaim_count[node[t]] = 0
         /\ \A u \in Threads : u # t => node[u] # node[t]
    /\ pc[t] = "kill" => node[t] \notin linked /\ ino[node[t]] # NULL
    /\ pc[t] \in {"idle", "locking", "lookup", "loading"} <=> node[t] = NULL
    /\ pc[t] \in {"locking", "lookup", "loading"} <=> want[t] # NULL

PointersValid == \A t \in Threads : PointerValid(t)

(* An inode number is in memory once, and whoever reads it from disk has    *)
(* found it not in memory.                                                  *)
OneInodePerIno ==
    /\ \A n \in linked : ino[n] # NULL
    /\ \A n, m \in linked : ino[n] = ino[m] => n = m
    /\ \A t \in Threads : pc[t] = "loading" => \A n \in linked : ino[n] # want[t]

(* ref_count counts the users; reclaim_count counts the threads that wait   *)
(* to reclaim, and the users together as one.                               *)
Counted(n) ==
    /\ ref_count[n] = Cardinality(Users(n))
    /\ reclaim_count[n] = Cardinality(Reclaimers(n)) + IF Users(n) = {} THEN 0 ELSE 1

CountsExact == \A n \in linked : Counted(n)

(* No change that set dirty is lost, nor one made before such a change:     *)
(* while an inode is in memory with one that is not on disk it is dirty,    *)
(* and when it is not in memory they all are on disk.                       *)
NoChangeLost ==
    /\ \A n \in linked :
         /\ latest[ino[n]] <= din[n] /\ disk[ino[n]] <= din[n]
         /\ ~ dirty[n] => latest[ino[n]] <= disk[ino[n]]
    /\ \A i \in Inos : (\A n \in linked : ino[n] # i) => latest[i] <= disk[i]

(* What sfs_load_inode, the reference counts, sfs_fsync and sfs_reclaim keep *)
(* together, however the threads interleave where the disk or the lock lets *)
(* them: one inode per number, exact counts, no dangling inode, no change   *)
(* lost that was marked.                                                    *)
CacheInv ==
    TypeOK /\ LockHeld /\ PointersValid /\ OneInodePerIno /\ CountsExact /\ NoChangeLost
=============================================================================
