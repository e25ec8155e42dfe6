------------------------------- MODULE Stride -------------------------------
(* The stride scheduling class of default_sched_stride.c on the skew heap of *)
(* libs/skew_heap.h, under the calls that sched.c and proc.c make: schedule, *)
(* wakeup_proc, the tick and lab6_set_priority.  Strides are unsigned        *)
(* numbers of Width bits (32 in the code) that wrap round, and are compared  *)
(* as a signed difference.  The heap is kept as in the code, by the three    *)
(* pointers of each node.  Nothing but the root is ever taken out: the       *)
(* class's dequeue is called for the process that pick_next has chosen.      *)
(* Priorities above BIG_STRIDE, whose step is 0, are left out.               *)
EXTENDS Integers, FiniteSets

CONSTANTS
    Proc,            \* process structures, idleproc not among them
    NULL,            \* the null pointer; as current, idleproc
    Width,           \* bits of lab6_stride
    Priorities,      \* arguments of lab6_set_priority
    MAX_TIME_SLICE

StrideAssumption ==
    /\ NULL \notin Proc /\ IsFiniteSet(Proc)
    /\ Width \in Nat /\ Width > 2
    /\ Priorities \subseteq 0 .. 2 ^ (Width - 2)
    /\ MAX_TIME_SLICE \in Nat \ {0}

VARIABLES
    state,           \* "UNINIT", "SLEEPING" or "RUNNABLE"
    current,         \* who has the processor
    need_resched,    \* of current; nobody else's is ever set
    time_slice,
    lab6_stride,
    lab6_priority,
    pool,            \* [root, left, right, parent]: rq->lab6_run_pool
    proc_num

vars == <<state, current, need_resched, time_slice, lab6_stride,
          lab6_priority, pool, proc_num>>

Modulus == 2 ^ Width
BIG_STRIDE == 2 ^ (Width - 2)

(* BIG_STRIDE / priority.  A process that never set its priority has 0, for  *)
(* which C defines nothing; the divuw instruction of the build gives a word  *)
(* of ones, and the sum wraps to one less.                                   *)
Increment(priority) ==
    IF priority = 0 THEN Modulus - 1 ELSE BIG_STRIDE \div priority

----------------------------------------------------------------------------
(* proc_stride_comp_f(a, b) == -1: the difference of two unsigned words,     *)
(* read as a signed one, is below zero.                                      *)

\* Mutant: the strides are compared as they are, without the difference.
proc_stride_comp_fPlain(stride, a, b) == stride[a] < stride[b]

proc_stride_comp_f(stride, a, b) ==
    (stride[a] - stride[b]) % Modulus >= Modulus \div 2

\* skew_heap_merge: the trees at a and b of heap h become one, at root.
RECURSIVE skew_heap_merge(_, _, _, _)
skew_heap_merge(stride, h, a, b) ==
    IF a = NULL THEN [h EXCEPT !.root = b]
    ELSE IF b = NULL THEN [h EXCEPT !.root = a]
    ELSE LET first == proc_stride_comp_f(stride, a, b)
             top   == IF first THEN a ELSE b
             rest  == IF first THEN b ELSE a
             m     == IF first
                      THEN skew_heap_merge(stride, h, h.right[a], b)
                      ELSE skew_heap_merge(stride, h, a, h.right[b])
         IN  [root   |-> top,
              left   |-> [m.left EXCEPT ![top] = m.root],
              right  |-> [m.right EXCEPT ![top] = h.left[top]],
              parent |-> [m.parent EXCEPT ![m.root] = top]]

skew_heap_init(h, p) ==
    [h EXCEPT !.left[p] = NULL, !.right[p] = NULL, !.parent[p] = NULL]

skew_heap_insert(stride, h, p) ==
    skew_heap_merge(stride, skew_heap_init(h, p), h.root, p)

(* What the links of p itself hold afterwards is of no interest:             *)
(* skew_heap_init sets them before they are read again.                      *)
skew_heap_remove(stride, h, p) ==
    LET up  == h.parent[p]
        m   == skew_heap_merge(stride, h, h.left[p], h.right[p])
        rep == m.root
        \* if (rep) rep->parent = p
        par == [q \in Proc |-> IF q = rep THEN up ELSE m.parent[q]]
    IN  skew_heap_init(
          [root   |-> IF up = NULL THEN rep ELSE h.root,
           left   |-> [q \in Proc |-> IF q = up /\ m.left[q] = p
                                      THEN rep ELSE m.left[q]],
           right  |-> [q \in Proc |-> IF q = up /\ m.left[q] # p
                                      THEN rep ELSE m.right[q]],
           parent |-> par], p)

----------------------------------------------------------------------------
(* The class, on the record of what it changes.                              *)

RunQueue == [pool |-> pool, num |-> proc_num, slice |-> time_slice,
             stride |-> lab6_stride]

stride_enqueue(rq, p) ==
    [rq EXCEPT !.pool = skew_heap_insert(rq.stride, rq.pool, p),
               !.slice[p] = IF @ = 0 \/ @ > MAX_TIME_SLICE
                            THEN MAX_TIME_SLICE ELSE @,
               !.num = @ + 1]

stride_dequeue(rq, p) ==
    [rq EXCEPT !.pool = skew_heap_remove(rq.stride, rq.pool, p),
               !.num = @ - 1]

\* stride_pick_next returns the root and moves its stride on.
stride_pick_next(rq) ==
    [rq EXCEPT !.stride[rq.pool.root] =
        (@ + Increment(lab6_priority[rq.pool.root])) % Modulus]

SetQueue(rq) ==
    /\ pool' = rq.pool
    /\ proc_num' = rq.num
    /\ time_slice' = rq.slice
    /\ lab6_stride' = rq.stride

----------------------------------------------------------------------------
Queued == {p \in Proc : state[p] = "RUNNABLE" /\ p # current}

----------------------------------------------------------------------------
Init ==
    /\ state = [p \in Proc |-> "UNINIT"]
    /\ current = NULL
    /\ need_resched = TRUE
    /\ time_slice = [p \in Proc |-> 0]
    /\ lab6_stride = [p \in Proc |-> 0]
    /\ lab6_priority = [p \in Proc |-> 0]
    /\ pool = [root   |-> NULL,
               left   |-> [p \in Proc |-> NULL],
               right  |-> [p \in Proc |-> NULL],
               parent |-> [p \in Proc |-> NULL]]
    /\ proc_num = 0

(* schedule(), called by a current process whose state is now s: it is       *)
(* queued again if it is still runnable, and the root of the pool runs next. *)
schedule(s) ==
    LET again == current # NULL /\ s = "RUNNABLE"
        rq    == IF again THEN stride_enqueue(RunQueue, current)
                 ELSE RunQueue
        next  == rq.pool.root
    IN  /\ state' = IF current = NULL THEN state
                    ELSE [state EXCEPT ![current] = s]
        /\ current' = next
        /\ need_resched' = FALSE
        /\ SetQueue(IF next = NULL THEN rq
                    ELSE stride_dequeue(stride_pick_next(rq), next))
        /\ UNCHANGED lab6_priority

\* The tail of trap(), and the loop of cpu_idle.
Reschedule == need_resched /\ schedule("RUNNABLE")

\* The current process sleeps, or dies and is reaped later by its parent.
Leave == current # NULL /\ \E s \in {"SLEEPING", "UNINIT"} : schedule(s)

wakeup_proc(p) ==
    /\ state' = [state EXCEPT ![p] = "RUNNABLE"]
    /\ SetQueue(stride_enqueue(RunQueue, p))

\* A timer, a key, a child or an up ends a sleep.
Wake ==
    /\ \E p \in Proc \ {current} : state[p] = "SLEEPING" /\ wakeup_proc(p)
    /\ UNCHANGED <<current, need_resched, lab6_priority>>

(* do_fork: alloc_proc gives a new process stride 0 and priority 0; idleproc *)
(* makes only the first one, at boot.                                        *)
do_fork ==
    /\ current = NULL => \A q \in Proc : state[q] = "UNINIT"
    /\ \E p \in Proc :
           /\ state[p] = "UNINIT" /\ p # current
           /\ state' = [state EXCEPT ![p] = "RUNNABLE"]
           /\ lab6_priority' = [lab6_priority EXCEPT ![p] = 0]
           /\ SetQueue(stride_enqueue(
                  [RunQueue EXCEPT !.stride[p] = 0, !.slice[p] = 0], p))
           /\ UNCHANGED <<current, need_resched>>

lab6_set_priority ==
    /\ current # NULL
    /\ \E priority \in Priorities :
           lab6_priority' = [lab6_priority EXCEPT
               ![current] = IF priority = 0 THEN 1 ELSE priority]
    /\ UNCHANGED <<state, current, need_resched, time_slice, lab6_stride,
                   pool, proc_num>>

\* do_yield.
Yield ==
    /\ current # NULL
    /\ need_resched' = TRUE
    /\ UNCHANGED <<state, current, time_slice, lab6_stride, lab6_priority,
                   pool, proc_num>>

\* sched_class_proc_tick: stride_proc_tick, or a flag for idleproc.
Tick ==
    /\ ~ need_resched
    /\ IF current = NULL
       THEN need_resched' = TRUE /\ UNCHANGED time_slice
       ELSE LET left == IF time_slice[current] > 0
                        THEN time_slice[current] - 1 ELSE 0
            IN  /\ time_slice' = [time_slice EXCEPT ![current] = left]
                /\ need_resched' = (left = 0)
    /\ UNCHANGED <<state, current, lab6_stride, lab6_priority, pool,
                   proc_num>>

Next == \/ Reschedule \/ Leave \/ Wake \/ do_fork
        \/ lab6_set_priority \/ Yield \/ Tick

Spec == Init /\ [][Next]_vars

----------------------------------------------------------------------------
TypeOK ==
    /\ state \in [Proc -> {"UNINIT", "SLEEPING", "RUNNABLE"}]
    /\ current \in Proc \cup {NULL}
    /\ need_resched \in BOOLEAN
    /\ time_slice \in [Proc -> 0 .. MAX_TIME_SLICE]
    /\ lab6_stride \in [Proc -> 0 .. Modulus - 1]
    /\ lab6_priority \in [Proc -> 0 .. BIG_STRIDE]
    /\ proc_num \in 0 .. Cardinality(Proc)

\* The processes in the subtree of each node, by at most n links.
Below[n \in 0 .. Cardinality(Proc)] ==
    [p \in Proc |->
        {p} \cup IF n = 0 THEN {}
                 ELSE UNION {Below[n - 1][q] :
                             q \in {pool.left[p], pool.right[p]} \ {NULL}}]

InPool == IF pool.root = NULL THEN {}
          ELSE Below[Cardinality(Proc)][pool.root]

(* The pool holds exactly the runnable processes that do not run, each once: *)
(* a node has one parent, the link back agrees, the root has none, and       *)
(* proc_num counts them.                                                     *)
PoolExact ==
    /\ InPool = Queued
    /\ proc_num = Cardinality(Queued)
    /\ pool.root # NULL => pool.parent[pool.root] = NULL
    /\ \A p \in Queued :
           /\ {pool.left[p], pool.right[p]} \subseteq InPool \cup {NULL}
           /\ pool.left[p] # NULL => pool.left[p] # pool.right[p]
           /\ p # pool.root =>
                  /\ pool.parent[p] \in InPool
                  /\ p \in {pool.left[pool.parent[p]],
                            pool.right[pool.parent[p]]}

(* As long as the queued strides lie within half their range, wherever the   *)
(* wrap falls, the process picked next is the one that is least far on.      *)
LeastOnTop ==
    \A low \in 0 .. Modulus - 1 :
        (\A p \in Queued : (lab6_stride[p] - low) % Modulus < Modulus \div 2)
        => \A p \in Queued :
              (lab6_stride[pool.root] - low) % Modulus
                  <= (lab6_stride[p] - low) % Modulus

(* What the stride class keeps through forks, sleeps, wakeups and picks: the *)
(* heap holds the right processes, and its root is the least by the strides  *)
(* of stride_pick_next's comment, wrapped round or not.                      *)
StrideInv == TypeOK /\ PoolExact /\ LeastOnTop
=============================================================================
