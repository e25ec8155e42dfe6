# A TLA+ verification of the ucore kernel of lab8

The repository holds the ucore operating system as it grows over eight
laboratories (`src/lab0` ... `src/lab8`), a C kernel for one RISC-V processor.
Each laboratory repeats the code of the one before; `src/lab8` is the complete
kernel, and it is the one modelled here. The exceptions are the best-fit, buddy
and slub allocators, which exist only in `src/lab2`.

Contents: 1 the system, 2 who runs when, 3 modules and code, 4 runs,
5 fairness, 6 findings, 7 proofs, 8 what is only model-checked, 9 not modelled,
10 plan, 11 how to run.

## 1. The system

| component | state it keeps | operations | must be right |
|---|---|---|---|
| process identifiers, `proc.c:get_pid` | the statics `last_pid`, `next_safe`; `proc_list` | `get_pid`, `set_links`, `remove_links` | no identifier in use is given out, after any sequence of forks and reaps and across the wrap at `MAX_PID`; the scan ends |
| process life cycle, `proc.c` | `state`, `wait_state`, `flags`, the tree `parent/cptr/optr/yptr`, `nr_process` | `do_fork`, `do_exit`, `do_wait`, `do_kill`, `do_yield`, `do_sleep`, `init_main`, `user_main`, `cpu_idle` | no lost wakeup, no lost child, only the parent reaps, initproc reaps the orphans, the kernel ends only when no process is left |
| scheduler and round robin, `sched.c`, `default_sched.c` | `run_list`, `time_slice`, `need_resched`, `current` | `schedule`, `wakeup_proc`, `RR_*` | the queue is exactly the runnable processes, each once; nobody starves |
| timers, `sched.c` | `timer_list`, delta-encoded `expires` | `add_timer`, `del_timer`, `run_timer_list` | a timer is not moved by another; a sleeper wakes on its tick; no timer outlives the stack frame it lies in |
| traps, `trap.c` | `ticks` and the trap frame | the timer interrupt, the tail of `trap()` | a killed or used-up process is dealt with on the way out |
| page allocators, `default_pmm.c`, lab2 `best_fit_pmm.c` | the free list, `property`, `PageProperty`, `nr_free` | `init_memmap`, `alloc_pages`, `free_pages` | free and held pages partition memory; merging is complete; the policy is kept |
| semaphores, `sem.c`, `wait.c` | `value`, the wait queue | `up`, `down` (`try_down` has no caller) | no unit lost or given twice |
| monitor, `monitor.c` | `mutex`, `next`, `next_count`, `cv[i]` | `cond_wait`, `cond_signal` | one active thread, the signalled condition still holds |
| philosophers, `check_sync.c` | `state_sema`, `state_condvar` | take and put forks, twice | neighbours do not eat together, everybody gets through |
| areas, `vmm.c` | `mmap_list`, `mmap_cache` | `mm_map`, `find_vma`, `dup_mmap`, `user_mem_check`, `copy_string` | areas sorted and disjoint; a range is accepted exactly when every byte of it may be accessed |
| page tables, `pmm.c` | three levels of tables, page reference counts | `get_pte`, `page_insert`, `copy_range`, `unmap_range`, `exit_range` | a page has one use and one entry; an exit gives all back |
| kernel heap, `kmalloc.c` | the SLOB ring, the big blocks | `kmalloc`, `kfree` | blocks do not overlap, are joined, and are large enough |
| resources of a process, `proc.c` | stack, mm, page directory, areas, files, arguments | `do_fork`, `do_execve`, `load_icode`, `do_exit`, `do_wait` | every error path gives back what was taken, once |
| open files, `file.c`, `fs.c`, `vfsfile.c`, `inode.c` | descriptors, reference and open counts of inodes | open, close, dup, chdir, fork, exec, exit | counts agree with users |
| inodes in memory, `sfs_inode.c` | the hash list, `ref_count`, `reclaim_count`, `dirty` | load, look up, reclaim, sync | one copy of an inode, no change lost, nothing freed in use |
| file contents, `sfs_inode.c` | block maps, the free map, sizes, positions | read, write, seek, truncate | a block belongs to one file; files hold what was written |
| console and stdin, `console.c`, `dev_stdin.c` | two rings, the wait queue | interrupt, read, kill | keys arrive in order, no reader sleeps over a key |
| stride class, `default_sched_stride.c` | skew heap of strides | enqueue, dequeue, pick | the heap is right; order under wrap-round (not selected by `sched_init`) |
| buddy and slub allocators of lab2 | free lists per order; slabs, bitmaps | allocate, release | blocks tile the memory; slabs on the right list |

How they interact. The timer interrupt calls `run_timer_list`, which calls
`wakeup_proc` for the timers that run out and then `RR_proc_tick` for the
current process; `trap()` looks at `PF_EXITING` and `need_resched` on the way
out. `do_exit` and `do_kill` call `wakeup_proc`; `do_wait`, `do_sleep` and
`down` set the state of the caller and call `schedule()`. `do_fork` takes an
identifier from `get_pid` and links the child. `down` and `up` sit under the
monitor, the file systems and the memory descriptors.

What is hard here: wakeups against sleeps, kills against every kind of sleep,
the rewiring of the process tree by exits in any order, state that is kept in
statics between calls (`get_pid`), timers that live on the stack, the
delta-encoded list with ties, the merging in the free list after long sequences
of calls, hand-over of a semaphore and of a monitor, an inode that is reclaimed
while it is looked up, file positions and lookup caches that are stale when
used, a disk or a memory that runs full in the middle of a call, and error paths
that give back only part of what was taken. `PROJECT.json` lists these hazards with their
lines and with the properties that cover them.

## 2. Who runs when

All models rest on these facts of the source.

- One processor. It changes hands only in `schedule()` (`sched.c:88`).
- A system call runs with interrupts off: the trap turns them off, and nothing
  turns them on before the return. A user process is therefore interrupted only
  in user mode.
- A trap taken in kernel mode never reschedules (`trap.c`, the test
  `trap_in_kernel`). The kernel threads idleproc, initproc and, before it
  executes a program, user_main run with interrupts on, so they can be ticked,
  but a tick never takes the processor from them directly.
- Every critical section of `proc.c`, `sched.c`, `sem.c`, `wait.c` and of the
  page allocator is bracketed by `local_intr_save` and `local_intr_restore`.

In `ProcSched` this becomes: `current` is the process that has the processor,
`pc[p]` the place in the kernel where `p` stands or will go on, `IntrOn` the
places where `Tick` may happen.

## 3. Modules and code

`PROJECT.json` maps every definition to its lines. Names are those of the
source. A definition whose name ends in a word of its own after the source's
name and whose comment says "Mutant" is a deliberately wrong form used to test
a property; no specification uses it.

**PidSpec, PidAlloc.** `PidSpec` is the promise: a fork takes some identifier
nobody has, a reap gives one back. `PidAlloc` is `get_pid` with its statics; the
scan of `proc_list` is one action per process (`Scan`), with the restart of
`goto repeat`; `set_links` and `remove_links` are the fork and the reap that
change the set of identifiers. The list is a set scanned in any order, which
allows more than the code does.

**ProcSched.** State: the fields of `struct proc_struct` that control looks at,
plus `pc`, `kid` (the loop variable of `do_wait`), `want` (its argument) and
`halt` (how the kernel stopped). `do_wait` is split at its label `repeat`, at
each iteration of its loop over the children and at its return from
`schedule()`; `do_exit` is split at each iteration of its loop over the children
that it hands to initproc; `do_sleep` at its return from `schedule()`. Each of
them is atomic in the kernel or nearly so; the finer steps let a tick in where
the code really has interrupts on, as in initproc's `do_wait`. `wakeup_proc`
takes a set because the tick may wake several processes, in any order.
`schedule` is one action and so is `Tick`, with everything that
`run_timer_list` does in it. A process structure is its identifier here; which
number it gets is the business of `PidAlloc`. `sys_panic` is what any user process
can do to the kernel: an undefined system call (`syscall.c:216`) or a misaligned
store (`trap.c:178`) ends it in a panic of its own, `halt = "trap"`. A read of stdin
(`sys_read` and the actions after it) is followed as far as it puts its caller to
sleep in `WT_KBD` and a key or a kill wakes it; whether the buffer has a key is a
choice. `sys_noop` stands for the calls that leave all of this state alone and end
without a sleep (failed early checks, calls of other components, exceptions that
are only printed). `down` is among them: no semaphore of this build is held over a
`schedule()`, so it finds its unit, and nobody sleeps in `WT_KSEM` but the
threads of `check_sync`, which have their own modules.

**TimerSpec, TimerList.** `TimerSpec` is a table of independent countdowns.
`TimerList` is the list of the code, with `expires` relative to the entry
before. `ProcSched` keeps only how many ticks each timer has left. Its property
`TimersOwned` says with the actions of `TimerSpec` who does what: a tick counts all
of them down, and beside it only the running process arms a timer, its own
and one that is off, or stops its own, if it has been killed. `TimerSpec` alone would let
anybody stop a timer.

**FreeList.** The page allocator with the pointers of `libs/list.h`: `next` and
`prev` are separate functions because the code reads both and one of the
findings is that they disagree. Each iteration of the search and of the ordered
insertion is an action, and so are the two merges. `pmm_manager` is the allocator
chosen at boot; under `BestFit` the search loop is that of `best_fit_pmm.c`, and
the rest of the two files is the same.

**Semaphore, Philosophers, PhiSema, PhiCondvar.** `Philosophers` is the table they
share: their number, their neighbours, their meals. `Semaphore` has `up` and `down` as operators
over `value` and `wait_queue`, with the hand-over of the code: an `up` that
finds a waiter takes it off the queue and leaves `value` alone.
`PhiSema` and `PhiCondvar` are the two halves of `check_sync`, one action per
statement that touches shared state. They interleave between any two steps,
more finely than the kernel does. In this commit the call of `check_sync` in
`init_main` (`proc.c:1226`) is commented out; the code it would run is what is
modelled.

**ProcResources.** What `do_fork`, `do_execve`, `load_icode`, `do_exit` and
`do_wait` take and give back, one action per allocation or release, where every
allocation may fail. `own` is what belongs to a process, `new` what the call at
work holds; `lost` records what nobody can give back any more.

**StdinInput.** The console ring, the stdin buffer and the interruptible wait
queue of `wait.c`. A read is one action up to its `schedule()` and one from
there; the tick polls the console. Keys are numbers in the order typed, so that
order and loss can be stated.

**FileTable.** Descriptor tables and inode counts. A call that may block inside
the file system is two actions (`file_io` and `io_done`; `file_open` and
`truncated`). Which inode a path leads to is the caller's choice. The counts of
`struct inode` are `inode_ref_count` and `inode_open_count` here, and `Init` and
its like `TableInit` and so on, so that one module can extend both `FileTable` and
`InodeCache`; the null pointer of both is the constant of `Null`.

**InodeCache.** The hash list of loaded inodes under `fs_sem`. `inode_ref_dec`
works outside the lock, so between the last release of an inode and its reclaim
others may find it again; `reclaim_count` is the code's answer. Threads lose the
processor between any two actions, more often than in the kernel. A change of
the inode in memory marks it (`write`) or does not (`count_block`, a block counted under
an entry block); `latest` is the last change that was marked.

**SfsFile.** Block map with direct entries and one entry block, free map, reads,
writes, seeks and truncation through descriptors, one block per step. The disk
is memory (`ramdisk.c`) and does not fail; it can be full. `content` is the
reference: what the file should hold. `dirty` is the mark of the inode, `unmarked`
counts the blocks it has got without it. The last close writes a marked inode and
frees it, so an unmarked one loses these blocks (`stale`); the block map and
the bytes are claimed of the other files. What becomes of such a file is not followed
(see section 4).

**VmaSpace.** Areas as a sequence, with the one-entry `mmap_cache`.
`user_mem_check` and `copy_string` are operators with the loops of the code; the
invariants compare them, for every range, with a definition over single bytes.

**PageTable.** Three levels of tables whose nodes are pages of the same memory,
so that running out of memory hits tables and data alike. Fork and exit go one
page or one area per step.

**KernelHeap.** The SLOB ring by unit addresses, from `slobfree` on, with the
split and the joins of the code, and the big blocks.

**Stride.** The class with the three pointers of every skew heap node, strides
modulo `2^Width`, and the calls of `sched.c`. A division by priority 0 yields a
word of ones, as the `divuw` instruction does.

**Buddy, Slub.** The two allocators of lab2. In `Buddy` the buddy is looked up as
the code does, with a physical page number for an index. Where that is past the
array (with the `nbase` of the machine it always is) the structure read lies in
memory that the allocator gives out, so what callers wrote decides whether it looks
like a free block of the order (`MayLookFree`). If it does, the code unlinks it
through whatever the caller has there: the model chooses either outcome and ends with the
second (`stray`). In `Slub` a slab is its page; the page allocator below
gives any block of free pages. `slub_free` of a page block looks at a word its
holder may have written; if it is not zero the data is taken for a slab, and the
model ends (`misread`).

**The MC modules.** `MCProcSched` instantiates `ProcSched` alone. `MCParts`
(`PidAlloc`, `TimerList`, `StdinInput`), `MCSync` (`PhiSema`, `PhiCondvar`),
`MCAllocators` (`FreeList` with either policy, `Buddy`, `Slub`, `KernelHeap`),
`MCFiles` (`FileTable`, `InodeCache`, `SfsFile`) and `MCProcesses`
(`ProcResources`, `VmaSpace`, `PageTable`, `Stride`) check the components of one
subsystem in one run. The components of such a module share no variable: where
the code has them call each other, the model of the caller leaves the answer of
the callee open (an allocation may fail, a lookup may find any inode, a kill may
come at any time), and the callee allows every sequence of calls. So the product
of all of them has, component by component, the behaviours each has alone, and
it is enough to let one component run per behaviour: `part` is chosen at the
start and the others rest. The two properties that a
component must end (`SemaphoresEnd`, `MonitorEnds`) are guarded by `part`; the others
need no guard, because a component at rest stays in its initial state, where
nobody waits (some invariants have one, to save TLC from evaluating them there). `MCParts` extends all
of `PidAlloc`, `TimerList` and `StdinInput`, `MCSync` both `PhiSema` and `PhiCondvar`, `MCProcesses`
both `ProcResources` and `VmaSpace`, `MCAllocators` both `FreeList` and `Slub`: what a run
checks and what a theorem states is one definition. That is why `Init` and its like are
named `TimersInit`, `StdinInit`, `MonitorInit`, `SlubInit` and so on in all but the
first.

`ProcSchedProofs`, `PhiSemaProofs` and `PhiCondvarProofs` hold the
theorems, each about the module it is named for; `PartsProofs` holds those about
`PidAlloc`, `TimerList` and `StdinInput`, `AllocatorProofs` those about `FreeList` and `Slub`,
`FilesProofs` those about `InodeCache` and `FileTable`,
`ProcessProofs` those about `ProcResources` and `VmaSpace`. `DataLemmas` holds what several of them need: queues, least
elements, induction, the values of a recursive function, and remainders.

## 4. Runs, and why the bounds are enough

| run | module, configuration | checks |
|---|---|---|
| `proc` | `MCProcSched`, `MCProcSched.cfg` | `ProcInv`, `FamilyInv`, `NoLostChild`, `TreeConsistent`, `EndsInOrder`, `ZombieReapedByParent`, `SleepLasts`, `TimersOwned` |
| `proc_live` | `MCProcSched`, `MCProcLive.cfg` | `NoStarvation`, `OrphansReaped`, `SleepEnds`, `KilledExits` |
| `parts` | `MCParts`, `MCParts.cfg` | `PidInv`, `RefinesPidSpec`, `GetPidReturns`; `TimerInv`, `ImplementsTimers`, `WakesOnTime`; `StdinInv`, `WaitingReaderServed` |
| `sync` | `MCSync`, `MCSync.cfg` | `PhiInv`, `ForksExclusive`, `HungryForReason`, `SemaphoresEnd`; `MonitorInv`, `MonitorEnds` |
| `allocators` | `MCAllocators`, `MCAllocators.cfg` | `FreeListInv`, `AllocKeepsPolicy`, `CallsReturn`; `BuddyInv`; `SlubInv`; `HeapInv` |
| `files` | `MCFiles`, `MCFiles.cfg` | `FileInv`; `CacheInv`; `SfsInv` |
| `processes` | `MCProcesses`, `MCProcesses.cfg` | `ResInv`; `VmaInv`; `PageInv`; `StrideInv` |
| `stdin_kill` | `MCParts`, `MCStdinKill.cfg` | expected violation of `KillEndsRead` |
| `free_tail` | `MCAllocators`, `MCFreeTail.cfg` | expected violation of `FreeListCheck` |
| `sfs_stale_pos` | `MCFiles`, `MCSfsStale.cfg` | expected violation of `IndexInFile` |
| `sfs_dirty` | `MCFiles`, `MCSfsDirty.cfg` | expected violation of `DirtyIfModified` |
| `fork_fails` | `MCProcesses`, `MCForkFails.cfg` | expected violation of `ForkReleases` |

Where several invariants belong together a run checks their conjunction; each
part has a name and a comment in its module:

- `PidInv`: types, `WindowFree` (no live identifier inside the cached window,
  and what the scan has established so far) and `CountAgrees`;
- `ProcInv`: types, `RunQueueExact` (the queue is the runnable processes, each
  once), `PlacesAgree` (where a process stands agrees with its state and wait
  state) and `TimerOwnerInDoSleep` (an armed timer's stack frame exists);
- `TreeConsistent`: `ParentsLive` (who has a parent, and that it lives),
  `LinksAgree` (`cptr`, `optr` and `yptr` fit together), `ChildListComplete`
  (following `optr` from `cptr` meets every child), `NoCycle` (everybody descends
  from initproc) and `CountAgrees` (`nr_process` is right);
- `FamilyInv`: `TreeConsistent`, `NoLostChild` and `EndsInOrder` with what makes
  them inductive: `ScanCovers` (the zombies among the children are still ahead of
  the loop of `do_wait`) and `InitprocWaits` (where initproc can be);
- `TimerInv`: types, `HeadNotDue` (the assert of `run_timer_list`: the first timer
  never has `expires` 0) and `LastInTime` (the differences add up to no more than
  was asked for);
- `FreeListInv`: types, `FreeListCheck` (what `default_check` asserts),
  `LinksAgree`, `MemoryPartitioned` (free and held pages are exactly the
  memory), `FlagsExact` and `FullyMerged`, all of them about the time between two
  calls, and `CallInv`, the inductive part, which holds in the middle of a call too;
- `PhiInv`: types, `MutexHeld`, `ForkTokens`, `TestHolds`, `StatesExclusive`;
- `MonitorInv`: `MonitorExclusive`, `MonitorReleased`, `SignalledMayEat`
  (the condition holds after `cond_wait`), `ForksExclusive`, and `MonitorState`, the
  inductive part of section 7;
- `StdinInv`: types, `KeysAccounted` (every key once at most, in order but where
  a full buffer replaced one, and none missing but those a full ring cost) and
  `SleepersQueued`;
- `ResInv`: types, `Complete` (nothing given back twice, no half-built process),
  `LossesKnown` (only the two losses of section 6 happen), `TakenSoFar` (what a call
  holds at each of its labels) and `OwnExact` (what a process owns);
- `FileInv`: types, `UsersCounted` (open and reference counts are the numbers of
  users, and of references lost as in section 6), `EntriesAgree` (the asserts of
  `file.c`) and `UnusedEmpty` (a process that does not exist holds nothing);
- `CacheInv`: types, `LockHeld`, `PointersValid`, `OneInodePerIno`,
  `CountsExact` and `NoChangeLost` (of the changes that set `dirty`, and of those
  before such a change);
- `SfsInv`: types, `BlocksOwnedOnce`, `MapFitsSize` (at most one block short, and
  then without a written byte in what is missing), `BytesAsWritten`;
- `VmaInv`: types, `ListSorted`, `CacheInList`, `CheckExact`, `StringExact`;
- `PageInv`: types, `UsedOnce`, `MappedInAreas`, `OnlyTablesLost` (an exit loses
  tables at most, never a page of data);
- `HeapInv`: types, `Partitioned`, `RingSorted`, `SmallFits`, `BigNearlyFits` (a big
  block is short of its size by less than a byte for each of its pages);
- `StrideInv`: types, `PoolExact` (the heap is the queued processes and its
  links agree) and `LeastOnTop` (the root is least whenever the queued strides
  lie within half the range, wherever they wrap);
- `BuddyInv`: types, `Tiled`, `FlagsExact`, `CountExact`, up to a join that strays;
- `SlubInv`: types, `OnRightList`, `MarkedAreHeld`, `Apart`, up to a release that
  takes data for a slab.

What the others say: `SemaphoresEnd` and `MonitorEnds`, every philosopher gets
through all his meals. `NoLostChild`, nobody sleeps in `do_wait` while a child it
waits for is a zombie. `EndsInOrder`, no assert fails, the panics of `do_exit`,
`do_wait` and `init_main` come only after a kill of initproc or a failure of its
first `kernel_thread`, and the machine ends in order only when no process is left;
it does not speak of `sys_panic`.
`ZombieReapedByParent`, `SleepLasts` and `TimersOwned` restrict what a step may do to
a zombie, to a sleeper and to a timer. `AllocKeepsPolicy` compares what is given out with the policy stated
over the maximal runs of free pages, without the list. `WakesOnTime`, a tick wakes exactly whose time is up.
`HungryForReason`, a hungry philosopher has an eating neighbour when nobody is
in the critical section. `WaitingReaderServed`, a key in the console ring wakes
a sleeping reader unless a full ring loses it. Each property has a mutant in `PROJECT.json`, a wrong form of the
modelled code that violates it.

Bounds, component by component:

- `PidAlloc` (`MAX_PROCESS` 5, `MAX_PID` 8): four identifiers beside idleproc in a
  range of seven; the window wraps, the scan restarts, and identifiers are reaped
  below, inside and above the window. The code's `MAX_PID` is twice its
  `MAX_PROCESS`; here it is tighter, close to the least the `static_assert` allows.
- `ProcSched` in `proc`: three structures give a grandparent, a parent and a child
  beside initproc, so that a zombie is inherited, and three siblings, so that a
  child is removed from the head, the middle and the tail of the list. With a
  slice of one each tick exhausts it; slices of two are in `proc_live`, which has
  two structures because liveness cannot use symmetry. With sleeps of two ticks
  a kill can come in the middle of one.
- `TimerList`: four timers over four ticks give ties at the head, in the middle
  and at the tail.
- `StdinInput`: two readers of up to two characters compete for five keys; rings
  of two and three places overflow and wrap. One reader and three keys are
  enough for `stdin_kill`.
- `PhiSema`, `PhiCondvar`: four is the least number of philosophers at which two
  can eat at once and at which each has two distinct neighbours and a stranger
  (the code has five); a second meal meets the leftovers of the first.
- `FreeList`: seven pages hold four blocks with gaps, so a release merges with
  neither, either or both neighbours, and blocks of several sizes compete.
  Callers may free any part of what they hold, as `unmap_range` does. The view
  leaves out the leftover links of pages that head no block: every path writes
  them before it reads them. The branch that adds a block at the
  tail is left to `free_tail` (section 6), for which four pages are enough.
- `Buddy`: six pages, not aligned, give blocks of two and of four at boot, so that
  both the halving of `buddy_init_memmap` and two levels of splitting occur.
- `Slub`: four pages; a slab of one object goes from free to full at once, one of
  three passes through all lists.
- `KernelHeap`: three pages of six units; with its header a block takes two units or
  three, one size is the last below a page, the others take a page and two, and
  there are blocks to join on either side and at the wrap.
- `FileTable`: initproc and two processes with tables of three entries, one file
  and two directories: an inode is shared across processes and inside one, and a
  table can be full. `MaxLost` cuts the exploration off after one failed
  exclusive open per inode.
- `InodeCache`: three threads are a reclaimer, one that finds the inode again and
  one that waits behind both; two nodes for one inode number, so that an inode
  is loaded anew while the old node is being freed. `MaxWrites` allows two
  changes, one marked and one not in either order. Inodes of different
  numbers meet only at the lock: TLC confirms `CacheInv` for two numbers too, with two
  changes and two nodes, and with one change and three nodes.
- `SfsFile`: with one direct entry and two in the entry block a file of three
  blocks of two bytes uses both kinds, and two files exhaust a disk of three
  blocks. A transfer of three bytes begins or ends inside a block wherever it
  starts. With transfers of one byte as well, which lie inside one block, TLC confirms
  `SfsInv` over 2.4 million states in three minutes, too long to be part of the
  run `files`. The constraint `Bounded` stops at a close that drops a block of a
  file, beyond which nothing is claimed of that file; without it TLC
  confirms `SfsInv` over 2.3 million states.
- `ProcResources`: initproc and three processes; every allocation of every call
  may fail, so each label of the error paths is reached from each place.
- `VmaSpace`: ranges over three pages of two bytes, aligned or not, in two address
  spaces with up to three areas, with a guard page and a gap between areas.
- `PageTable`: two address spaces, two entries per table; one segment crosses from
  one page table into the next and the other has a directory of its own; six
  pages run out in the middle of a fork and in the middle of a walk.
- `Stride`: three processes and strides of three bits; `BIG_STRIDE` two has the
  proportions of the code (a quarter of the range), and the strides wrap within a
  few picks. The view leaves out the fields of processes that are not there.

`CHECK_DEADLOCK FALSE` appears only in `MCFiles.cfg`, `MCSfsStale.cfg` and
`MCSfsDirty.cfg`: a
failed assertion of `SfsFile` stops the kernel, and so does the bound on writes
when every thread has finished. In `MCAllocators` and `MCProcesses` the
stopped kernel, and the end of `Buddy` and `Slub` at data taken for their own, is
the action `Halted`.

## 5. Fairness

- `PidAlloc`: weak fairness of the scan; it runs with interrupts off and nothing
  else can run in between.
- `ProcSched`: weak fairness of `KernelStep`, since kernel code does not stop by
  itself, and strong fairness of `Tick`. The clock is set again at every
  interrupt and an interrupt stays pending until interrupts are on, so a tick
  that is possible again and again, however briefly, happens. System calls of
  user processes have no fairness at all: a process may compute for ever, exit
  or not, and wait or not.
- `FreeList`: weak fairness of the call at work.
- `PhiSema`, `PhiCondvar`: weak fairness of each thread, which is what
  `NoStarvation` of the scheduler gives to runnable threads. `do_sleep` ends, by
  `SleepEnds`, so the sleeps of the philosophers are part of the next step.
- `StdinInput`: weak fairness of the tick and of a woken reader, which is again
  `NoStarvation`. Nobody has to type, to read or to kill.

`KilledExits` is stated with the exception the code has: the tail of `trap()`
tests `PF_EXITING` before `schedule()`, so a process killed while it is queued
goes back to user mode and makes one more system call. If that call is a wait
without a zombie, the process sleeps on and dies when a child ends; if it is a read of
stdin, it sleeps until a key comes, and nobody has to type. A reader whom a key wakes
just before it is killed sleeps again in the same way (`stdin_kill`).

## 6. Findings

- **Free list at the tail** (`free_tail`, `default_pmm.c:148`). The insertion
  loop of `default_free_pages` goes on after `list_add` at the tail. It meets
  the block it has just added and adds that block after itself; its `prev` then
  points to itself, it is not merged with the block below, and allocating it
  later leaves it on the list without `PageProperty`, against the asserts of
  `default_check`. It takes a release above every free block on a list that is
  not empty. As long as memory is not used up the highest free block stays above
  whatever is given back (both policies cut a block from its low end), which is
  why the kernel runs well; the run `allocators` shows, and section 7
  proves, that first and best fit are correct under exactly this condition
  (`FreesBelowFree`).

- **A killed reader sleeps on** (`stdin_kill`, `dev_stdin.c:59`). `do_kill` wakes
  a reader and leaves it in the wait queue; a key that comes before it runs
  turns its wakeup into `WT_KBD`, and it goes back to `try_again`.
- **A failed fork** (`fork_fails`, `proc.c:562`). When `copy_files` fails the new
  address space is not released, against the comment above the call.
- **A stale position** (`sfs_stale_pos`, `sfs_inode.c:356`). A descriptor keeps
  its position when another open truncates the file; the next write is past the
  blocks and meets the assert.
- **A change that is not marked** (`sfs_dirty`, `sfs_inode.c:961`). `sfs.h:72` says of
  `dirty` "true if inode modified". A seek that enlarges a file adds a block under an
  entry block that is there already, which sets nothing in the inode but its count
  and does not mark it, and finds the disk full at the next block; `sfs_truncfile` then
  leaves before the line that marks it. The last close does not write the inode, and
  the block is not in the file that the next open reads.

Further departures from what one would expect are part of the models, and the
invariants of the passing runs say how far they go:

- `do_exit` (`proc.c:650`) releases files only with an address space: a kernel
  thread, or a process whose `load_icode` failed, leaves its table behind. With
  the failed fork this is all that `LossesKnown` allows to be lost.
- `vfs_open` under `O_EXCL` (`vfsfile.c:47`) refuses an existing file without
  giving back the reference of `vfs_lookup`; `UsersCounted` of `FileTable` counts
  these references and no others.
- `sfs_truncfile` (`sfs_inode.c:951`) keeps the blocks it got when the disk runs
  full, and truncating to the old size then meets an assert; `MapFitsSize` asks
  for enough blocks, not for as many as the size needs.
- `sfs_io_nolock` (`sfs_inode.c:655`) moves the size to the position of a write that has
  found no block for its first byte; if the position was past the end the file is then
  longer than its blocks. `MapFitsSize` says that it is one block short
  at most and that no byte was ever written to the missing part.
- `mm_map` (`vmm.c:184`) looks only for an area that contains its start; a range
  that runs into the next area stops at the assert of `insert_vma_struct`, so
  areas never overlap, which is `ListSorted`.
- `exit_range` (`pmm.c:411`) decides by a flag that is the wrong way round and
  keeps tables; `OnlyTablesLost` says that no page of data is among what is lost.
- `copy_range` (`pmm.c:463`) asserts that it gets a page instead of returning
  `-E_NO_MEM`.
- `find_order` (`kmalloc.c:223`) rounds down, so a size just above a power of two
  gets too few pages; `BigNearlyFits` says that fewer bytes are missing than
  the block has pages. The last sizes below a page meet an assert of `slob_alloc` (`kmalloc.c:234`).
- `stride` (`default_sched_stride.c:138`) divides by a priority that is 0 until
  it is set, and the process moves backwards; `LeastOnTop` holds all the same.
- `get_buddy_page` (`buddy_pmm.c:39`) uses a physical page number, too large by
  `nbase`, for an index. With the `nbase` of the machine, 0x80000, no block is
  joined with its buddy, and the structure looked at lies in memory that the allocator hands
  out: data there that looks like a free block of the order is unlinked as one.
  `Tiled` says that blocks tile the memory up to such a join, and nothing is claimed after it.
- `slub_free` (`slub_pmm.c:227`) gives back one page of an allocation of several, and
  tells such a block from a slab by a word its holder may have written
  (`slub_pmm.c:224`); `SlubInv` holds up to a release that is deceived by it.

## 7. Proofs

TLAPS checks these for all values of the constants that satisfy the named
assumptions, which TLC evaluates in the runs.

**PartsProofs**, the identifiers (from `MaxAssumption`: `MAX_PID > MAX_PROCESS`, the
`static_assert` of `get_pid`).
`PidInvariant` is `Spec => []PidInv`. That the identifier returned is free is
not inductive: the fast path returns without a look at the list. The
strengthening is `WindowFree`: no live identifier lies strictly between
`last_pid` and `next_safe` between calls, and during a scan this holds of every
process already passed. Reaping keeps it because it only removes identifiers,
linking because it adds `last_pid` itself. From it follow `PidUniqueness`
and `PidRefinement`, that `PidAlloc` implements `PidSpec`: the scan steps map to
stutters, `set_links` to `Alloc` (which needs uniqueness), `remove_links` to
`Free`.

**ProcSchedProofs** (from `ProcAssumption`; any finite set of processes, any
slice and sleep). `ProcInvariant` proves
`ProcInv == TypeOK /\ RunQueueExact /\ PlacesAgree /\ TimerOwnerInDoSleep`.
The four need each other: that `wakeup_proc` does not queue a process twice
needs that whoever is on the queue is runnable; that `schedule` returns to a
process which stands at a return from `schedule()` needs `PlacesAgree`; that
reaping frees no queued process needs both. The proof has one step per action
and one lemma for `wakeup_proc`, whose queue part rests on `DataLemmas` (an
injective sequence stays injective under appending new elements and under
`Tail`). `RunQueueCorrect`, `PlacesCorrect` and `TimersCorrect` are its
consequences, and `TimersOwnedByCaller` proves `TimersOwned`: that a timer is
armed only when it is off, and is stopped by its owner only, with an argument about
each step, is `TimerOwnerInDoSleep` and what `PlacesAgree` says of a process
at its return from `schedule()`.

`FamilyInvariant` proves `FamilyInv` of the same module, for the same constants,
with `ProcInv` as a known invariant. The links are a list in place, so "following
`optr` meets every child" would need induction along it; `ChildListComplete` says it
without: a set of children that contains the first and is closed under `optr`
is all of them. In this form each of `set_links`, `remove_links` and the
hand-over of `do_exit` keeps it by a finite argument about the one or two links it
changes, and so it is with `NoCycle` (every group of user processes has a member
whose parent is outside it). `NoLostChild` alone is not inductive: whether a zombie
is overlooked depends on how far the loop of `do_wait` has come (`ScanCovers`), and
that depends on the list being complete. `EndsInOrder` needs `InitprocWaits`: that
initproc finds no child left only when no user process lives follows from `NoCycle`.
What it says of the stops is said of those of `do_exit`, `do_wait` and `init_main`; a
user process can panic the kernel at any time by `sys_panic`, which leaves the rest of
`FamilyInv` as it is. `TreeCorrect`, `NoWakeupLost` and `StopsInOrder` are the named consequences;
`ReapedByParent` and `SleepLastsToTheEnd` prove the two action properties.

**PartsProofs**, the timers (from `TimerAssumption`: finitely many timers, a longest time
of one tick or more). `TimerInvariant` proves `TimerInv`. The bound of the differences is inductive
only together with the bound of their sum, since `del_timer` adds two of
them. `TimersIndependent` is the refinement: with `left` mapped to the sum of the
differences up to a timer, `add_timer` is `Arm`, `del_timer` is `Cancel` and
`run_timer_list` is `Tick`. `WakesInTime` proves that a tick wakes exactly those
whose sum was one. Each of the three rests on a lemma that gives the new sums
of the list in terms of the old ones (`AddSums`, `DelSums`, `TickSums`). With
`TimersOwnedByCaller` above, the processes and the list meet at the actions of `TimerSpec`.

**PartsProofs**, the input of stdin (from `StdinAssumption`: two rings of one place or
more; any readers). `StdinInvariant` proves `StdinInv`. `KeysAccounted` speaks of three
sequences put together; a step takes from the one and adds to the next, so for the
proof it is said place by place (`KeysByPlace`): the `i`-th key that reached the
stdin buffer is in `log` or at `(i - 1) % STDIN_BUFSIZE`, and stays the same key
wherever it is (`TakeKeys`), unless a key written to a full buffer replaces it
(`Written`). What has to be added is that every key in the console ring is later than all
that have left it. `PlacesAccount` goes back to the sequences. For `cons_intr`, which puts any
number of keys into a ring of any size at once, `RingPlace` says which key is then at which
place, also when the ring is overrun more than once, and `Overrun` that the keys
lost are the whole multiples of `CONSBUFSIZE`. These lemmas rest on `Division` and
`SameRemainder` of `DataLemmas`: two places of a ring are one only if they are a
multiple of its size apart.
The sums are a recursive function over the list, and to reason about it takes
induction. The library's induction theorems are of no use here (they have an operator as a parameter),
but its theorem `WFMin` about well-founded relations has none: from it and
`NatLessThanWellFounded` follows that a set of naturals has a least element
(`Least`), and from that induction for a property given as a set (`Induction`),
that a function with the recursion of `Sums` exists, and that `Sums` is the only one.
`Least` also accounts for the `CHOOSE` in which the loops of the code stop.

**PhiSemaProofs** (from `PhiAssumption`: two philosophers or more, any number of
meals). `PhiInvariant` is inductive: the mutex is held by exactly the one
thread in its critical section or is open with nobody waiting, `ForkTokens`
relates `value`, the queue and the place of each philosopher to `state_sema`,
and the test of `phi_test_sema` still holds when the forks are given.
`TokensCorrect` and `ForksNeverShared` follow. The exclusion of neighbours
alone is not inductive: a philosopher who eats may have been given his forks by
a neighbour before he asked for the semaphore, and only the accounting of units
connects the two moments.
`NobodyWaitsInVain` proves `HungryForReason`. It says nothing of the time
when somebody is in the critical section, so it is not inductive;
`NoneForgotten` is: a hungry philosopher whose forks are free is among those whom the
thread in the critical section has still to test (`ToTest`).

**PhiCondvarProofs** (from `PhiAssumption`). `MonitorInvariant` proves `MonitorInv`
for any number of philosophers and meals. The inductive part is `MonitorState`. Its core
is `OneToken`: the right to be in the monitor is in one place, with a thread or
with one semaphore whose thread has not arrived. `TokenAwaited` and `OneSignaller` say for whom
it is there, `WaitersCounted` what `count` counts, and `PromisesKept` what
`phi_test_condvar` has found out; the last holds over the hand-over because
nobody else can have had the token in between. Every action keeps the token,
asks for it or passes it on, and there is one lemma for each of the three.

**FilesProofs**, the cache of inodes (from `CacheAssumption`; any finite set of threads, any inode
numbers and any memory). `CacheInvariant` proves `CacheInv`, which is inductive as it
stands because it says what a thread at each place may rely on. The argument
is about counting: `reclaim_count` is one for all users together and one for each
thread that waits to reclaim, so the thread that brings it to 0 is alone. No change is
lost that set `dirty`, nor one made before it; of a change that did not set it
(`count_block`) nothing is claimed, and `sfs_dirty` shows one that is lost.

**FilesProofs**, the open file tables (from `FileAssumption`: finitely many
processes, a table of one entry or more, and a null pointer that is no inode and no
descriptor). `TableInvariant` proves `FileInv`. That the counts are exact
(`UsersCounted`) is not inductive alone: what a step adds or takes follows from the
states of the entries (`EntriesAgree`), and fork and exec count on the tables that
they fill being empty (`UnusedEmpty`). The counts are sums over all processes, and a
step changes the table of one. So the lemmas compare what that process alone
counts for before and after (`CountsFollow`); `StepKeeps` carries it to the sums,
`EntryStep` serves the calls that change one entry, and `CountsByRow` those
that change a whole table. `MinInside` accounts for the lowest free descriptor, with the
well-founded order of the naturals as in `DataLemmas`.

**AllocatorProofs**, the free list (from `FreeListAssumption`; any number of pages, both allocators).
The theorems have one hypothesis, `FreesBelow`: releases only below the highest
free block. Without it they are false, as the run `free_tail` shows.
`FreeListWellFormed` proves `FreeListInv`; the inductive invariant is
`TypeOK /\ CallInv`. What `FreeListCheck` and the others say of the walk along `next`
would need induction in every step. `ListOrdered` says it of one link at a time instead:
`next` leads from each listed block to the one with the next higher address, and
`prev` back. `InsertOrdered`, `DeleteOrdered` and `ReplaceOrdered` show for any set of
blocks that `list_add`, `list_del` and the two together keep it. `BlocksApart` does
the same for the memory: whether a page is held is asked page by page, so that
`HoldBlock`, `LeaveBlock` and `FreeBlock` account for it where blocks are cut, given
out and given back. `MergedButBase` says
which two blocks may touch while a release is at work, and `CallState` what the loops
have found out so far. Only at the end is the list walked: `ListedIsHead` shows by
induction on the highest page reached that the walk meets every flagged block, and
`SumIsFree`, by induction on the number of blocks, that their sizes add up to
`nr_free`. `AllocPolicyKept` proves the action property `AllocKeepsPolicy`: the maximal runs
of free pages are the blocks (`RunsAreBlocks`), so what first or best fit
chose among the blocks is right among the runs, and a call fails only if
no run is long enough.

**AllocatorProofs**, the slabs (any page size, object sizes, requests and memory that
satisfy `SlubAssumption`). `SlubInvariant` proves `SlubInv`, which is inductive as it
stands, up to a `slub_free` that takes the data of a page block for a slab. A call touches one slab, and three lemmas say what follows from that:
`ListsFollow`, that the lists stay right if that slab is placed where its count asks
for (`Placed`, which `MovedTo` and `PlacedAgain` establish for one move and for two);
`OneMoreHeld` and `OneLessHeld`, that bitmap, count and objects change together; and
`StillApart`, that no memory is shared. The part of `SlubAssumption` that is not about
types is `SlabsFit`: the objects of a slab and their bitmap fit into its page.
`calculate_objects_per_slab` only estimates the size of the bitmap, so this is a fact
about the sizes there are and not about every size; `MCAllocators` evaluates it for
those of lab2, pages of 4096 bytes and objects of 32, 64 and 128 (`Lab2Fits`).

**ProcessProofs**, what a process takes and gives back (any set of processes;
`ResAssumption`: `initproc` is one of them). `ResInvariant` proves `ResInv`. `Complete` and `LossesKnown` are not inductive: what an error label
gives back is right only if it is what the call has taken there, which is
`TakenSoFar` (through `Holding`, a table of the labels), and what an exit or exec
gives back must be what the process has, which is `OwnExact`.

**ProcessProofs**, the areas (from `VmaAssumption`: a page of one byte or more, user
memory that begins and ends at page boundaries, and a null pointer that is neither an
area nor a list). `VmaInvariant` proves `VmaInv`. Its first three parts, the types,
`ListSorted` and `CacheInList`, are inductive together (`VmaState`), and the argument
is the one `mm_map` makes: `insert_vma_struct` finds the place (`InsertPlace`), and
`check_vma_overlap`, which looks at the two neighbours only, is enough because the
list was sorted (`InsertSorted`). `PageOf` does the arithmetic of rounding for any
page size. `dup_mmap` puts every area in front of those it copied before, so what it has
after `k` turns are the last `k` areas of the parent (`CopyOne`). `CheckExact` and
`StringExact` are about loops over addresses, and follow from `VmaState` state by
state. First the loops have to have a result at all: `Upward`, proved by
induction on the distance to the end, gives a function for any recursion
that goes on at a higher address. Then the answer is right from every address: at
the highest one where it were wrong, one turn of the loop would be wrong
(`WalkAnswers`, `CopyAnswers`).

## 8. What is only model-checked

- Every liveness property; the prover does not do fairness.
- `SfsInv` and `PageInv`: nothing stands in the way of a proof but
  its length. What the inductive invariants would have to add is in section 10.
- `BuddyInv` and `HeapInv`: both speak of `2^order`, and the prover's solvers know no
  law of exponents; without induction over data none can be derived.
- `StrideInv`: `Stride` walks its heap with recursive operators, which the prover
  cannot work with.
- What composes components (`MCParts` and the other modules of its kind): no
  theorem is about the product, only about each component. That a component
  rests unless it is chosen makes the two the same.

## 9. Not modelled

`PROJECT.json` lists every component. Left out are:

- start-up code, the device tree, the kernel monitor, printing and the user
  programs;
- the disk and stdout devices, which only copy; the disk of this build is memory
  and its errors panic;
- the directories of the simple file system: this code reads them and never
  creates, links or unlinks; mounting, and the parsing of paths;
- `CLONE_FS`, which no caller passes, and `try_down`, which nobody calls;
- the fifo and sjf classes of lab6, queues without preemption;
- in `FileTable`, the operations that meet the assert of `vop_` (`inode.h:196`) because a
  directory does not have them: `O_CREAT` of a missing path, read and seek on a directory;
- in `VmaSpace`, the checks of a kernel thread (`mm == NULL`, `vmm.c:354` and
  `383`), which ask for `KERN_ACCESS` alone;
- in `Stride`, priorities above `BIG_STRIDE` (a step of 0), and removal of any node but the
  root, which `sched.c` never asks for;
- copy-on-write of lab5: the report describes it, no code implements it;
- the earlier labs, which repeat the files of lab8 in earlier forms. The map
  therefore covers a small share of the lines of the whole repository: most of
  them are copies of headers and of code that lab8 has in its final form.

A page fault of a user process is only printed in this commit (`trap.c:205`); there is
no fault handler that would map a page, so the process repeats the instruction, and for
the models it is a process that computes. `SFS_MAX_FILE_SIZE` exceeds what a block map can hold; only the small
image of the build hides it, which `SfsAssumption` states.

## 10. Plan

Every component with state of its own is modelled, and every safety property
of the process life cycle, the scheduler, identifiers, timers, semaphores, the
monitor, the first-fit, best-fit and slub allocators, the inode cache, the open file tables, the
accounting of resources, the areas and the input of stdin is proved. What is left, in this order:

1. `PageInv` of `PageTable`: that the tables of an address space form a tree, which
   would have to be said page by page as `ListOrdered` says the order of the free list.
2. `BlocksOwnedOnce` of `SfsFile`.

## 11. How to run

In this directory: `tlc -config MCProcSched.cfg MCProcSched` (and likewise for
the other rows of section 4), `tlapm ProcSchedProofs.tla` for the proofs.
