----------------------------- MODULE StdinInput -----------------------------
(***************************************************************************)
(* The way of a key to its reader: the console ring of                      *)
(* kern/driver/console.c, the ring buffer of kern/fs/devs/dev_stdin.c and   *)
(* the readers that wait there interruptibly (kern/sync/wait.c).            *)
(*                                                                         *)
(* A read runs with interrupts off up to its call of schedule(), and again  *)
(* from there, so each of these two parts is one action; the timer          *)
(* interrupt, which polls the console and passes one key on, is another.    *)
(* Keys are numbered in the order in which they are typed.                  *)
(***************************************************************************)
EXTENDS Integers, Sequences, FiniteSets, SequencesExt, Functions

CONSTANTS
    Readers,          \* processes that read stdin
    STDIN_BUFSIZE,
    CONSBUFSIZE,
    MaxKeys,          \* bound: keys typed
    MaxLen            \* bound: keys asked for in one read

ASSUME StdinAssumption ==
    /\ STDIN_BUFSIZE \in Nat \ {0}
    /\ CONSBUFSIZE \in Nat \ {0}
    /\ MaxKeys \in Nat \ {0}
    /\ MaxLen \in Nat \ {0}

VARIABLES
    typed,            \* keys typed so far
    polled,           \* keys taken from the serial port so far
    cons,             \* cons.buf, cons.rpos, cons.wpos
    stdin_buffer,
    p_rpos, p_wpos,
    wait_queue,       \* oldest first
    wakeup_flags,     \* of the wait_t of each reader
    proc,             \* where each reader is
    killed,           \* PF_EXITING
    left,             \* len - ret of the read at work
    log,              \* history: the keys the readers were given, in order
    overwritten,      \* history: places whose key was replaced before it was read
    missed            \* history: how many keys were lost

stdinvars == <<typed, polled, cons, stdin_buffer, p_rpos, p_wpos, wait_queue,
          wakeup_flags, proc, killed, left, log, overwritten, missed>>

keyboard == <<typed, polled, cons>>
history == <<log, overwritten, missed>>

StdinTypeOK ==
    /\ typed \in 0 .. MaxKeys
    /\ polled \in 0 .. typed
    /\ cons \in [buf : [0 .. CONSBUFSIZE - 1 -> 0 .. MaxKeys],
                 rpos : 0 .. CONSBUFSIZE - 1, wpos : 0 .. CONSBUFSIZE - 1]
    /\ stdin_buffer \in [0 .. STDIN_BUFSIZE - 1 -> 0 .. MaxKeys]
    /\ p_rpos \in Nat /\ p_wpos \in p_rpos .. p_rpos + STDIN_BUFSIZE
    /\ wait_queue \in Seq(Readers)
    /\ wakeup_flags \in [Readers -> {"WT_INTERRUPTED", "WT_KBD"}]
    /\ proc \in [Readers -> {"user", "sleeping", "woken", "dead"}]
    /\ killed \in [Readers -> BOOLEAN]
    /\ left \in [Readers -> 0 .. MaxLen]
    /\ log \in Seq(1 .. MaxKeys)
    /\ overwritten \subseteq Nat
    /\ missed \in Nat

(* stdin_device_init                                                        *)
StdinInit ==
    /\ typed = 0 /\ polled = 0
    /\ cons = [buf |-> [i \in 0 .. CONSBUFSIZE - 1 |-> 0], rpos |-> 0, wpos |-> 0]
    /\ stdin_buffer = [i \in 0 .. STDIN_BUFSIZE - 1 |-> 0]
    /\ p_rpos = 0 /\ p_wpos = 0
    /\ wait_queue = << >>
    /\ wakeup_flags = [r \in Readers |-> "WT_INTERRUPTED"]
    /\ proc = [r \in Readers |-> "user"]
    /\ killed = [r \in Readers |-> FALSE]
    /\ left = [r \in Readers |-> 0]
    /\ log = << >> /\ overwritten = {} /\ missed = 0

(* A key reaches the serial port.                                           *)
Type ==
    /\ typed < MaxKeys
    /\ typed' = typed + 1
    /\ UNCHANGED <<polled, cons, stdin_buffer, p_rpos, p_wpos, wait_queue,
                   wakeup_flags, proc, killed, left, history>>

(* cons_intr: the ring after all n keys at the port have been put in.       *)
cons_intr(n) ==
    [cons EXCEPT
       !.buf = [i \in DOMAIN @ |->
          LET mine == {k \in 1 .. n : (cons.wpos + k - 1) % CONSBUFSIZE = i}
          IN  IF mine = {} THEN @[i]
              ELSE polled + CHOOSE k \in mine : \A j \in mine : j <= k],
       !.wpos = (@ + n) % CONSBUFSIZE]

(* wakeup_queue(wait_queue, WT_KBD, 1): all waiters leave the queue with    *)
(* WT_KBD; one that a kill has woken before is only told so.                *)
wakeup_queue ==
    LET waiting == Range(wait_queue)
    IN  /\ wait_queue' = << >>
        /\ wakeup_flags' = [r \in Readers |->
              IF r \in waiting THEN "WT_KBD" ELSE wakeup_flags[r]]
        /\ proc' = [r \in Readers |->
              IF r \in waiting /\ proc[r] = "sleeping" THEN "woken" ELSE proc[r]]

(* The key is stored first; the position moves only if there was room, so   *)
(* in a full buffer it has replaced the oldest key.                         *)
dev_stdin_write(c) ==
    /\ stdin_buffer' = [stdin_buffer EXCEPT ![p_wpos % STDIN_BUFSIZE] = c]
    /\ p_wpos' = IF p_wpos - p_rpos < STDIN_BUFSIZE THEN p_wpos + 1 ELSE p_wpos
    /\ wakeup_queue

(* Mutant: a key in the ring has to wait for the next key at the port.      *)
TickOnlyNew ==
    LET n == typed - polled
        ring == cons_intr(n)
        held == (cons.wpos - cons.rpos) % CONSBUFSIZE
        overrun == CONSBUFSIZE * ((held + n) \div CONSBUFSIZE)
        full == p_wpos - p_rpos = STDIN_BUFSIZE
    IN  /\ n > 0
        /\ polled' = typed
        /\ \/ /\ ring.rpos = ring.wpos
              /\ cons' = ring
              /\ missed' = missed + overrun
              /\ UNCHANGED <<stdin_buffer, p_wpos, wait_queue, wakeup_flags, proc, overwritten>>
           \/ /\ ring.rpos # ring.wpos
              /\ cons' = [ring EXCEPT !.rpos = (@ + 1) % CONSBUFSIZE]
              /\ dev_stdin_write(ring.buf[ring.rpos])
              /\ missed' = missed + overrun + (IF full THEN 1 ELSE 0)
              /\ overwritten' = IF full THEN overwritten \cup {p_wpos - STDIN_BUFSIZE}
                                ELSE overwritten
        /\ UNCHANGED <<typed, p_rpos, killed, left, log>>

(* The timer interrupt: dev_stdin_write(cons_getc()).  cons_getc polls all  *)
(* keys at the port into the ring and takes one out, or returns 0, which    *)
(* dev_stdin_write ignores.  A ring that is filled up looks empty.          *)
Tick ==
    LET n == typed - polled
        ring == cons_intr(n)
        held == (cons.wpos - cons.rpos) % CONSBUFSIZE
        overrun == CONSBUFSIZE * ((held + n) \div CONSBUFSIZE)
        full == p_wpos - p_rpos = STDIN_BUFSIZE
    IN  /\ polled' = typed
        /\ \/ /\ ring.rpos = ring.wpos
              /\ cons' = ring
              /\ missed' = missed + overrun
              /\ UNCHANGED <<stdin_buffer, p_wpos, wait_queue, wakeup_flags, proc, overwritten>>
           \/ /\ ring.rpos # ring.wpos
              /\ cons' = [ring EXCEPT !.rpos = (@ + 1) % CONSBUFSIZE]
              /\ dev_stdin_write(ring.buf[ring.rpos])
              /\ missed' = missed + overrun + (IF full THEN 1 ELSE 0)
              /\ overwritten' = IF full THEN overwritten \cup {p_wpos - STDIN_BUFSIZE}
                                ELSE overwritten
        /\ UNCHANGED <<typed, p_rpos, killed, left, log>>

(* wait_current_del: the wait_t of the reader leaves the queue, if it is in *)
(* it.                                                                      *)
Unqueued(r) ==
    IF r \in Range(wait_queue)
    THEN RemoveAt(wait_queue, CHOOSE i \in DOMAIN wait_queue : wait_queue[i] = r)
    ELSE wait_queue

(* The loop of dev_stdin_read with `len' keys still wanted: it takes what   *)
(* there is; if that is not enough, wait_current_set and schedule().        *)
TakeOrSleep(r, len) ==
    LET n == IF len < p_wpos - p_rpos THEN len ELSE p_wpos - p_rpos
    IN  /\ log' = log \o [i \in 1 .. n |-> stdin_buffer[(p_rpos + i - 1) % STDIN_BUFSIZE]]
        /\ p_rpos' = p_rpos + n
        /\ left' = [left EXCEPT ![r] = len - n]
        /\ \/ /\ n = len
              /\ proc' = [proc EXCEPT ![r] = IF killed[r] THEN "dead" ELSE "user"]
              /\ wait_queue' = Unqueued(r)
              /\ UNCHANGED wakeup_flags
           \/ /\ n < len
              /\ proc' = [proc EXCEPT ![r] = "sleeping"]
              /\ wait_queue' = Append(Unqueued(r), r)
              /\ wakeup_flags' = [wakeup_flags EXCEPT ![r] = "WT_INTERRUPTED"]

(* A reader calls dev_stdin_read.                                           *)
dev_stdin_read(r, len) ==
    /\ proc[r] = "user"
    /\ TakeOrSleep(r, len)
    /\ UNCHANGED <<keyboard, stdin_buffer, p_wpos, killed, overwritten, missed>>

(* Mutant: the reader does not leave the queue when it is woken by a kill.  *)
ResumeStaysQueued(r) ==
    /\ proc[r] = "woken"
    /\ \/ /\ wakeup_flags[r] = "WT_KBD"
          /\ TakeOrSleep(r, left[r])
       \/ /\ wakeup_flags[r] # "WT_KBD"
          /\ proc' = [proc EXCEPT ![r] = IF killed[r] THEN "dead" ELSE "user"]
          /\ left' = [left EXCEPT ![r] = 0]
          /\ UNCHANGED <<p_rpos, wait_queue, wakeup_flags, log>>
    /\ UNCHANGED <<keyboard, stdin_buffer, p_wpos, killed, overwritten, missed>>

(* Back from schedule(): wait_current_del, then try again after a key, or   *)
(* return what has been read so far after a kill.                           *)
Resume(r) ==
    /\ proc[r] = "woken"
    /\ \/ /\ wakeup_flags[r] = "WT_KBD"
          /\ TakeOrSleep(r, left[r])
       \/ /\ wakeup_flags[r] # "WT_KBD"
          /\ wait_queue' = Unqueued(r)
          /\ proc' = [proc EXCEPT ![r] = IF killed[r] THEN "dead" ELSE "user"]
          /\ left' = [left EXCEPT ![r] = 0]
          /\ UNCHANGED <<p_rpos, wakeup_flags, log>>
    /\ UNCHANGED <<keyboard, stdin_buffer, p_wpos, killed, overwritten, missed>>

(* do_kill: the flag, and a wakeup of an interruptible sleeper, which stays *)
(* in the queue.  Its wakeup_flags are what wait_init has made them.        *)
do_kill(r) ==
    /\ proc[r] # "dead"
    /\ ~ killed[r]
    /\ killed' = [killed EXCEPT ![r] = TRUE]
    /\ proc' = [proc EXCEPT ![r] = IF @ = "sleeping" THEN "woken" ELSE @]
    /\ UNCHANGED <<keyboard, stdin_buffer, p_rpos, p_wpos, wait_queue, wakeup_flags, left, history>>

StdinNext ==
    \/ Type
    \/ Tick
    \/ \E r \in Readers :
         \/ \E len \in 1 .. MaxLen : dev_stdin_read(r, len)
         \/ Resume(r)
         \/ do_kill(r)

StdinSpec == StdinInit /\ [][StdinNext]_stdinvars

(* The clock ticks for ever and a woken reader gets the processor           *)
(* (NoStarvation of ProcSched).  Nobody has to type, to read or to kill.    *)
FairStdinSpec == StdinSpec /\ WF_stdinvars(Tick) /\ \A r \in Readers : WF_stdinvars(Resume(r))
-----------------------------------------------------------------------------
(* The keys that wait in the two rings, oldest first.                       *)
InStdin == [i \in 1 .. p_wpos - p_rpos |-> stdin_buffer[(p_rpos + i - 1) % STDIN_BUFSIZE]]
InCons == [i \in 1 .. (cons.wpos - cons.rpos) % CONSBUFSIZE |->
             cons.buf[(cons.rpos + i - 1) % CONSBUFSIZE]]

(* What the readers have got and will get: every key once at most, in the   *)
(* order typed but for the places where a key typed into the full buffer    *)
(* has replaced an older one, and no key is missing but those that a full   *)
(* ring has cost.                                                           *)
KeysAccounted ==
    LET all == log \o InStdin \o InCons
    IN  /\ IsInjective(all)
        /\ \A i, j \in 1 .. Len(all) :
             i < j /\ {i - 1, j - 1} \cap overwritten = {} => all[i] < all[j]
        /\ Len(all) + missed = polled

(* A reader sleeps only while there is nothing to read, it can be found in  *)
(* the queue exactly once, and whoever is in the queue is asleep there or   *)
(* was woken by a kill and has not run since.                               *)
SleepersQueued ==
    /\ IsInjective(wait_queue)
    /\ \A r \in Readers :
         /\ proc[r] = "sleeping" => r \in Range(wait_queue) /\ p_rpos = p_wpos
         /\ r \in Range(wait_queue) =>
              /\ proc[r] = "sleeping" \/ (proc[r] = "woken" /\ killed[r])
              /\ wakeup_flags[r] = "WT_INTERRUPTED"
              /\ left[r] > 0

(* cons_intr, dev_stdin_write and dev_stdin_read account for every key, and *)
(* the readers in the wait queue are those who have nothing to read.        *)
StdinInv == StdinTypeOK /\ KeysAccounted /\ SleepersQueued

(* While a reader sleeps, a key that waits in the console ring or at the    *)
(* port wakes it, unless a full ring loses keys in the meantime.            *)
WaitingReaderServed ==
    \A r \in Readers, m \in 0 .. MaxKeys :
       (proc[r] = "sleeping" /\ missed = m /\ (InCons # << >> \/ polled < typed))
         ~> (proc[r] # "sleeping" \/ missed > m)

(* proc.h describes WT_INTERRUPTED as a wait state that "could be           *)
(* interrupted": a kill ends the read of a reader that sleeps.              *)
KillEndsRead ==
    \A r \in Readers :
       (killed[r] /\ proc[r] = "woken" /\ r \in Range(wait_queue)) ~> (proc[r] = "dead")
=============================================================================
