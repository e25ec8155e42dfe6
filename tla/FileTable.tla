----------------------------- MODULE FileTable -----------------------------
(***************************************************************************)
(* The open file tables of the processes (kern/fs/file.c, kern/fs/fs.c) and *)
(* the reference and open counts of the inodes they use                     *)
(* (kern/fs/vfs/inode.c, vfsfile.c, vfspath.c).                             *)
(*                                                                         *)
(* No caller passes CLONE_FS, so each table belongs to one process and      *)
(* files_count is 1.  A system call is one action, but where it may block   *)
(* inside the file system it is split in two, so that other processes act   *)
(* on the same inode in between: reading (file_io, io_done) and the         *)
(* truncation in vfs_open (file_open, truncated).  What inode is found      *)
(* under a path is the caller's choice here; a failed lookup changes        *)
(* nothing.                                                                 *)
(***************************************************************************)
EXTENDS Integers, FiniteSets, FiniteSetsExt, Null

CONSTANTS
    Procs,
    init,             \* the process that exists at the start (initproc)
    Files, Dirs, Devs,\* inodes by type
    root,             \* the directory that the boot file system keeps
    NENTRY            \* FILES_STRUCT_NENTRY

ASSUME FileAssumption ==
    /\ IsFiniteSet(Procs) /\ init \in Procs
    /\ root \in Dirs
    /\ NENTRY \in Nat \ {0}
    /\ NULL \notin Files \cup Dirs \cup Devs \cup (0 .. NENTRY - 1)

Inodes == Files \cup Dirs \cup Devs
Fds == 0 .. NENTRY - 1

VARIABLES
    proc,             \* "none", "kernel" (without an mm), "user", or "left":
                      \* exited, with its table still in memory
    fd_array,         \* status, node and open_count of every entry
    pwd,
    call,             \* the fd of the call that is blocked in the file system
    inode_ref_count,  \* ref_count of struct inode
    inode_open_count, \* open_count of struct inode
    lost              \* history: references taken by vfs_open and never given back

tablevars == <<proc, fd_array, pwd, call, inode_ref_count, inode_open_count, lost>>

(* references that the device list and bootfs_node hold                     *)
Kept(i) == IF i \in Devs \cup {root} THEN 1 ELSE 0

NoFile == [status |-> "FD_NONE", node |-> NULL, open_count |-> 0]
Opened(i, n) == [status |-> "FD_OPENED", node |-> i, open_count |-> n]
Initial(i) == [status |-> "FD_INIT", node |-> i, open_count |-> 0]

(* fd_array_init                                                            *)
EmptyTable == [fd \in Fds |-> NoFile]

TableTypeOK ==
    /\ proc \in [Procs -> {"none", "kernel", "user", "left"}]
    /\ fd_array \in [Procs -> [Fds -> [status : {"FD_NONE", "FD_INIT", "FD_OPENED"},
                                       node : Inodes \cup {NULL}, open_count : 0 .. 2]]]
    /\ pwd \in [Procs -> Inodes \cup {NULL}]
    /\ call \in [Procs -> Fds \cup {NULL}]
    /\ inode_ref_count \in [Inodes -> Nat]
    /\ inode_open_count \in [Inodes -> Nat]
    /\ lost \in [Inodes -> Nat]

(* initproc after vfs_set_bootfs: the root is its working directory.        *)
TableInit ==
    /\ proc = [p \in Procs |-> IF p = init THEN "kernel" ELSE "none"]
    /\ fd_array = [p \in Procs |-> EmptyTable]
    /\ pwd = [p \in Procs |-> IF p = init THEN root ELSE NULL]
    /\ call = [p \in Procs |-> NULL]
    /\ inode_ref_count = [i \in Inodes |-> Kept(i) + IF i = root THEN 1 ELSE 0]
    /\ inode_open_count = [i \in Inodes |-> 0]
    /\ lost = [i \in Inodes |-> 0]
-----------------------------------------------------------------------------
Running(p) == proc[p] \in {"kernel", "user"} /\ call[p] = NULL
User(p) == proc[p] = "user" /\ call[p] = NULL

(* fd2file: the open entries of p.                                          *)
OpenFds(p) == {fd \in Fds : fd_array[p][fd].status = "FD_OPENED"}

(* How many of the entries `fds' of p are open on i: the references that    *)
(* closing or copying them all gives back or takes.                         *)
Uses(p, fds, i) == Cardinality({fd \in fds \cap OpenFds(p) : fd_array[p][fd].node = i})
Dir(p, i) == IF pwd[p] = i THEN 1 ELSE 0

(* fd_array_alloc(NO_FD): the first free entry.                             *)
FreeFds(p) == {fd \in Fds : fd_array[p][fd].status = "FD_NONE"}

(* vop_open: sfs_opendir refuses to write; the device opened like a file is *)
(* stdout, which is for writing only.                                       *)
vop_open(i, write) == (i \in Dirs => ~ write) /\ (i \in Devs => write)

(* vfs_open hands the inode out, counted as referenced and open.            *)
vfs_open(i, write, excl) == ~ excl /\ vop_open(i, write)

(* file_open with vfs_open and vfs_lookup: `excl' stands for                *)
(* O_CREAT | O_EXCL, `trunc' for O_TRUNC or O_CREAT, which truncate an      *)
(* existing file.  The exclusive open returns -E_EXISTS with the reference  *)
(* of vfs_lookup in hand.  A truncation may block: the entry is FD_INIT     *)
(* meanwhile, and the inode is counted in `node', a local variable.         *)
file_open(p, i, write, excl, trunc) ==
    /\ User(p)
    /\ FreeFds(p) # {}
    /\ LET fd == Min(FreeFds(p))
       IN  \/ /\ excl
              /\ inode_ref_count' = [inode_ref_count EXCEPT ![i] = @ + 1]
              /\ lost' = [lost EXCEPT ![i] = @ + 1]
              /\ UNCHANGED <<fd_array, call, inode_open_count>>
           \/ /\ ~ excl /\ ~ vop_open(i, write)
              /\ UNCHANGED <<fd_array, call, inode_ref_count, inode_open_count, lost>>
           \/ /\ vfs_open(i, write, excl)
              /\ inode_ref_count' = [inode_ref_count EXCEPT ![i] = @ + 1]
              /\ inode_open_count' = [inode_open_count EXCEPT ![i] = @ + 1]
              /\ fd_array' = [fd_array EXCEPT ![p][fd] = IF trunc THEN Initial(i) ELSE Opened(i, 1)]
              /\ call' = [call EXCEPT ![p] = IF trunc THEN fd ELSE NULL]
              /\ UNCHANGED lost
    /\ UNCHANGED <<proc, pwd>>

(* vop_truncate has returned to vfs_open: fd_array_open, or everything back *)
(* and fd_array_free.                                                       *)
truncated(p, ok) ==
    LET fd == call[p]
    IN  /\ fd # NULL
        /\ fd_array[p][fd].status = "FD_INIT"
        /\ LET i == fd_array[p][fd].node
           IN  \/ /\ ok
                  /\ fd_array' = [fd_array EXCEPT ![p][fd] = Opened(i, 1)]
                  /\ UNCHANGED <<inode_ref_count, inode_open_count>>
               \/ /\ ~ ok
                  /\ fd_array' = [fd_array EXCEPT ![p][fd] = NoFile]
                  /\ inode_ref_count' = [inode_ref_count EXCEPT ![i] = @ - 1]
                  /\ inode_open_count' = [inode_open_count EXCEPT ![i] = @ - 1]
        /\ call' = [call EXCEPT ![p] = NULL]
        /\ UNCHANGED <<proc, pwd, lost>>

(* file_close: fd_array_close, and vfs_close with the last user, which it   *)
(* always is between calls.                                                 *)
file_close(p, fd) ==
    /\ User(p)
    /\ fd \in OpenFds(p)
    /\ LET f == fd_array[p][fd]
       IN  /\ fd_array' = [fd_array EXCEPT ![p][fd] = NoFile]
           /\ inode_ref_count' = [inode_ref_count EXCEPT ![f.node] = @ - 1]
           /\ inode_open_count' = [inode_open_count EXCEPT ![f.node] = @ - 1]
    /\ UNCHANGED <<proc, pwd, call, lost>>

(* file_read, file_write, file_seek, file_fstat, file_fsync,                *)
(* file_getdirentry: fd_array_acquire before the call of the file system,   *)
(* which may block, and fd_array_release after it.                          *)
file_io(p, fd) ==
    /\ User(p)
    /\ fd \in OpenFds(p)
    /\ fd_array' = [fd_array EXCEPT ![p][fd].open_count = @ + 1]
    /\ call' = [call EXCEPT ![p] = fd]
    /\ UNCHANGED <<proc, pwd, inode_ref_count, inode_open_count, lost>>

io_done(p) ==
    /\ call[p] # NULL
    /\ call[p] \in OpenFds(p)
    /\ fd_array' = [fd_array EXCEPT ![p][call[p]].open_count = @ - 1]
    /\ call' = [call EXCEPT ![p] = NULL]
    /\ UNCHANGED <<proc, pwd, inode_ref_count, inode_open_count, lost>>

(* file_dup with fd_array_dup, to a free entry.                             *)
file_dup(p, fd1, fd2) ==
    /\ User(p)
    /\ fd1 \in OpenFds(p)
    /\ fd2 \in FreeFds(p)
    /\ LET i == fd_array[p][fd1].node
       IN  /\ fd_array' = [fd_array EXCEPT ![p][fd2] = Opened(i, 1)]
           /\ inode_ref_count' = [inode_ref_count EXCEPT ![i] = @ + 1]
           /\ inode_open_count' = [inode_open_count EXCEPT ![i] = @ + 1]
    /\ UNCHANGED <<proc, pwd, call, lost>>

(* vfs_chdir with vfs_set_curdir: the references of the lookup and of the   *)
(* old directory go, the new directory gets one.                            *)
vfs_chdir(p, i) ==
    /\ User(p)
    /\ i \in Dirs
    /\ pwd' = [pwd EXCEPT ![p] = i]
    /\ inode_ref_count' = [j \in Inodes |->
          inode_ref_count[j] + (IF j = i THEN 1 ELSE 0) - Dir(p, j)]
    /\ UNCHANGED <<proc, fd_array, call, inode_open_count, lost>>

(* Mutant: the child gets the entries, and its working directory without a  *)
(* reference.                                                               *)
dup_filesNoPwd(p, c) ==
    /\ Running(p)
    /\ proc[c] = "none"
    /\ proc' = [proc EXCEPT ![c] = proc[p]]
    /\ fd_array' = [fd_array EXCEPT ![c] = fd_array[p]]
    /\ pwd' = [pwd EXCEPT ![c] = pwd[p]]
    /\ inode_ref_count' = [i \in Inodes |-> inode_ref_count[i] + Uses(p, Fds, i)]
    /\ inode_open_count' = [i \in Inodes |-> inode_open_count[i] + Uses(p, Fds, i)]
    /\ UNCHANGED <<call, lost>>

(* copy_files in do_fork: a new table with the same open entries and the    *)
(* same working directory.                                                  *)
dup_files(p, c) ==
    /\ Running(p)
    /\ proc[c] = "none"
    /\ proc' = [proc EXCEPT ![c] = proc[p]]
    /\ fd_array' = [fd_array EXCEPT ![c] = [fd \in Fds |->
          IF fd \in OpenFds(p) THEN Opened(fd_array[p][fd].node, 1) ELSE NoFile]]
    /\ pwd' = [pwd EXCEPT ![c] = pwd[p]]
    /\ inode_ref_count' = [i \in Inodes |-> inode_ref_count[i] + Uses(p, Fds, i) + Dir(p, i)]
    /\ inode_open_count' = [i \in Inodes |-> inode_open_count[i] + Uses(p, Fds, i)]
    /\ UNCHANGED <<call, lost>>

(* do_execve: files_closeall closes all entries but 0 and 1, and the        *)
(* program takes the first free one, which it keeps.  The process is a user *)
(* process afterwards; if load_icode fails, its old mm is gone already and  *)
(* do_exit leaves the table in memory.  If the program cannot be opened,    *)
(* the process exits as in files_destroy.                                   *)
do_execve(p, i, loaded) ==
    LET closed == Fds \ {0, 1}
        table == [fd \in Fds |-> IF fd \in closed THEN NoFile ELSE fd_array[p][fd]]
        free == {fd \in Fds : table[fd].status = "FD_NONE"}
    IN  /\ Running(p)
        /\ p # init
        /\ free # {}
        /\ fd_array' = [fd_array EXCEPT ![p] = [table EXCEPT ![Min(free)] = Opened(i, 1)]]
        /\ inode_ref_count' = [j \in Inodes |->
              inode_ref_count[j] - Uses(p, closed, j) + IF j = i THEN 1 ELSE 0]
        /\ inode_open_count' = [j \in Inodes |->
              inode_open_count[j] - Uses(p, closed, j) + IF j = i THEN 1 ELSE 0]
        /\ proc' = [proc EXCEPT ![p] = IF loaded THEN "user" ELSE "left"]
        /\ UNCHANGED <<pwd, call, lost>>

(* do_exit of a process with an mm: put_files and files_destroy.            *)
files_destroy(p) ==
    /\ User(p)
    /\ proc' = [proc EXCEPT ![p] = "none"]
    /\ fd_array' = [fd_array EXCEPT ![p] = EmptyTable]
    /\ pwd' = [pwd EXCEPT ![p] = NULL]
    /\ inode_ref_count' = [i \in Inodes |-> inode_ref_count[i] - Uses(p, Fds, i) - Dir(p, i)]
    /\ inode_open_count' = [i \in Inodes |-> inode_open_count[i] - Uses(p, Fds, i)]
    /\ UNCHANGED <<call, lost>>

(* do_exit of a kernel thread, which has no mm: the table stays.            *)
do_exit_no_mm(p) ==
    /\ Running(p)
    /\ proc[p] = "kernel"
    /\ p # init
    /\ proc' = [proc EXCEPT ![p] = "left"]
    /\ UNCHANGED <<fd_array, pwd, call, inode_ref_count, inode_open_count, lost>>

(* O_CREAT of a path that does not exist, and a read of or a seek in a      *)
(* directory, call an operation that the inode does not have and stop the   *)
(* kernel at the assertion of inode.h:196: they are left out.               *)
TableNext ==
    \E p \in Procs :
       \/ \E i \in Inodes, write, excl, trunc \in BOOLEAN :
            /\ excl => trunc
            /\ trunc => i \in Files
            /\ file_open(p, i, write, excl, trunc)
       \/ \E ok \in BOOLEAN : truncated(p, ok)
       \/ \E fd \in Fds : file_close(p, fd) \/ file_io(p, fd)
       \/ io_done(p)
       \/ \E fd1, fd2 \in Fds : file_dup(p, fd1, fd2)
       \/ \E i \in Inodes : vfs_chdir(p, i)
       \/ \E c \in Procs : dup_files(p, c)
       \/ \E i \in Files, loaded \in BOOLEAN : do_execve(p, i, loaded)
       \/ files_destroy(p)
       \/ do_exit_no_mm(p)

TableSpec == TableInit /\ [][TableNext]_tablevars
-----------------------------------------------------------------------------
(* Who uses an inode: entries, also those being opened, and working         *)
(* directories.                                                             *)
Holders(i) == Cardinality({e \in Procs \X Fds : fd_array[e[1]][e[2]].node = i})
Dwellers(i) == Cardinality({p \in Procs : pwd[p] = i})

(* Every count is exactly the number of its users: an inode is closed and   *)
(* reclaimed neither early, under another process's descriptor, nor late,   *)
(* but for the references that vfs_open loses.                              *)
UsersCounted ==
    \A i \in Inodes :
       /\ inode_open_count[i] = Holders(i)
       /\ inode_ref_count[i] = Kept(i) + Holders(i) + Dwellers(i) + lost[i]

(* What the asserts of file.c require: an entry that is free or being       *)
(* opened has no users, an open one has the table and at most the call at   *)
(* work.                                                                    *)
EntriesAgree ==
    \A p \in Procs, fd \in Fds :
       LET f == fd_array[p][fd]
       IN  /\ f.status = "FD_NONE" <=> f.node = NULL
           /\ f.status = "FD_INIT" => call[p] = fd
           /\ f.open_count = IF f.status # "FD_OPENED" THEN 0
                             ELSE IF call[p] = fd THEN 2 ELSE 1

(* A process that does not exist has no entry, no directory and no call at  *)
(* work.                                                                    *)
UnusedEmpty ==
    \A p \in Procs :
       proc[p] = "none" => fd_array[p] = EmptyTable /\ pwd[p] = NULL /\ call[p] = NULL

(* Over all calls of file.c, fs.c and vfsfile.c the counts of inodes and of *)
(* descriptors follow their users.                                          *)
FileInv == TableTypeOK /\ UsersCounted /\ EntriesAgree /\ UnusedEmpty
=============================================================================
