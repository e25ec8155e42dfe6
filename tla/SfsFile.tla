------------------------------ MODULE SfsFile ------------------------------
(***************************************************************************)
(* The contents of files of the simple file system: the block map, reads,   *)
(* writes, seeks and truncation of kern/fs/sfs/sfs_inode.c, called through  *)
(* the descriptors of kern/fs/file.c.                                       *)
(*                                                                         *)
(* A call runs to its end before the next one begins: the kernel is not     *)
(* preempted and the disk is a copy in memory (kern/driver/ramdisk.c), so   *)
(* no thread waits inside one.  It is split into the steps of its loop, one *)
(* block each.  The disk does not fail; what fails is bitmap_alloc on a     *)
(* full disk.  sysfile_read and sysfile_write repeat these calls.           *)
(***************************************************************************)
EXTENDS Integers, Sequences, FiniteSets, FiniteSetsExt

CONSTANTS
    Files,
    Fds,                  \* descriptors, open for reading and writing
    Buffers,              \* what may be written, and how much may be read
    NBLOCKS,              \* blocks of the disk that hold file data
    SFS_BLKSIZE,          \* cells of a block
    SFS_NDIRECT,
    SFS_MAX_FILE_SIZE,
    NULL

Block == 1..NBLOCKS
SFS_BLK_NENTRY == SFS_BLKSIZE
NIndex == SFS_NDIRECT + SFS_BLK_NENTRY

(* The disk is too small for a file that its block map cannot address (480  *)
(* kB in the Makefile, against 12 + 1024 blocks).                           *)
SfsAssumption ==
    /\ SFS_BLKSIZE \in Nat \ {0} /\ SFS_NDIRECT \in Nat
    /\ NBLOCKS \in Nat /\ NBLOCKS <= NIndex
    /\ SFS_MAX_FILE_SIZE \in Nat
    /\ \A b \in Buffers : b # <<>>

VARIABLES
    sfs,        \* freemap, unused_blocks and the cells of each block: bytes,
                \* or block numbers (0: none) in an entry block
    din,        \* the disk inode of each file, as in memory while it is open
    dirty,      \* the inode will be written when the last descriptor is closed
    unmarked,   \* history: blocks that an inode which is not dirty has got
                \* since it was last read from the disk or written to it
    stale,      \* history: files that were read again without such blocks
    file,       \* the file of each descriptor; NULL: closed
    pos,
    op,         \* the call in progress, NULL: none
    panic,      \* the assertion that has stopped the kernel
    content     \* history: the bytes each file should hold

flags == <<dirty, unmarked, stale>>
vars == <<sfs, din, flags, file, pos, op, panic, content>>

Zeros == [i \in 0..SFS_BLKSIZE - 1 |-> 0]

Init ==
    /\ sfs = [freemap |-> Block, unused_blocks |-> NBLOCKS, cells |-> [b \in Block |-> Zeros]]
    /\ din = [f \in Files |-> [size |-> 0, blocks |-> 0, indirect |-> 0,
                               direct |-> [i \in 0..SFS_NDIRECT - 1 |-> 0]]]
    /\ dirty = [f \in Files |-> FALSE]
    /\ unmarked = [f \in Files |-> 0]
    /\ stale = {}
    /\ file = [d \in Fds |-> NULL]
    /\ pos = [d \in Fds |-> 0]
    /\ op = NULL
    /\ panic = NULL
    /\ content = [f \in Files |-> <<>>]

Idle == op = NULL /\ panic = NULL
ROUNDUP_DIV(n, d) == (n + d - 1) \div d
-----------------------------------------------------------------------------
(* Disk blocks; both are only used when they can succeed.                   *)
sfs_block_alloc(s) ==
    LET ino == Min(s.freemap)
    IN  [s EXCEPT !.freemap = @ \ {ino}, !.unused_blocks = @ - 1, !.cells[ino] = Zeros]

sfs_block_free(s, ino) ==
    [s EXCEPT !.freemap = @ \cup {ino}, !.unused_blocks = @ + 1]

(* The block of a file at an index of its block map, 0 if there is none.    *)
sfs_bmap_get_nolock(f, index) ==
    IF index < SFS_NDIRECT THEN din[f].direct[index]
    ELSE IF din[f].indirect = 0 THEN 0
    ELSE sfs.cells[din[f].indirect][index - SFS_NDIRECT]

(* Mutant: the entry block stays allocated when there is no block left for  *)
(* the data.                                                                *)
sfs_bmap_createLeaks(f, index) ==
    LET one == sfs_block_alloc(sfs)
        ent == IF din[f].indirect = 0 THEN Min(sfs.freemap) ELSE din[f].indirect
        s   == IF din[f].indirect = 0 THEN one ELSE sfs
        ino == Min(s.freemap)
    IN  IF sfs_bmap_get_nolock(f, index) # 0 THEN
            [ret |-> TRUE, sfs |-> sfs, ino |-> sfs_bmap_get_nolock(f, index),
             din |-> [din[f] EXCEPT !.blocks = @ + 1]]
        ELSE IF sfs.freemap = {} THEN [ret |-> FALSE, sfs |-> sfs]
        ELSE IF index < SFS_NDIRECT THEN
            [ret |-> TRUE, sfs |-> one, ino |-> Min(sfs.freemap),
             din |-> [din[f] EXCEPT !.direct[index] = Min(sfs.freemap), !.blocks = @ + 1]]
        ELSE IF s.freemap = {} THEN [ret |-> FALSE, sfs |-> s]
        ELSE
            [ret |-> TRUE, ino |-> ino,
             sfs |-> [sfs_block_alloc(s) EXCEPT !.cells[ent][index - SFS_NDIRECT] = ino],
             din |-> [din[f] EXCEPT !.indirect = ent, !.blocks = @ + 1]]

(* A new last block: the one that the entry block still has there, or one   *)
(* that is allocated.  One for an indirect index may need the entry block   *)
(* first, which is given back when there is none left for the data.         *)
sfs_bmap_create(f, index) ==
    LET one == sfs_block_alloc(sfs)
        ent == IF din[f].indirect = 0 THEN Min(sfs.freemap) ELSE din[f].indirect
        s   == IF din[f].indirect = 0 THEN one ELSE sfs
        ino == Min(s.freemap)
    IN  IF sfs_bmap_get_nolock(f, index) # 0 THEN
            [ret |-> TRUE, sfs |-> sfs, ino |-> sfs_bmap_get_nolock(f, index),
             din |-> [din[f] EXCEPT !.blocks = @ + 1]]
        ELSE IF sfs.freemap = {} THEN [ret |-> FALSE, sfs |-> sfs]
        ELSE IF index < SFS_NDIRECT THEN
            [ret |-> TRUE, sfs |-> one, ino |-> Min(sfs.freemap),
             din |-> [din[f] EXCEPT !.direct[index] = Min(sfs.freemap), !.blocks = @ + 1]]
        ELSE IF s.freemap = {} THEN
            [ret |-> FALSE, sfs |-> sfs_block_free(s, ent)]
        ELSE
            [ret |-> TRUE, ino |-> ino,
             sfs |-> [sfs_block_alloc(s) EXCEPT !.cells[ent][index - SFS_NDIRECT] = ino],
             din |-> [din[f] EXCEPT !.indirect = ent, !.blocks = @ + 1]]

(* The inode becomes d.  A block under an entry block that is there already *)
(* does not make it dirty (marks is FALSE).                                 *)
Change(f, d, marks) ==
    /\ din' = [din EXCEPT ![f] = d]
    /\ dirty' = [dirty EXCEPT ![f] = @ \/ marks]
    /\ unmarked' = [unmarked EXCEPT ![f] =
          IF marks \/ dirty[f] THEN 0 ELSE @ + d.blocks - din[f].blocks]
    /\ UNCHANGED stale

(* sfs_bmap_get_nolock marks the inode if it stores a block number in it.   *)
Load(f, d) ==
    Change(f, d, d.direct # din[f].direct \/ d.indirect # din[f].indirect)

(* The block at index, made if index is the first one past the end.         *)
sfs_bmap_load_nolock(f, index) ==
    IF index = din[f].blocks THEN sfs_bmap_create(f, index)
    ELSE [ret |-> TRUE, sfs |-> sfs, din |-> din[f], ino |-> sfs_bmap_get_nolock(f, index)]

(* The last block is given back; the entry block stays.                     *)
sfs_bmap_truncate_nolock(f) ==
    LET index == din[f].blocks - 1
        ino == sfs_bmap_get_nolock(f, index)
        s == IF index < SFS_NDIRECT THEN sfs
             ELSE [sfs EXCEPT !.cells[din[f].indirect][index - SFS_NDIRECT] = 0]
        d == IF index < SFS_NDIRECT THEN [din[f] EXCEPT !.direct[index] = 0] ELSE din[f]
    IN  /\ sfs' = sfs_block_free(s, ino)
        /\ Change(f, [d EXCEPT !.blocks = @ - 1], TRUE)

(* assert(index <= din->blocks) fails.                                      *)
bmap_load_panics ==
    /\ op.blkno > din[op.f].blocks
    /\ panic' = "index"
    /\ UNCHANGED <<sfs, din, flags, file, pos, op, content>>
-----------------------------------------------------------------------------
(* Where sfs_io_nolock goes on after its first block: whole blocks, the     *)
(* part of the last one, or the end.                                        *)
Onward(nblks, endpos) ==
    IF nblks > 0 THEN "blocks" ELSE IF endpos % SFS_BLKSIZE # 0 THEN "tail" ELSE "out"

(* file_read and file_write up to the first block; buf is what is written   *)
(* or, for a read, as long as what is wanted.                               *)
sfs_io_nolock(d, write, buf) ==
    LET f      == file[d]
        offset == pos[d]
        limit  == IF write THEN SFS_MAX_FILE_SIZE ELSE din[f].size
        endpos == Min({offset + Len(buf), limit})
        nblks  == endpos \div SFS_BLKSIZE - offset \div SFS_BLKSIZE
    IN  /\ Idle
        /\ f # NULL
        /\ offset < limit
        /\ op' = [call |-> IF write THEN "write" ELSE "read",
                  f |-> f, fd |-> d, buf |-> buf, offset |-> offset, endpos |-> endpos,
                  blkno |-> offset \div SFS_BLKSIZE, nblks |-> nblks,
                  stage |-> IF offset % SFS_BLKSIZE # 0 THEN "head" ELSE Onward(nblks, endpos),
                  alen |-> 0, got |-> <<>>]
        /\ UNCHANGED <<sfs, din, flags, file, pos, panic, content>>

Io(stage) == op # NULL /\ panic = NULL /\ op.call \in {"read", "write"} /\ op.stage = stage

(* len bytes between the buffer and the cells from at on of block           *)
(* op.blkno; on failure the loop ends.                                      *)
Move(at, len, next) ==
    LET r == sfs_bmap_load_nolock(op.f, op.blkno)
        moved == [i \in 0..SFS_BLKSIZE - 1 |->
                    IF i \in at..at + len - 1 THEN op.buf[op.alen + i - at + 1]
                                              ELSE r.sfs.cells[r.ino][i]]
        got == [i \in 1..len |-> r.sfs.cells[r.ino][at + i - 1]]
    IN  \/ /\ op.blkno <= din[op.f].blocks
           /\ ~ r.ret
           /\ sfs' = r.sfs
           /\ op' = [op EXCEPT !.stage = "out"]
           /\ UNCHANGED <<din, flags, file, pos, panic, content>>
        \/ /\ op.blkno <= din[op.f].blocks
           /\ r.ret
           /\ sfs' = IF op.call = "write" THEN [r.sfs EXCEPT !.cells[r.ino] = moved] ELSE r.sfs
           /\ Load(op.f, r.din)
           /\ op' = [next EXCEPT !.alen = @ + len, !.blkno = @ + 1,
                                 !.got = IF op.call = "read" THEN @ \o got ELSE @]
           /\ UNCHANGED <<file, pos, panic, content>>
        \/ bmap_load_panics

(* The part of the first block, if the offset is not at its beginning.      *)
io_head ==
    LET blkoff == op.offset % SFS_BLKSIZE
    IN  /\ Io("head")
        /\ IF op.nblks = 0 THEN Move(blkoff, op.endpos - op.offset, [op EXCEPT !.stage = "out"])
           ELSE Move(blkoff, SFS_BLKSIZE - blkoff,
                     [op EXCEPT !.nblks = @ - 1, !.stage = Onward(op.nblks - 1, op.endpos)])

io_blocks ==
    /\ Io("blocks")
    /\ Move(0, SFS_BLKSIZE,
            [op EXCEPT !.nblks = @ - 1, !.stage = Onward(op.nblks - 1, op.endpos)])

io_tail ==
    /\ Io("tail")
    /\ Move(0, op.endpos % SFS_BLKSIZE, [op EXCEPT !.stage = "out"])

(* The bytes of a file after buf is written at offset; a gap reads as 0.    *)
Overwrite(bytes, offset, buf) ==
    [i \in 1..Max({Len(bytes), offset + Len(buf)}) |->
        IF i \in offset + 1..offset + Len(buf) THEN buf[i - offset]
        ELSE IF i <= Len(bytes) THEN bytes[i] ELSE 0]

(* The end of sfs_io_nolock, sfs_io and file_read or file_write.  A write    *)
(* at a position past the end moves the end there even if it has found no   *)
(* block for its first byte.                                                *)
io_out ==
    LET end == op.offset + op.alen
    IN  /\ Io("out")
        /\ IF op.call = "write" /\ end > din[op.f].size
           THEN Change(op.f, [din[op.f] EXCEPT !.size = end], TRUE)
           ELSE UNCHANGED <<din, flags>>
        /\ content' = IF op.call = "read" THEN content
              ELSE [content EXCEPT ![op.f] = Overwrite(@, op.offset, SubSeq(op.buf, 1, op.alen))]
        /\ pos' = [pos EXCEPT ![op.fd] = end]
        /\ op' = NULL
        /\ UNCHANGED <<sfs, file, panic>>
-----------------------------------------------------------------------------
(* What a call does with its descriptor once the file has the length.       *)
Done(d, f, p) ==
    /\ file' = [file EXCEPT ![d] = f]
    /\ pos' = [pos EXCEPT ![d] = p]

(* sfs_truncfile before its loop, for descriptor d that will stand at p.    *)
sfs_truncfile(d, f, len, p) ==
    \/ /\ din[f].size = len
       /\ din[f].blocks = ROUNDUP_DIV(len, SFS_BLKSIZE)
       /\ Done(d, f, p)
       /\ UNCHANGED <<sfs, din, flags, op, panic, content>>
    \/ /\ din[f].size = len
       /\ din[f].blocks # ROUNDUP_DIV(len, SFS_BLKSIZE)
       /\ panic' = "truncate"
       /\ UNCHANGED <<sfs, din, flags, file, pos, op, content>>
    \/ /\ din[f].size # len
       /\ op' = [call |-> "truncate", f |-> f, fd |-> d, pos |-> p,
                 len |-> len, tblks |-> ROUNDUP_DIV(len, SFS_BLKSIZE)]
       /\ UNCHANGED <<sfs, din, flags, file, pos, panic, content>>

Truncating == op # NULL /\ panic = NULL /\ op.call = "truncate"

(* One block more; on a full disk the call fails with the blocks it has.    *)
truncfile_enlarge ==
    LET r == sfs_bmap_load_nolock(op.f, din[op.f].blocks)
    IN  /\ Truncating
        /\ din[op.f].blocks < op.tblks
        /\ sfs' = r.sfs
        /\ IF r.ret THEN Load(op.f, r.din) /\ UNCHANGED op
                    ELSE op' = NULL /\ UNCHANGED <<din, flags>>
        /\ UNCHANGED <<file, pos, panic, content>>

truncfile_reduce ==
    /\ Truncating
    /\ din[op.f].blocks > op.tblks
    /\ sfs_bmap_truncate_nolock(op.f)
    /\ UNCHANGED <<file, pos, op, panic, content>>

truncfile_done ==
    /\ Truncating
    /\ din[op.f].blocks = op.tblks
    /\ Change(op.f, [din[op.f] EXCEPT !.size = op.len], TRUE)
    /\ content' = [content EXCEPT ![op.f] =
          [i \in 1..op.len |-> IF i <= Len(@) THEN @[i] ELSE 0]]
    /\ Done(op.fd, op.f, op.pos)
    /\ op' = NULL
    /\ UNCHANGED <<sfs, panic>>

(* vfs_open of an existing file, with O_TRUNC, with O_APPEND or neither.    *)
file_open(d, f, trunc, append) ==
    /\ Idle
    /\ file[d] = NULL
    /\ IF trunc THEN sfs_truncfile(d, f, 0, 0)
       ELSE /\ Done(d, f, IF append THEN din[f].size ELSE 0)
            /\ UNCHANGED <<sfs, din, flags, op, panic, content>>

(* file_seek and sfs_tryseek to a position that LSEEK_SET, LSEEK_CUR or     *)
(* LSEEK_END gives; past the end the file is enlarged.                      *)
file_seek(d, p) ==
    /\ Idle
    /\ file[d] # NULL
    /\ p < SFS_MAX_FILE_SIZE
    /\ IF p > din[file[d]].size THEN sfs_truncfile(d, file[d], p, p)
       ELSE /\ Done(d, file[d], p)
            /\ UNCHANGED <<sfs, din, flags, op, panic, content>>

(* file_dup: the new descriptor has its own position.                       *)
file_dup(d, from) ==
    /\ Idle
    /\ file[d] = NULL /\ file[from] # NULL
    /\ Done(d, file[from], pos[from])
    /\ UNCHANGED <<sfs, din, flags, op, panic, content>>

(* The last close writes a dirty inode and frees it (sfs_close and then     *)
(* sfs_reclaim): what the next open reads has only what was written.        *)
file_close(d) ==
    LET f == file[d]
        last == \A e \in Fds \ {d} : file[e] # f
    IN  /\ Idle
        /\ f # NULL
        /\ Done(d, NULL, 0)
        /\ IF last THEN
              /\ dirty' = [dirty EXCEPT ![f] = FALSE]
              /\ unmarked' = [unmarked EXCEPT ![f] = 0]
              /\ din' = [din EXCEPT ![f].blocks = @ - unmarked[f]]
              /\ stale' = IF unmarked[f] = 0 THEN stale ELSE stale \cup {f}
           ELSE UNCHANGED <<din, flags>>
        /\ UNCHANGED <<sfs, op, panic, content>>

(* file_fsync.                                                              *)
file_fsync(d) ==
    /\ Idle
    /\ file[d] # NULL
    /\ dirty[file[d]]
    /\ dirty' = [dirty EXCEPT ![file[d]] = FALSE]
    /\ UNCHANGED <<sfs, din, unmarked, stale, file, pos, op, panic, content>>

Next ==
    \/ \E d \in Fds :
         \/ \E buf \in Buffers, write \in BOOLEAN : sfs_io_nolock(d, write, buf)
         \/ \E f \in Files, trunc, append \in BOOLEAN : file_open(d, f, trunc, append)
         \/ \E p \in 0..SFS_MAX_FILE_SIZE : file_seek(d, p)
         \/ \E from \in Fds : file_dup(d, from)
         \/ file_close(d) \/ file_fsync(d)
    \/ io_head \/ io_blocks \/ io_tail \/ io_out
    \/ truncfile_enlarge \/ truncfile_reduce \/ truncfile_done

Spec == Init /\ [][Next]_vars
-----------------------------------------------------------------------------
Writing(f) == op # NULL /\ op.call = "write" /\ op.f = f
Resizing(f) == op # NULL /\ op.call = "truncate" /\ op.f = f

TypeOK ==
    /\ sfs.freemap \subseteq Block
    /\ \A f \in Files :
         /\ din[f].blocks \in 0..NBLOCKS
         /\ din[f].size \in 0..SFS_MAX_FILE_SIZE
         /\ din[f].indirect \in {0} \cup Block
    /\ \A d \in Fds : file[d] \in Files \cup {NULL} /\ pos[d] \in 0..SFS_MAX_FILE_SIZE
    /\ panic \in {NULL, "index", "truncate"}

(* Every block is free or in exactly one place of one block map, and        *)
(* unused_blocks counts the free ones.                                      *)
BlocksOwnedOnce ==
    /\ sfs.unused_blocks = Cardinality(sfs.freemap)
    /\ \A b \in Block :
         Cardinality({<<f, i>> \in Files \X (0..NIndex) :
                        b = IF i = NIndex THEN din[f].indirect ELSE sfs_bmap_get_nolock(f, i)})
           = IF b \in sfs.freemap THEN 0 ELSE 1

(* The block map of a file has its blocks first and then none, and enough   *)
(* of them for its size.  The one way to be a block short is a write past   *)
(* the end that found no block, and it leaves no byte there.                *)
MapFitsSize ==
    \A f \in Files \ stale :
       /\ \A i \in 0..NIndex - 1 : sfs_bmap_get_nolock(f, i) # 0 <=> i < din[f].blocks
       /\ ~ Resizing(f) =>
            /\ din[f].size < (din[f].blocks + 1) * SFS_BLKSIZE
            /\ ~ Writing(f) => \A i \in din[f].blocks * SFS_BLKSIZE + 1..din[f].size : content[f][i] = 0

(* A file holds the bytes that were written to it and 0 elsewhere, in its   *)
(* blocks past the end too; what a read has got is what the file holds.     *)
ByteAt(f, i) == sfs.cells[sfs_bmap_get_nolock(f, i \div SFS_BLKSIZE)][i % SFS_BLKSIZE]

BytesAsWritten ==
    /\ \A f \in Files \ stale :
         /\ Len(content[f]) = din[f].size
         /\ ~ Writing(f) /\ ~ Resizing(f) =>
              \A i \in 0..din[f].blocks * SFS_BLKSIZE - 1 :
                 ByteAt(f, i) = IF i < din[f].size THEN content[f][i + 1] ELSE 0
    /\ op # NULL /\ op.call = "read" /\ op.f \notin stale =>
         op.got = SubSeq(content[op.f], op.offset + 1, op.offset + op.alen)

(* What holds of files, their blocks and the free map in every state, in    *)
(* the middle of a call, on a full disk and after an assertion too.         *)
SfsInv == TypeOK /\ BlocksOwnedOnce /\ MapFitsSize /\ BytesAsWritten

(* assert(index <= din->blocks) of sfs_bmap_load_nolock holds.              *)
IndexInFile == panic # "index"

(* The comment on `dirty': it is true if the inode is modified.             *)
DirtyIfModified == Idle => \A f \in Files : unmarked[f] # 0 => dirty[f]
=============================================================================
