------------------------------- MODULE MCFiles -------------------------------
(***************************************************************************)
(* Three layers of the file system: the descriptors of the processes        *)
(* (FileTable), the inodes in memory (InodeCache) and the blocks of files   *)
(* (SfsFile).  Each models what the layer below does to it as a choice of   *)
(* results, and they share no variable, so a behaviour is about one of      *)
(* them, `part', and the others rest.                                       *)
(***************************************************************************)
EXTENDS InodeCache, FileTable, Sequences, TLC

CONSTANTS
    Parts,
    MaxLost,                 \* bound: exclusive opens that fail
    f1, f2, d1, d2,          \* files and descriptors of SfsFile
    Buffers, NBLOCKS, SFS_BLKSIZE, SFS_NDIRECT, SFS_MAX_FILE_SIZE

VARIABLES
    part,
    sfs, sfs_din, sfs_dirty, unmarked, stale, file, pos, op, panic, content

sfsvars == <<sfs, sfs_din, sfs_dirty, unmarked, stale, file, pos, op, panic, content>>
allvars == <<part, vars, tablevars, sfsvars>>

SfsFiles == {f1, f2}
SfsFds == {d1, d2}

S == INSTANCE SfsFile WITH Files <- SfsFiles, Fds <- SfsFds, din <- sfs_din, dirty <- sfs_dirty

ASSUME PartsAssumption ==
    Parts \subseteq {"table", "inodes", "sfs"} /\ S!SfsAssumption

FilesInit == part \in Parts /\ Init /\ TableInit /\ S!Init

Table(A) == part = "table" /\ A /\ UNCHANGED <<part, vars, sfsvars>>
Inode(A) == part = "inodes" /\ A /\ UNCHANGED <<part, tablevars, sfsvars>>
Sfs(A) == part = "sfs" /\ A /\ UNCHANGED <<part, vars, tablevars>>

FilesNext == Table(TableNext) \/ Inode(Next) \/ Sfs(S!Next)

FilesSpec == FilesInit /\ [][FilesNext]_allvars

(* No more than MaxLost exclusive opens fail, and a file is not followed    *)
(* beyond a close that drops a block of it.                                 *)
Bounded == (\A i \in Inodes : lost[i] <= MaxLost) /\ stale = {}

MCBuffers == {<<1, 2, 1>>}
Symmetric == Permutations(Procs \ {init}) \cup Permutations(SfsFiles) \cup Permutations(SfsFds)
-----------------------------------------------------------------------------
(* Reads, writes, seeks and truncations keep every block in one place, the  *)
(* block map in step with the size and the bytes as they were written, on a *)
(* full disk too.                                                           *)
SfsInv == part = "sfs" => S!SfsInv

(* The assertion of sfs_bmap_load_nolock on its index holds.                *)
IndexInFile == S!IndexInFile

(* An inode in memory that differs from the one on the disk is marked.      *)
DirtyIfModified == S!DirtyIfModified
=============================================================================
