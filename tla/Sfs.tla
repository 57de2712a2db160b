-------------------------------- MODULE Sfs --------------------------------
(***************************************************************************)
(* The Simple File System of lab8 (kern/fs/sfs): the bitmap of free        *)
(* blocks, the block map of an inode with its direct blocks and its one    *)
(* indirect block, reads, writes, seeks and truncation through open files  *)
(* (kern/fs/file.c), and the copy of an inode kept in memory, which is     *)
(* written back only when it is dirty.                                     *)
(*                                                                         *)
(* Sizes count words of four bytes: a block is BlkSize words of data or,   *)
(* as an indirect block, NEntry entries.  A system call is one action: it  *)
(* runs to its end with interrupts off, and the semaphores of the file     *)
(* system are free whenever one starts.  A read or a write moves at most a *)
(* block, sysfile.c cuts longer ones into such moves.  The disk is an      *)
(* image in memory (ide.c) whose reads and writes do not fail.  Files are  *)
(* opened for reading and writing; names and directories are not here, nor *)
(* is freeing an inode (the kernel has no unlink, nlinks is never 0).      *)
(***************************************************************************)
EXTENDS Integers, Sequences, FiniteSets, FiniteSetsExt, SequencesExt

CONSTANTS FileIds,    \* the regular files of the image
          Fds,        \* open files of all processes
          Values,     \* words written, not 0
          BlkSize,    \* SFS_BLKSIZE
          NEntry,     \* SFS_BLK_NENTRY
          NDirect,    \* SFS_NDIRECT
          MaxSize,    \* SFS_MAX_FILE_SIZE
          Offsets,    \* bound: the offsets seeked to
          Lengths,    \* bound: the lengths of reads and writes
          NBlocks,    \* the blocks 1 .. NBlocks are free at first
          NoFd, NoInode

\* What an inode holds; block 0 is none.
Inodes == [size : Nat, blocks : 0 .. NDirect + NEntry, indirect : 0 .. NBlocks,
           direct : [0 .. NDirect - 1 -> 0 .. NBlocks], dirty : BOOLEAN]
OpenFiles == [file : FileIds, pos : Nat]

ASSUME SfsAssumption == /\ IsFiniteSet(FileIds) /\ NoInode \notin Inodes /\ NoFd \notin OpenFiles
                        /\ BlkSize \in Nat \ {0} /\ NDirect \in Nat
                        /\ NEntry \in 1 .. BlkSize /\ Lengths \subseteq 1 .. BlkSize
                        /\ MaxSize \in Nat \ {0} /\ NBlocks \in Nat
                        /\ Offsets \subseteq 0 .. MaxSize - 1
                        /\ Values \subseteq Nat \ {0}

VARIABLES ondisk,   \* the inode of each file on disk
          sin,      \* its copy in memory with a dirty flag, or NoInode
          disk,     \* what the blocks hold
          freemap,  \* the free blocks
          unused,   \* super.unused_blocks
          fd,       \* inode and offset of each open file, or NoFd
          short,    \* history: a call left a size the blocks do not reach
          panic     \* "no", or the assertion or panic that stopped the kernel

vars == <<ondisk, sin, disk, freemap, unused, fd, short, panic>>

Blocks == 1 .. NBlocks
Zeros == [k \in 0 .. BlkSize - 1 |-> 0]
Ceil(len) == (len + BlkSize - 1) \div BlkSize

(* ------------------------- blocks and the block map --------------------- *)
\* These operators act on a record with fields sin (one inode), disk,
\* freemap, unused, ino (the block found) and ret: "ok", "nospace", or the
\* assertion that failed.  What is not "ok" ends the call.
Failed(s, why) == [s EXCEPT !.ret = why]

\* the content of the block is left as it was
block_alloc_NoClear(s) ==
  IF s.freemap = {} THEN Failed(s, "nospace")
  ELSE IF s.unused = 0 THEN Failed(s, "assert")
  ELSE LET b == Min(s.freemap)
       IN [s EXCEPT !.freemap = @ \ {b}, !.unused = @ - 1, !.ino = b]

block_alloc(s) ==
  IF s.freemap = {} THEN Failed(s, "nospace")
  ELSE IF s.unused = 0 THEN Failed(s, "assert")
  ELSE LET b == Min(s.freemap)
       IN [s EXCEPT !.freemap = @ \ {b}, !.unused = @ - 1,
                    !.disk[b] = Zeros, !.ino = b]

\* the superblock does not learn of it
block_free_NoCount(s, b) ==
  IF b \in s.freemap THEN Failed(s, "assert") ELSE [s EXCEPT !.freemap = @ \cup {b}]

block_free(s, b) ==
  IF b \in s.freemap THEN Failed(s, "assert")
  ELSE [s EXCEPT !.freemap = @ \cup {b}, !.unused = @ + 1]

\* the entry block is kept when there is none left for the data
bmap_get_sub_Keep(s, ent, index, create) ==
  LET e == IF ent # 0 THEN [s EXCEPT !.ino = ent] ELSE block_alloc(s)
      d == block_alloc(e)
  IN IF ent = 0 /\ ~create THEN [s EXCEPT !.ino = 0]
     ELSE IF ent # 0 /\ (s.disk[ent][index] # 0 \/ ~create)
          THEN [s EXCEPT !.ino = s.disk[ent][index]]
     ELSE IF e.ret # "ok" THEN e
     ELSE IF d.ret # "ok" THEN d
     ELSE [d EXCEPT !.disk[e.ino][index] = d.ino, !.sin.indirect = e.ino,
                    !.sin.dirty = @ \/ ent = 0]

\* entry index of entry block ent, which is allocated if it is 0 and given
\* back if there is no block left for the data; a new entry block goes to
\* the inode (the end of bmap_get_nolock)
bmap_get_sub(s, ent, index, create) ==
  LET e == IF ent # 0 THEN [s EXCEPT !.ino = ent] ELSE block_alloc(s)
      d == block_alloc(e)
  IN IF ent = 0 /\ ~create THEN [s EXCEPT !.ino = 0]
     ELSE IF ent # 0 /\ (s.disk[ent][index] # 0 \/ ~create)
          THEN [s EXCEPT !.ino = s.disk[ent][index]]
     ELSE IF e.ret # "ok" THEN e
     ELSE IF d.ret # "ok" THEN IF ent = 0 THEN block_free(d, e.ino) ELSE d
     ELSE [d EXCEPT !.disk[e.ino][index] = d.ino, !.sin.indirect = e.ino,
                    !.sin.dirty = @ \/ ent = 0]

bmap_get(s, index, create) ==
  IF index < NDirect
  THEN LET t == block_alloc(s)
       IN IF s.sin.direct[index] # 0 \/ ~create THEN [s EXCEPT !.ino = s.sin.direct[index]]
          ELSE IF t.ret # "ok" THEN t
          ELSE [t EXCEPT !.sin.direct[index] = t.ino, !.sin.dirty = TRUE]
  ELSE IF index - NDirect < NEntry
  THEN bmap_get_sub(s, s.sin.indirect, index - NDirect, create)
  ELSE Failed(s, "index out of range")

\* block number index of the file; the one after the last is created.  The
\* inode does not get dirty by blocks ++ alone
bmap_load(s, index) ==
  LET create == index = s.sin.blocks
      t == bmap_get(s, index, create)
  IN IF index > s.sin.blocks THEN Failed(s, "index > blocks")
     ELSE IF t.ret # "ok" THEN t
     ELSE IF t.ino \notin Blocks \ t.freemap THEN Failed(t, "assert")
     ELSE [t EXCEPT !.sin.blocks = IF create THEN @ + 1 ELSE @]

bmap_free(s, index) ==
  LET ent == s.sin.indirect
      b == IF index < NDirect THEN s.sin.direct[index]
           ELSE IF ent = 0 THEN 0 ELSE s.disk[ent][index - NDirect]
      t == block_free(s, b)
  IN IF b = 0 THEN s
     ELSE IF index < NDirect THEN [t EXCEPT !.sin.direct[index] = 0, !.sin.dirty = TRUE]
     ELSE [t EXCEPT !.disk[ent][index - NDirect] = 0]

\* the entry block stays with the inode
bmap_truncate(s) ==
  [bmap_free(s, s.sin.blocks - 1) EXCEPT !.sin.blocks = @ - 1, !.sin.dirty = TRUE]

Upto(n) == [k \in 1 .. n |-> k]
\* Op(s) n times, or until it fails
Repeat(Op(_), s, n) ==
  FoldLeft(LAMBDA t, k : IF t.ret = "ok" THEN Op(t) ELSE t, s, Upto(n))

\* the new size is not set if the enlargement fails, but its blocks stay
truncfile(s, len) ==
  LET tblks == Ceil(len)
      t == IF s.sin.blocks < tblks
           THEN Repeat(LAMBDA u : bmap_load(u, u.sin.blocks), s, tblks - s.sin.blocks)
           ELSE Repeat(bmap_truncate, s, s.sin.blocks - tblks)
  IN IF s.sin.size = len
     THEN IF tblks = s.sin.blocks THEN s ELSE Failed(s, "tblks # blocks")
     ELSE IF t.ret # "ok" THEN t
     ELSE [t EXCEPT !.sin.size = len, !.sin.dirty = TRUE]

(* ---------------------------- reads and writes -------------------------- *)
\* the pieces of blocks that make up the range: a head up to the block's end
\* if the range does not start a block, whole blocks, a tail
Pieces(off, end) ==
  LET blkno  == off \div BlkSize
      nblks  == end \div BlkSize - blkno
      blkoff == off % BlkSize
      head   == IF blkoff = 0 THEN <<>>
                ELSE <<[blk |-> blkno, at |-> blkoff,
                        len |-> IF nblks # 0 THEN BlkSize - blkoff ELSE end - off]>>
      first  == blkno + Len(head)
      whole  == [k \in 1 .. nblks - Len(head) |->
                   [blk |-> first + k - 1, at |-> 0, len |-> BlkSize]]
      tail   == IF end % BlkSize = 0 THEN <<>>
                ELSE <<[blk |-> blkno + nblks, at |-> 0, len |-> end % BlkSize]>>
  IN IF blkoff # 0 /\ nblks = 0 THEN head ELSE head \o whole \o tail

\* reads too create the block after the last one and let the size grow; v is
\* the value written, 0 if this is a read.  Field alen counts what was moved
io_nolock(s, off, n, v) ==
  LET end == Min({off + n, MaxSize})
      Move(t, piece) ==
        LET u == bmap_load(t, piece.blk)
            touched == {k \in 0 .. BlkSize - 1 : v # 0 /\ k >= piece.at
                                                  /\ k < piece.at + piece.len}
        IN IF t.ret # "ok" THEN t
           ELSE IF u.ret # "ok" THEN u
           ELSE [u EXCEPT !.disk[u.ino] =
                            [k \in 0 .. BlkSize - 1 |-> IF k \in touched THEN v ELSE @[k]],
                          !.alen = @ + piece.len]
      t == FoldLeft(Move, s, Pieces(off, end))
  IN IF off >= MaxSize THEN Failed(s, "invalid")
     ELSE IF off + t.alen > t.sin.size
          THEN [t EXCEPT !.sin.size = off + t.alen, !.sin.dirty = TRUE]
          ELSE t

(* ------------------------------- actions -------------------------------- *)
EmptyInode == [size |-> 0, blocks |-> 0, indirect |-> 0,
               direct |-> [k \in 0 .. NDirect - 1 |-> 0], dirty |-> FALSE]

Init == /\ ondisk = [f \in FileIds |-> EmptyInode]
        /\ sin = [f \in FileIds |-> NoInode]
        /\ disk = [b \in Blocks |-> Zeros]
        /\ freemap = Blocks /\ unused = NBlocks
        /\ fd = [d \in Fds |-> NoFd]
        /\ short = FALSE
        /\ panic = "no"

\* sfs_load_inode: the copy in memory if there is one
load_inode(f) == IF sin[f] # NoInode THEN sin[f] ELSE ondisk[f]

State(f) == [sin |-> load_inode(f), disk |-> disk, freemap |-> freemap,
             unused |-> unused, ino |-> 0, ret |-> "ok", alen |-> 0]

\* the call leaves inode f in state s, unless it stopped the kernel
Settle(f, s) ==
  IF s.ret \in {"ok", "nospace", "invalid"}
  THEN /\ sin' = [sin EXCEPT ![f] = s.sin]
       /\ disk' = s.disk /\ freemap' = s.freemap /\ unused' = s.unused
       /\ short' = (short \/ Ceil(s.sin.size) > s.sin.blocks)
       /\ UNCHANGED <<ondisk, panic>>
  ELSE panic' = s.ret /\ UNCHANGED <<ondisk, sin, disk, freemap, unused, short>>

Is(d) == fd[d] # NoFd

sys_open(d, f, trunc) ==
  LET s == IF trunc THEN truncfile(State(f), 0) ELSE State(f)
  IN /\ ~Is(d)
     /\ fd' = [fd EXCEPT ![d] = [file |-> f, pos |-> 0]]
     /\ Settle(f, s)

\* dup, or fork: an open file with an offset of its own
sys_dup(d, e) == /\ Is(d) /\ ~Is(e)
                 /\ fd' = [fd EXCEPT ![e] = fd[d]]
                 /\ UNCHANGED <<ondisk, sin, disk, freemap, unused, short, panic>>

sys_io(d, n, v) ==
  LET f == fd[d].file
      s == io_nolock(State(f), fd[d].pos, n, v)
  IN /\ Is(d)
     /\ Settle(f, s)
     /\ fd' = [fd EXCEPT ![d].pos = @ + s.alen]

\* file_seek with sfs_tryseek: past the end the file grows
sys_seek(d, pos) ==
  LET f == fd[d].file
      s == IF pos > sin[f].size THEN truncfile(State(f), pos) ELSE State(f)
  IN /\ Is(d)
     /\ Settle(f, s)
     /\ fd' = IF s.ret = "ok" THEN [fd EXCEPT ![d].pos = pos] ELSE fd

\* the inode is taken for clean
fsync_Never(f) == UNCHANGED ondisk

\* sfs_fsync writes the inode back if it is dirty
fsync(f) == ondisk' = IF sin[f].dirty
                      THEN [ondisk EXCEPT ![f] = [sin[f] EXCEPT !.dirty = FALSE]]
                      ELSE ondisk

sys_fsync(d) == /\ Is(d) /\ fsync(fd[d].file)
                /\ sin' = [sin EXCEPT ![fd[d].file].dirty = FALSE]
                /\ UNCHANGED <<disk, freemap, unused, fd, short, panic>>

\* the last close writes the inode back and drops it (vop_close, sfs_reclaim)
sys_close(d) ==
  LET f == fd[d].file
      last == \A e \in Fds \ {d} : Is(e) => fd[e].file # f
  IN /\ Is(d)
     /\ fd' = [fd EXCEPT ![d] = NoFd]
     /\ IF last THEN fsync(f) /\ sin' = [sin EXCEPT ![f] = NoInode]
                ELSE UNCHANGED <<ondisk, sin>>
     /\ UNCHANGED <<disk, freemap, unused, short, panic>>

Next ==
  /\ panic = "no"
  /\ \E d \in Fds :
       \/ \E f \in FileIds, trunc \in BOOLEAN : sys_open(d, f, trunc)
       \/ \E e \in Fds : sys_dup(d, e)
       \/ \E n \in Lengths, v \in Values \cup {0} : sys_io(d, n, v)
       \/ \E pos \in Offsets : sys_seek(d, pos)
       \/ sys_fsync(d)
       \/ sys_close(d)

Spec == Init /\ [][Next]_vars

(* ------------------------------ properties ------------------------------ *)
Entries(i) == IF i.indirect = 0 THEN {} ELSE 0 .. NEntry - 1
Uses(f, b) == LET i == load_inode(f)
              IN   Cardinality({k \in DOMAIN i.direct : i.direct[k] = b})
                 + (IF i.indirect = b THEN 1 ELSE 0)
                 + Cardinality({k \in Entries(i) : disk[i.indirect][k] = b})

\* A block is free, or one inode uses it at one place: no block is lost, not
\* even when the disk is full in the middle of a call, none is shared by two
\* files or freed in use, and the superblock counts the free ones.
BlocksExact ==
  /\ \A b \in Blocks : MapThenSumSet(LAMBDA f : Uses(f, b), FileIds)
                       = (IF b \in freemap THEN 0 ELSE 1)
  /\ unused = Cardinality(freemap)

\* Of the assertions and panics that a file's data meets -- block map, reads,
\* writes, truncation, write-back and reclaim -- three can be reached: a stale
\* offset of another open file after O_TRUNC (bmap_load, line 356), blocks
\* that an enlargement left on a full disk (truncfile, line 939), and a size
\* the one indirect block cannot reach (bmap_get, line 286).  This says nothing
\* of names, which are not modelled: the assertion about the length of one (line
\* 442) fails for a path of 256 to 4095 bytes, which copy_path lets in and
\* sfs_lookup passes on in one piece.
OnlyKnownPanics ==
  panic \in {"no", "index > blocks", "tblks # blocks", "index out of range"}

\* The blocks of a file reach as far as its size, and what they hold past it
\* is zero -- the end of the last block and the blocks that an enlargement
\* left on a full disk: a file never grows by old data.  But io_nolock sets
\* the size to its offset even if there is no block left and nothing was
\* moved (line 643); with a stale offset that starts what short records, and
\* in the end (blocks ++ alone does not make the inode dirty) a truncation
\* misses a block whose old data a later growth shows.
BlockAt(i, k) == IF k < NDirect THEN i.direct[k]
                 ELSE IF i.indirect = 0 THEN 0 ELSE disk[i.indirect][k - NDirect]
WordAt(i, k) == LET b == BlockAt(i, k \div BlkSize)
                IN IF b = 0 THEN 0 ELSE disk[b][k % BlkSize]
TailIsZero ==
  \/ short
  \/ \A f \in FileIds :
       LET i == load_inode(f)
       IN /\ i.size <= i.blocks * BlkSize
          /\ \A k \in i.size .. i.blocks * BlkSize - 1 : WordAt(i, k) = 0

\* Up to that point the contents of the files, read through the block maps,
\* are those of ByteFile: only a write through an open file, a growth with
\* zeros or an open with O_TRUNC changes them -- no other file's call, no
\* call that fails, no close that drops the inode from memory.
FileContents ==
  [f \in FileIds |-> LET i == load_inode(f) IN [k \in 1 .. i.size |-> WordAt(i, k - 1)]]
Users == [d \in Fds |-> IF Is(d) THEN fd[d].file ELSE NoFd]
Bytes == INSTANCE ByteFile WITH contents <- FileContents, users <- Users,
                                MaxLen <- MaxSize, Lengths <- 1 .. BlkSize
KeepsBytes == Bytes!Init /\ [][short' \/ Bytes!Next]_<<FileContents, Users>>
=============================================================================
