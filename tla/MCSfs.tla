------------------------------- MODULE MCSfs -------------------------------
EXTENDS Sfs
CONSTANTS f1, f2, d1, d2
Symmetry == Permutations({f1, f2}) \cup Permutations({d1, d2})

\* Without what no later step reads: all but panic once the kernel stopped,
\* the inode on disk while the one in memory is dirty (it will be written
\* over), the contents of free blocks (cleared when they are allocated).
View == IF panic # "no" THEN <<panic>>
        ELSE <<sin, freemap, unused, fd, short,
               [f \in FileIds |-> IF sin[f] # NoInode /\ sin[f].dirty
                                  THEN EmptyInode ELSE ondisk[f]],
               [b \in Blocks |-> IF b \in freemap THEN Zeros ELSE disk[b]]>>

\* The pieces of a range cover it once and in order, each inside one block;
\* for every range, those included that the calls of this instance do not use.
ASSUME PiecesExact ==
  \A off \in 0 .. 3 * BlkSize, n \in 1 .. 3 * BlkSize :
    LET pieces == Pieces(off, off + n)
        Start(k) == pieces[k].blk * BlkSize + pieces[k].at
    IN /\ Start(1) = off
       /\ \A k \in DOMAIN pieces :
            /\ pieces[k].len >= 1 /\ pieces[k].at + pieces[k].len <= BlkSize
            /\ Start(k) + pieces[k].len = IF k = Len(pieces) THEN off + n ELSE Start(k + 1)
============================================================================
