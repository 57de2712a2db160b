----------------------------- MODULE SfsProofs -----------------------------
(***************************************************************************)
(* Proofs about SFS, for any number of files, blocks and open files and    *)
(* any block size: every block has one owner, of the assertions that a     *)
(* file's data meets only the known ones fail, and the block maps          *)
(* implement arrays of words (ByteFile).                                   *)
(***************************************************************************)
EXTENDS Sfs, Lemmas

\* The places an inode has for a block number: the direct ones, the entries of its
\* entry block, and the one for the entry block itself.
Reach == NDirect + NEntry
Index == 0 .. Reach - 1
Places == 0 .. Reach

At(i, d, k) ==
  IF k < NDirect THEN i.direct[k]
  ELSE IF k = Reach THEN i.indirect
  ELSE IF i.indirect = 0 THEN 0 ELSE d[i.indirect][k - NDirect]

Contents == [0 .. BlkSize - 1 -> Nat]
Disks == [Blocks -> Contents]
Rets == {"ok", "nospace", "invalid", "index > blocks", "tblks # blocks", "index out of range"}
Calls == [sin : Inodes, disk : Disks, freemap : SUBSET Blocks, unused : Nat,
          ino : 0 .. NBlocks, ret : Rets, alen : Nat]

\* What the blocks of a file hold, block by block; a missing one reads as zeros.
Data(i, d) == [k \in Index |-> IF At(i, d, k) = 0 THEN Zeros ELSE d[At(i, d, k)]]

\* No block stands at two places, and the blocks counted are there.
Mapped(i, d) ==
  /\ \A k \in Places : At(i, d, k) \in 0 .. NBlocks
  /\ \A k, l \in Places : At(i, d, k) = At(i, d, l) /\ At(i, d, k) # 0 => k = l
  /\ \A k \in 0 .. i.blocks - 1 : At(i, d, k) # 0

Counted(s) == s \in Calls /\ s.unused = Cardinality(s.freemap)

\* A call on one file is under way; others are the blocks of the other files, and
\* before is what the disk held when it began.
Sound(s, others, before) ==
  /\ Counted(s)
  /\ Mapped(s.sin, s.disk)
  /\ others \subseteq Blocks
  /\ \A b \in others : b \notin s.freemap /\ s.disk[b] = before[b]
  /\ \A k \in Places : At(s.sin, s.disk, k) \notin s.freemap \cup others
  /\ \A b \in Blocks : b \in s.freemap \cup others \/ \E k \in Places : At(s.sin, s.disk, k) = b

\* The inode in memory need not be written back unless it is dirty: what the one on
\* disk lacks is a part of the count of blocks.
SameMap(j, i) == j.direct = i.direct /\ j.indirect = i.indirect /\ j.size = i.size /\ j.blocks <= i.blocks
Clean(j, i) == (j.dirty => i.dirty) /\ (~i.dirty => SameMap(j, i))

LEMMA SfsConstants ==
  /\ BlkSize \in Nat \ {0} /\ NDirect \in Nat /\ NEntry \in 1 .. BlkSize /\ NEntry \in Nat /\ NBlocks \in Nat
  /\ Reach \in Nat \ {0} /\ NDirect < Reach /\ Reach = NDirect + NEntry
  /\ IsFiniteSet(Blocks) /\ 0 \notin Blocks /\ Blocks = 1 .. NBlocks
  BY SfsAssumption, FS_Interval DEF Reach, Blocks

LEMMA CallFields ==
  ASSUME NEW s \in Calls
  PROVE  /\ s.sin \in Inodes /\ s.disk \in Disks /\ s.freemap \in SUBSET Blocks /\ s.unused \in Nat
         /\ s.ino \in 0 .. NBlocks /\ s.ret \in Rets /\ s.alen \in Nat
  BY DEF Calls

LEMMA InodeFields ==
  ASSUME NEW i \in Inodes
  PROVE  /\ i.size \in Nat /\ i.blocks \in 0 .. Reach /\ i.indirect \in 0 .. NBlocks
         /\ i.direct \in [0 .. NDirect - 1 -> 0 .. NBlocks] /\ i.dirty \in BOOLEAN
  BY DEF Inodes, Reach

\* block_alloc refuses when no block is free, and never panics.
Allocated(s, t) ==
  /\ t.ino \in s.freemap /\ t.freemap = s.freemap \ {t.ino}
  /\ t.disk = [s.disk EXCEPT ![t.ino] = Zeros]
  /\ t.sin = s.sin /\ t.alen = s.alen /\ t.ret = s.ret
  /\ Counted(t)

LEMMA ZerosTyped == Zeros \in Contents
  BY DEF Zeros, Contents

LEMMA BlockAlloc ==
  ASSUME NEW s, Counted(s)
  PROVE  IF s.freemap = {} THEN block_alloc(s) = [s EXCEPT !.ret = "nospace"] ELSE Allocated(s, block_alloc(s))
<1>1. CASE s.freemap = {}
  BY <1>1 DEF block_alloc, Failed
<1>2. CASE s.freemap # {}
  <2> PICK b : b = Min(s.freemap)
    OBVIOUS
  <2> PICK t : t = [s EXCEPT !.freemap = @ \ {b}, !.unused = @ - 1, !.disk[b] = Zeros, !.ino = b]
    OBVIOUS
  <2>1. s \in Calls /\ s.freemap \in SUBSET Blocks /\ s.unused = Cardinality(s.freemap) /\ s.disk \in Disks
    BY CallFields DEF Counted
  <2>2. IsFiniteSet(s.freemap) /\ Cardinality(s.freemap) \in Nat /\ Cardinality(s.freemap) # 0
    BY <1>2, <2>1, SfsConstants, FS_Subset, FS_CardinalityType, FS_EmptySet
  <2>3. b \in s.freemap /\ b \in Blocks /\ b \in 0 .. NBlocks
    <3>1. s.freemap \in SUBSET Nat
      BY <2>1, SfsConstants
    <3>2. b \in s.freemap
      BY <1>2, <3>1, MinIsLeast
    <3>3. QED
      BY <2>1, <3>2, SfsConstants
  <2>4. block_alloc(s) = t
    BY <1>2, <2>1, <2>2 DEF block_alloc
  <2>5. /\ t.sin = s.sin /\ t.disk = [s.disk EXCEPT ![b] = Zeros] /\ t.freemap = s.freemap \ {b}
        /\ t.unused = s.unused - 1 /\ t.ino = b /\ t.ret = s.ret /\ t.alen = s.alen
    BY <2>1 DEF Calls
  <2>6. Cardinality(s.freemap \ {b}) = Cardinality(s.freemap) - 1
    BY <2>2, <2>3, FS_RemoveElement
  <2>7. t.unused = Cardinality(t.freemap) /\ t.unused \in Nat
    BY <2>1, <2>2, <2>5, <2>6
  <2>8. t.disk \in Disks
    <3> PICK d : d = s.disk
      OBVIOUS
    <3>1. d \in Disks /\ [d EXCEPT ![b] = Zeros] \in Disks
      BY <2>1, ZerosTyped DEF Disks
    <3>2. QED
      BY <2>5, <3>1
  <2>9. t \in Calls
    BY <2>1, <2>3, <2>5, <2>7, <2>8 DEF Calls
  <2>10. QED
    BY <1>2, <2>3, <2>4, <2>5, <2>7, <2>9 DEF Allocated, Counted
<1>3. QED
  BY <1>1, <1>2

\* New blocks for places that had none leave the map sound.
LEMMA Installs ==
  ASSUME NEW others, NEW before, NEW s, Sound(s, others, before), NEW t, Counted(t),
         NEW new \in SUBSET s.freemap, t.freemap = s.freemap \ new,
         \A b \in others : t.disk[b] = s.disk[b],
         \A k \in Places : \/ At(t.sin, t.disk, k) = At(s.sin, s.disk, k)
                           \/ At(s.sin, s.disk, k) = 0 /\ At(t.sin, t.disk, k) \in new,
         \A k, l \in Places : At(t.sin, t.disk, k) = At(t.sin, t.disk, l) /\ At(t.sin, t.disk, k) \in new => k = l,
         \A b \in new : \E k \in Places : At(t.sin, t.disk, k) = b,
         t.sin.blocks = s.sin.blocks
  PROVE  Sound(t, others, before)
<1> DEFINE a(k) == At(s.sin, s.disk, k)
           c(k) == At(t.sin, t.disk, k)
<1>1. /\ \A k \in Places : c(k) = a(k) \/ (a(k) = 0 /\ c(k) \in new)
      /\ \A k, l \in Places : c(k) = c(l) /\ c(k) \in new => k = l
      /\ \A b \in new : \E k \in Places : c(k) = b
  OBVIOUS
<1>2. /\ \A k \in Places : a(k) \in 0 .. NBlocks /\ a(k) \notin s.freemap /\ a(k) \notin others
      /\ \A k, l \in Places : a(k) = a(l) /\ a(k) # 0 => k = l
      /\ \A k \in 0 .. s.sin.blocks - 1 : a(k) # 0
      /\ \A b \in Blocks : b \in s.freemap \/ b \in others \/ \E k \in Places : a(k) = b
  BY DEF Sound, Mapped
<1>3. /\ s.freemap \in SUBSET Blocks /\ others \subseteq Blocks /\ s.sin.blocks \in 0 .. Reach
      /\ \A b \in others : b \notin s.freemap /\ s.disk[b] = before[b]
  BY CallFields, InodeFields DEF Sound, Counted
<1>4. \A b \in Blocks : b \in 0 .. NBlocks /\ b # 0
  BY SfsConstants
<1> HIDE DEF a, c
<1>5. \A k \in Places : c(k) \in 0 .. NBlocks /\ c(k) \notin t.freemap /\ c(k) \notin others
  BY <1>1, <1>2, <1>3, <1>4
<1>6. \A k, l \in Places : c(k) = c(l) /\ c(k) # 0 => k = l
  BY <1>1, <1>2, <1>3, <1>4
<1>7. \A k \in 0 .. t.sin.blocks - 1 : c(k) # 0
  <2>1. \A k \in 0 .. t.sin.blocks - 1 : k \in Places /\ k \in 0 .. s.sin.blocks - 1
    BY <1>3, SfsConstants DEF Places
  <2>2. QED
    BY <1>1, <1>2, <1>3, <1>4, <2>1
<1>8. \A b \in Blocks : b \in t.freemap \/ b \in others \/ \E k \in Places : c(k) = b
  <2> SUFFICES ASSUME NEW b \in Blocks, b \notin s.freemap, b \notin others PROVE \E k \in Places : c(k) = b
    BY <1>1
  <2>1. PICK k \in Places : a(k) = b
    BY <1>2
  <2>2. QED
    BY <1>1, <1>4, <2>1
<1>9. Mapped(t.sin, t.disk)
  BY <1>5, <1>6, <1>7 DEF Mapped, c
<1>10. QED
  BY <1>3, <1>5, <1>8, <1>9 DEF Sound, c

\* What the file holds does not depend on blocks of zeros.
LEMMA DataKept ==
  ASSUME NEW i, NEW d, NEW j, NEW e,
         \A k \in Index : \/ /\ At(j, e, k) = At(i, d, k)
                             /\ At(i, d, k) # 0 => e[At(i, d, k)] = d[At(i, d, k)]
                          \/ At(i, d, k) = 0 /\ At(j, e, k) # 0 /\ e[At(j, e, k)] = Zeros
  PROVE  Data(j, e) = Data(i, d)
<1>1. ASSUME NEW k \in Index
      PROVE  (IF At(j, e, k) = 0 THEN Zeros ELSE e[At(j, e, k)]) = (IF At(i, d, k) = 0 THEN Zeros ELSE d[At(i, d, k)])
  OBVIOUS
<1>2. QED
  BY <1>1 DEF Data

\* What looking up a block, or making one, comes to.
Got(s, t, index, create, others, before) ==
  /\ Sound(t, others, before)
  /\ Clean(s.sin, t.sin) /\ t.sin.blocks = s.sin.blocks /\ t.sin.size = s.sin.size /\ t.alen = s.alen
  /\ Data(t.sin, t.disk) = Data(s.sin, s.disk)
  /\ t.ret \in {"ok", "nospace", "index out of range"}
  /\ t.ret = "ok" => /\ index < Reach /\ t.ino = At(t.sin, t.disk, index)
                     /\ create \/ At(s.sin, s.disk, index) # 0 => t.ino # 0

\* A call that only names a block, or gives up, leaves the file as it was.
LEMMA StaysSound ==
  ASSUME NEW others, NEW before, NEW s, Sound(s, others, before), NEW t \in Calls,
         t.sin = s.sin, t.disk = s.disk, t.freemap = s.freemap, t.unused = s.unused
  PROVE  Sound(t, others, before) /\ Clean(s.sin, t.sin) /\ Data(t.sin, t.disk) = Data(s.sin, s.disk)
<1>1. s.sin.blocks <= s.sin.blocks
  BY CallFields, InodeFields DEF Sound, Counted
<1>2. QED
  BY <1>1 DEF Sound, Counted, Mapped, Clean, SameMap

LEMMA NamesBlock ==
  ASSUME NEW others, NEW before, NEW s, Sound(s, others, before), s.ret = "ok",
         NEW index, index < Reach, index \in Nat, NEW create \in BOOLEAN,
         create => At(s.sin, s.disk, index) # 0
  PROVE  Got(s, [s EXCEPT !.ino = At(s.sin, s.disk, index)], index, create, others, before)
<1> PICK b : b = At(s.sin, s.disk, index)
  OBVIOUS
<1> PICK t : t = [s EXCEPT !.ino = b]
  OBVIOUS
<1>1. s \in Calls /\ b \in 0 .. NBlocks
  <2>1. index \in Places
    BY SfsConstants DEF Places
  <2>2. QED
    BY <2>1 DEF Sound, Counted, Mapped
<1>2. /\ t.sin = s.sin /\ t.disk = s.disk /\ t.freemap = s.freemap /\ t.unused = s.unused
      /\ t.ino = b /\ t.ret = s.ret /\ t.alen = s.alen /\ t \in Calls
  BY <1>1 DEF Calls
<1>3. Sound(t, others, before) /\ Clean(s.sin, t.sin) /\ Data(t.sin, t.disk) = Data(s.sin, s.disk)
  BY <1>2, StaysSound
<1>4. Got(s, t, index, create, others, before)
  BY <1>2, <1>3 DEF Got
<1>5. QED
  BY <1>4

GaveUp(s, t, why, others, before) ==
  /\ Sound(t, others, before) /\ Clean(s.sin, t.sin) /\ Data(t.sin, t.disk) = Data(s.sin, s.disk)
  /\ t.sin = s.sin /\ t.alen = s.alen /\ t.ret = why

LEMMA GivesUp ==
  ASSUME NEW others, NEW before, NEW s, Sound(s, others, before), NEW why \in Rets
  PROVE  GaveUp(s, Failed(s, why), why, others, before)
<1> PICK t : t = Failed(s, why)
  OBVIOUS
<1>1. t = [s EXCEPT !.ret = why]
  BY DEF Failed
<1>2. s \in Calls
  BY DEF Sound, Counted
<1>3. /\ t.sin = s.sin /\ t.disk = s.disk /\ t.freemap = s.freemap /\ t.unused = s.unused
      /\ t.ret = why /\ t.alen = s.alen /\ t \in Calls
  BY <1>1, <1>2 DEF Calls
<1>4. Sound(t, others, before) /\ Clean(s.sin, t.sin) /\ Data(t.sin, t.disk) = Data(s.sin, s.disk)
  BY <1>3, StaysSound
<1>5. GaveUp(s, t, why, others, before)
  BY <1>3, <1>4 DEF GaveUp
<1>6. QED
  BY <1>5

\* The three kinds of places.
ThreeKinds(i, d) ==
  /\ \A k \in 0 .. NDirect - 1 : At(i, d, k) = i.direct[k]
  /\ At(i, d, Reach) = i.indirect
  /\ \A k \in NDirect .. Reach - 1 : At(i, d, k) = IF i.indirect = 0 THEN 0 ELSE d[i.indirect][k - NDirect]

LEMMA KindsOfPlaces ==
  /\ \A k \in 0 .. NDirect - 1 : k \in Places /\ k \in Index /\ k # Reach
  /\ Reach \in Places
  /\ \A k \in NDirect .. Reach - 1 : k \in Places /\ k \in Index /\ k # Reach /\ k - NDirect \in 0 .. NEntry - 1
  /\ \A k \in Places : k \in 0 .. NDirect - 1 \/ k = Reach \/ k \in NDirect .. Reach - 1
  /\ \A k \in Index : k \in Places /\ k # Reach
  BY SfsConstants DEF Places, Index

LEMMA Kinds ==
  ASSUME NEW i, NEW d
  PROVE  ThreeKinds(i, d)
  BY SfsConstants DEF At, ThreeKinds

\* A data block is not the entry block, and neither is free.
LEMMA Apart ==
  ASSUME NEW others, NEW before, NEW s, Sound(s, others, before)
  PROVE  /\ s.sin.indirect \notin s.freemap \cup others /\ s.sin.indirect \in 0 .. NBlocks
         /\ \A k \in Index : /\ At(s.sin, s.disk, k) \notin s.freemap \cup others
                             /\ At(s.sin, s.disk, k) \in 0 .. NBlocks
                             /\ At(s.sin, s.disk, k) # 0 => At(s.sin, s.disk, k) # s.sin.indirect
  BY Kinds, KindsOfPlaces DEF Sound, Mapped, ThreeKinds

\* A direct block is made (bmap_get_nolock).
PutDirect(t, index) == [t EXCEPT !.sin.direct[index] = t.ino, !.sin.dirty = TRUE]

LEMMA DirectMade ==
  ASSUME NEW others, NEW before, NEW s, Sound(s, others, before), s.ret = "ok",
         NEW index \in 0 .. NDirect - 1, s.sin.direct[index] = 0,
         NEW t, Allocated(s, t), NEW w, w = PutDirect(t, index)
  PROVE  Got(s, w, index, TRUE, others, before)
<1> PICK b : b = t.ino
  OBVIOUS
<1>1. /\ s \in Calls /\ t \in Calls /\ s.sin \in Inodes /\ b \in s.freemap /\ b \in Blocks
      /\ t.freemap = s.freemap \ {b} /\ t.disk = [s.disk EXCEPT ![b] = Zeros]
      /\ t.sin = s.sin /\ t.alen = s.alen /\ t.ret = "ok" /\ t.unused = Cardinality(t.freemap)
      /\ s.freemap \in SUBSET Blocks /\ s.disk \in Disks
  BY CallFields DEF Sound, Counted, Allocated
<1>2. b \in 0 .. NBlocks /\ b # 0 /\ index < Reach /\ index \in Index
  BY <1>1, SfsConstants DEF Index
<1> PICK i : i = s.sin
  OBVIOUS
<1> PICK j : j = [i EXCEPT !.direct[index] = b, !.dirty = TRUE]
  OBVIOUS
<1>3. /\ j \in Inodes /\ j.direct = [i.direct EXCEPT ![index] = b] /\ j.dirty = TRUE
      /\ j.indirect = i.indirect /\ j.blocks = i.blocks /\ j.size = i.size
      /\ i.direct \in [0 .. NDirect - 1 -> 0 .. NBlocks]
  BY <1>1, <1>2 DEF Inodes
<1>4. w = [t EXCEPT !.sin = j]
  BY <1>1 DEF Calls, PutDirect
<1>5. /\ w \in Calls /\ w.sin = j /\ w.disk = t.disk /\ w.freemap = t.freemap /\ w.unused = t.unused
      /\ w.ino = b /\ w.ret = "ok" /\ w.alen = s.alen
  BY <1>1, <1>3, <1>4 DEF Calls
<1>6. Counted(w) /\ w.freemap = s.freemap \ {b}
  BY <1>1, <1>5 DEF Counted
<1>7. w.disk[b] = Zeros /\ \A x \in Blocks : x # b => w.disk[x] = s.disk[x]
  <2> PICK d : d = s.disk
    OBVIOUS
  <2>1. d \in [Blocks -> Contents] /\ w.disk = [d EXCEPT ![b] = Zeros]
    BY <1>1, <1>5 DEF Disks
  <2>2. QED
    BY ONLY <1>1, <2>1, d = s.disk
<1>8. i.indirect # b /\ i.indirect \in 0 .. NBlocks
  BY <1>1, Apart
<1>9. \A k \in Places : At(j, w.disk, k) = IF k = index THEN b ELSE At(i, s.disk, k)
  <2> ThreeKinds(j, w.disk) /\ ThreeKinds(i, s.disk)
    BY Kinds
  <2>1. ASSUME NEW k \in 0 .. NDirect - 1 PROVE At(j, w.disk, k) = IF k = index THEN b ELSE At(i, s.disk, k)
    <3>1. At(j, w.disk, k) = j.direct[k] /\ At(i, s.disk, k) = i.direct[k]
      BY DEF ThreeKinds
    <3>2. QED
      BY ONLY <1>3, <3>1, index \in 0 .. NDirect - 1, k \in 0 .. NDirect - 1
  <2>2. At(j, w.disk, Reach) = At(i, s.disk, Reach) /\ Reach # index
    <3>1. At(j, w.disk, Reach) = j.indirect /\ At(i, s.disk, Reach) = i.indirect
      BY DEF ThreeKinds
    <3>2. QED
      BY <1>2, <1>3, <3>1
  <2>3. ASSUME NEW k \in NDirect .. Reach - 1 PROVE At(j, w.disk, k) = At(i, s.disk, k) /\ k # index
    <3>1. k # index
      BY SfsConstants
    <3>2. /\ At(j, w.disk, k) = (IF j.indirect = 0 THEN 0 ELSE w.disk[j.indirect][k - NDirect])
          /\ At(i, s.disk, k) = (IF i.indirect = 0 THEN 0 ELSE s.disk[i.indirect][k - NDirect])
      BY DEF ThreeKinds
    <3>3. i.indirect # 0 => w.disk[i.indirect] = s.disk[i.indirect]
      <4>1. i.indirect # 0 => i.indirect \in Blocks
        BY <1>8, SfsConstants
      <4>2. QED
        BY ONLY <1>7, <1>8, <4>1
    <3>4. QED
      BY <1>3, <3>1, <3>2, <3>3
  <2>4. \A k \in Places : k \in 0 .. NDirect - 1 \/ k = Reach \/ k \in NDirect .. Reach - 1
    BY KindsOfPlaces
  <2>5. QED
    BY <2>1, <2>2, <2>3, <2>4
<1>10. At(i, s.disk, index) = 0 /\ index \in Places
  <2>1. ThreeKinds(i, s.disk)
    BY Kinds
  <2>2. QED
    BY <2>1, KindsOfPlaces DEF ThreeKinds
<1>11. Sound(w, others, before)
  <2>1. \A x \in others : w.disk[x] = s.disk[x]
    BY <1>1, <1>7 DEF Sound
  <2>2. \A k \in Places : \/ At(w.sin, w.disk, k) = At(s.sin, s.disk, k)
                          \/ At(s.sin, s.disk, k) = 0 /\ At(w.sin, w.disk, k) \in {b}
    BY <1>5, <1>9, <1>10
  <2>3. \A k \in Places : At(w.sin, w.disk, k) \in {b} <=> k = index
    <3>1. \A k \in Places : At(i, s.disk, k) # b
      BY <1>1 DEF Sound
    <3>2. QED
      BY <1>5, <1>9, <3>1
  <2>4. \A k, l \in Places : At(w.sin, w.disk, k) = At(w.sin, w.disk, l) /\ At(w.sin, w.disk, k) \in {b} => k = l
    BY <2>3
  <2>5. \A x \in {b} : \E k \in Places : At(w.sin, w.disk, k) = x
    BY <1>10, <2>3
  <2>6. {b} \in SUBSET s.freemap /\ w.freemap = s.freemap \ {b} /\ w.sin.blocks = s.sin.blocks
    BY <1>1, <1>3, <1>5, <1>6
  <2>7. QED
    <3> PICK new : new = {b}
      OBVIOUS
    <3>1. /\ Sound(s, others, before) /\ Counted(w) /\ new \in SUBSET s.freemap
          /\ w.freemap = s.freemap \ new /\ w.sin.blocks = s.sin.blocks
      BY <1>6, <2>6
    <3>2. /\ \A x \in others : w.disk[x] = s.disk[x]
          /\ \A k \in Places : \/ At(w.sin, w.disk, k) = At(s.sin, s.disk, k)
                               \/ At(s.sin, s.disk, k) = 0 /\ At(w.sin, w.disk, k) \in new
      BY ONLY <2>1, <2>2, new = {b}
    <3>3. /\ \A k, l \in Places : At(w.sin, w.disk, k) = At(w.sin, w.disk, l) /\ At(w.sin, w.disk, k) \in new => k = l
          /\ \A x \in new : \E k \in Places : At(w.sin, w.disk, k) = x
      BY ONLY <2>4, <2>5, new = {b}
    <3>4. QED
      BY ONLY <3>1, <3>2, <3>3, Installs
<1>12. Data(w.sin, w.disk) = Data(s.sin, s.disk)
  <2>1. ASSUME NEW k \in Index
        PROVE  \/ /\ At(j, w.disk, k) = At(i, s.disk, k)
                  /\ At(i, s.disk, k) # 0 => w.disk[At(i, s.disk, k)] = s.disk[At(i, s.disk, k)]
               \/ At(i, s.disk, k) = 0 /\ At(j, w.disk, k) # 0 /\ w.disk[At(j, w.disk, k)] = Zeros
    <3>1. CASE k = index
      BY <1>2, <1>7, <1>9, <1>10, <3>1
    <3>2. CASE k # index
      <4>1. At(j, w.disk, k) = At(i, s.disk, k) /\ At(i, s.disk, k) # b /\ At(i, s.disk, k) \in 0 .. NBlocks
        BY <1>1, <1>9, <3>2, Apart, KindsOfPlaces
      <4>2. QED
        BY <1>7, <4>1, SfsConstants
    <3>3. QED
      BY <3>1, <3>2
  <2>2. QED
    BY <1>5, <2>1, DataKept
<1>13. Clean(s.sin, w.sin)
  BY <1>3, <1>5 DEF Clean
<1>14. QED
  BY <1>2, <1>3, <1>5, <1>9, <1>10, <1>11, <1>12, <1>13 DEF Got

\* An entry is made in entry block ent, which is the old one or a new one
\* (bmap_get_sub_nolock).
WithEntry(s, w, index, b, ent) ==
  /\ index \in NDirect .. Reach - 1 /\ At(s.sin, s.disk, index) = 0
  /\ b \in s.freemap /\ ent \in Blocks /\ ent # b
  /\ ent = s.sin.indirect \/ (s.sin.indirect = 0 /\ ent \in s.freemap)
  /\ Counted(w) /\ w.freemap = s.freemap \ {b, ent} /\ w.ino = b /\ w.ret = "ok" /\ w.alen = s.alen
  /\ w.sin.direct = s.sin.direct /\ w.sin.indirect = ent /\ w.sin.blocks = s.sin.blocks /\ w.sin.size = s.sin.size
  /\ Clean(s.sin, w.sin) /\ w.disk[b] = Zeros
  /\ \A x \in Blocks : x # b /\ x # ent => w.disk[x] = s.disk[x]
  /\ \A k \in NDirect .. Reach - 1 : w.disk[ent][k - NDirect] = IF k = index THEN b ELSE At(s.sin, s.disk, k)

LEMMA EntryMade ==
  ASSUME NEW others, NEW before, NEW s, Sound(s, others, before), NEW w, NEW index, NEW b, NEW ent,
         WithEntry(s, w, index, b, ent)
  PROVE  Got(s, w, index, TRUE, others, before)
<1> USE DEF WithEntry
<1> DEFINE a(k) == At(s.sin, s.disk, k)
           c(k) == At(w.sin, w.disk, k)
<1> PICK new : new = {b, ent} \cap s.freemap
  OBVIOUS
<1>1. /\ s.freemap \in SUBSET Blocks /\ ent # 0 /\ b # 0 /\ b \in Blocks /\ ent \in 0 .. NBlocks
      /\ index \in Index /\ index \in Places /\ index # Reach /\ index < Reach /\ Reach \in Places
  BY SfsConstants, CallFields, KindsOfPlaces DEF Sound, Counted
<1>2. \A k \in Places : c(k) = IF k = index THEN b ELSE IF k = Reach THEN ent ELSE a(k)
  <2> ThreeKinds(w.sin, w.disk) /\ ThreeKinds(s.sin, s.disk)
    BY Kinds
  <2>1. \A k \in 0 .. NDirect - 1 : c(k) = w.sin.direct[k] /\ a(k) = s.sin.direct[k]
    BY DEF ThreeKinds
  <2>2. \A k \in 0 .. NDirect - 1 : c(k) = a(k)
    BY <2>1
  <2>3. c(Reach) = ent
    BY DEF ThreeKinds
  <2>4. \A k \in NDirect .. Reach - 1 : c(k) = w.disk[ent][k - NDirect]
    BY <1>1 DEF ThreeKinds
  <2> HIDE DEF a, c
  <2>5. \A k \in NDirect .. Reach - 1 : c(k) = IF k = index THEN b ELSE a(k)
    BY <2>4 DEF a
  <2>6. /\ \A k \in Places : k \in 0 .. NDirect - 1 \/ k = Reach \/ k \in NDirect .. Reach - 1
        /\ \A k \in 0 .. NDirect - 1 : k # Reach /\ k # index
        /\ \A k \in NDirect .. Reach - 1 : k # Reach
    BY KindsOfPlaces, SfsConstants
  <2>7. QED
    BY ONLY <1>1, <2>2, <2>3, <2>5, <2>6
<1>3. /\ \A k \in Places : a(k) \notin s.freemap /\ a(k) \notin others
      /\ \A k, l \in Places : a(k) = a(l) /\ a(k) # 0 => k = l
      /\ a(Reach) = s.sin.indirect /\ a(index) = 0
  <2>1. ThreeKinds(s.sin, s.disk)
    BY Kinds
  <2>2. QED
    BY <2>1 DEF Sound, Mapped, ThreeKinds
<1>4. /\ \A x \in others : x \in Blocks /\ x \notin s.freemap /\ x # ent /\ x # b
      /\ \A k \in Index : k \in Places /\ k # Reach /\ a(k) \in 0 .. NBlocks /\ a(k) # b /\ (a(k) # 0 => a(k) # ent /\ a(k) \in Blocks)
  <2>1. \A x \in others : x \in Blocks /\ x \notin s.freemap /\ x # s.sin.indirect
    <3>1. s.sin.indirect \notin others
      BY Apart
    <3>2. \A x \in others : x \in Blocks /\ x \notin s.freemap
      BY DEF Sound
    <3>3. QED
      BY ONLY <3>1, <3>2
  <2>2. \A k \in Index : k \in Places /\ k # Reach /\ a(k) \in 0 .. NBlocks /\ (a(k) # 0 => a(k) # s.sin.indirect /\ a(k) \in Blocks)
    BY Apart, KindsOfPlaces, SfsConstants
  <2> HIDE DEF a
  <2>3. QED
    BY <1>1, <1>3, <2>1, <2>2
<1> HIDE DEF a, c
<1>5. Sound(w, others, before)
  <2>1. new \in SUBSET s.freemap /\ w.freemap = s.freemap \ new
    OBVIOUS
  <2>2. \A x \in others : w.disk[x] = s.disk[x]
    BY <1>4
  <2>3. b \in new /\ (ent \in new <=> s.sin.indirect = 0) /\ (\A x \in new : x = b \/ x = ent) /\ (s.sin.indirect # 0 => ent = s.sin.indirect)
    BY <1>1, Apart
  <2>4. \A k \in Places : c(k) = a(k) \/ (a(k) = 0 /\ c(k) \in new)
    BY ONLY <1>1, <1>2, <1>3, <2>3
  <2>5. \A k \in Places : c(k) \in new => (c(k) = b /\ k = index) \/ (c(k) = ent /\ k = Reach)
    <3>1. \A x \in new : x \in s.freemap
      OBVIOUS
    <3>2. ASSUME NEW k \in Places, c(k) \in new, k # index, k # Reach PROVE FALSE
      BY ONLY <1>2, <1>3, <3>1, <3>2
    <3>3. QED
      BY ONLY <1>1, <1>2, <3>2
  <2>6. \A k, l \in Places : c(k) = c(l) /\ c(k) \in new => k = l
    BY ONLY <2>5, ent # b
  <2>7. \A x \in new : \E k \in Places : c(k) = x
    BY ONLY <1>1, <1>2, <2>3
  <2> USE DEF a, c
  <2>8. QED
    BY ONLY Sound(s, others, before), Counted(w), w.sin.blocks = s.sin.blocks, <2>1, <2>2, <2>4, <2>6, <2>7, Installs
<1>6. Data(w.sin, w.disk) = Data(s.sin, s.disk)
  <2>1. ASSUME NEW k \in Index
        PROVE  (c(k) = a(k) /\ (a(k) # 0 => w.disk[a(k)] = s.disk[a(k)])) \/ (a(k) = 0 /\ c(k) # 0 /\ w.disk[c(k)] = Zeros)
    <3>1. CASE k = index
      BY <1>1, <1>2, <1>3, <3>1
    <3>2. CASE k # index
      BY <1>2, <1>4, <3>2
    <3>3. QED
      BY <3>1, <3>2
  <2>2. QED
    BY ONLY <2>1, DataKept DEF a, c
<1>7. At(w.sin, w.disk, index) = b
  BY <1>1, <1>2 DEF c
<1>8. QED
  BY <1>1, <1>5, <1>6, <1>7 DEF Got

EntrySet(d, w, ent, x, b, first) ==
  /\ w \in Calls /\ w.sin.direct = d.sin.direct /\ w.sin.indirect = ent /\ w.sin.blocks = d.sin.blocks
  /\ w.sin.size = d.sin.size /\ w.sin.dirty = (d.sin.dirty \/ first)
  /\ w.freemap = d.freemap /\ w.unused = d.unused /\ w.ino = d.ino /\ w.ret = d.ret /\ w.alen = d.alen
  /\ w.disk[ent][x] = b /\ \A y \in 0 .. NEntry - 1 : y # x => w.disk[ent][y] = d.disk[ent][y]
  /\ \A z \in Blocks : z # ent => w.disk[z] = d.disk[z]

PutEntry(d, ent, x, b, first) ==
  [d EXCEPT !.disk[ent][x] = b, !.sin.indirect = ent, !.sin.dirty = @ \/ first]

LEMMA EntryFields ==
  ASSUME NEW d \in Calls, NEW ent \in Blocks, NEW x \in 0 .. NEntry - 1, NEW b \in 0 .. NBlocks, NEW first \in BOOLEAN
  PROVE  EntrySet(d, PutEntry(d, ent, x, b, first), ent, x, b, first)
<1> PICK w : w = PutEntry(d, ent, x, b, first)
  OBVIOUS
<1> PICK i : i = d.sin
  OBVIOUS
<1> PICK p : p = d.disk
  OBVIOUS
<1> PICK c : c = p[ent]
  OBVIOUS
<1> PICK j : j = [i EXCEPT !.indirect = ent, !.dirty = @ \/ first]
  OBVIOUS
<1> PICK e : e = [c EXCEPT ![x] = b]
  OBVIOUS
<1> PICK q : q = [p EXCEPT ![ent] = e]
  OBVIOUS
<1>1. /\ i \in Inodes /\ p \in [Blocks -> Contents] /\ c \in [0 .. BlkSize - 1 -> Nat]
      /\ b \in Nat /\ x \in 0 .. BlkSize - 1 /\ \A y \in 0 .. NEntry - 1 : y \in 0 .. BlkSize - 1
      /\ ent \in 0 .. NBlocks
  <2>1. i \in Inodes /\ p \in [Blocks -> Contents]
    BY CallFields DEF Disks
  <2>2. c \in [0 .. BlkSize - 1 -> Nat]
    BY ONLY <2>1, c = p[ent], ent \in Blocks DEF Contents
  <2>3. /\ b \in Nat /\ x \in 0 .. BlkSize - 1 /\ \A y \in 0 .. NEntry - 1 : y \in 0 .. BlkSize - 1
        /\ ent \in 0 .. NBlocks
    BY ONLY SfsConstants, ent \in Blocks, x \in 0 .. NEntry - 1, b \in 0 .. NBlocks
  <2>4. QED
    BY ONLY <2>1, <2>2, <2>3
<1>2. j \in Inodes /\ j.direct = i.direct /\ j.indirect = ent /\ j.blocks = i.blocks /\ j.size = i.size /\ j.dirty = (i.dirty \/ first)
  BY <1>1 DEF Inodes
<1>3. e \in Contents /\ e[x] = b /\ \A y \in 0 .. NEntry - 1 : y # x => e[y] = c[y]
  BY <1>1 DEF Contents
<1>4. q \in Disks /\ q[ent] = e /\ \A z \in Blocks : z # ent => q[z] = p[z]
  BY <1>1, <1>3 DEF Disks
<1>5. w = [d EXCEPT !.disk = q, !.sin = j]
  BY DEF Calls, PutEntry
<1>6. /\ w \in Calls /\ w.sin = j /\ w.disk = q /\ w.freemap = d.freemap /\ w.unused = d.unused
      /\ w.ino = d.ino /\ w.ret = d.ret /\ w.alen = d.alen
  BY <1>2, <1>4, <1>5 DEF Calls
<1>7. /\ w.disk[ent][x] = b /\ \A y \in 0 .. NEntry - 1 : y # x => w.disk[ent][y] = d.disk[ent][y]
      /\ \A z \in Blocks : z # ent => w.disk[z] = d.disk[z]
  BY ONLY <1>3, <1>4, <1>6, p = d.disk, c = p[ent]
<1>8. /\ w.sin.direct = d.sin.direct /\ w.sin.indirect = ent /\ w.sin.blocks = d.sin.blocks
      /\ w.sin.size = d.sin.size /\ w.sin.dirty = (d.sin.dirty \/ first)
  BY ONLY <1>2, <1>6, i = d.sin
<1>9. EntrySet(d, w, ent, x, b, first)
  BY ONLY <1>6, <1>7, <1>8 DEF EntrySet
<1>10. QED
  BY <1>9

\* A call that stops with the disk changed only in free blocks and no new block taken.
LEMMA StaysSoundButFree ==
  ASSUME NEW others, NEW before, NEW s, Sound(s, others, before), NEW t, Counted(t),
         t.sin = s.sin, t.freemap = s.freemap, \A x \in Blocks : x \notin s.freemap => t.disk[x] = s.disk[x]
  PROVE  Sound(t, others, before) /\ Clean(s.sin, t.sin) /\ Data(t.sin, t.disk) = Data(s.sin, s.disk)
<1> DEFINE a(k) == At(s.sin, s.disk, k)
           c(k) == At(t.sin, t.disk, k)
<1>1. \A k \in Places : c(k) = a(k)
  <2> ThreeKinds(t.sin, t.disk) /\ ThreeKinds(s.sin, s.disk)
    BY Kinds
  <2>1. s.sin.indirect # 0 => t.disk[s.sin.indirect] = s.disk[s.sin.indirect]
    BY Apart, SfsConstants
  <2>2. \A k \in Places : k \in 0 .. NDirect - 1 \/ k = Reach \/ k \in NDirect .. Reach - 1
    BY KindsOfPlaces
  <2>3. /\ \A k \in 0 .. NDirect - 1 : c(k) = a(k)
        /\ c(Reach) = a(Reach)
        /\ \A k \in NDirect .. Reach - 1 : c(k) = a(k)
    BY <2>1 DEF ThreeKinds
  <2> HIDE DEF a, c
  <2>4. QED
    BY <2>2, <2>3
<1>2. Data(t.sin, t.disk) = Data(s.sin, s.disk)
  <2>1. ASSUME NEW k \in Index PROVE c(k) = a(k) /\ (a(k) # 0 => t.disk[a(k)] = s.disk[a(k)])
    <3>1. a(k) \notin s.freemap /\ a(k) \in 0 .. NBlocks /\ k \in Places
      BY Apart, KindsOfPlaces
    <3>2. QED
      BY <1>1, <3>1, SfsConstants
  <2>2. QED
    BY <2>1, DataKept
<1>3. Mapped(t.sin, t.disk)
  BY <1>1, KindsOfPlaces, CallFields, InodeFields DEF Sound, Mapped, Counted, Places
<1>4. \A b \in others : b \notin t.freemap /\ t.disk[b] = before[b]
  BY DEF Sound
<1>5. Sound(t, others, before)
  BY <1>1, <1>3, <1>4 DEF Sound
<1>6. QED
  BY <1>2, <1>5, CallFields, InodeFields DEF Clean, SameMap, Sound, Counted

\* An entry of a block that was already there (bmap_get_sub_nolock).
LEMMA EntryOfOldBlock ==
  ASSUME NEW others, NEW before, NEW s, Sound(s, others, before), s.ret = "ok",
         NEW index \in NDirect .. Reach - 1, At(s.sin, s.disk, index) = 0, s.sin.indirect # 0,
         NEW d, Allocated(s, d),
         NEW w, w = PutEntry(d, s.sin.indirect, index - NDirect, d.ino, FALSE)
  PROVE  Got(s, w, index, TRUE, others, before)
<1> PICK ent : ent = s.sin.indirect
  OBVIOUS
<1> PICK b : b = d.ino
  OBVIOUS
<1> PICK x : x = index - NDirect
  OBVIOUS
<1> PICK p : p = s.disk
  OBVIOUS
<1>1. /\ s \in Calls /\ d \in Calls /\ d.unused = Cardinality(d.freemap) /\ p \in [Blocks -> Contents]
      /\ b \in s.freemap /\ b \in Blocks /\ d.freemap = s.freemap \ {b} /\ d.disk = [p EXCEPT ![b] = Zeros]
      /\ d.sin = s.sin /\ d.alen = s.alen /\ d.ret = "ok" /\ s.sin \in Inodes
  BY CallFields DEF Sound, Counted, Allocated, Disks
<1>2. ent \in Blocks /\ ent # b /\ ent \notin s.freemap /\ b \in 0 .. NBlocks
  BY <1>1, Apart, SfsConstants
<1>3. x \in 0 .. NEntry - 1 /\ \A k \in NDirect .. Reach - 1 : k - NDirect \in 0 .. NEntry - 1 /\ (k - NDirect = x <=> k = index)
  BY SfsConstants, KindsOfPlaces
<1> PICK first \in BOOLEAN : first = FALSE
  OBVIOUS
<1>4. EntrySet(d, w, ent, x, b, first)
  <2>1. w = PutEntry(d, ent, x, b, first)
    OBVIOUS
  <2>2. d \in Calls /\ ent \in Blocks /\ x \in 0 .. NEntry - 1 /\ b \in 0 .. NBlocks
    BY ONLY <1>1, <1>2, <1>3
  <2>3. QED
    BY ONLY <2>1, <2>2, first \in BOOLEAN, EntryFields
<1>5. /\ w \in Calls /\ w.sin.direct = d.sin.direct /\ w.sin.indirect = ent /\ w.sin.blocks = d.sin.blocks
      /\ w.sin.size = d.sin.size /\ w.sin.dirty = (d.sin.dirty \/ first)
      /\ w.freemap = d.freemap /\ w.unused = d.unused /\ w.ino = b /\ w.ret = d.ret /\ w.alen = d.alen
      /\ w.disk[ent][x] = b /\ \A y \in 0 .. NEntry - 1 : y # x => w.disk[ent][y] = d.disk[ent][y]
      /\ \A z \in Blocks : z # ent => w.disk[z] = d.disk[z]
  BY ONLY <1>4, b = d.ino DEF EntrySet
<1>6. d.disk[b] = Zeros /\ \A z \in Blocks : z # b => d.disk[z] = p[z]
  BY ONLY <1>1
<1>7. \A k \in NDirect .. Reach - 1 : w.disk[ent][k - NDirect] = IF k = index THEN b ELSE At(s.sin, s.disk, k)
  <2>1. \A k \in NDirect .. Reach - 1 : At(s.sin, s.disk, k) = p[ent][k - NDirect]
    <3>1. ThreeKinds(s.sin, s.disk)
      BY Kinds
    <3>2. QED
      BY <3>1 DEF ThreeKinds
  <2>2. QED
    BY ONLY <1>2, <1>3, <1>5, <1>6, <2>1
<1>8. /\ Counted(w) /\ w.freemap = s.freemap \ {b, ent} /\ w.disk[b] = Zeros
      /\ \A z \in Blocks : z # b /\ z # ent => w.disk[z] = s.disk[z]
  <2>1. Counted(w) /\ s.freemap \ {b} = s.freemap \ {b, ent}
    BY <1>1, <1>2, <1>5 DEF Counted
  <2>2. QED
    BY ONLY <1>1, <1>2, <1>5, <1>6, <2>1, p = s.disk
<1>9. Clean(s.sin, w.sin)
  <2>1. s.sin.dirty => w.sin.dirty
    BY <1>1, <1>5
  <2>2. SameMap(s.sin, w.sin)
    <3>1. s.sin.blocks <= s.sin.blocks
      BY <1>1, InodeFields
    <3>2. d.sin = s.sin
      BY <1>1
    <3>3. QED
      BY ONLY <1>5, <3>1, <3>2, ent = s.sin.indirect DEF SameMap
  <2>3. QED
    BY ONLY <2>1, <2>2 DEF Clean
<1>10. QED
  <2>1. ent = s.sin.indirect \/ (s.sin.indirect = 0 /\ ent \in s.freemap)
    BY <1>1
  <2>2. /\ w.ino = b /\ w.ret = "ok" /\ w.alen = s.alen /\ w.sin.direct = s.sin.direct /\ w.sin.indirect = ent
        /\ w.sin.blocks = s.sin.blocks /\ w.sin.size = s.sin.size /\ At(s.sin, s.disk, index) = 0
    BY <1>1, <1>5, <1>7
  <2>3. \A k \in NDirect .. Reach - 1 : w.disk[ent][k - NDirect] = IF k = index THEN b ELSE At(s.sin, s.disk, k)
    BY <1>7
  <2>4. b \in s.freemap /\ ent \in Blocks /\ ent # b
    BY <1>1, <1>2
  <2>5. Got(s, w, index, TRUE, others, before)
    <3>1. WithEntry(s, w, index, b, ent)
      BY ONLY index \in NDirect .. Reach - 1, <1>8, <1>9, <2>1, <2>2, <2>3, <2>4 DEF WithEntry
    <3>2. QED
      BY ONLY Sound(s, others, before), <3>1, EntryMade
  <2>6. QED
    BY <1>9, <2>5

\* The first entry, in an entry block that is made with it.
LEMMA EntryOfNewBlock ==
  ASSUME NEW others, NEW before, NEW s, Sound(s, others, before), s.ret = "ok",
         NEW index \in NDirect .. Reach - 1, s.sin.indirect = 0,
         NEW e, Allocated(s, e), NEW d, Allocated(e, d),
         NEW w, w = PutEntry(d, e.ino, index - NDirect, d.ino, TRUE)
  PROVE  Got(s, w, index, TRUE, others, before) /\ w.sin.dirty
<1> PICK ent : ent = e.ino
  OBVIOUS
<1> PICK b : b = d.ino
  OBVIOUS
<1> PICK x : x = index - NDirect
  OBVIOUS
<1> PICK p : p = s.disk
  OBVIOUS
<1> PICK q : q = e.disk
  OBVIOUS
<1>1. /\ s \in Calls /\ d \in Calls /\ d.unused = Cardinality(d.freemap) /\ p \in [Blocks -> Contents] /\ q \in [Blocks -> Contents]
      /\ b \in s.freemap /\ b \in Blocks /\ ent \in s.freemap /\ ent \in Blocks /\ b # ent
      /\ d.freemap = s.freemap \ {b, ent} /\ q = [p EXCEPT ![ent] = Zeros] /\ d.disk = [q EXCEPT ![b] = Zeros]
      /\ d.sin = s.sin /\ d.alen = s.alen /\ d.ret = "ok" /\ s.sin \in Inodes
  <2>1. /\ s \in Calls /\ s.freemap \in SUBSET Blocks /\ s.disk \in Disks /\ s.sin \in Inodes
        /\ d \in Calls /\ e \in Calls /\ e.disk \in Disks /\ d.unused = Cardinality(d.freemap)
    BY CallFields DEF Sound, Counted, Allocated
  <2>2. /\ ent \in s.freemap /\ e.freemap = s.freemap \ {ent} /\ q = [p EXCEPT ![ent] = Zeros]
        /\ e.sin = s.sin /\ e.alen = s.alen /\ e.ret = "ok"
    BY DEF Allocated
  <2>3. /\ b \in e.freemap /\ d.freemap = e.freemap \ {b} /\ d.disk = [q EXCEPT ![b] = Zeros]
        /\ d.sin = e.sin /\ d.alen = e.alen /\ d.ret = e.ret
    BY DEF Allocated
  <2>4. QED
    BY <2>1, <2>2, <2>3 DEF Disks
<1>2. b \in 0 .. NBlocks
  BY <1>1, SfsConstants
<1>3. x \in 0 .. NEntry - 1 /\ \A k \in NDirect .. Reach - 1 : k - NDirect \in 0 .. NEntry - 1 /\ (k - NDirect = x <=> k = index)
  BY SfsConstants, KindsOfPlaces
<1> PICK first \in BOOLEAN : first = TRUE
  OBVIOUS
<1>4. EntrySet(d, w, ent, x, b, first)
  <2>1. w = PutEntry(d, ent, x, b, first)
    OBVIOUS
  <2>2. d \in Calls /\ ent \in Blocks /\ x \in 0 .. NEntry - 1 /\ b \in 0 .. NBlocks
    BY ONLY <1>1, <1>2, <1>3
  <2>3. QED
    BY ONLY <2>1, <2>2, first \in BOOLEAN, EntryFields
<1>5. /\ w \in Calls /\ w.sin.direct = d.sin.direct /\ w.sin.indirect = ent /\ w.sin.blocks = d.sin.blocks
      /\ w.sin.size = d.sin.size /\ w.sin.dirty = (d.sin.dirty \/ first)
      /\ w.freemap = d.freemap /\ w.unused = d.unused /\ w.ino = b /\ w.ret = d.ret /\ w.alen = d.alen
      /\ w.disk[ent][x] = b /\ \A y \in 0 .. NEntry - 1 : y # x => w.disk[ent][y] = d.disk[ent][y]
      /\ \A z \in Blocks : z # ent => w.disk[z] = d.disk[z]
  BY ONLY <1>4, b = d.ino DEF EntrySet
<1>6. d.disk[b] = Zeros /\ d.disk[ent] = Zeros /\ \A z \in Blocks : z # b /\ z # ent => d.disk[z] = p[z]
  BY ONLY <1>1
<1>7. \A k \in NDirect .. Reach - 1 : At(s.sin, s.disk, k) = 0 /\ w.disk[ent][k - NDirect] = IF k = index THEN b ELSE At(s.sin, s.disk, k)
  <2>1. \A k \in NDirect .. Reach - 1 : At(s.sin, s.disk, k) = 0
    <3>1. ThreeKinds(s.sin, s.disk)
      BY Kinds
    <3>2. QED
      BY <3>1 DEF ThreeKinds
  <2>2. \A y \in 0 .. NEntry - 1 : Zeros[y] = 0
    BY SfsConstants DEF Zeros
  <2>3. QED
    BY ONLY <1>3, <1>5, <1>6, <2>1, <2>2
<1>8. /\ Counted(w) /\ w.freemap = s.freemap \ {b, ent} /\ w.disk[b] = Zeros
      /\ \A z \in Blocks : z # b /\ z # ent => w.disk[z] = s.disk[z]
  <2>1. Counted(w)
    BY <1>1, <1>5 DEF Counted
  <2>2. QED
    BY ONLY <1>1, <1>5, <1>6, <2>1, p = s.disk
<1>9. Clean(s.sin, w.sin) /\ w.sin.dirty
  BY <1>1, <1>5, InodeFields DEF Clean, SameMap
<1>10. QED
  <2>1. ent = s.sin.indirect \/ (s.sin.indirect = 0 /\ ent \in s.freemap)
    BY <1>1
  <2>2. /\ w.ino = b /\ w.ret = "ok" /\ w.alen = s.alen /\ w.sin.direct = s.sin.direct /\ w.sin.indirect = ent
        /\ w.sin.blocks = s.sin.blocks /\ w.sin.size = s.sin.size /\ At(s.sin, s.disk, index) = 0
    BY <1>1, <1>5, <1>7
  <2>3. \A k \in NDirect .. Reach - 1 : w.disk[ent][k - NDirect] = IF k = index THEN b ELSE At(s.sin, s.disk, k)
    BY <1>7
  <2>4. b \in s.freemap /\ ent \in Blocks /\ ent # b
    BY <1>1, <1>2
  <2>5. Got(s, w, index, TRUE, others, before)
    <3>1. WithEntry(s, w, index, b, ent)
      BY ONLY index \in NDirect .. Reach - 1, <1>8, <1>9, <2>1, <2>2, <2>3, <2>4 DEF WithEntry
    <3>2. QED
      BY ONLY Sound(s, others, before), <3>1, EntryMade
  <2>6. QED
    BY <1>9, <2>5

\* There is no block for the entry: a new entry block goes back.
LEMMA GivenBack ==
  ASSUME NEW others, NEW before, NEW s, Sound(s, others, before), s.ret = "ok",
         NEW e, Allocated(s, e), NEW d, d = Failed(e, "nospace"),
         NEW w, w = block_free(d, e.ino), NEW index, NEW create
  PROVE  Got(s, w, index, create, others, before) /\ w.ret = "nospace"
<1> PICK b : b = e.ino
  OBVIOUS
<1> PICK p : p = s.disk
  OBVIOUS
<1>1. /\ s \in Calls /\ e \in Calls /\ s.unused = Cardinality(s.freemap) /\ e.unused = Cardinality(e.freemap)
      /\ b \in s.freemap /\ e.freemap = s.freemap \ {b} /\ e.sin = s.sin /\ e.alen = s.alen
      /\ e.disk = [p EXCEPT ![b] = Zeros] /\ p \in [Blocks -> Contents] /\ s.freemap \in SUBSET Blocks
  BY CallFields DEF Sound, Counted, Allocated, Disks
<1>2. /\ d \in Calls /\ d.sin = e.sin /\ d.disk = e.disk /\ d.freemap = e.freemap /\ d.unused = e.unused
      /\ d.ret = "nospace" /\ d.alen = e.alen /\ d.ino = e.ino
  BY <1>1 DEF Calls, Rets, Failed
<1>3. w = [d EXCEPT !.freemap = @ \cup {b}, !.unused = @ + 1]
  BY <1>1, <1>2 DEF block_free
<1>4. /\ w.sin = s.sin /\ w.disk = e.disk /\ w.freemap = s.freemap /\ w.unused = e.unused + 1
      /\ w.ret = "nospace" /\ w.alen = s.alen
  <2>1. /\ w.sin = d.sin /\ w.disk = d.disk /\ w.freemap = d.freemap \cup {b} /\ w.unused = d.unused + 1
        /\ w.ret = d.ret /\ w.alen = d.alen
    BY ONLY <1>2, <1>3 DEF Calls
  <2>2. s.freemap = (s.freemap \ {b}) \cup {b}
    BY <1>1
  <2>3. QED
    BY ONLY <1>1, <1>2, <2>1, <2>2
<1>5. w.unused = Cardinality(w.freemap) /\ w.unused \in Nat
  <2> PICK g : g = s.freemap
    OBVIOUS
  <2>1. IsFiniteSet(g) /\ b \in g
    BY <1>1, SfsConstants, FS_Subset
  <2>2. Cardinality(g \ {b}) = Cardinality(g) - 1 /\ Cardinality(g) \in Nat
    BY ONLY <2>1, FS_RemoveElement, FS_CardinalityType
  <2>3. QED
    BY <1>1, <1>4, <2>2
<1>6. Counted(w)
  BY <1>1, <1>2, <1>3, <1>4, <1>5 DEF Calls, Counted
<1>7. \A x \in Blocks : x \notin s.freemap => w.disk[x] = s.disk[x]
  BY <1>1, <1>4
<1>8. Sound(w, others, before) /\ Clean(s.sin, w.sin) /\ Data(w.sin, w.disk) = Data(s.sin, s.disk)
  BY <1>4, <1>6, <1>7, StaysSoundButFree
<1>9. QED
  BY <1>4, <1>8 DEF Got

\* There is no block, and the one looked up is none of this file's.
Refused(s, n, why) == [s EXCEPT !.ino = n, !.ret = why]

LEMMA NoSpace ==
  ASSUME NEW others, NEW before, NEW s, Sound(s, others, before), NEW n \in 0 .. NBlocks,
         NEW why \in {"nospace", "index out of range"}, NEW index, NEW create
  PROVE  Got(s, Refused(s, n, why), index, create, others, before)
<1> PICK w : w = Refused(s, n, why)
  OBVIOUS
<1>1. s \in Calls
  BY DEF Sound, Counted
<1>2. /\ w.sin = s.sin /\ w.disk = s.disk /\ w.freemap = s.freemap /\ w.unused = s.unused
      /\ w.ret = why /\ w.alen = s.alen /\ w \in Calls
  BY <1>1 DEF Calls, Rets, Refused
<1>3. Sound(w, others, before) /\ Clean(s.sin, w.sin) /\ Data(w.sin, w.disk) = Data(s.sin, s.disk)
  BY <1>2, StaysSound
<1>4. Got(s, w, index, create, others, before)
  BY <1>2, <1>3 DEF Got
<1>5. QED
  BY <1>4

\* bmap_get_sub names the block, makes it, or finds no space.
LEMMA BmapGetSub ==
  ASSUME NEW others, NEW before, NEW s, Sound(s, others, before), s.ret = "ok",
         NEW index \in NDirect .. Reach - 1, NEW create \in BOOLEAN
  PROVE  Got(s, bmap_get_sub(s, s.sin.indirect, index - NDirect, create), index, create, others, before)
<1> PICK ent : ent = s.sin.indirect
  OBVIOUS
<1> PICK x : x = index - NDirect
  OBVIOUS
<1> PICK e : e = IF ent # 0 THEN [s EXCEPT !.ino = ent] ELSE block_alloc(s)
  OBVIOUS
<1> PICK d : d = block_alloc(e)
  OBVIOUS
<1> PICK w : w = bmap_get_sub(s, ent, x, create)
  OBVIOUS
<1>1. w = IF ent = 0 /\ ~create THEN [s EXCEPT !.ino = 0]
          ELSE IF ent # 0 /\ (s.disk[ent][x] # 0 \/ ~create) THEN [s EXCEPT !.ino = s.disk[ent][x]]
          ELSE IF e.ret # "ok" THEN e
          ELSE IF d.ret # "ok" THEN IF ent = 0 THEN block_free(d, e.ino) ELSE d
          ELSE [d EXCEPT !.disk[e.ino][x] = d.ino, !.sin.indirect = e.ino, !.sin.dirty = @ \/ ent = 0]
  BY DEF bmap_get_sub
<1>2. At(s.sin, s.disk, index) = (IF ent = 0 THEN 0 ELSE s.disk[ent][x]) /\ ent \in 0 .. NBlocks /\ index < Reach /\ index \in Nat
  <2>1. ThreeKinds(s.sin, s.disk)
    BY Kinds
  <2>2. QED
    BY <2>1, Apart, SfsConstants DEF ThreeKinds
<1>3. s \in Calls /\ Counted(s)
  BY DEF Sound, Counted
<1>4. CASE (ent = 0 /\ ~create) \/ (ent # 0 /\ (s.disk[ent][x] # 0 \/ ~create))
  <2>1. w = [s EXCEPT !.ino = At(s.sin, s.disk, index)]
    BY ONLY <1>1, <1>2, <1>4
  <2>2. create => At(s.sin, s.disk, index) # 0
    BY <1>2, <1>4
  <2>3. QED
    BY <1>2, <2>1, <2>2, NamesBlock
<1>5. CASE ent # 0 /\ s.disk[ent][x] = 0 /\ create
  <2>1. /\ e.sin = s.sin /\ e.disk = s.disk /\ e.freemap = s.freemap /\ e.unused = s.unused
        /\ e.ino = ent /\ e.ret = "ok" /\ e.alen = s.alen /\ e \in Calls /\ e = [s EXCEPT !.ino = ent]
    BY <1>2, <1>3, <1>5 DEF Calls
  <2>2. Counted(e)
    BY <1>3, <2>1 DEF Counted
  <2>3. CASE s.freemap = {}
    <3>1. d = [e EXCEPT !.ret = "nospace"]
      BY <2>1, <2>2, <2>3, BlockAlloc
    <3>2. d.ret = "nospace" /\ d = Refused(s, ent, "nospace")
      BY <1>3, <2>1, <3>1 DEF Calls, Refused
    <3>3. w = d
      BY <1>1, <1>5, <2>1, <3>2
    <3>4. QED
      BY <1>2, <3>2, <3>3, NoSpace
  <2>4. CASE s.freemap # {}
    <3>1. Allocated(e, d)
      BY <2>1, <2>2, <2>4, BlockAlloc
    <3>2. Allocated(s, d) /\ d.ret = "ok"
      BY <2>1, <3>1 DEF Allocated
    <3>3. w = PutEntry(d, s.sin.indirect, index - NDirect, d.ino, FALSE)
      BY <1>1, <1>5, <2>1, <3>2 DEF PutEntry
    <3>4. At(s.sin, s.disk, index) = 0
      BY <1>2, <1>5
    <3>5. QED
      BY <1>5, <3>2, <3>3, <3>4, EntryOfOldBlock
  <2>5. QED
    BY <2>3, <2>4
<1>6. CASE ent = 0 /\ create
  <2>1. CASE s.freemap = {}
    <3>1. e = [s EXCEPT !.ret = "nospace"]
      BY <1>3, <1>6, <2>1, BlockAlloc
    <3>2. e.ret = "nospace" /\ e = Refused(s, s.ino, "nospace") /\ s.ino \in 0 .. NBlocks
      BY <1>3, <3>1 DEF Calls, Refused
    <3>3. w = e
      BY <1>1, <1>6, <3>2
    <3>4. QED
      BY <3>2, <3>3, NoSpace
  <2>2. CASE s.freemap # {}
    <3>1. Allocated(s, e)
      BY <1>3, <1>6, <2>2, BlockAlloc
    <3>2. Counted(e) /\ e.ret = "ok" /\ e \in Calls
      BY <3>1 DEF Allocated, Counted
    <3>3. CASE e.freemap = {}
      <4>1. d = Failed(e, "nospace")
        BY <3>2, <3>3, BlockAlloc DEF Failed
      <4>2. d.ret = "nospace"
        BY <3>2, <4>1 DEF Calls, Failed
      <4>3. w = block_free(d, e.ino)
        BY <1>1, <1>6, <3>2, <4>2
      <4>4. QED
        BY <3>1, <4>1, <4>3, GivenBack
    <3>4. CASE e.freemap # {}
      <4>1. Allocated(e, d)
        BY <3>2, <3>4, BlockAlloc
      <4>2. d.ret = "ok"
        BY <3>2, <4>1 DEF Allocated
      <4>3. w = PutEntry(d, e.ino, index - NDirect, d.ino, TRUE)
        BY <1>1, <1>6, <3>2, <4>2 DEF PutEntry
      <4>4. QED
        BY <1>6, <3>1, <4>1, <4>3, EntryOfNewBlock
    <3>5. QED
      BY <3>3, <3>4
  <2>3. QED
    BY <2>1, <2>2
<1>7. QED
  BY <1>4, <1>5, <1>6

LEMMA BmapGet ==
  ASSUME NEW others, NEW before, NEW s, Sound(s, others, before), s.ret = "ok",
         NEW index \in Nat, NEW create \in BOOLEAN
  PROVE  Got(s, bmap_get(s, index, create), index, create, others, before)
<1> PICK t : t = block_alloc(s)
  OBVIOUS
<1> PICK w : w = bmap_get(s, index, create)
  OBVIOUS
<1>1. w = IF index < NDirect
          THEN IF s.sin.direct[index] # 0 \/ ~create THEN [s EXCEPT !.ino = s.sin.direct[index]]
               ELSE IF t.ret # "ok" THEN t
               ELSE PutDirect(t, index)
          ELSE IF index - NDirect < NEntry THEN bmap_get_sub(s, s.sin.indirect, index - NDirect, create)
          ELSE Failed(s, "index out of range")
  BY DEF bmap_get, PutDirect
<1>2. s \in Calls /\ Counted(s) /\ s.ino \in 0 .. NBlocks
  BY CallFields DEF Sound, Counted
<1>3. CASE index < NDirect
  <2>1. index \in 0 .. NDirect - 1 /\ index < Reach
    BY <1>3, SfsConstants
  <2>2. At(s.sin, s.disk, index) = s.sin.direct[index]
    <3>1. ThreeKinds(s.sin, s.disk)
      BY Kinds
    <3>2. QED
      BY <2>1, <3>1 DEF ThreeKinds
  <2>3. CASE s.sin.direct[index] # 0 \/ ~create
    <3>1. w = [s EXCEPT !.ino = At(s.sin, s.disk, index)]
      BY ONLY <1>1, <1>3, <2>2, <2>3
    <3>2. create => At(s.sin, s.disk, index) # 0
      BY <2>2, <2>3
    <3>3. QED
      BY <2>1, <3>1, <3>2, NamesBlock
  <2>4. CASE s.sin.direct[index] = 0 /\ create
    <3>1. CASE s.freemap = {}
      <4>1. t = [s EXCEPT !.ret = "nospace"]
        BY <1>2, <3>1, BlockAlloc
      <4>2. t.ret = "nospace" /\ t = Refused(s, s.ino, "nospace")
        BY <1>2, <4>1 DEF Calls, Refused
      <4>3. w = t
        BY <1>1, <1>3, <2>4, <4>2
      <4>4. QED
        BY <1>2, <4>2, <4>3, NoSpace
    <3>2. CASE s.freemap # {}
      <4>1. Allocated(s, t)
        BY <1>2, <3>2, BlockAlloc
      <4>2. t.ret = "ok"
        BY <4>1 DEF Allocated
      <4>3. w = PutDirect(t, index)
        BY <1>1, <1>3, <2>4, <4>2
      <4>4. QED
        BY <2>1, <2>4, <4>1, <4>3, DirectMade
    <3>3. QED
      BY <3>1, <3>2
  <2>5. QED
    BY <2>3, <2>4
<1>4. CASE ~(index < NDirect) /\ index - NDirect < NEntry
  <2>1. index \in NDirect .. Reach - 1
    BY <1>4, SfsConstants
  <2>2. w = bmap_get_sub(s, s.sin.indirect, index - NDirect, create)
    BY <1>1, <1>4
  <2>3. QED
    BY <2>1, <2>2, BmapGetSub
<1>5. CASE ~(index < NDirect) /\ ~(index - NDirect < NEntry)
  <2>1. w = Failed(s, "index out of range")
    BY <1>1, <1>5
  <2>2. w = Refused(s, s.ino, "index out of range")
    BY <1>2, <2>1 DEF Failed, Refused, Calls
  <2>3. QED
    BY <1>2, <2>2, NoSpace
<1>6. QED
  BY <1>3, <1>4, <1>5

\* What bmap_load_nolock comes to: the block is there and in use, and the assertions on
\* what block_alloc and bmap_get return never fail.
Loaded(s, t, index, others, before) ==
  /\ Sound(t, others, before)
  /\ Clean(s.sin, t.sin) /\ t.sin.size = s.sin.size /\ t.alen = s.alen
  /\ Data(t.sin, t.disk) = Data(s.sin, s.disk)
  /\ t.ret \in {"ok", "nospace", "index out of range", "index > blocks"}
  /\ t.sin.blocks = IF t.ret = "ok" /\ index = s.sin.blocks THEN s.sin.blocks + 1 ELSE s.sin.blocks
  /\ t.ret = "ok" => /\ index \in Index /\ index <= s.sin.blocks /\ t.ino = At(t.sin, t.disk, index)
                     /\ t.ino \in Blocks

LEMMA BmapLoad ==
  ASSUME NEW others, NEW before, NEW s, Sound(s, others, before), s.ret = "ok", NEW index \in Nat
  PROVE  Loaded(s, bmap_load(s, index), index, others, before)
<1> PICK create \in BOOLEAN : create <=> index = s.sin.blocks
  OBVIOUS
<1> PICK t : t = bmap_get(s, index, create)
  OBVIOUS
<1> PICK w : w = bmap_load(s, index)
  OBVIOUS
<1> PICK blocks : blocks = IF create THEN s.sin.blocks + 1 ELSE s.sin.blocks
  OBVIOUS
<1>1. bmap_get(s, index, index = s.sin.blocks) = t
  <2>1. create = (index = s.sin.blocks)
    OBVIOUS
  <2>2. QED
    BY <2>1
<1>2. w = IF index > s.sin.blocks THEN Failed(s, "index > blocks")
          ELSE IF t.ret # "ok" THEN t
          ELSE IF t.ino \notin Blocks \ t.freemap THEN Failed(t, "assert")
          ELSE [t EXCEPT !.sin.blocks = IF index = s.sin.blocks THEN @ + 1 ELSE @]
  BY <1>1 DEF bmap_load
<1>3. Got(s, t, index, create, others, before)
  BY BmapGet
<1>4. s \in Calls /\ s.sin \in Inodes /\ s.sin.blocks \in 0 .. Reach /\ s.sin.blocks \in Nat
  BY CallFields, InodeFields, SfsConstants DEF Sound, Counted
<1>5. CASE index > s.sin.blocks
  <2>1. w = Failed(s, "index > blocks")
    BY <1>2, <1>5
  <2> PICK why \in Rets : why = "index > blocks"
    BY DEF Rets
  <2>2. w = Failed(s, why)
    BY <2>1
  <2>3. GaveUp(s, w, why, others, before)
    BY <2>2, GivesUp
  <2>4. QED
    BY <2>3 DEF Loaded, GaveUp
<1>6. CASE ~(index > s.sin.blocks) /\ t.ret # "ok"
  <2>1. w = t
    BY <1>2, <1>6
  <2>2. QED
    BY <1>3, <1>6, <2>1 DEF Loaded, Got
<1>7. CASE index <= s.sin.blocks /\ t.ret = "ok"
  <2>1. index < Reach /\ index \in Index /\ t.ino = At(t.sin, t.disk, index) /\ t.ino \in Blocks \ t.freemap
    <3>1. index < Reach /\ index \in Index /\ t.ino = At(t.sin, t.disk, index)
      BY <1>3, <1>7, SfsConstants DEF Got, Index
    <3>2. create \/ At(s.sin, s.disk, index) # 0
      BY <1>4, <1>7 DEF Sound, Mapped
    <3>3. t.ino # 0
      BY <1>3, <1>7, <3>2 DEF Got
    <3>4. Sound(t, others, before)
      BY <1>3 DEF Got
    <3>5. t.ino \in 0 .. NBlocks /\ t.ino \notin t.freemap
      BY <3>1, <3>4, Apart
    <3>6. QED
      BY <3>1, <3>3, <3>5, SfsConstants
  <2>2. w = [t EXCEPT !.sin.blocks = IF index = s.sin.blocks THEN @ + 1 ELSE @]
    <3>1. ~(index > s.sin.blocks)
      BY <1>4, <1>7
    <3>2. QED
      BY ONLY <1>2, <1>7, <2>1, <3>1
  <2> PICK i : i = t.sin
    OBVIOUS
  <2> PICK j : j = [i EXCEPT !.blocks = blocks]
    OBVIOUS
  <2>3. /\ t \in Calls /\ Counted(t) /\ i \in Inodes /\ i.blocks = s.sin.blocks /\ i.size = s.sin.size
        /\ t.alen = s.alen /\ Clean(s.sin, i) /\ Mapped(i, t.disk) /\ Data(i, t.disk) = Data(s.sin, s.disk)
    BY <1>3, CallFields DEF Got, Sound, Counted
  <2>4. w = [t EXCEPT !.sin = j]
    BY <2>2, <2>3 DEF Calls, Inodes
  <2>5. blocks \in 0 .. NDirect + NEntry /\ blocks >= i.blocks
    BY <1>4, <2>1, <2>3, SfsConstants
  <2>6. /\ j \in Inodes /\ j.direct = i.direct /\ j.indirect = i.indirect /\ j.size = i.size /\ j.dirty = i.dirty /\ j.blocks = blocks
    BY <2>3, <2>5 DEF Inodes
  <2>7. /\ w \in Calls /\ w.sin = j /\ w.disk = t.disk /\ w.freemap = t.freemap /\ w.unused = t.unused
        /\ w.ino = t.ino /\ w.ret = "ok" /\ w.alen = t.alen
    BY <1>7, <2>3, <2>4, <2>6 DEF Calls
  <2>8. Counted(w)
    BY <2>3, <2>7 DEF Counted
  <2>9. \A k : At(j, w.disk, k) = At(i, t.disk, k)
    BY ONLY <2>6, <2>7 DEF At
  <2>10. Data(j, w.disk) = Data(i, t.disk)
    BY ONLY <2>7, <2>9 DEF Data
  <2>11. Mapped(j, w.disk)
    <3>1. \A k \in 0 .. blocks - 1 : k \in 0 .. i.blocks - 1 \/ k = index
      BY <1>4, <1>7, <2>3
    <3>2. At(i, t.disk, index) # 0
      BY <2>1, SfsConstants
    <3>3. QED
      BY <2>3, <2>6, <2>9, <3>1, <3>2 DEF Mapped
  <2>12. Sound(w, others, before)
    <3>1. Sound(t, others, before)
      BY <1>3 DEF Got
    <3>2. QED
      BY <2>7, <2>8, <2>9, <2>11, <3>1 DEF Sound
  <2>13. Clean(s.sin, j)
    <3>1. j.blocks >= s.sin.blocks
      BY <2>3, <2>5, <2>6
    <3>2. QED
      BY <1>4, <2>3, <2>6, <3>1 DEF Clean, SameMap
  <2>14. QED
    BY <1>7, <2>1, <2>3, <2>6, <2>7, <2>9, <2>10, <2>12, <2>13 DEF Loaded
<1>8. QED
  BY <1>4, <1>5, <1>6, <1>7

\* The last block counted is freed and its place cleared.
Shorter(s, w, others, before) ==
  /\ Sound(w, others, before)
  /\ w.sin.dirty /\ w.sin.size = s.sin.size /\ w.sin.blocks = s.sin.blocks - 1
  /\ w.ret = "ok" /\ w.alen = s.alen
  /\ \A k \in Index : Data(w.sin, w.disk)[k] = IF k = s.sin.blocks - 1 THEN Zeros ELSE Data(s.sin, s.disk)[k]

Unmapped(s, w, index, b) ==
  /\ index \in Index /\ s.sin.blocks = index + 1 /\ b = At(s.sin, s.disk, index) /\ b \in Blocks
  /\ Counted(w) /\ w.freemap = s.freemap \cup {b} /\ w.ret = "ok" /\ w.alen = s.alen
  /\ w.sin.dirty /\ w.sin.size = s.sin.size /\ w.sin.blocks = index
  /\ \A k \in Places : At(w.sin, w.disk, k) = IF k = index THEN 0 ELSE At(s.sin, s.disk, k)
  /\ \A x \in Blocks : x # s.sin.indirect => w.disk[x] = s.disk[x]

LEMMA BlockUnmapped ==
  ASSUME NEW others, NEW before, NEW s, Sound(s, others, before), NEW w, NEW index, NEW b, Unmapped(s, w, index, b)
  PROVE  Shorter(s, w, others, before)
<1> DEFINE a(k) == At(s.sin, s.disk, k)
           c(k) == At(w.sin, w.disk, k)
<1>1. /\ index \in Index /\ s.sin.blocks = index + 1 /\ b = a(index) /\ b \in Blocks
      /\ Counted(w) /\ w.freemap = s.freemap \cup {b} /\ w.ret = "ok" /\ w.alen = s.alen
      /\ w.sin.dirty /\ w.sin.size = s.sin.size /\ w.sin.blocks = index
      /\ \A k \in Places : c(k) = IF k = index THEN 0 ELSE a(k)
      /\ \A x \in Blocks : x # s.sin.indirect => w.disk[x] = s.disk[x]
  BY DEF Unmapped
<1>2. /\ \A k \in Places : a(k) \in 0 .. NBlocks /\ a(k) \notin s.freemap /\ a(k) \notin others
      /\ \A k, l \in Places : a(k) = a(l) /\ a(k) # 0 => k = l
      /\ \A k \in 0 .. s.sin.blocks - 1 : a(k) # 0
      /\ \A x \in Blocks : x \in s.freemap \/ x \in others \/ \E k \in Places : a(k) = x
      /\ others \subseteq Blocks /\ \A x \in others : x \notin s.freemap /\ s.disk[x] = before[x]
  BY DEF Sound, Mapped
<1>3. s.sin.indirect \notin others /\ \A k \in Index : k \in Places /\ (a(k) # 0 => a(k) # s.sin.indirect /\ a(k) \in Blocks)
  BY Apart, KindsOfPlaces, SfsConstants
<1>4. index \in Places /\ index \in Nat /\ 0 \in 0 .. NBlocks /\ b # 0 /\ \A x \in Blocks : x # 0
  BY <1>1, SfsConstants, KindsOfPlaces DEF Index
<1> HIDE DEF a, c
<1>5. \A k \in Places : c(k) \in 0 .. NBlocks /\ c(k) \notin w.freemap /\ c(k) \notin others
  <2>1. ASSUME NEW k \in Places PROVE c(k) \in 0 .. NBlocks /\ c(k) \notin w.freemap /\ c(k) \notin others
    <3>1. CASE k = index
      <4>1. c(k) = 0 /\ w.freemap \in SUBSET Blocks
        BY <1>1, <3>1, CallFields DEF Counted
      <4>2. QED
        BY <1>2, <1>4, <4>1
    <3>2. CASE k # index
      <4>1. c(k) = a(k) /\ a(k) # b
        BY <1>1, <1>2, <1>4, <3>2
      <4>2. QED
        BY <1>1, <1>2, <4>1
    <3>3. QED
      BY <3>1, <3>2
  <2>2. QED
    BY <2>1
<1>6. \A k, l \in Places : c(k) = c(l) /\ c(k) # 0 => k = l
  BY ONLY <1>1, <1>2, <1>4
<1>7. \A k \in 0 .. w.sin.blocks - 1 : c(k) # 0
  <2>1. \A k \in 0 .. index - 1 : k \in Places /\ k \in 0 .. s.sin.blocks - 1 /\ k # index
    BY <1>1, <1>4, SfsConstants DEF Places, Index
  <2>2. QED
    BY <1>1, <1>2, <2>1
<1>8. \A x \in Blocks : x \in w.freemap \cup others \/ \E k \in Places : c(k) = x
  <2> SUFFICES ASSUME NEW x \in Blocks, x \notin s.freemap, x \notin others, x # b PROVE \E k \in Places : c(k) = x
    BY <1>1
  <2>1. PICK k \in Places : a(k) = x
    BY <1>2
  <2>2. QED
    BY <1>1, <2>1
<1>9. \A x \in others : x \notin w.freemap /\ w.disk[x] = before[x]
  <2>1. \A x \in others : x # b /\ x # s.sin.indirect /\ x \in Blocks
    BY <1>1, <1>2, <1>3, <1>4
  <2>2. QED
    BY <1>1, <1>2, <2>1
<1>10. Sound(w, others, before)
  <2>1. Mapped(w.sin, w.disk)
    BY <1>5, <1>6, <1>7 DEF Mapped, c
  <2>2. QED
    BY <1>1, <1>2, <1>5, <1>8, <1>9, <2>1 DEF Sound, c
<1>11. \A k \in Index : Data(w.sin, w.disk)[k] = IF k = index THEN Zeros ELSE Data(s.sin, s.disk)[k]
  <2> TAKE k \in Index
  <2>1. /\ Data(w.sin, w.disk)[k] = IF c(k) = 0 THEN Zeros ELSE w.disk[c(k)]
        /\ Data(s.sin, s.disk)[k] = IF a(k) = 0 THEN Zeros ELSE s.disk[a(k)]
    BY DEF Data, a, c
  <2>2. QED
    BY <1>1, <1>3, <2>1
<1>12. QED
  BY <1>1, <1>4, <1>10, <1>11 DEF Shorter

LEMMA BmapTruncate ==
  ASSUME NEW others, NEW before, NEW s, Sound(s, others, before), s.ret = "ok", s.sin.blocks > 0
  PROVE  Shorter(s, bmap_truncate(s), others, before)
<1> PICK i : i = s.sin
  OBVIOUS
<1> PICK index : index = i.blocks - 1
  OBVIOUS
<1> PICK b : b = At(i, s.disk, index)
  OBVIOUS
<1> PICK ent : ent = i.indirect
  OBVIOUS
<1> PICK t : t = block_free(s, b)
  OBVIOUS
<1> PICK w : w = bmap_truncate(s)
  OBVIOUS
<1>1. /\ s \in Calls /\ i \in Inodes /\ s.disk \in Disks /\ s.freemap \in SUBSET Blocks /\ s.unused = Cardinality(s.freemap)
      /\ i.blocks \in 0 .. Reach /\ i.direct \in [0 .. NDirect - 1 -> 0 .. NBlocks] /\ Mapped(i, s.disk)
  BY CallFields, InodeFields DEF Sound, Counted
<1>2. index \in Index /\ index \in Nat /\ i.blocks = index + 1 /\ index \in Places
  <2> PICK n \in 0 .. Reach : n = i.blocks
    BY <1>1
  <2>1. n > 0 /\ index = n - 1 /\ Reach \in Nat
    BY SfsConstants
  <2>2. index \in 0 .. Reach - 1 /\ index \in Nat /\ n = index + 1 /\ index \in 0 .. Reach
    BY ONLY <2>1, n \in 0 .. Reach
  <2>3. QED
    BY <2>2 DEF Index, Places
<1>3. b \in Blocks /\ b # 0 /\ b \notin s.freemap /\ b # ent /\ ent \in 0 .. NBlocks
  <2>1. b # 0
    BY <1>1, <1>2 DEF Mapped
  <2>2. QED
    BY <1>2, <2>1, Apart, SfsConstants
<1>4. t = [s EXCEPT !.freemap = @ \cup {b}, !.unused = @ + 1]
  BY <1>3 DEF block_free
<1>5. s.unused + 1 = Cardinality(s.freemap \cup {b}) /\ s.unused + 1 \in Nat /\ s.freemap \cup {b} \in SUBSET Blocks
  <2> PICK g : g = s.freemap
    OBVIOUS
  <2>1. IsFiniteSet(g) /\ b \notin g
    BY <1>1, <1>3, SfsConstants, FS_Subset
  <2>2. Cardinality(g \cup {b}) = Cardinality(g) + 1 /\ Cardinality(g) \in Nat
    BY ONLY <2>1, FS_AddElement, FS_CardinalityType
  <2>3. QED
    BY <1>1, <1>3, <2>2
<1>6. /\ t \in Calls /\ t.sin = i /\ t.disk = s.disk /\ t.freemap = s.freemap \cup {b} /\ t.unused = Cardinality(t.freemap)
      /\ t.ret = "ok" /\ t.alen = s.alen
  BY <1>1, <1>4, <1>5 DEF Calls
<1> DEFINE u == bmap_free(s, index)
<1>7. w = [u EXCEPT !.sin.blocks = @ - 1, !.sin.dirty = TRUE]
  BY DEF bmap_truncate
<1>8. ThreeKinds(i, s.disk) /\ ThreeKinds(w.sin, w.disk)
  BY Kinds
<1>9. CASE index < NDirect
  <2>1. index \in 0 .. NDirect - 1 /\ b = i.direct[index]
    <3>1. index \in 0 .. NDirect - 1
      BY <1>2, <1>9, SfsConstants
    <3>2. QED
      BY ONLY <1>8, <3>1, b = At(i, s.disk, index) DEF ThreeKinds
  <2>2. u = [t EXCEPT !.sin.direct[index] = 0, !.sin.dirty = TRUE]
    BY <1>3, <1>9, <2>1 DEF bmap_free
  <2> PICK v : v = [i EXCEPT !.direct[index] = 0, !.dirty = TRUE]
    OBVIOUS
  <2> PICK j : j = [v EXCEPT !.blocks = @ - 1, !.dirty = TRUE]
    OBVIOUS
  <2>3. /\ j \in Inodes /\ j.direct = [i.direct EXCEPT ![index] = 0] /\ j.indirect = ent
        /\ j.blocks = index /\ j.size = i.size /\ j.dirty = TRUE /\ v \in Inodes
    <3>1. index \in 0 .. NDirect + NEntry /\ 0 \in 0 .. NBlocks
      BY <1>2, SfsConstants DEF Index
    <3>2. v \in Inodes /\ v.direct = [i.direct EXCEPT ![index] = 0] /\ v.indirect = ent /\ v.blocks = i.blocks /\ v.size = i.size
      BY <1>1, <2>1, <3>1 DEF Inodes
    <3>3. j = [v EXCEPT !.blocks = index, !.dirty = TRUE]
      BY <3>2
    <3>4. QED
      BY <3>1, <3>2, <3>3 DEF Inodes
  <2>4. u = [t EXCEPT !.sin = v]
    <3> PICK u1 : u1 = u
      OBVIOUS
    <3>1. u1 = [t EXCEPT !.sin.direct[index] = 0, !.sin.dirty = TRUE]
      BY <2>2
    <3> HIDE DEF u
    <3>2. u1 = [t EXCEPT !.sin = v]
      BY ONLY <1>1, <1>6, <2>1, <3>1, v = [i EXCEPT !.direct[index] = 0, !.dirty = TRUE] DEF Calls, Inodes
    <3>3. QED
      BY ONLY <3>2, u1 = u
  <2>5. /\ w \in Calls /\ w.sin = j /\ w.disk = s.disk /\ w.freemap = t.freemap /\ w.unused = t.unused
        /\ w.ret = "ok" /\ w.alen = s.alen
    <3> PICK u1 : u1 = u
      OBVIOUS
    <3>1. /\ u1 \in Calls /\ u1.sin = v /\ u1.disk = s.disk /\ u1.freemap = t.freemap /\ u1.unused = t.unused
          /\ u1.ret = "ok" /\ u1.alen = s.alen
      BY <1>6, <2>3, <2>4 DEF Calls
    <3>2. w = [u1 EXCEPT !.sin = j]
      <4>1. w = [u1 EXCEPT !.sin.blocks = @ - 1, !.sin.dirty = TRUE]
        BY <1>7
      <4> HIDE DEF u
      <4>2. QED
        BY ONLY <3>1, <4>1, j = [v EXCEPT !.blocks = @ - 1, !.dirty = TRUE], <2>3 DEF Calls, Inodes
    <3>3. QED
      BY ONLY <2>3, <3>1, <3>2 DEF Calls
  <2>6. Counted(w)
    BY <1>6, <2>5 DEF Counted
  <2>7. \A k \in 0 .. NDirect - 1 : At(w.sin, w.disk, k) = IF k = index THEN 0 ELSE At(i, s.disk, k)
    <3> PICK dir : dir = i.direct
      OBVIOUS
    <3>1. \A k \in 0 .. NDirect - 1 : At(w.sin, w.disk, k) = j.direct[k] /\ At(i, s.disk, k) = dir[k]
      BY ONLY <1>8, <2>5, dir = i.direct DEF ThreeKinds
    <3>2. j.direct = [dir EXCEPT ![index] = 0] /\ dir \in [0 .. NDirect - 1 -> 0 .. NBlocks]
      BY <1>1, <2>3
    <3>3. QED
      BY ONLY <2>1, <3>1, <3>2
  <2>8. /\ At(w.sin, w.disk, Reach) = At(i, s.disk, Reach) /\ Reach # index
        /\ \A k \in NDirect .. Reach - 1 : At(w.sin, w.disk, k) = At(i, s.disk, k) /\ k # index
    BY <1>2, <1>8, <1>9, <2>3, <2>5, SfsConstants DEF ThreeKinds
  <2>9. \A k \in Places : At(w.sin, w.disk, k) = IF k = index THEN 0 ELSE At(s.sin, s.disk, k)
    BY <2>7, <2>8, KindsOfPlaces
  <2>10. Unmapped(s, w, index, b)
    BY <1>2, <1>3, <1>6, <2>3, <2>5, <2>6, <2>9 DEF Unmapped
  <2>11. QED
    BY <2>10, BlockUnmapped
<1>10. CASE ~(index < NDirect)
  <2> PICK x : x = index - NDirect
    OBVIOUS
  <2> PICK p : p = s.disk
    OBVIOUS
  <2>1. index \in NDirect .. Reach - 1 /\ x \in 0 .. NEntry - 1 /\ ent # 0 /\ b = p[ent][x]
    <3>1. index \in NDirect .. Reach - 1
      BY <1>2, <1>10, SfsConstants DEF Index
    <3>2. b = IF ent = 0 THEN 0 ELSE p[ent][x]
      BY <1>8, <3>1 DEF ThreeKinds
    <3>3. QED
      BY <1>3, <3>1, <3>2, KindsOfPlaces
  <2>2. ent \in Blocks
    BY <1>3, <2>1, SfsConstants
  <2>3. u = [t EXCEPT !.disk[ent][x] = 0]
    BY <1>3, <1>10, <2>1 DEF bmap_free
  <2> PICK j : j = [i EXCEPT !.blocks = @ - 1, !.dirty = TRUE]
    OBVIOUS
  <2> PICK c : c = p[ent]
    OBVIOUS
  <2> PICK e : e = [c EXCEPT ![x] = 0]
    OBVIOUS
  <2> PICK q : q = [p EXCEPT ![ent] = e]
    OBVIOUS
  <2>4. /\ j \in Inodes /\ j.direct = i.direct /\ j.indirect = ent
        /\ j.blocks = index /\ j.size = i.size /\ j.dirty = TRUE
    <3>1. index \in 0 .. NDirect + NEntry
      BY <1>2, SfsConstants DEF Index
    <3>2. j = [i EXCEPT !.blocks = index, !.dirty = TRUE]
      OBVIOUS
    <3>3. QED
      BY <1>1, <3>1, <3>2 DEF Inodes
  <2>5. p \in [Blocks -> Contents] /\ c \in [0 .. BlkSize - 1 -> Nat] /\ x \in 0 .. BlkSize - 1 /\ \A y \in 0 .. NEntry - 1 : y \in 0 .. BlkSize - 1
    <3>1. p \in [Blocks -> Contents]
      BY <1>1 DEF Disks
    <3>2. c \in [0 .. BlkSize - 1 -> Nat]
      BY <2>2, <3>1 DEF Contents
    <3>3. \A y \in 0 .. NEntry - 1 : y \in 0 .. BlkSize - 1
      BY SfsConstants
    <3>4. QED
      BY <2>1, <3>1, <3>2, <3>3
  <2>6. e \in Contents /\ \A y \in 0 .. NEntry - 1 : e[y] = IF y = x THEN 0 ELSE c[y]
    BY <2>5 DEF Contents
  <2>7. q \in Disks /\ q[ent] = e /\ \A z \in Blocks : z # ent => q[z] = p[z]
    BY <2>2, <2>5, <2>6 DEF Disks
  <2>8. u = [t EXCEPT !.disk = q]
    BY <1>6, <2>3 DEF Calls
  <2>9. /\ w \in Calls /\ w.sin = j /\ w.disk = q /\ w.freemap = t.freemap /\ w.unused = t.unused
        /\ w.ret = "ok" /\ w.alen = s.alen
    <3> PICK u1 : u1 = u
      OBVIOUS
    <3>1. /\ u1 \in Calls /\ u1.sin = i /\ u1.disk = q /\ u1.freemap = t.freemap /\ u1.unused = t.unused
          /\ u1.ret = "ok" /\ u1.alen = s.alen
      BY <1>6, <2>7, <2>8 DEF Calls
    <3>2. w = [u1 EXCEPT !.sin = j]
      <4>1. w = [u1 EXCEPT !.sin.blocks = @ - 1, !.sin.dirty = TRUE]
        BY <1>7
      <4> HIDE DEF u
      <4>2. QED
        BY ONLY <3>1, <4>1, j = [i EXCEPT !.blocks = @ - 1, !.dirty = TRUE], <1>1 DEF Calls, Inodes
    <3>3. QED
      BY ONLY <2>4, <3>1, <3>2 DEF Calls
  <2>10. Counted(w)
    BY <1>6, <2>9 DEF Counted
  <2>11. \A k \in NDirect .. Reach - 1 : At(w.sin, w.disk, k) = IF k = index THEN 0 ELSE At(i, s.disk, k)
    <3>1. \A k \in NDirect .. Reach - 1 : At(w.sin, w.disk, k) = e[k - NDirect] /\ At(i, s.disk, k) = c[k - NDirect]
      <4>1. w.sin.indirect = ent /\ w.disk[ent] = e /\ i.indirect = ent /\ s.disk[ent] = c /\ ent # 0
        BY <2>1, <2>4, <2>7, <2>9
      <4>2. QED
        BY ONLY <1>8, <4>1 DEF ThreeKinds
    <3>2. \A k \in NDirect .. Reach - 1 : k - NDirect \in 0 .. NEntry - 1 /\ (k - NDirect = x <=> k = index)
      <4>1. NDirect \in Nat /\ Reach = NDirect + NEntry /\ NEntry \in Nat /\ index \in NDirect .. Reach - 1
        BY <2>1, SfsConstants
      <4>2. QED
        BY ONLY <4>1, x = index - NDirect
    <3>3. QED
      BY ONLY <2>6, <3>1, <3>2
  <2>12. /\ At(w.sin, w.disk, Reach) = At(i, s.disk, Reach) /\ Reach # index
         /\ \A k \in 0 .. NDirect - 1 : At(w.sin, w.disk, k) = At(i, s.disk, k) /\ k # index
    <3>1. Reach # index /\ \A k \in 0 .. NDirect - 1 : k # index
      BY <2>1, SfsConstants
    <3>2. QED
      BY ONLY <1>8, <2>4, <2>9, <3>1, ent = i.indirect DEF ThreeKinds
  <2>13. \A k \in Places : At(w.sin, w.disk, k) = IF k = index THEN 0 ELSE At(s.sin, s.disk, k)
    BY <2>11, <2>12, KindsOfPlaces
  <2>14. Unmapped(s, w, index, b)
    BY ONLY <1>2, <1>3, <1>6, <2>4, <2>7, <2>9, <2>10, <2>13, i = s.sin, ent = i.indirect, p = s.disk, b = At(i, s.disk, index) DEF Unmapped
  <2>15. QED
    BY <2>14, BlockUnmapped
<1>11. QED
  BY <1>9, <1>10

LEMMA CleanTwice ==
  ASSUME NEW j \in Inodes, NEW i \in Inodes, NEW h \in Inodes, Clean(j, i), Clean(i, h)
  PROVE  Clean(j, h)
<1>1. j.blocks \in Nat /\ i.blocks \in Nat /\ h.blocks \in Nat
  BY InodeFields, SfsConstants
<1>2. QED
  BY <1>1 DEF Clean, SameMap

\* A part of the loop that makes blocks in truncfile.
Extended(s, t, others, before) ==
  /\ Sound(t, others, before)
  /\ Clean(s.sin, t.sin) /\ t.sin.size = s.sin.size /\ t.alen = s.alen
  /\ Data(t.sin, t.disk) = Data(s.sin, s.disk)
  /\ t.ret \in {"ok", "nospace", "index out of range"}
  /\ t.sin.blocks >= s.sin.blocks

LEMMA ExtendedOnce ==
  ASSUME NEW others, NEW before, NEW s, NEW t, Sound(s, others, before), Extended(s, t, others, before), t.ret = "ok"
  PROVE  /\ Extended(s, bmap_load(t, t.sin.blocks), others, before)
         /\ bmap_load(t, t.sin.blocks).ret = "ok" => bmap_load(t, t.sin.blocks).sin.blocks = t.sin.blocks + 1
<1> PICK w : w = bmap_load(t, t.sin.blocks)
  OBVIOUS
<1>1. Sound(t, others, before) /\ s.sin \in Inodes /\ t.sin \in Inodes
  BY CallFields DEF Extended, Sound, Counted
<1>2. t.sin.blocks \in Nat /\ s.sin.blocks \in Nat
  BY <1>1, InodeFields, SfsConstants
<1>3. Loaded(t, w, t.sin.blocks, others, before)
  BY <1>1, <1>2, BmapLoad
<1>4. w.sin \in Inodes
  BY <1>3, CallFields DEF Loaded, Sound, Counted
<1>5. w.ret # "index > blocks"
  <2>1. ~(t.sin.blocks > t.sin.blocks)
    BY <1>2
  <2>2. PICK create \in BOOLEAN : create = (t.sin.blocks = t.sin.blocks)
    OBVIOUS
  <2> PICK v : v = bmap_get(t, t.sin.blocks, create)
    OBVIOUS
  <2>3. Got(t, v, t.sin.blocks, create, others, before)
    BY <1>1, <1>2, BmapGet
  <2>4. v.ret \in {"ok", "nospace", "index out of range"} /\ v \in Calls
    BY <2>3 DEF Got, Sound, Counted
  <2>5. bmap_get(t, t.sin.blocks, t.sin.blocks = t.sin.blocks) = v
    BY <2>2
  <2>6. \/ w = v \/ w = Failed(v, "assert")
        \/ w = [v EXCEPT !.sin.blocks = IF t.sin.blocks = t.sin.blocks THEN @ + 1 ELSE @]
    BY <2>1, <2>5 DEF bmap_load
  <2>7. QED
    BY <2>4, <2>6 DEF Failed, Calls
<1>6. Clean(s.sin, w.sin)
  <2>1. Clean(s.sin, t.sin) /\ Clean(t.sin, w.sin)
    BY <1>3 DEF Loaded, Extended
  <2>2. QED
    BY <1>1, <1>4, <2>1, CleanTwice
<1>7. Extended(s, w, others, before)
  <2>1. t.sin.blocks >= s.sin.blocks /\ t.sin.size = s.sin.size /\ t.alen = s.alen /\ Data(t.sin, t.disk) = Data(s.sin, s.disk)
    BY DEF Extended
  <2>2. /\ Sound(w, others, before) /\ w.sin.size = t.sin.size /\ w.alen = t.alen
        /\ Data(w.sin, w.disk) = Data(t.sin, t.disk)
        /\ w.ret \in {"ok", "nospace", "index out of range", "index > blocks"}
        /\ w.sin.blocks = t.sin.blocks \/ w.sin.blocks = t.sin.blocks + 1
    BY <1>3 DEF Loaded
  <2>3. w.sin.blocks >= s.sin.blocks
    <3>1. \A x, y, z \in Nat : y >= x /\ (z = y \/ z = y + 1) => z >= x
      OBVIOUS
    <3>2. w.sin.blocks \in Nat
      BY <1>4, InodeFields, SfsConstants
    <3>3. QED
      BY <1>2, <2>1, <2>2, <3>1, <3>2
  <2>4. QED
    BY ONLY <1>5, <1>6, <2>1, <2>2, <2>3 DEF Extended
<1>8. w.ret = "ok" => w.sin.blocks = t.sin.blocks + 1
  BY <1>3 DEF Loaded
<1>9. QED
  BY <1>7, <1>8

\* The loop that makes n blocks makes them all or stops.
LEMMA RepeatLoad ==
  ASSUME NEW others, NEW before, NEW s, Sound(s, others, before), s.ret = "ok", NEW n \in Nat
  PROVE  /\ Extended(s, Repeat(LAMBDA u : bmap_load(u, u.sin.blocks), s, n), others, before)
         /\ Repeat(LAMBDA u : bmap_load(u, u.sin.blocks), s, n).ret = "ok"
            => Repeat(LAMBDA u : bmap_load(u, u.sin.blocks), s, n).sin.blocks = s.sin.blocks + n
<1> DEFINE D == DOMAIN Upto(n)
           op(t, k) == IF t.ret = "ok" THEN bmap_load(t, t.sin.blocks) ELSE t
           Rec(it) == [u \in SUBSET D |-> IF u = {} THEN s ELSE op(it[u \ {Max(u)}], Upto(n)[Max(u)])]
           iter == CHOOSE it : it = Rec(it)
           X == {t \in Calls : Extended(s, t, others, before)}
           P == [k \in 0 .. n |-> {t \in X : t.ret = "ok" => t.sin.blocks = s.sin.blocks + k}]
<1>1. D = 1 .. n /\ s \in Calls /\ s.sin.blocks \in Nat
  BY CallFields, InodeFields, SfsConstants DEF Upto, Sound, Counted
<1>2. Repeat(LAMBDA u : bmap_load(u, u.sin.blocks), s, n) = iter[D]
  BY DEF Repeat, FoldLeft, MapThenFoldSet
<1>3. \A t \in X : \A k : op(t, k) \in X /\ (op(t, k).ret = "ok" => t.ret = "ok" /\ op(t, k).sin.blocks = t.sin.blocks + 1)
  <2> SUFFICES ASSUME NEW t \in X, NEW k
               PROVE  op(t, k) \in X /\ (op(t, k).ret = "ok" => t.ret = "ok" /\ op(t, k).sin.blocks = t.sin.blocks + 1)
    OBVIOUS
  <2>1. CASE t.ret = "ok"
    <3> PICK w : w = bmap_load(t, t.sin.blocks)
      OBVIOUS
    <3>1. Extended(s, w, others, before) /\ (w.ret = "ok" => w.sin.blocks = t.sin.blocks + 1)
      BY <2>1, ExtendedOnce
    <3>2. w \in Calls /\ op(t, k) = w
      BY <2>1, <3>1 DEF Extended, Sound, Counted
    <3>3. QED
      BY <2>1, <3>1, <3>2
  <2>2. CASE t.ret # "ok"
    BY <2>2
  <2>3. QED
    BY <2>1, <2>2
<1>4. s \in X
  <2>1. Clean(s.sin, s.sin) /\ s.sin.blocks >= s.sin.blocks
    BY <1>1 DEF Clean, SameMap
  <2>2. QED
    BY <1>1, <2>1 DEF Extended
<1> HIDE DEF op, X
<1>5. \E it : it = Rec(it)
  <2> DEFINE step == [z \in X \X (1 .. n) |-> op(z[1], Upto(n)[z[2]])]
  <2>1. step \in [X \X (1 .. n) -> X]
    BY <1>3
  <2> HIDE DEF step
  <2>2. PICK g : Loops(g, n, X, s, step)
    BY <1>4, <2>1, LoopRecursion
  <2>3. g \in [SUBSET (1 .. n) -> X] /\ g[{}] = s
    BY <2>2 DEF Loops
  <2>4. ASSUME NEW u \in SUBSET (1 .. n), u # {} PROVE g[u] = op(g[u \ {Max(u)}], Upto(n)[Max(u)])
    <3>1. Max(u) \in 1 .. n /\ g[u \ {Max(u)}] \in X
      BY <2>3, <2>4, MaxIsGreatest
    <3>2. g[u] = step[<<g[u \ {Max(u)}], Max(u)>>]
      BY <2>2, <2>4 DEF Loops
    <3>3. QED
      BY <3>1, <3>2 DEF step
  <2> HIDE DEF D
  <2>5. g = Rec(g)
    BY <1>1, <2>3, <2>4
  <2> HIDE DEF Rec
  <2>6. QED
    BY <2>5
<1>6. iter = Rec(iter)
  <2> HIDE DEF Rec
  <2>1. QED
    BY <1>5
<1> HIDE DEF iter
<1>7. iter[1 .. 0] \in P[0]
  <2>1. iter[1 .. 0] = s
    BY <1>1, <1>6
  <2>2. QED
    BY <1>1, <1>4, <2>1
<1>8. ASSUME NEW k \in 1 .. n, iter[1 .. (k - 1)] \in P[k - 1] PROVE iter[1 .. k] \in P[k]
  <2> DEFINE t == iter[1 .. (k - 1)]
             w == iter[1 .. k]
  <2>1. w = op(t, Upto(n)[k])
    <3>1. k \in Nat \ {0}
      OBVIOUS
    <3>2. Max(1 .. k) = k /\ (1 .. k) \ {Max(1 .. k)} = 1 .. (k - 1) /\ 1 .. k # {}
      BY <3>1, MaxOfInterval
    <3>3. 1 .. k \in SUBSET D
      BY <1>1
    <3> HIDE DEF D
    <3>4. QED
      BY <1>6, <3>2, <3>3
  <2> HIDE DEF t, w
  <2>2. t \in X /\ (t.ret = "ok" => t.sin.blocks = s.sin.blocks + (k - 1))
    BY <1>8 DEF t
  <2>3. w \in X /\ (w.ret = "ok" => t.ret = "ok" /\ w.sin.blocks = t.sin.blocks + 1)
    BY <1>3, <2>1, <2>2
  <2>4. w.ret = "ok" => w.sin.blocks = s.sin.blocks + k
    BY <1>1, <2>2, <2>3
  <2>5. QED
    BY <2>3, <2>4 DEF w
<1>9. iter[1 .. n] \in P[n]
  <2> HIDE DEF P
  <2>1. QED
    BY <1>7, <1>8, LoopInvariant
<1>10. Extended(s, iter[D], others, before) /\ (iter[D].ret = "ok" => iter[D].sin.blocks = s.sin.blocks + n)
  BY <1>1, <1>9 DEF X
<1>11. QED
  BY <1>2, <1>10

\* A part of the loop that drops blocks in truncfile: n of them are gone.
Shortened(s, t, n, others, before) ==
  /\ Sound(t, others, before)
  /\ Clean(s.sin, t.sin) /\ t.sin.size = s.sin.size /\ t.alen = s.alen /\ t.ret = "ok"
  /\ t.sin.blocks = s.sin.blocks - n
  /\ \A k \in Index : Data(t.sin, t.disk)[k] = IF k >= s.sin.blocks - n /\ k < s.sin.blocks THEN Zeros ELSE Data(s.sin, s.disk)[k]

LEMMA ShortenedOnce ==
  ASSUME NEW others, NEW before, NEW s, NEW t, Sound(s, others, before), NEW n \in Nat, n < s.sin.blocks,
         Shortened(s, t, n, others, before)
  PROVE  Shortened(s, bmap_truncate(t), n + 1, others, before)
<1> PICK w : w = bmap_truncate(t)
  OBVIOUS
<1>1. Sound(t, others, before) /\ s.sin \in Inodes /\ t.sin \in Inodes /\ t.sin.blocks = s.sin.blocks - n /\ t.ret = "ok"
  BY CallFields DEF Shortened, Sound, Counted
<1>2. s.sin.blocks \in Nat /\ t.sin.blocks \in Nat /\ t.sin.blocks > 0
  BY <1>1, InodeFields, SfsConstants
<1>3. Shorter(t, w, others, before)
  BY <1>1, <1>2, BmapTruncate
<1>4. /\ Sound(w, others, before) /\ w.sin.dirty /\ w.sin.size = s.sin.size /\ w.ret = "ok" /\ w.alen = s.alen
      /\ w.sin.blocks = t.sin.blocks - 1
  BY <1>3 DEF Shorter, Shortened
<1>5. w.sin.blocks = s.sin.blocks - (n + 1)
  BY <1>1, <1>2, <1>4
<1>6. \A k \in Index : Data(w.sin, w.disk)[k] = IF k >= s.sin.blocks - (n + 1) /\ k < s.sin.blocks THEN Zeros ELSE Data(s.sin, s.disk)[k]
  <2> TAKE k \in Index
  <2>1. /\ Data(w.sin, w.disk)[k] = IF k = t.sin.blocks - 1 THEN Zeros ELSE Data(t.sin, t.disk)[k]
        /\ Data(t.sin, t.disk)[k] = IF k >= s.sin.blocks - n /\ k < s.sin.blocks THEN Zeros ELSE Data(s.sin, s.disk)[k]
    BY <1>3 DEF Shorter, Shortened
  <2>2. k \in Nat
    BY SfsConstants DEF Index
  <2>3. QED
    BY <1>1, <1>2, <2>1, <2>2
<1>7. Clean(s.sin, w.sin)
  BY <1>4 DEF Clean
<1>8. Shortened(s, w, n + 1, others, before)
  BY <1>4, <1>5, <1>6, <1>7 DEF Shortened
<1>9. QED
  BY <1>8

LEMMA ShortenedNone ==
  ASSUME NEW others, NEW before, NEW s, Sound(s, others, before), s.ret = "ok"
  PROVE  Shortened(s, s, 0, others, before)
<1>1. s.sin.blocks \in Nat
  BY CallFields, InodeFields, SfsConstants DEF Sound, Counted
<1>2. Clean(s.sin, s.sin) /\ s.sin.blocks = s.sin.blocks - 0
  BY <1>1 DEF Clean, SameMap
<1>3. \A k \in Index : ~(k >= s.sin.blocks - 0 /\ k < s.sin.blocks)
  BY <1>1, SfsConstants DEF Index
<1>4. QED
  BY <1>2, <1>3 DEF Shortened

LEMMA RepeatTruncate ==
  ASSUME NEW others, NEW before, NEW s, Sound(s, others, before), s.ret = "ok", NEW n \in 0 .. s.sin.blocks
  PROVE  Shortened(s, Repeat(bmap_truncate, s, n), n, others, before)
<1> DEFINE D == DOMAIN Upto(n)
           op(t, k) == IF t.ret = "ok" THEN bmap_truncate(t) ELSE t
           Rec(it) == [u \in SUBSET D |-> IF u = {} THEN s ELSE op(it[u \ {Max(u)}], Upto(n)[Max(u)])]
           iter == CHOOSE it : it = Rec(it)
           X == {t \in Calls : \E m \in 0 .. n : Shortened(s, t, m, others, before)}
           P == [k \in 0 .. n |-> {t \in X : Shortened(s, t, k, others, before)}]
<1>1. D = 1 .. n /\ s \in Calls /\ s.sin.blocks \in Nat /\ n \in Nat
  BY CallFields, InodeFields, SfsConstants DEF Upto, Sound, Counted
<1>2. Repeat(bmap_truncate, s, n) = iter[D]
  BY DEF Repeat, FoldLeft, MapThenFoldSet
<1>3. \A k : \A m \in 0 .. n - 1 : \A t \in X : Shortened(s, t, m, others, before)
        => op(t, k) \in X /\ Shortened(s, op(t, k), m + 1, others, before)
  <2> SUFFICES ASSUME NEW k, NEW m \in 0 .. n - 1, NEW t \in X, Shortened(s, t, m, others, before)
               PROVE  op(t, k) \in X /\ Shortened(s, op(t, k), m + 1, others, before)
    OBVIOUS
  <2> PICK w : w = bmap_truncate(t)
    OBVIOUS
  <2>1. m \in Nat /\ m < s.sin.blocks /\ m + 1 \in 0 .. n
    BY <1>1
  <2>2. Shortened(s, w, m + 1, others, before)
    BY <2>1, ShortenedOnce
  <2>3. w \in Calls /\ op(t, k) = w
    BY <2>2 DEF Shortened, Sound, Counted
  <2>4. QED
    BY <2>1, <2>2, <2>3
<1>4. s \in X /\ Shortened(s, s, 0, others, before)
  BY <1>1, ShortenedNone
<1>5. \A t \in X : t.sin.blocks \in Nat
  BY CallFields, InodeFields, SfsConstants
<1> HIDE DEF op, X
<1>6. \E it : it = Rec(it)
  <2> DEFINE safe(t, k) == IF \E m \in 0 .. n - 1 : Shortened(s, t, m, others, before) THEN op(t, k) ELSE s
             step == [z \in X \X (1 .. n) |-> safe(z[1], Upto(n)[z[2]])]
  <2>1. step \in [X \X (1 .. n) -> X]
    <3>1. \A t \in X : \A k : safe(t, k) \in X
      BY <1>3, <1>4
    <3> HIDE DEF safe
    <3>2. QED
      BY <3>1
  <2> HIDE DEF step, safe
  <2>2. PICK g : Loops(g, n, X, s, step)
    BY <1>1, <1>4, <2>1, LoopRecursion
  <2>3. g \in [SUBSET (1 .. n) -> X] /\ g[{}] = s
    BY <2>2 DEF Loops
  <2>4. ASSUME NEW u \in SUBSET (1 .. n), u # {}
        PROVE  /\ Max(u) \in u /\ Max(u) \in 1 .. n /\ g[u \ {Max(u)}] \in X
               /\ g[u] = safe(g[u \ {Max(u)}], Upto(n)[Max(u)])
    <3>1. Max(u) \in u /\ Max(u) \in 1 .. n /\ g[u \ {Max(u)}] \in X
      BY <1>1, <2>3, <2>4, MaxIsGreatest
    <3>2. g[u] = step[<<g[u \ {Max(u)}], Max(u)>>]
      BY <2>2, <2>4 DEF Loops
    <3>3. QED
      BY <3>1, <3>2 DEF step
  <2>5. ASSUME NEW v \in SUBSET (1 .. n) PROVE Shortened(s, g[v], Cardinality(v), others, before)
    <3> DEFINE K == {u \in SUBSET (1 .. n) : Shortened(s, g[u], Cardinality(u), others, before)}
               pick == [u \in SUBSET v |-> Max(u)]
    <3>1. IsFiniteSet(v) /\ \A u \in SUBSET v : u # {} => pick[u] \in u
      <4>1. \A u \in SUBSET v : u # {} => pick[u] \in u
        BY <2>4
      <4>2. IsFiniteSet(1 .. n)
        BY <1>1, FS_Interval
      <4>3. IsFiniteSet(v)
        BY <4>2, FS_Subset
      <4>4. QED
        BY <4>1, <4>3
    <3>2. {} \in K
      BY <1>4, <2>3, FS_EmptySet
    <3>3. ASSUME NEW u \in SUBSET v, u # {}, u \ {pick[u]} \in K PROVE u \in K
      <4> PICK x : x = Max(u)
        OBVIOUS
      <4> PICK m : m = Cardinality(u \ {x})
        OBVIOUS
      <4>1. u \in SUBSET (1 .. n) /\ x \in u /\ pick[u] = x /\ g[u \ {x}] \in X
        BY <2>4, <3>3
      <4>2. Cardinality(u) = m + 1 /\ m \in 0 .. n - 1
        <5>1. IsFiniteSet(u) /\ Cardinality(u) <= n
          <6>1. IsFiniteSet(1 .. n) /\ Cardinality(1 .. n) = n
            BY <1>1, FS_Interval
          <6>2. QED
            BY <4>1, <6>1, FS_Subset
        <5>2. IsFiniteSet(u \ {x}) /\ m = Cardinality(u) - 1 /\ Cardinality(u) \in Nat
          BY <4>1, <5>1, FS_RemoveElement, FS_CardinalityType
        <5>3. m \in Nat
          BY <5>2, FS_CardinalityType
        <5>4. QED
          BY <1>1, <5>1, <5>2, <5>3
      <4>3. Shortened(s, g[u \ {x}], m, others, before)
        BY <3>3, <4>1
      <4>4. g[u] = op(g[u \ {x}], Upto(n)[x])
        BY <2>4, <3>3, <4>1, <4>2, <4>3 DEF safe
      <4>5. Shortened(s, g[u], m + 1, others, before)
        BY <1>3, <4>1, <4>2, <4>3, <4>4
      <4>6. QED
        BY <4>1, <4>2, <4>5
    <3>4. v \in K
      <4> HIDE DEF K, pick
      <4>1. QED
        BY <3>1, <3>2, <3>3, SetLoopInvariant
    <3>5. QED
      BY <3>4
  <2>6. ASSUME NEW u \in SUBSET (1 .. n), u # {} PROVE g[u] = op(g[u \ {Max(u)}], Upto(n)[Max(u)])
    <3> PICK x : x = Max(u)
      OBVIOUS
    <3>1. x \in u /\ x \in 1 .. n /\ g[u \ {x}] \in X /\ g[u] = safe(g[u \ {x}], Upto(n)[x])
      BY <2>4, <2>6
    <3>2. Shortened(s, g[u \ {x}], Cardinality(u \ {x}), others, before)
      BY <2>5
    <3>3. Cardinality(u \ {x}) \in 0 .. n - 1
      <4>1. IsFiniteSet(1 .. n) /\ Cardinality(1 .. n) = n
        BY <1>1, FS_Interval
      <4>2. IsFiniteSet(u) /\ Cardinality(u) <= n
        BY <4>1, FS_Subset
      <4>3. IsFiniteSet(u \ {x}) /\ Cardinality(u \ {x}) = Cardinality(u) - 1 /\ Cardinality(u) \in Nat
        BY <3>1, <4>2, FS_RemoveElement, FS_CardinalityType
      <4>4. Cardinality(u \ {x}) \in Nat
        BY <4>3, FS_CardinalityType
      <4>5. QED
        BY <1>1, <4>2, <4>3, <4>4
    <3>4. QED
      BY <3>1, <3>2, <3>3 DEF safe
  <2> HIDE DEF D
  <2>7. g = Rec(g)
    BY <1>1, <2>3, <2>6
  <2> HIDE DEF Rec
  <2>8. QED
    BY <2>7
<1>7. iter = Rec(iter)
  <2> HIDE DEF Rec
  <2>1. QED
    BY <1>6
<1> HIDE DEF iter
<1>8. iter[1 .. 0] \in P[0]
  <2>1. iter[1 .. 0] = s
    BY <1>1, <1>7
  <2>2. QED
    BY <1>1, <1>4, <2>1
<1>9. ASSUME NEW k \in 1 .. n, iter[1 .. (k - 1)] \in P[k - 1] PROVE iter[1 .. k] \in P[k]
  <2> DEFINE t == iter[1 .. (k - 1)]
             w == iter[1 .. k]
  <2>1. w = op(t, Upto(n)[k])
    <3>1. k \in Nat \ {0}
      OBVIOUS
    <3>2. Max(1 .. k) = k /\ (1 .. k) \ {Max(1 .. k)} = 1 .. (k - 1) /\ 1 .. k # {}
      BY <3>1, MaxOfInterval
    <3>3. 1 .. k \in SUBSET D
      BY <1>1
    <3> HIDE DEF D
    <3>4. QED
      BY <1>7, <3>2, <3>3
  <2> HIDE DEF t, w
  <2>2. t \in X /\ Shortened(s, t, k - 1, others, before)
    BY <1>9 DEF t
  <2>3. k - 1 \in 0 .. n - 1 /\ (k - 1) + 1 = k
    BY <1>1
  <2>4. w \in X /\ Shortened(s, w, k, others, before)
    BY <1>3, <2>1, <2>2, <2>3
  <2>5. QED
    BY <2>4 DEF w
<1>10. iter[1 .. n] \in P[n]
  <2> HIDE DEF P
  <2>1. QED
    BY <1>1, <1>8, <1>9, LoopInvariant
<1>11. Shortened(s, iter[D], n, others, before)
  BY <1>1, <1>10
<1>12. QED
  BY <1>2, <1>11

\* A call left the file sound; it ended well or in a panic that is known.
Kept(s, t, others, before) ==
  /\ Sound(t, others, before) /\ Clean(s.sin, t.sin)
  /\ t.ret \in {"ok", "nospace", "invalid", "index > blocks", "tblks # blocks", "index out of range"}

\* truncfile: the size is set when all blocks were made; what the file lost is zero.
Truncated(s, t, len) ==
  /\ t.alen = s.alen
  /\ t.ret = "ok" => t.sin.size = len /\ \A k \in Index : Data(t.sin, t.disk)[k] = Data(s.sin, s.disk)[k]
                                         \/ (Data(t.sin, t.disk)[k] = Zeros /\ k >= Ceil(len))
  /\ t.ret = "ok" => \A k \in Index : k >= Ceil(len) /\ k < s.sin.blocks => Data(t.sin, t.disk)[k] = Zeros
  /\ t.ret # "ok" => t.sin.size = s.sin.size /\ Data(t.sin, t.disk) = Data(s.sin, s.disk)

LEMMA CeilTyped ==
  ASSUME NEW len \in Nat
  PROVE  Ceil(len) \in Nat
  BY SfsConstants DEF Ceil

\* Setting the size makes the inode dirty and moves no block.
Resize(t, len) == [t EXCEPT !.sin.size = len, !.sin.dirty = TRUE]

Resized(t, w, len, others, before) ==
  /\ Sound(w, others, before) /\ w.sin.dirty /\ w.sin.size = len /\ w.sin.blocks = t.sin.blocks
  /\ Data(w.sin, w.disk) = Data(t.sin, t.disk) /\ w.alen = t.alen /\ w.ret = t.ret

LEMMA ResizeKeeps ==
  ASSUME NEW others, NEW before, NEW t, Sound(t, others, before), NEW len \in Nat
  PROVE  Resized(t, Resize(t, len), len, others, before)
<1> PICK w : w = Resize(t, len)
  OBVIOUS
<1> PICK i : i = t.sin
  OBVIOUS
<1> PICK j : j = [i EXCEPT !.size = len, !.dirty = TRUE]
  OBVIOUS
<1>1. t \in Calls /\ i \in Inodes /\ Counted(t) /\ Mapped(i, t.disk)
  BY CallFields DEF Sound, Counted
<1>2. /\ j \in Inodes /\ j.direct = i.direct /\ j.indirect = i.indirect /\ j.blocks = i.blocks /\ j.size = len /\ j.dirty = TRUE
  BY <1>1 DEF Inodes
<1>3. w = [t EXCEPT !.sin = j]
  BY <1>1 DEF Calls, Resize
<1>4. /\ w \in Calls /\ w.sin = j /\ w.disk = t.disk /\ w.freemap = t.freemap /\ w.unused = t.unused
      /\ w.ret = t.ret /\ w.alen = t.alen
  BY <1>1, <1>2, <1>3 DEF Calls
<1>5. \A k : At(j, w.disk, k) = At(i, t.disk, k)
  BY ONLY <1>2, <1>4 DEF At
<1>6. Data(j, w.disk) = Data(i, t.disk)
  BY ONLY <1>4, <1>5 DEF Data
<1>7. Mapped(j, w.disk)
  BY ONLY <1>1, <1>2, <1>5 DEF Mapped
<1>8. Counted(w)
  BY <1>1, <1>4 DEF Counted
<1>9. Sound(w, others, before)
  BY <1>4, <1>5, <1>7, <1>8 DEF Sound
<1>10. Resized(t, w, len, others, before)
  BY <1>2, <1>4, <1>6, <1>9 DEF Resized
<1>11. QED
  BY <1>10

LEMMA Truncfile ==
  ASSUME NEW others, NEW before, NEW s, Sound(s, others, before), s.ret = "ok", NEW len \in Nat
  PROVE  Kept(s, truncfile(s, len), others, before) /\ Truncated(s, truncfile(s, len), len)
<1> PICK n : n = Ceil(len)
  OBVIOUS
<1> PICK blocks : blocks = s.sin.blocks
  OBVIOUS
<1> PICK x : x = Repeat(LAMBDA u : bmap_load(u, u.sin.blocks), s, n - blocks)
  OBVIOUS
<1> PICK y : y = Repeat(bmap_truncate, s, blocks - n)
  OBVIOUS
<1> PICK t : t = IF blocks < n THEN x ELSE y
  OBVIOUS
<1> PICK w : w = truncfile(s, len)
  OBVIOUS
<1>1. n \in Nat /\ blocks \in Nat /\ s.sin \in Inodes
  BY CeilTyped, CallFields, InodeFields, SfsConstants DEF Sound, Counted
<1>2. w = IF s.sin.size = len THEN IF n = blocks THEN s ELSE Failed(s, "tblks # blocks")
          ELSE IF t.ret # "ok" THEN t ELSE Resize(t, len)
  BY DEF truncfile, Resize
<1>3. blocks < n => Extended(s, x, others, before)
  <2>1. blocks < n => n - blocks \in Nat
    BY <1>1
  <2>2. QED
    BY <2>1, RepeatLoad
<1>4. ~(blocks < n) => Shortened(s, y, blocks - n, others, before)
  <2>1. ~(blocks < n) => blocks - n \in 0 .. blocks
    BY <1>1
  <2>2. QED
    BY <2>1, RepeatTruncate
<1>5. \A k \in Index : k \in Nat
  BY SfsConstants DEF Index
<1>6. CASE s.sin.size = len /\ n = blocks
  <2>1. w = s
    BY <1>2, <1>6
  <2>2. Clean(s.sin, s.sin)
    BY <1>1 DEF Clean, SameMap
  <2>3. \A k \in Index : ~(k >= n /\ k < blocks)
    BY <1>1, <1>5, <1>6
  <2>4. QED
    BY <1>6, <2>1, <2>2, <2>3 DEF Kept, Truncated
<1>7. CASE s.sin.size = len /\ n # blocks
  <2> PICK why \in Rets : why = "tblks # blocks"
    BY DEF Rets
  <2>1. w = Failed(s, why)
    BY <1>2, <1>7
  <2>2. GaveUp(s, w, why, others, before)
    BY <2>1, GivesUp
  <2>3. QED
    BY <2>2 DEF Kept, Truncated, GaveUp
<1>8. CASE s.sin.size # len /\ blocks < n
  <2>1. t = x /\ Extended(s, t, others, before)
    BY <1>3, <1>8
  <2>2. CASE t.ret # "ok"
    <3>1. w = t
      BY <1>2, <1>8, <2>2
    <3>2. QED
      BY <2>1, <2>2, <3>1 DEF Extended, Kept, Truncated
  <2>3. CASE t.ret = "ok"
    <3>1. w = Resize(t, len)
      BY <1>2, <1>8, <2>3
    <3>2. Resized(t, w, len, others, before)
      BY <2>1, <3>1, ResizeKeeps DEF Extended
    <3>3. Kept(s, w, others, before)
      BY <2>3, <3>2 DEF Resized, Kept, Clean
    <3>4. \A k \in Index : ~(k >= n /\ k < blocks)
      BY <1>1, <1>5, <1>8
    <3>5. Truncated(s, w, len)
      BY <2>1, <2>3, <3>2, <3>4 DEF Resized, Truncated, Extended
    <3>6. QED
      BY <3>3, <3>5
  <2>4. QED
    BY <2>2, <2>3
<1>9. CASE s.sin.size # len /\ ~(blocks < n)
  <2>1. t = y /\ Shortened(s, t, blocks - n, others, before)
    BY <1>4, <1>9
  <2>2. t.ret = "ok" /\ t.alen = s.alen /\ Sound(t, others, before)
    BY <2>1 DEF Shortened
  <2>3. w = Resize(t, len)
    BY <1>2, <1>9, <2>2
  <2>4. Resized(t, w, len, others, before)
    BY <2>2, <2>3, ResizeKeeps
  <2>5. Kept(s, w, others, before)
    BY <2>2, <2>4 DEF Resized, Kept, Clean
  <2>6. \A k \in Index : Data(w.sin, w.disk)[k] = IF k >= n /\ k < blocks THEN Zeros ELSE Data(s.sin, s.disk)[k]
    <3>1. blocks - (blocks - n) = n
      BY <1>1
    <3>2. QED
      BY <2>1, <2>4, <3>1 DEF Shortened, Resized
  <2>7. Truncated(s, w, len)
    BY <2>2, <2>4, <2>6 DEF Resized, Truncated
  <2>8. QED
    BY <2>5, <2>7
<1>10. QED
  BY <1>6, <1>7, <1>8, <1>9
-----------------------------------------------------------------------------
\* Division by the size of a block.
LEMMA DivMod ==
  ASSUME NEW a \in Nat
  PROVE  /\ a \div BlkSize \in Nat /\ a % BlkSize \in 0 .. BlkSize - 1
         /\ a = (a \div BlkSize) * BlkSize + (a % BlkSize)
<1>1. BlkSize \in Nat \ {0}
  BY SfsConstants
<1>2. a \div BlkSize \in Nat
  BY ONLY <1>1, a \in Nat
<1>3. a % BlkSize \in 0 .. BlkSize - 1
  BY ONLY <1>1, a \in Nat
<1>4. a = (a \div BlkSize) * BlkSize + (a % BlkSize)
  BY ONLY <1>1, a \in Nat
<1>5. QED
  BY ONLY <1>2, <1>3, <1>4

\* A word of an earlier block comes before every word of a later one.
LEMMA BlocksInOrder ==
  ASSUME NEW p \in Nat, NEW q \in Nat, q < p
  PROVE  q * BlkSize + BlkSize <= p * BlkSize /\ q * BlkSize \in Nat /\ p * BlkSize \in Nat
<1>1. BlkSize \in Nat \ {0}
  BY SfsConstants
<1>2. q * BlkSize + BlkSize <= p * BlkSize
  BY ONLY <1>1, p \in Nat, q \in Nat, q < p
<1>3. q * BlkSize \in Nat /\ p * BlkSize \in Nat
  BY ONLY <1>1, p \in Nat, q \in Nat
<1>4. QED
  BY ONLY <1>2, <1>3

LEMMA DivGrows ==
  ASSUME NEW a \in Nat, NEW b \in Nat, a <= b
  PROVE  a \div BlkSize <= b \div BlkSize
<1> PICK p \in Nat, r \in 0 .. BlkSize - 1 : p = a \div BlkSize /\ r = a % BlkSize /\ a = p * BlkSize + r
  BY DivMod
<1> PICK q \in Nat, t \in 0 .. BlkSize - 1 : q = b \div BlkSize /\ t = b % BlkSize /\ b = q * BlkSize + t
  BY DivMod
<1>1. ASSUME q < p PROVE FALSE
  <2>1. q * BlkSize + BlkSize <= p * BlkSize /\ q * BlkSize \in Nat /\ p * BlkSize \in Nat
    BY <1>1, BlocksInOrder
  <2> PICK x \in Nat, y \in Nat : x = p * BlkSize /\ y = q * BlkSize
    BY <2>1
  <2>2. y + BlkSize <= x /\ a = x + r /\ b = y + t /\ BlkSize \in Nat
    BY <2>1, SfsConstants
  <2>3. QED
    BY ONLY <2>2, x \in Nat, y \in Nat, a <= b, r \in 0 .. BlkSize - 1, t \in 0 .. BlkSize - 1
<1>2. QED
  BY <1>1

LEMMA ThreeParts ==
  ASSUME NEW R, NEW x \in Seq(R), NEW y \in Seq(R), NEW z \in Seq(R), NEW p, p = x \o y \o z
  PROVE  /\ p \in Seq(R) /\ Len(p) = Len(x) + Len(y) + Len(z) /\ DOMAIN p = 1 .. Len(p)
         /\ \A k \in 1 .. Len(p) : p[k] = IF k <= Len(x) THEN x[k]
                                        ELSE IF k <= Len(x) + Len(y) THEN y[k - Len(x)]
                                        ELSE z[k - Len(x) - Len(y)]
<1> PICK w : w = x \o y
  OBVIOUS
<1>1. w \in Seq(R) /\ Len(w) = Len(x) + Len(y) /\ \A k \in 1 .. Len(w) : w[k] = IF k <= Len(x) THEN x[k] ELSE y[k - Len(x)]
  OBVIOUS
<1>2. p = w \o z
  OBVIOUS
<1>3. p \in Seq(R) /\ Len(p) = Len(w) + Len(z) /\ DOMAIN p = 1 .. Len(p)
  <2> w \in Seq(R)
    BY <1>1
  <2>1. p \in Seq(R) /\ Len(p) = Len(w) + Len(z)
    BY ONLY p = w \o z, w \in Seq(R), z \in Seq(R), <1>2
  <2>2. QED
    BY ONLY <2>1
<1>4. \A k \in 1 .. Len(p) : p[k] = IF k <= Len(w) THEN w[k] ELSE z[k - Len(w)]
  BY ONLY <1>1, <1>2, z \in Seq(R)
<1>5. Len(x) \in Nat /\ Len(y) \in Nat /\ Len(z) \in Nat
  OBVIOUS
<1>6. ASSUME NEW k \in 1 .. Len(p)
      PROVE  p[k] = IF k <= Len(x) THEN x[k] ELSE IF k <= Len(x) + Len(y) THEN y[k - Len(x)] ELSE z[k - Len(x) - Len(y)]
  <2>1. CASE k <= Len(w)
    <3>1. k \in 1 .. Len(w)
      BY ONLY <1>1, <1>3, <1>5, <2>1, k \in 1 .. Len(p)
    <3>2. QED
      BY ONLY <1>1, <1>4, <2>1, <3>1, <1>5, k \in 1 .. Len(p)
  <2>2. CASE ~(k <= Len(w))
    <3>1. p[k] = z[k - Len(w)] /\ k - Len(w) = k - Len(x) - Len(y) /\ ~(k <= Len(x)) /\ ~(k <= Len(x) + Len(y))
      BY ONLY <1>1, <1>3, <1>4, <1>5, <2>2, k \in 1 .. Len(p)
    <3>2. QED
      BY ONLY <3>1
  <2>3. QED
    BY <2>1, <2>2
<1>7. QED
  BY <1>1, <1>3, <1>6

\* The pieces of a range lie in one block after another, each but the last up to its
\* end, and none goes past the end of the range.
InOrder(p, off, end) ==
  \A k \in DOMAIN p :
    /\ p[k].blk = off \div BlkSize + k - 1 /\ p[k].at = (IF k = 1 THEN off % BlkSize ELSE 0)
    /\ p[k].blk \in Nat /\ p[k].at \in Nat /\ p[k].len \in Nat
    /\ k < Len(p) => p[k].at + p[k].len = BlkSize
    /\ p[k].at + p[k].len <= BlkSize /\ p[k].blk * BlkSize + p[k].at + p[k].len <= end

LEMMA PiecesInOrder ==
  ASSUME NEW off \in Nat, NEW end \in Nat, off <= end
  PROVE  /\ InOrder(Pieces(off, end), off, end)
         /\ Len(Pieces(off, end)) \in Nat /\ DOMAIN Pieces(off, end) = 1 .. Len(Pieces(off, end))
<1> DEFINE blkno  == off \div BlkSize
           nblks  == end \div BlkSize - blkno
           blkoff == off % BlkSize
           head   == IF blkoff = 0 THEN <<>>
                     ELSE <<[blk |-> blkno, at |-> blkoff,
                             len |-> IF nblks # 0 THEN BlkSize - blkoff ELSE end - off]>>
           first  == blkno + Len(head)
           whole  == [k \in 1 .. nblks - Len(head) |->
                        [blk |-> first + k - 1, at |-> 0, len |-> BlkSize]]
           tail   == IF end % BlkSize = 0 THEN <<>>
                     ELSE <<[blk |-> blkno + nblks, at |-> 0, len |-> end % BlkSize]>>
           R == [blk : Nat, at : Nat, len : Nat]
           p == Pieces(off, end)
<1>1. /\ blkno \in Nat /\ nblks \in Nat /\ blkoff \in 0 .. BlkSize - 1 /\ end % BlkSize \in 0 .. BlkSize - 1
      /\ BlkSize \in Nat /\ end - off \in Nat
  <2>1. blkno \in Nat /\ blkoff \in 0 .. BlkSize - 1 /\ end % BlkSize \in 0 .. BlkSize - 1 /\ end \div BlkSize \in Nat
    BY DivMod
  <2>2. blkno <= end \div BlkSize
    BY DivGrows
  <2>3. QED
    BY <2>1, <2>2, SfsConstants
<1>2. p = IF blkoff # 0 /\ nblks = 0 THEN head ELSE head \o whole \o tail
  BY DEF Pieces
<1>2a. /\ off = blkno * BlkSize + blkoff /\ end = (blkno + nblks) * BlkSize + (end % BlkSize)
      /\ (blkno + nblks) * BlkSize \in Nat /\ blkno * BlkSize \in Nat
  <2>1. off = blkno * BlkSize + blkoff /\ end = (end \div BlkSize) * BlkSize + (end % BlkSize)
    BY DivMod
  <2>2. end \div BlkSize \in Nat /\ blkno \in Nat /\ BlkSize \in Nat
    BY <1>1, DivMod
  <2> PICK e \in Nat : e = end \div BlkSize
    BY <2>2
  <2>3. blkno + nblks = e
    BY <2>2
  <2> PICK b \in Nat : b = blkno
    BY <2>2
  <2>4. e * BlkSize \in Nat /\ b * BlkSize \in Nat
    BY ONLY <2>2, e \in Nat, b \in Nat
  <2>5. QED
    BY <2>1, <2>3, <2>4
<1> HIDE DEF blkno, nblks, blkoff
<1>2b. ASSUME NEW k \in Nat, k < nblks
      PROVE  (blkno + k) * BlkSize + BlkSize <= end /\ (blkno + k) * BlkSize \in Nat
  <2> PICK q \in Nat, r \in Nat : q = blkno + k /\ r = blkno + nblks
    BY <1>1
  <2>1. q < r
    BY <1>1, <1>2b
  <2>2. q * BlkSize + BlkSize <= r * BlkSize /\ q * BlkSize \in Nat /\ r * BlkSize \in Nat
    BY <2>1, BlocksInOrder
  <2> PICK x \in Nat, y \in Nat : x = q * BlkSize /\ y = r * BlkSize
    BY <2>2
  <2>3. end = y + (end % BlkSize) /\ x + BlkSize <= y
    BY <1>2a, <2>2
  <2>4. x + BlkSize <= end
    BY ONLY <1>1, <2>3, x \in Nat, y \in Nat
  <2>5. QED
    BY <2>4
<1> DEFINE rest == [blk |-> blkno + nblks, at |-> 0, len |-> end % BlkSize]
           start == [blk |-> blkno, at |-> blkoff, len |-> IF nblks # 0 THEN BlkSize - blkoff ELSE end - off]
<1>3. /\ head \in Seq(R) /\ Len(head) \in 0 .. 1 /\ (Len(head) = 0 <=> blkoff = 0)
      /\ Len(head) = 1 => head[1] = start
  <2>1. start \in R
    BY ONLY <1>1, blkno \in Nat
  <2> HIDE DEF start, R
  <2>2. head = IF blkoff = 0 THEN <<>> ELSE <<start>>
    BY DEF start
  <2> HIDE DEF head
  <2>3. QED
    BY ONLY <2>1, <2>2
<1>4. tail \in Seq(R) /\ Len(tail) \in 0 .. 1 /\ (Len(tail) = 1 => tail[1] = rest)
  <2>1. rest \in R
    BY ONLY <1>1
  <2> HIDE DEF rest, R
  <2>2. tail = IF end % BlkSize = 0 THEN <<>> ELSE <<rest>>
    BY DEF rest
  <2> HIDE DEF tail
  <2>3. QED
    BY ONLY <2>1, <2>2
<1>5. CASE blkoff # 0 /\ nblks = 0
  <2>1. p = head /\ Len(p) = 1 /\ DOMAIN p = 1 .. 1 /\ p[1] = [blk |-> blkno, at |-> blkoff, len |-> end - off]
    BY <1>2, <1>3, <1>5
  <2> HIDE DEF p, head
  <2>2. blkoff + (end - off) <= BlkSize /\ blkno * BlkSize + blkoff + (end - off) <= end /\ end - off \in Nat
    <3> PICK x \in Nat : x = blkno * BlkSize
      BY <1>2a
    <3>1. off = x + blkoff /\ end = x + (end % BlkSize)
      BY <1>1, <1>5, <1>2a
    <3>2. x + blkoff + (end - off) <= end /\ blkoff + (end - off) <= BlkSize
      BY ONLY <1>1, <3>1, x \in Nat
    <3>3. QED
      BY <1>1, <3>2
  <2>3. \A k \in DOMAIN p : k = 1
    BY <2>1
  <2>4. p[1].blk = blkno /\ p[1].at = blkoff /\ p[1].len = end - off
    BY <2>1
  <2>5. blkno + 1 - 1 = blkno /\ ~(1 < Len(p))
    BY <1>1, <2>1
  <2>6. ASSUME NEW k \in DOMAIN p
        PROVE  /\ p[k].blk = blkno + k - 1 /\ p[k].at = (IF k = 1 THEN blkoff ELSE 0)
               /\ p[k].blk \in Nat /\ p[k].at \in Nat /\ p[k].len \in Nat
               /\ k < Len(p) => p[k].at + p[k].len = BlkSize
               /\ p[k].at + p[k].len <= BlkSize /\ p[k].blk * BlkSize + p[k].at + p[k].len <= end
    <3>1. k = 1
      BY <2>3
    <3>2. blkoff \in Nat
      BY <1>1
    <3>3. QED
      BY ONLY <1>1, <2>2, <2>4, <2>5, <3>1, <3>2
  <2>8. InOrder(p, off, end)
    BY ONLY <2>6 DEF InOrder, blkno, blkoff
  <2>7. QED
    BY <2>1, <2>8 DEF p
<1>6. CASE ~(blkoff # 0 /\ nblks = 0)
  <2> PICK h : h = Len(head)
    OBVIOUS
  <2>1. h \in 0 .. 1 /\ nblks - h \in Nat /\ (h = 0 <=> blkoff = 0) /\ (h = 1 => nblks # 0)
    BY <1>1, <1>3, <1>6
  <2>2. whole \in Seq(R) /\ Len(whole) = nblks - h /\ \A k \in 1 .. nblks - h : whole[k] = [blk |-> blkno + h + k - 1, at |-> 0, len |-> BlkSize]
    BY <1>1, <2>1
  <2> HIDE DEF head, whole, tail, p
  <2>3. p = head \o whole \o tail
    BY <1>2, <1>6
  <2>4. /\ p \in Seq(R) /\ Len(p) = nblks + Len(tail)
        /\ DOMAIN p = 1 .. Len(p)
        /\ \A k \in 1 .. Len(p) : p[k] = IF k <= h THEN head[k] ELSE IF k <= nblks THEN whole[k - h] ELSE tail[k - nblks]
    <3> PICK hd \in Seq(R), wh \in Seq(R), tl \in Seq(R) : hd = head /\ wh = whole /\ tl = tail
      BY <1>3, <1>4, <2>2
    <3> HIDE DEF R
    <3>1. /\ p \in Seq(R) /\ Len(p) = Len(hd) + Len(wh) + Len(tl) /\ DOMAIN p = 1 .. Len(p)
          /\ \A k \in 1 .. Len(p) : p[k] = IF k <= Len(hd) THEN hd[k]
                                        ELSE IF k <= Len(hd) + Len(wh) THEN wh[k - Len(hd)]
                                        ELSE tl[k - Len(hd) - Len(wh)]
      BY ONLY <2>3, hd \in Seq(R), wh \in Seq(R), tl \in Seq(R), hd = head, wh = whole, tl = tail, ThreeParts
    <3>2. /\ Len(hd) = h /\ Len(wh) = nblks - h /\ h \in Nat /\ h + (nblks - h) = nblks /\ \A k \in Nat : k - h - (nblks - h) = k - nblks
          /\ Len(p) \in Nat
      BY <1>1, <1>4, <2>1, <2>2, <3>1
    <3>3. ASSUME NEW k \in 1 .. Len(p)
          PROVE  p[k] = IF k <= h THEN hd[k] ELSE IF k <= nblks THEN wh[k - h] ELSE tl[k - nblks]
      <4>1. k \in Nat /\ k - h - (nblks - h) = k - nblks
        BY <3>2
      <4>2. QED
        BY ONLY <3>1, <3>2, <4>1, k \in 1 .. Len(p)
    <3>4. Len(p) = nblks + Len(tl)
      BY ONLY <3>1, <3>2
    <3>5. QED
      BY ONLY <3>1, <3>3, <3>4, hd = head, wh = whole, tl = tail
  <2>5. ASSUME NEW k \in 1 .. Len(p)
        PROVE  /\ p[k].blk = blkno + k - 1 /\ p[k].at = (IF k = 1 THEN blkoff ELSE 0)
               /\ p[k].blk \in Nat /\ p[k].at \in Nat /\ p[k].len \in Nat
               /\ k < Len(p) => p[k].at + p[k].len = BlkSize
               /\ p[k].at + p[k].len <= BlkSize /\ p[k].blk * BlkSize + p[k].at + p[k].len <= end
    <3>1. CASE k <= h
      <4>1. k = 1 /\ h = 1 /\ nblks # 0
        BY <2>1, <3>1
      <4>2. p[k] = start
        BY <1>3, <2>4, <3>1, <4>1
      <4>3. p[k] = [blk |-> blkno, at |-> blkoff, len |-> BlkSize - blkoff]
        BY <4>1, <4>2
      <4>4. blkno * BlkSize + blkoff + (BlkSize - blkoff) <= end
        <5> PICK x \in Nat : x = blkno * BlkSize
          BY <1>2a
        <5>1. (blkno + 0) * BlkSize + BlkSize <= end
          <6>1. 0 \in Nat /\ 0 < nblks
            BY <1>1, <4>1
          <6>2. QED
            BY <1>2b, <6>1
        <5>2. blkno + 0 = blkno
          BY <1>1
        <5>3. x + BlkSize <= end
          BY <5>1, <5>2
        <5>4. x + blkoff + (BlkSize - blkoff) <= end
          BY ONLY <1>1, <5>3, x \in Nat
        <5>5. QED
          BY <5>4
      <4>5. BlkSize - blkoff \in Nat /\ blkoff \in Nat /\ blkoff + (BlkSize - blkoff) = BlkSize /\ blkno + k - 1 = blkno
        BY <1>1, <4>1
      <4>6. QED
        BY <1>1, <4>1, <4>3, <4>4, <4>5
    <3>2. CASE k > h /\ k <= nblks
      <4>1. k - h \in 1 .. nblks - h /\ k \in Nat
        <5>1. nblks \in Nat /\ h \in 0 .. 1
          BY <1>1, <2>1
        <5>2. Len(p) \in Nat
          BY <1>1, <1>4, <2>4
        <5>3. k \in Nat
          BY ONLY <5>2, k \in 1 .. Len(p)
        <5>4. QED
          BY ONLY <5>1, <5>3, <3>2
      <4>2. p[k] = [blk |-> blkno + k - 1, at |-> 0, len |-> BlkSize]
        <5> PICK m \in Nat : m = blkno
          BY <1>1
        <5> HIDE DEF nblks, blkno
        <5>1. ~(k <= h)
          BY ONLY <2>1, <3>2, <4>1
        <5>2. p[k] = whole[k - h]
          BY ONLY <2>4, <3>2, <5>1, k \in 1 .. Len(p)
        <5>3. m + h + (k - h) - 1 = m + k - 1
          BY ONLY <2>1, <4>1, m \in Nat
        <5>4. whole[k - h] = [blk |-> m + h + (k - h) - 1, at |-> 0, len |-> BlkSize]
          BY <2>2, <4>1
        <5>5. QED
          BY <5>2, <5>3, <5>4
      <4>3. k = 1 => blkoff = 0
        BY <2>1, <3>2
      <4>4. (blkno + k - 1) * BlkSize + 0 + BlkSize <= end
        <5>1. k - 1 \in Nat /\ k - 1 < nblks /\ blkno + (k - 1) = blkno + k - 1
          BY <1>1, <3>2, <4>1
        <5>2. (blkno + (k - 1)) * BlkSize + BlkSize <= end /\ (blkno + (k - 1)) * BlkSize \in Nat
          BY <1>2b, <5>1
        <5> PICK x \in Nat : x = (blkno + (k - 1)) * BlkSize
          BY <5>2
        <5>3. x + 0 + BlkSize <= end
          BY <1>1, <5>2
        <5>4. QED
          BY <5>1, <5>3
      <4>5. QED
        BY <1>1, <2>4, <4>2, <4>3, <4>4
    <3>3. CASE k > nblks
      <4>1. k = nblks + 1 /\ Len(tail) = 1 /\ k = Len(p) /\ ~(k <= h)
        <5> PICK l \in 0 .. 1 : l = Len(tail)
          BY <1>4
        <5>1. nblks \in Nat /\ h \in 0 .. 1 /\ nblks - h \in Nat /\ Len(p) = nblks + l
          BY <1>1, <2>1, <2>4
        <5>2. k \in 1 .. nblks + l
          BY <5>1
        <5>3. k \in Nat /\ k <= nblks + l
          BY ONLY <5>1, <5>2, l \in 0 .. 1
        <5>4. l = 1 /\ k = nblks + 1
          BY ONLY <5>1, <5>3, <3>3, l \in 0 .. 1
        <5>5. QED
          BY ONLY <5>1, <5>4, l = Len(tail)
      <4>2. p[k] = tail[1] /\ k = nblks + 1
        BY <1>1, <2>4, <4>1
      <4>3. p[k] = [blk |-> blkno + nblks, at |-> 0, len |-> end % BlkSize]
        BY <1>4, <4>1, <4>2
      <4>4. k = 1 => blkoff = 0
        BY <1>1, <1>6, <4>1
      <4>5. (blkno + nblks) * BlkSize + 0 + (end % BlkSize) <= end
        <5> PICK x \in Nat : x = (blkno + nblks) * BlkSize
          BY <1>2a
        <5>1. end = x + (end % BlkSize)
          BY <1>2a
        <5>2. x + 0 + (end % BlkSize) <= end
          BY ONLY <1>1, <5>1, x \in Nat
        <5>3. QED
          BY <5>2
      <4>6. /\ p[k].blk = blkno + nblks /\ p[k].at = 0 /\ p[k].len = end % BlkSize
            /\ blkno + k - 1 = blkno + nblks
        BY <1>1, <4>1, <4>3
      <4>7. /\ blkno + nblks \in Nat /\ 0 \in Nat /\ end % BlkSize \in Nat /\ 0 + (end % BlkSize) <= BlkSize
            /\ ~(k < Len(p))
        BY <1>1, <4>1
      <4>8. QED
        BY ONLY <4>4, <4>5, <4>6, <4>7
    <3>4. QED
      BY <1>1, <2>1, <2>4, <3>1, <3>2, <3>3
  <2>6. InOrder(p, off, end) /\ Len(p) \in Nat /\ DOMAIN p = 1 .. Len(p)
    <3>1. InOrder(p, off, end)
      BY ONLY <2>4, <2>5 DEF InOrder, blkno, blkoff
    <3>2. QED
      BY <2>4, <3>1
  <2>7. QED
    BY <2>6 DEF p
<1>7. QED
  BY <1>5, <1>6

\* The words of a range, as far as they are written (v is 0 when they are read).
Wrote(s, t, from, upto, v) ==
  \A k \in Index, x \in 0 .. BlkSize - 1 :
    Data(t.sin, t.disk)[k][x] = IF v # 0 /\ from <= k * BlkSize + x /\ k * BlkSize + x < upto THEN v
                                ELSE Data(s.sin, s.disk)[k][x]

\* A part of a read or a write: the words in touched of block b.
PutWords(u, b, touched, v, len) ==
  [u EXCEPT !.disk[b] = [k \in 0 .. BlkSize - 1 |-> IF k \in touched THEN v ELSE @[k]], !.alen = @ + len]

WordsPut(u, w, index, touched, v, len, others, before) ==
  /\ Sound(w, others, before) /\ w.sin = u.sin /\ w.ret = u.ret /\ w.alen = u.alen + len
  /\ \A k \in Index, x \in 0 .. BlkSize - 1 :
       Data(w.sin, w.disk)[k][x] = IF k = index /\ x \in touched THEN v ELSE Data(u.sin, u.disk)[k][x]

LEMMA PutWordsKeeps ==
  ASSUME NEW others, NEW before, NEW u, Sound(u, others, before), NEW index \in Index,
         NEW b \in Blocks, b = At(u.sin, u.disk, index), NEW touched, NEW v \in Nat, NEW len \in Nat
  PROVE  WordsPut(u, PutWords(u, b, touched, v, len), index, touched, v, len, others, before)
<1> PICK w : w = PutWords(u, b, touched, v, len)
  OBVIOUS
<1> PICK i : i = u.sin
  OBVIOUS
<1> PICK p : p = u.disk
  OBVIOUS
<1> PICK c : c = [k \in 0 .. BlkSize - 1 |-> IF k \in touched THEN v ELSE p[b][k]]
  OBVIOUS
<1> PICK q : q = [p EXCEPT ![b] = c]
  OBVIOUS
<1>1. u \in Calls /\ Counted(u) /\ p \in [Blocks -> Contents] /\ u.alen \in Nat /\ p[b] \in [0 .. BlkSize - 1 -> Nat] /\ Mapped(i, p)
  BY CallFields DEF Sound, Counted, Disks, Contents
<1>2. c \in Contents /\ \A x \in 0 .. BlkSize - 1 : c[x] = IF x \in touched THEN v ELSE p[b][x]
  BY <1>1 DEF Contents
<1>3. q \in Disks /\ q[b] = c /\ \A z \in Blocks : z # b => q[z] = p[z]
  BY <1>1, <1>2 DEF Disks
<1> PICK n \in Nat : n = u.alen + len
  BY <1>1
<1>4. w = [u EXCEPT !.disk = q, !.alen = n]
  BY <1>1 DEF Calls, PutWords
<1>5. /\ w \in Calls /\ w.sin = i /\ w.disk = q /\ w.freemap = u.freemap /\ w.unused = u.unused
      /\ w.ino = u.ino /\ w.ret = u.ret /\ w.alen = n
  BY ONLY <1>1, <1>3, <1>4, n \in Nat, i = u.sin DEF Calls
<1>6. /\ i.indirect # b /\ b \notin others /\ i.indirect \in 0 .. NBlocks /\ b # 0
      /\ \A k \in Index : /\ At(i, p, k) \in 0 .. NBlocks /\ (At(i, p, k) = b => k = index)
                          /\ (At(i, p, k) # 0 => At(i, p, k) \in Blocks)
  <2>1. \A k \in Index : k \in Places
    BY KindsOfPlaces
  <2>2. /\ i.indirect \in 0 .. NBlocks /\ i.indirect # b
        /\ \A k \in Index : At(i, p, k) \in 0 .. NBlocks /\ (At(i, p, k) # 0 => At(i, p, k) \in Blocks)
    BY Apart, SfsConstants
  <2>3. b # 0 /\ index \in Places
    BY <2>1, SfsConstants
  <2>4. \A k, l \in Places : At(i, p, k) = At(i, p, l) /\ At(i, p, k) # 0 => k = l
    BY <1>1 DEF Mapped
  <2>5. b \notin others
    BY Apart
  <2>6. QED
    BY ONLY <2>1, <2>2, <2>3, <2>4, <2>5, b = At(u.sin, u.disk, index), i = u.sin, p = u.disk
<1>7. \A k \in Places : At(i, q, k) = At(i, p, k)
  <2> ThreeKinds(i, q) /\ ThreeKinds(i, p)
    BY Kinds
  <2>1. i.indirect # 0 => q[i.indirect] = p[i.indirect]
    BY <1>3, <1>6, SfsConstants
  <2>2. /\ \A k \in 0 .. NDirect - 1 : At(i, q, k) = At(i, p, k)
        /\ At(i, q, Reach) = At(i, p, Reach)
        /\ \A k \in NDirect .. Reach - 1 : At(i, q, k) = At(i, p, k)
    BY ONLY <2>1, ThreeKinds(i, q), ThreeKinds(i, p) DEF ThreeKinds
  <2>3. \A k \in Places : k \in 0 .. NDirect - 1 \/ k = Reach \/ k \in NDirect .. Reach - 1
    BY KindsOfPlaces
  <2>4. QED
    BY <2>2, <2>3
<1>8. Mapped(i, q)
  <2>1. \A k \in 0 .. i.blocks - 1 : k \in Places
    <3>1. i.blocks \in 0 .. Reach
      BY <1>1, CallFields, InodeFields
    <3>2. QED
      BY ONLY <3>1, SfsConstants DEF Places
  <2>2. QED
    BY <1>1, <1>7, <2>1 DEF Mapped
<1>9. Counted(w)
  BY <1>1, <1>5 DEF Counted
<1>10. \A z \in others : z \in Blocks /\ z # b
  BY <1>6 DEF Sound
<1>11. Sound(w, others, before)
  <2>1. \A z \in others : z \notin w.freemap /\ w.disk[z] = before[z]
    BY <1>3, <1>5, <1>10 DEF Sound
  <2>2. QED
    BY <1>5, <1>7, <1>8, <1>9, <2>1 DEF Sound
<1>12. ASSUME NEW k \in Index, NEW x \in 0 .. BlkSize - 1
       PROVE  Data(i, q)[k][x] = IF k = index /\ x \in touched THEN v ELSE Data(i, p)[k][x]
  <2>1. /\ Data(i, q)[k] = IF At(i, q, k) = 0 THEN Zeros ELSE q[At(i, q, k)]
        /\ Data(i, p)[k] = IF At(i, p, k) = 0 THEN Zeros ELSE p[At(i, p, k)]
        /\ At(i, q, k) = At(i, p, k)
    BY <1>7, KindsOfPlaces DEF Data
  <2>2. CASE At(i, p, k) = b
    <3>1. k = index /\ Data(i, q)[k] = c /\ Data(i, p)[k] = p[b]
      BY ONLY <1>3, <1>6, <2>1, <2>2, k \in Index
    <3>2. QED
      BY <1>2, <3>1
  <2>3. CASE At(i, p, k) # b
    <3>1. k # index
      BY <2>3
    <3>2. Data(i, q)[k] = Data(i, p)[k]
      BY ONLY <1>3, <1>6, <2>1, <2>3, k \in Index
    <3>3. QED
      BY <3>1, <3>2
  <2>4. QED
    BY <2>2, <2>3
<1>13. WordsPut(u, w, index, touched, v, len, others, before)
  <2>1. w.sin = u.sin /\ w.ret = u.ret /\ w.alen = u.alen + len
    BY ONLY <1>5, i = u.sin, n = u.alen + len
  <2>2. \A k \in Index, x \in 0 .. BlkSize - 1 :
          Data(w.sin, w.disk)[k][x] = IF k = index /\ x \in touched THEN v ELSE Data(u.sin, u.disk)[k][x]
    BY ONLY <1>5, <1>12, i = u.sin, p = u.disk
  <2>3. QED
    BY ONLY <1>11, <2>1, <2>2 DEF WordsPut
<1>14. QED
  BY <1>13

LEMMA WordNumber ==
  ASSUME NEW k \in Index, NEW x \in 0 .. BlkSize - 1
  PROVE  k * BlkSize + x \in Nat /\ k * BlkSize \in Nat /\ k \in Nat
<1>1. k \in Nat /\ BlkSize \in Nat /\ x \in Nat
  BY SfsConstants DEF Index
<1>2. QED
  BY ONLY <1>1

LEMMA WroteTwice ==
  ASSUME NEW s, NEW t, NEW w, NEW a \in Nat, NEW b \in Nat, NEW c \in Nat, a <= b, b <= c, NEW v,
         Wrote(s, t, a, b, v), Wrote(t, w, b, c, v)
  PROVE  Wrote(s, w, a, c, v)
<1>1. ASSUME NEW k \in Index, NEW x \in 0 .. BlkSize - 1
      PROVE  Data(w.sin, w.disk)[k][x] = IF v # 0 /\ a <= k * BlkSize + x /\ k * BlkSize + x < c THEN v
                                         ELSE Data(s.sin, s.disk)[k][x]
  <2> PICK m \in Nat : m = k * BlkSize + x
    BY WordNumber
  <2>1. /\ Data(t.sin, t.disk)[k][x] = IF v # 0 /\ a <= m /\ m < b THEN v ELSE Data(s.sin, s.disk)[k][x]
        /\ Data(w.sin, w.disk)[k][x] = IF v # 0 /\ b <= m /\ m < c THEN v ELSE Data(t.sin, t.disk)[k][x]
    BY DEF Wrote
  <2>2. (a <= m /\ m < c) <=> ((a <= m /\ m < b) \/ (b <= m /\ m < c))
    OBVIOUS
  <2>3. Data(w.sin, w.disk)[k][x] = IF v # 0 /\ a <= m /\ m < c THEN v ELSE Data(s.sin, s.disk)[k][x]
    BY ONLY <2>1, <2>2
  <2>4. QED
    BY <2>3
<1>2. QED
  BY <1>1 DEF Wrote

\* Nothing is written when no word is in the range.
LEMMA WroteNone ==
  ASSUME NEW s, NEW t, Data(t.sin, t.disk) = Data(s.sin, s.disk), NEW a \in Nat, NEW v
  PROVE  Wrote(s, t, a, a, v)
<1>1. ASSUME NEW k \in Index, NEW x \in 0 .. BlkSize - 1
      PROVE  ~(a <= k * BlkSize + x /\ k * BlkSize + x < a)
  <2> PICK m \in Nat : m = k * BlkSize + x
    BY WordNumber
  <2>1. ~(a <= m /\ m < a)
    OBVIOUS
  <2>2. QED
    BY <2>1
<1>2. QED
  BY <1>1 DEF Wrote

\* A piece is moved, or none of it.
Move(t, piece, v) ==
  LET u == bmap_load(t, piece.blk)
      touched == {k \in 0 .. BlkSize - 1 : v # 0 /\ k >= piece.at /\ k < piece.at + piece.len}
  IN IF t.ret # "ok" THEN t
     ELSE IF u.ret # "ok" THEN u
     ELSE [u EXCEPT !.disk[u.ino] = [k \in 0 .. BlkSize - 1 |-> IF k \in touched THEN v ELSE @[k]],
                    !.alen = @ + piece.len]

OneMoved(t, w, piece, v, others, before) ==
  /\ Kept(t, w, others, before) /\ w.sin.size = t.sin.size
  /\ IF w.ret = "ok"
     THEN /\ t.ret = "ok" /\ w.alen = t.alen + piece.len
          /\ Wrote(t, w, piece.blk * BlkSize + piece.at, piece.blk * BlkSize + piece.at + piece.len, v)
     ELSE w.alen = t.alen /\ Data(w.sin, w.disk) = Data(t.sin, t.disk)

LEMMA MoveOnce ==
  ASSUME NEW others, NEW before, NEW t, Kept(t, t, others, before), NEW v \in Nat,
         NEW piece, piece.blk \in Nat, piece.at \in Nat, piece.len \in Nat, piece.at + piece.len <= BlkSize
  PROVE  OneMoved(t, Move(t, piece, v), piece, v, others, before)
<1> PICK u : u = bmap_load(t, piece.blk)
  OBVIOUS
<1> PICK w : w = Move(t, piece, v)
  OBVIOUS
<1> PICK touched : touched = {k \in 0 .. BlkSize - 1 : v # 0 /\ k >= piece.at /\ k < piece.at + piece.len}
  OBVIOUS
<1>1. w = IF t.ret # "ok" THEN t ELSE IF u.ret # "ok" THEN u ELSE PutWords(u, u.ino, touched, v, piece.len)
  BY DEF Move, PutWords
<1>2. Sound(t, others, before)
  BY DEF Kept
<1>4. CASE t.ret # "ok"
  <2>1. w = t
    BY <1>1, <1>4
  <2>2. QED
    BY <1>4, <2>1 DEF OneMoved
<1>5. CASE t.ret = "ok"
  <2>1. Loaded(t, u, piece.blk, others, before)
    BY <1>2, <1>5, BmapLoad
  <2>2. Kept(t, u, others, before) /\ u.sin.size = t.sin.size /\ u.alen = t.alen /\ Data(u.sin, u.disk) = Data(t.sin, t.disk)
    BY <2>1 DEF Loaded, Kept
  <2>3. CASE u.ret # "ok"
    <3>1. w = u
      BY <1>1, <1>5, <2>3
    <3>2. QED
      BY <2>2, <2>3, <3>1 DEF OneMoved
  <2>4. CASE u.ret = "ok"
    <3>1. Sound(u, others, before) /\ piece.blk \in Index /\ u.ino \in Blocks /\ u.ino = At(u.sin, u.disk, piece.blk)
      BY <2>1, <2>4 DEF Loaded
    <3>2. w = PutWords(u, u.ino, touched, v, piece.len)
      BY <1>1, <1>5, <2>4
    <3>3. WordsPut(u, w, piece.blk, touched, v, piece.len, others, before)
      <4> PICK index \in Index : index = piece.blk
        BY <3>1
      <4> PICK b \in Blocks : b = u.ino
        BY <3>1
      <4> PICK len \in Nat : len = piece.len
        OBVIOUS
      <4>1. Sound(u, others, before) /\ b = At(u.sin, u.disk, index) /\ w = PutWords(u, b, touched, v, len)
        BY <3>1, <3>2
      <4>2. WordsPut(u, w, index, touched, v, len, others, before)
        BY ONLY <4>1, index \in Index, b \in Blocks, v \in Nat, len \in Nat, PutWordsKeeps
      <4>3. QED
        BY <4>2
    <3>4. Kept(t, w, others, before) /\ w.sin.size = t.sin.size /\ w.ret = "ok" /\ w.alen = t.alen + piece.len
      BY <2>2, <2>4, <3>3 DEF WordsPut, Kept
    <3>5. Wrote(t, w, piece.blk * BlkSize + piece.at, piece.blk * BlkSize + piece.at + piece.len, v)
      <4> PICK b \in Nat, at \in Nat, len \in Nat : b = piece.blk /\ at = piece.at /\ len = piece.len
        OBVIOUS
      <4>1. BlkSize \in Nat /\ at + len <= BlkSize
        BY SfsConstants
      <4>2. ASSUME NEW k \in Index, NEW x \in 0 .. BlkSize - 1
            PROVE  (k = b /\ x \in touched) <=> (v # 0 /\ b * BlkSize + at <= k * BlkSize + x /\ k * BlkSize + x < b * BlkSize + at + len)
        <5>1. k \in Nat /\ k * BlkSize \in Nat /\ b * BlkSize \in Nat
          <6>1. k \in Nat /\ k * BlkSize \in Nat
            BY WordNumber
          <6>2. b * BlkSize \in Nat
            BY ONLY <4>1, b \in Nat
          <6>3. QED
            BY <6>1, <6>2
        <5> PICK m \in Nat, p \in Nat : m = k * BlkSize /\ p = b * BlkSize
          BY <5>1
        <5>2. x \in touched <=> (v # 0 /\ x >= at /\ x < at + len)
          OBVIOUS
        <5>3. CASE k = b
          <6>1. m = p
            BY <5>3
          <6>2. (x >= at /\ x < at + len) <=> (p + at <= m + x /\ m + x < p + at + len)
            BY ONLY <6>1, m \in Nat, p \in Nat, at \in Nat, len \in Nat, x \in 0 .. BlkSize - 1, <4>1
          <6>3. QED
            BY <5>2, <5>3, <6>2
        <5>4. CASE k < b
          <6>1. m + BlkSize <= p
            BY <5>1, <5>4, BlocksInOrder
          <6>2. ~(p + at <= m + x) /\ k # b
            BY ONLY <4>1, <5>1, <5>4, <6>1, m \in Nat, p \in Nat, at \in Nat, b \in Nat, x \in 0 .. BlkSize - 1
          <6>3. QED
            BY <6>2
        <5>5. CASE b < k
          <6>1. p + BlkSize <= m
            BY <5>1, <5>5, BlocksInOrder
          <6>2. ~(m + x < p + at + len) /\ k # b
            BY ONLY <4>1, <5>1, <5>5, <6>1, m \in Nat, p \in Nat, at \in Nat, len \in Nat, b \in Nat, x \in 0 .. BlkSize - 1
          <6>3. QED
            BY <6>2
        <5>6. QED
          BY <5>1, <5>3, <5>4, <5>5
      <4>3. \A k \in Index, x \in 0 .. BlkSize - 1 :
              Data(w.sin, w.disk)[k][x] = IF k = b /\ x \in touched THEN v ELSE Data(t.sin, t.disk)[k][x]
        BY <2>2, <3>3 DEF WordsPut
      <4>4. Wrote(t, w, b * BlkSize + at, b * BlkSize + at + len, v)
        BY ONLY <4>2, <4>3 DEF Wrote
      <4>5. QED
        BY <4>4
    <3>6. QED
      BY <1>5, <3>4, <3>5 DEF OneMoved
  <2>5. QED
    BY <2>3, <2>4
<1>6. QED
  BY <1>4, <1>5

\* The loop over the pieces: the words moved are those from the offset on, as many as
\* the count says.
Moves(s, p, v) == FoldLeft(LAMBDA t, piece : Move(t, piece, v), s, p)

LEMMA MoveAll ==
  ASSUME NEW others, NEW before, NEW s, Sound(s, others, before), s.ret = "ok", s.alen = 0, NEW v \in Nat,
         NEW off \in Nat, NEW end \in Nat, off <= end,
         NEW p, InOrder(p, off, end), Len(p) \in Nat, DOMAIN p = 1 .. Len(p),
         NEW w, w = Moves(s, p, v)
  PROVE  /\ Kept(s, w, others, before) /\ w.sin.size = s.sin.size
         /\ Wrote(s, w, off, off + w.alen, v) /\ off + w.alen <= end
<1> DEFINE n == Len(p)
           D == DOMAIN p
           Moved(t) == Wrote(s, t, off, off + t.alen, v) /\ off + t.alen <= end
           op(t, k) == Move(t, p[k], v)
           Rec(it) == [u \in SUBSET D |-> IF u = {} THEN s ELSE op(it[u \ {Max(u)}], Max(u))]
           iter == CHOOSE it : it = Rec(it)
           X == {t \in Calls : Kept(s, t, others, before) /\ t.sin.size = s.sin.size}
           Upto1(k) == IF k = 0 THEN off ELSE p[k].blk * BlkSize + p[k].at + p[k].len
           P == [k \in 0 .. n |-> {t \in X : Moved(t) /\ (t.ret = "ok" => off + t.alen = Upto1(k))}]
<1>1. D = 1 .. n /\ s \in Calls /\ n \in Nat /\ s.sin \in Inodes
  BY CallFields DEF Sound, Counted
<1>2. w = iter[D]
  BY DEF Moves, FoldLeft, MapThenFoldSet
<1>3. \A k \in 1 .. n : /\ p[k].blk \in Nat /\ p[k].at \in Nat /\ p[k].len \in Nat
                         /\ p[k].at + p[k].len <= BlkSize /\ p[k].blk * BlkSize + p[k].at + p[k].len <= end
  BY DEF InOrder
<1>4. \A t \in X : \A k \in 1 .. n : op(t, k) \in X /\ OneMoved(t, op(t, k), p[k], v, others, before)
  <2> SUFFICES ASSUME NEW t \in X, NEW k \in 1 .. n
               PROVE  op(t, k) \in X /\ OneMoved(t, op(t, k), p[k], v, others, before)
    OBVIOUS
  <2> PICK x : x = op(t, k)
    OBVIOUS
  <2>1. Kept(s, t, others, before) /\ t \in Calls /\ t.sin.size = s.sin.size /\ t.sin \in Inodes
    BY CallFields
  <2>2. Kept(t, t, others, before)
    <3>1. Clean(t.sin, t.sin)
      <4>1. t.sin.blocks \in Nat
        BY <2>1, InodeFields, SfsConstants
      <4>2. QED
        BY <4>1 DEF Clean, SameMap
    <3>2. QED
      BY <2>1, <3>1 DEF Kept
  <2>3. OneMoved(t, x, p[k], v, others, before)
    BY <1>3, <2>2, MoveOnce
  <2>4. Kept(t, x, others, before) /\ x.sin.size = s.sin.size
    BY <2>1, <2>3 DEF OneMoved
  <2>5. x \in Calls /\ x.sin \in Inodes
    BY <2>4, CallFields DEF Kept, Sound, Counted
  <2>6. Clean(s.sin, x.sin)
    <3>1. Clean(s.sin, t.sin) /\ Clean(t.sin, x.sin)
      BY <2>1, <2>4 DEF Kept
    <3>2. QED
      BY <1>1, <2>1, <2>5, <3>1, CleanTwice
  <2>7. Kept(s, x, others, before)
    BY <2>4, <2>6 DEF Kept
  <2>8. QED
    BY <2>3, <2>4, <2>5, <2>7
<1>5. s \in X /\ Wrote(s, s, off, off + s.alen, v) /\ off + s.alen <= end
  <2>1. Clean(s.sin, s.sin)
    <3>1. s.sin.blocks \in Nat
      BY <1>1, InodeFields, SfsConstants
    <3>2. QED
      BY <3>1 DEF Clean, SameMap
  <2>2. s \in X
    BY <1>1, <2>1 DEF Kept
  <2>3. off + s.alen = off
    OBVIOUS
  <2>4. QED
    BY <2>2, <2>3, WroteNone
<1>5a. Moved(s)
  BY <1>5
<1> HIDE DEF op, X, Moved
<1>6. \E it : it = Rec(it)
  <2> DEFINE step == [z \in X \X (1 .. n) |-> op(z[1], z[2])]
  <2>1. step \in [X \X (1 .. n) -> X]
    BY <1>4
  <2> HIDE DEF step
  <2>2. PICK g : Loops(g, n, X, s, step)
    BY <1>1, <1>5, <2>1, LoopRecursion
  <2>3. g \in [SUBSET (1 .. n) -> X] /\ g[{}] = s
    BY <2>2 DEF Loops
  <2>4. ASSUME NEW u \in SUBSET (1 .. n), u # {} PROVE g[u] = op(g[u \ {Max(u)}], Max(u))
    <3>1. Max(u) \in 1 .. n /\ g[u \ {Max(u)}] \in X
      BY <1>1, <2>3, <2>4, MaxIsGreatest
    <3>2. g[u] = step[<<g[u \ {Max(u)}], Max(u)>>]
      BY <2>2, <2>4 DEF Loops
    <3>3. QED
      BY <3>1, <3>2 DEF step
  <2> HIDE DEF D
  <2>5. g = Rec(g)
    BY <1>1, <2>3, <2>4
  <2> HIDE DEF Rec
  <2>6. QED
    BY <2>5
<1>7. iter = Rec(iter)
  <2> HIDE DEF Rec
  <2>1. QED
    BY <1>6
<1> HIDE DEF iter
<1>8. iter[1 .. 0] \in P[0]
  <2>1. iter[1 .. 0] = s
    BY <1>1, <1>7
  <2>2. off + s.alen = Upto1(0)
    OBVIOUS
  <2> HIDE DEF Upto1
  <2>3. QED
    BY <1>5a, <1>1, <1>5, <2>1, <2>2
<1>9. ASSUME NEW k \in 1 .. n, iter[1 .. (k - 1)] \in P[k - 1] PROVE iter[1 .. k] \in P[k]
  <2> DEFINE t == iter[1 .. (k - 1)]
             x == iter[1 .. k]
  <2>1. x = op(t, k)
    <3>1. k \in Nat \ {0}
      OBVIOUS
    <3>2. Max(1 .. k) = k /\ (1 .. k) \ {Max(1 .. k)} = 1 .. (k - 1) /\ 1 .. k # {}
      BY <3>1, MaxOfInterval
    <3>3. 1 .. k \in SUBSET D
      BY <1>1
    <3> HIDE DEF D
    <3>4. QED
      BY <1>7, <3>2, <3>3
  <2> HIDE DEF t, x
  <2>2. /\ t \in X /\ Wrote(s, t, off, off + t.alen, v) /\ off + t.alen <= end
        /\ t.ret = "ok" => off + t.alen = Upto1(k - 1)
    <3>1. k - 1 \in 0 .. n
      BY <1>1
    <3> HIDE DEF Upto1
    <3>2. t \in X /\ Moved(t) /\ (t.ret = "ok" => off + t.alen = Upto1(k - 1))
      BY <1>9, <3>1 DEF t
    <3>3. QED
      BY <3>2 DEF Moved
  <2>3. x \in X /\ OneMoved(t, x, p[k], v, others, before)
    BY <1>4, <2>1, <2>2
  <2>4. t.alen \in Nat /\ x.alen \in Nat
    BY <2>2, <2>3, CallFields DEF X
  <2>5. Upto1(k - 1) + p[k].len = Upto1(k)
    <3>1. /\ p[k].blk = off \div BlkSize + k - 1 /\ p[k].at = (IF k = 1 THEN off % BlkSize ELSE 0)
          /\ p[k].blk \in Nat /\ p[k].len \in Nat
      BY DEF InOrder
    <3> PICK m \in Nat : m = off \div BlkSize
      BY DivMod
    <3>2. CASE k = 1
      <4>1. off = m * BlkSize + (off % BlkSize) /\ m * BlkSize \in Nat /\ off % BlkSize \in Nat
        <5>1. off = m * BlkSize + (off % BlkSize) /\ off % BlkSize \in 0 .. BlkSize - 1
          BY DivMod
        <5>2. m * BlkSize \in Nat
          <6>1. BlkSize \in Nat
            BY SfsConstants
          <6>2. QED
            BY ONLY <6>1, m \in Nat
        <5>3. QED
          BY <5>1, <5>2
      <4>2. p[k].blk = m /\ p[k].at = off % BlkSize /\ Upto1(k - 1) = off
        BY <3>1, <3>2
      <4>3. QED
        BY <3>1, <3>2, <4>1, <4>2
    <3>3. CASE k # 1
      <4>1. k - 1 \in 1 .. n /\ k - 1 < n
        BY <1>1, <3>3
      <4>2. /\ p[k - 1].blk = m + (k - 1) - 1 /\ p[k - 1].at + p[k - 1].len = BlkSize
            /\ p[k - 1].at \in Nat /\ p[k - 1].len \in Nat /\ p[k - 1].blk \in Nat
        BY <4>1 DEF InOrder
      <4>3. p[k].blk = p[k - 1].blk + 1 /\ p[k].at = 0
        <5>1. k \in Nat
          BY <1>1
        <5>2. QED
          BY <3>1, <3>3, <4>2, <5>1
      <4> PICK b \in Nat, a \in Nat, l \in Nat : b = p[k - 1].blk /\ a = p[k - 1].at /\ l = p[k - 1].len
        BY <4>2
      <4>4. (b + 1) * BlkSize = b * BlkSize + BlkSize /\ b * BlkSize \in Nat /\ BlkSize \in Nat
        <5>1. BlkSize \in Nat
          BY SfsConstants
        <5>2. QED
          BY ONLY <5>1, b \in Nat
      <4>5. Upto1(k - 1) = b * BlkSize + a + l /\ a + l = BlkSize
        BY <4>1, <4>2
      <4>6. Upto1(k) = (b + 1) * BlkSize + 0 + p[k].len
        BY <1>1, <4>3
      <4> HIDE DEF Upto1
      <4> PICK c \in Nat, e \in Nat : c = b * BlkSize /\ e = p[k].len
        BY <3>1, <4>4
      <4>7. Upto1(k - 1) = c + a + l /\ Upto1(k) = (c + BlkSize) + 0 + e /\ BlkSize \in Nat /\ a + l = BlkSize
        BY <4>4, <4>5, <4>6
      <4>8. QED
        BY ONLY <4>7, c \in Nat, e \in Nat, a \in Nat, l \in Nat, e = p[k].len
    <3>4. QED
      BY <3>2, <3>3
  <2>6. IF x.ret = "ok"
        THEN t.ret = "ok" /\ x.alen = t.alen + p[k].len /\ Wrote(t, x, p[k].blk * BlkSize + p[k].at, Upto1(k), v)
        ELSE x.alen = t.alen /\ Data(x.sin, x.disk) = Data(t.sin, t.disk)
    <3>1. Upto1(k) = p[k].blk * BlkSize + p[k].at + p[k].len
      OBVIOUS
    <3> HIDE DEF Upto1
    <3>2. QED
      BY <2>3, <3>1 DEF OneMoved
  <2>7. p[k].len \in Nat /\ Upto1(k) <= end
    BY <1>3
  <2>7a. p[k].blk * BlkSize + p[k].at = Upto1(k) - p[k].len /\ p[k].blk * BlkSize + p[k].at \in Nat
    <3>1. p[k].blk \in Nat /\ p[k].at \in Nat /\ BlkSize \in Nat
      BY <1>3, SfsConstants
    <3> PICK b \in Nat : b = p[k].blk
      BY <3>1
    <3>2. b * BlkSize \in Nat
      BY ONLY <3>1, b \in Nat
    <3> PICK m \in Nat : m = b * BlkSize
      BY <3>2
    <3> PICK a \in Nat, l \in Nat : a = p[k].at /\ l = p[k].len
      BY <2>7, <3>1
    <3>3. Upto1(k) = m + a + l
      BY <1>1
    <3> HIDE DEF Upto1
    <3>4. m + a = Upto1(k) - l /\ m + a \in Nat
      BY ONLY <3>3, m \in Nat, a \in Nat, l \in Nat
    <3>5. p[k].blk * BlkSize = m /\ p[k].at = a /\ p[k].len = l
      OBVIOUS
    <3>6. QED
      BY ONLY <3>4, <3>5
  <2> HIDE DEF Upto1
  <2>8. CASE x.ret = "ok"
    <3>1. off + x.alen = Upto1(k) /\ off + t.alen <= off + x.alen /\ p[k].blk * BlkSize + p[k].at = off + t.alen
      <4> PICK a \in Nat, b \in Nat, l \in Nat : a = t.alen /\ b = x.alen /\ l = p[k].len
        BY <2>4, <2>7
      <4> PICK u, y : u = Upto1(k) /\ y = Upto1(k - 1)
        OBVIOUS
      <4>1. y = off + a /\ u = y + l /\ b = a + l
        BY <2>2, <2>5, <2>6, <2>8
      <4>2. off + b = u /\ off + a <= off + b /\ u - l = off + a
        BY ONLY <4>1, off \in Nat, a \in Nat, b \in Nat, l \in Nat
      <4>3. QED
        BY <2>7a, <4>2
    <3>2. off + t.alen \in Nat /\ off + x.alen \in Nat /\ off <= off + t.alen
      BY <2>4
    <3>3. Wrote(t, x, off + t.alen, off + x.alen, v)
      BY <2>6, <2>8, <3>1
    <3>4. Wrote(s, x, off, off + x.alen, v)
      <4> PICK b \in Nat, c \in Nat : b = off + t.alen /\ c = off + x.alen
        BY <3>2
      <4>1. off <= b /\ b <= c /\ Wrote(s, t, off, b, v) /\ Wrote(t, x, b, c, v)
        BY <2>2, <3>1, <3>2, <3>3
      <4>2. Wrote(s, x, off, c, v)
        BY ONLY <4>1, off \in Nat, b \in Nat, c \in Nat, WroteTwice
      <4>3. QED
        BY <4>2
    <3>5. off + x.alen <= end
      BY <2>7, <3>1
    <3>6. Moved(x)
      BY <3>4, <3>5 DEF Moved
    <3>7. QED
      BY <1>1, <2>3, <3>1, <3>6 DEF x
  <2>9. CASE x.ret # "ok"
    <3>1. x.alen = t.alen /\ Data(x.sin, x.disk) = Data(t.sin, t.disk)
      BY <2>6, <2>9
    <3>2. Wrote(s, x, off, off + x.alen, v) /\ off + x.alen <= end
      BY <2>2, <3>1 DEF Wrote
    <3>3. Moved(x)
      BY <3>2 DEF Moved
    <3>4. QED
      BY <1>1, <2>3, <2>9, <3>3 DEF x
  <2>10. QED
    BY <2>8, <2>9
<1>10. iter[1 .. n] \in P[n]
  <2> HIDE DEF P
  <2>1. QED
    BY <1>1, <1>8, <1>9, LoopInvariant
<1> HIDE DEF Upto1
<1>11. iter[D] \in X /\ Moved(iter[D])
  BY <1>1, <1>10
<1>12. QED
  BY <1>2, <1>11 DEF X, Moved

\* What a read or a write comes to.
IoDone(s, w, off, n, v) ==
  /\ w.sin.size = IF off < MaxSize /\ off + w.alen > s.sin.size THEN off + w.alen ELSE s.sin.size
  /\ w.alen <= n /\ (off < MaxSize => off + w.alen <= MaxSize) /\ (off >= MaxSize => w.alen = 0)
  /\ Wrote(s, w, off, off + w.alen, v)

LEMMA IoNolock ==
  ASSUME NEW others, NEW before, NEW s, Sound(s, others, before), s.ret = "ok", s.alen = 0, NEW v \in Nat,
         NEW off \in Nat, NEW n \in Nat
  PROVE  /\ Kept(s, io_nolock(s, off, n, v), others, before)
         /\ IoDone(s, io_nolock(s, off, n, v), off, n, v)
<1> PICK w : w = io_nolock(s, off, n, v)
  OBVIOUS
<1> PICK end : end = Min({off + n, MaxSize})
  OBVIOUS
<1> PICK t : t = Moves(s, Pieces(off, end), v)
  OBVIOUS
<1>1. w = IF off >= MaxSize THEN Failed(s, "invalid")
          ELSE IF off + t.alen > t.sin.size THEN Resize(t, off + t.alen) ELSE t
  BY DEF io_nolock, Moves, Move, Resize
<1>2. s.sin.size \in Nat /\ MaxSize \in Nat
  BY SfsAssumption, CallFields, InodeFields DEF Sound, Counted
<1>3. CASE off >= MaxSize
  <2> PICK why \in Rets : why = "invalid"
    BY DEF Rets
  <2>1. w = Failed(s, why)
    BY <1>1, <1>3
  <2>2. GaveUp(s, w, why, others, before)
    BY <2>1, GivesUp
  <2>3. Kept(s, w, others, before) /\ w.alen = 0 /\ w.sin = s.sin /\ Data(w.sin, w.disk) = Data(s.sin, s.disk)
    BY <2>2 DEF GaveUp, Kept
  <2>4. Wrote(s, w, off, off, v)
    BY <2>3, WroteNone
  <2>5. off + w.alen = off /\ w.alen <= n /\ ~(off < MaxSize)
    BY <1>2, <1>3, <2>3
  <2>6. IoDone(s, w, off, n, v)
    BY <2>3, <2>4, <2>5 DEF IoDone
  <2>7. QED
    BY <2>3, <2>6
<1>4. CASE off < MaxSize
  <2>1. end \in Nat /\ off <= end /\ end <= off + n /\ end <= MaxSize
    <3>1. {off + n, MaxSize} \in SUBSET Nat /\ {off + n, MaxSize} # {}
      BY <1>2
    <3>2. end \in {off + n, MaxSize} /\ \A m \in {off + n, MaxSize} : end <= m
      BY <3>1, MinIsLeast
    <3>3. QED
      BY <1>2, <1>4, <3>2
  <2> PICK p : p = Pieces(off, end)
    OBVIOUS
  <2>2. InOrder(p, off, end) /\ Len(p) \in Nat /\ DOMAIN p = 1 .. Len(p)
    BY <2>1, PiecesInOrder
  <2>3. t = Moves(s, p, v)
    OBVIOUS
  <2>4. /\ Kept(s, t, others, before) /\ t.sin.size = s.sin.size
        /\ Wrote(s, t, off, off + t.alen, v) /\ off + t.alen <= end
    BY <2>1, <2>2, <2>3, MoveAll
  <2>5. t.alen \in Nat /\ t.sin.size \in Nat /\ Sound(t, others, before)
    BY <2>4, CallFields, InodeFields DEF Kept, Sound, Counted
  <2> PICK len \in Nat : len = off + t.alen
    BY <2>5
  <2>6. t.alen <= n /\ off + t.alen <= MaxSize
    BY <1>2, <2>1, <2>4, <2>5
  <2>7. CASE len > t.sin.size
    <3>1. w = Resize(t, len)
      BY <1>1, <1>2, <1>4, <2>7
    <3>2. Resized(t, w, len, others, before)
      BY <2>5, <3>1, ResizeKeeps
    <3>3. Kept(s, w, others, before)
      BY <2>4, <3>2 DEF Kept, Resized, Clean
    <3>4. /\ w.sin.size = len /\ w.alen = t.alen /\ Data(w.sin, w.disk) = Data(t.sin, t.disk)
          /\ off + w.alen > s.sin.size
      BY <2>4, <2>7, <3>2 DEF Resized
    <3>5. Wrote(s, w, off, off + w.alen, v)
      BY ONLY <2>4, <3>4 DEF Wrote
    <3>6. off >= MaxSize => w.alen = 0
      BY <1>2, <1>4
    <3>7. IoDone(s, w, off, n, v)
      BY ONLY <1>4, <2>6, <3>4, <3>5, <3>6, len = off + t.alen DEF IoDone
    <3>8. QED
      BY <3>3, <3>7
  <2>8. CASE ~(len > t.sin.size)
    <3>1. w = t
      BY <1>1, <1>2, <1>4, <2>8
    <3>2. off >= MaxSize => w.alen = 0
      BY <1>2, <1>4
    <3>3. IoDone(s, w, off, n, v)
      BY ONLY <1>4, <2>4, <2>6, <2>8, <3>1, <3>2, len = off + t.alen DEF IoDone
    <3>4. QED
      BY <2>4, <3>1, <3>3
  <2>9. QED
    BY <2>7, <2>8
<1>5. QED
  BY <1>2, <1>3, <1>4
-----------------------------------------------------------------------------
\* All files: every block is free or stands at one place of one inode.
Owned(ino, d, free) ==
  /\ \A f \in FileIds : Mapped(ino[f], d)
  /\ \A f \in FileIds : \A k \in Places : At(ino[f], d, k) \notin free
  /\ \A f, g \in FileIds : \A k, l \in Places : At(ino[f], d, k) = At(ino[g], d, l) /\ At(ino[f], d, k) # 0 => f = g
  /\ \A b \in Blocks : b \in free \/ \E f \in FileIds : \E k \in Places : At(ino[f], d, k) = b

Others(ino, d, f) == {b \in Blocks : \E g \in FileIds \ {f} : \E k \in Places : At(ino[g], d, k) = b}

CallOn(i, d, free, count) ==
  [sin |-> i, disk |-> d, freemap |-> free, unused |-> count, ino |-> 0, ret |-> "ok", alen |-> 0]

\* A call on one file begins in a sound state.
LEMMA CallBegins ==
  ASSUME NEW ino \in [FileIds -> Inodes], NEW d \in Disks, NEW free \in SUBSET Blocks,
         Owned(ino, d, free), NEW f \in FileIds
  PROVE  Sound(CallOn(ino[f], d, free, Cardinality(free)), Others(ino, d, f), d)
<1> PICK s : s = CallOn(ino[f], d, free, Cardinality(free))
  OBVIOUS
<1> PICK others : others = Others(ino, d, f)
  OBVIOUS
<1>1. /\ s.sin = ino[f] /\ s.disk = d /\ s.freemap = free /\ s.unused = Cardinality(free)
      /\ s.ino = 0 /\ s.ret = "ok" /\ s.alen = 0
  BY DEF CallOn
<1>2. Cardinality(free) \in Nat
  BY SfsConstants, FS_Subset, FS_CardinalityType
<1>3. 0 \in 0 .. NBlocks /\ "ok" \in Rets
  BY SfsConstants DEF Rets
<1>4. Counted(s)
  <2>1. s = [sin |-> ino[f], disk |-> d, freemap |-> free, unused |-> Cardinality(free),
             ino |-> 0, ret |-> "ok", alen |-> 0]
    BY DEF CallOn
  <2>2. s \in Calls
    BY <1>2, <1>3, <2>1 DEF Calls
  <2>3. QED
    BY ONLY <1>1, <2>2 DEF Counted
<1>5. Mapped(s.sin, s.disk)
  BY <1>1 DEF Owned
<1>6. others \subseteq Blocks /\ \A b \in others : b # 0 /\ \E g \in FileIds \ {f} : \E k \in Places : At(ino[g], d, k) = b
  BY SfsConstants DEF Others
<1>7. \A b \in others : b \notin s.freemap /\ s.disk[b] = d[b]
  BY <1>1, <1>6 DEF Owned
<1>8. \A k \in Places : At(s.sin, s.disk, k) \notin s.freemap \cup others
  BY <1>1, <1>6 DEF Owned
<1>9. \A b \in Blocks : b \in s.freemap \cup others \/ \E k \in Places : At(s.sin, s.disk, k) = b
  BY <1>1 DEF Owned, Others
<1>10. QED
  BY <1>4, <1>5, <1>6, <1>7, <1>8, <1>9 DEF Sound

\* What a call leaves alone: the places of the other files and what they hold.
LEMMA OthersKept ==
  ASSUME NEW ino \in [FileIds -> Inodes], NEW d \in Disks, NEW free \in SUBSET Blocks,
         Owned(ino, d, free), NEW f \in FileIds, NEW s, Sound(s, Others(ino, d, f), d),
         NEW g \in FileIds \ {f}
  PROVE  /\ \A k \in Places : At(ino[g], s.disk, k) = At(ino[g], d, k)
         /\ Data(ino[g], s.disk) = Data(ino[g], d)
<1> PICK others : others = Others(ino, d, f)
  OBVIOUS
<1> PICK i : i = ino[g]
  OBVIOUS
<1>1. \A b \in others : s.disk[b] = d[b]
  BY DEF Sound
<1>2. \A k \in Places : At(i, d, k) # 0 => At(i, d, k) \in others
  <2>1. \A k \in Places : At(i, d, k) # 0 => At(i, d, k) \in Blocks
    BY SfsConstants DEF Owned, Mapped
  <2>2. QED
    BY <2>1 DEF Others
<1>3. Reach \in Places /\ ~(Reach < NDirect) /\ \A k \in Index : k \in Places
  BY SfsConstants DEF Places, Index
<1>4. At(i, d, Reach) = i.indirect
  BY <1>3 DEF At
<1>5. i.indirect # 0 => s.disk[i.indirect] = d[i.indirect]
  BY <1>1, <1>2, <1>3, <1>4
<1>6. \A k : At(i, s.disk, k) = At(i, d, k)
  BY ONLY <1>5 DEF At
<1>7. \A k \in Index : (IF At(i, s.disk, k) = 0 THEN Zeros ELSE s.disk[At(i, s.disk, k)])
                       = (IF At(i, d, k) = 0 THEN Zeros ELSE d[At(i, d, k)])
  BY ONLY <1>1, <1>2, <1>3, <1>6
<1>8. Data(i, s.disk) = Data(i, d)
  BY ONLY <1>7 DEF Data
<1>9. QED
  BY <1>6, <1>8

WithInode(ino, f, i) == [ino EXCEPT ![f] = i]

\* A call ends with every block owned once again.
LEMMA CallEnds ==
  ASSUME NEW ino \in [FileIds -> Inodes], NEW d \in Disks, NEW free \in SUBSET Blocks,
         Owned(ino, d, free), NEW f \in FileIds, NEW s, Sound(s, Others(ino, d, f), d)
  PROVE  Owned(WithInode(ino, f, s.sin), s.disk, s.freemap)
<1> PICK others : others = Others(ino, d, f)
  OBVIOUS
<1> PICK new : new = WithInode(ino, f, s.sin)
  OBVIOUS
<1> DEFINE A(g, k) == At(new[g], s.disk, k)
           B(g, k) == At(ino[g], d, k)
<1>1. new[f] = s.sin /\ \A g \in FileIds \ {f} : new[g] = ino[g]
  BY DEF WithInode
<1>2. \A g \in FileIds \ {f} : \A k \in Places : A(g, k) = B(g, k)
  BY <1>1, OthersKept
<1>3. \A g \in FileIds \ {f} : \A k \in Places : B(g, k) # 0 => B(g, k) \in others
  <2>1. \A g \in FileIds : \A k \in Places : B(g, k) # 0 => B(g, k) \in Blocks
    BY SfsConstants DEF Owned, Mapped
  <2>2. QED
    BY <2>1 DEF Others
<1>4. \A b \in others : b \notin s.freemap
  BY DEF Sound
<1>5. \A k \in Places : A(f, k) \notin s.freemap /\ A(f, k) \notin others
  BY <1>1 DEF Sound
<1>6. 0 \notin s.freemap
  BY SfsConstants, CallFields DEF Sound, Counted
<1>7. \A g \in FileIds : \A k \in Places : A(g, k) \notin s.freemap
  <2>1. \A g \in FileIds \ {f} : \A k \in Places : A(g, k) \notin s.freemap
    BY ONLY <1>2, <1>3, <1>4, <1>6
  <2>2. QED
    BY ONLY <1>5, <2>1
<1>8. \A g \in FileIds : Mapped(new[g], s.disk)
  <2>1. Mapped(new[f], s.disk)
    BY <1>1 DEF Sound
  <2>2. ASSUME NEW g \in FileIds \ {f} PROVE Mapped(new[g], s.disk)
    <3>1. Mapped(ino[g], d) /\ ino[g] \in Inodes
      BY DEF Owned
    <3>2. new[g] = ino[g] /\ \A k \in Places : A(g, k) = B(g, k)
      BY <1>1, <1>2
    <3>3. \A k \in 0 .. ino[g].blocks - 1 : k \in Places
      BY <3>1, InodeFields, SfsConstants DEF Places
    <3>4. QED
      BY ONLY <3>1, <3>2, <3>3 DEF Mapped
  <2>3. QED
    BY <2>1, <2>2
<1>9. \A g, h \in FileIds : \A k, l \in Places : A(g, k) = A(h, l) /\ A(g, k) # 0 => g = h
  <2>1. \A g, h \in FileIds : \A k, l \in Places : B(g, k) = B(h, l) /\ B(g, k) # 0 => g = h
    BY DEF Owned
  <2>2. \A g \in FileIds \ {f} : \A k, l \in Places : A(g, k) = A(f, l) => A(g, k) = 0
    BY ONLY <1>2, <1>3, <1>5
  <2> HIDE DEF A, B
  <2>3. ASSUME NEW g \in FileIds, NEW h \in FileIds, NEW k \in Places, NEW l \in Places,
               A(g, k) = A(h, l), A(g, k) # 0, g # h
        PROVE  FALSE
    <3>1. CASE g = f
      BY ONLY <2>2, <2>3, <3>1
    <3>2. CASE h = f
      BY ONLY <2>2, <2>3, <3>2
    <3>3. CASE g # f /\ h # f
      BY ONLY <1>2, <2>1, <2>3, <3>3
    <3>4. QED
      BY <3>1, <3>2, <3>3
  <2>4. QED
    BY ONLY <2>3
<1>10. \A b \in Blocks : b \in s.freemap \/ \E g \in FileIds : \E k \in Places : A(g, k) = b
  <2>1. \A b \in Blocks : b \in s.freemap \/ b \in others \/ \E k \in Places : A(f, k) = b
    BY <1>1 DEF Sound
  <2>2. \A b \in others : \E g \in FileIds \ {f} : \E k \in Places : B(g, k) = b
    BY DEF Others
  <2> HIDE DEF A, B
  <2>3. QED
    BY ONLY <1>2, <2>1, <2>2, f \in FileIds
<1>11. QED
  BY <1>7, <1>8, <1>9, <1>10 DEF Owned
-----------------------------------------------------------------------------
(* The inductive invariant. *)
Inode == [f \in FileIds |-> load_inode(f)]

TypeCorrect ==
  /\ ondisk \in [FileIds -> Inodes] /\ sin \in [FileIds -> Inodes \cup {NoInode}]
  /\ disk \in Disks /\ freemap \in SUBSET Blocks
  /\ fd \in [Fds -> OpenFiles \cup {NoFd}] /\ short \in BOOLEAN

Owners == Owned(Inode, disk, freemap) /\ unused = Cardinality(freemap)

\* An inode on disk may be old only if the one in memory is dirty, but for the count
\* of its blocks.
Copies ==
  \A f \in FileIds : ~ondisk[f].dirty /\ (sin[f] # NoInode /\ ~sin[f].dirty => SameMap(ondisk[f], sin[f]))

InMemory == panic = "no" => \A d \in Fds : fd[d] # NoFd => sin[fd[d].file] # NoInode

PastSize(i, d) ==
  \A k \in Index, x \in 0 .. BlkSize - 1 : k * BlkSize + x >= i.size => Data(i, d)[k][x] = 0

Reached(i) == i.size <= i.blocks * BlkSize

Tails ==
  \/ short
  \/ \A f \in FileIds : /\ Reached(load_inode(f)) /\ PastSize(load_inode(f), disk)
                        /\ sin[f] # NoInode /\ ~sin[f].dirty => Reached(ondisk[f])

SfsInv == TypeCorrect /\ Owners /\ Copies /\ InMemory /\ Tails /\ OnlyKnownPanics

LEMMA StateBegins ==
  ASSUME SfsInv, NEW f \in FileIds
  PROVE  /\ Sound(State(f), Others(Inode, disk, f), disk)
         /\ State(f).sin = Inode[f] /\ State(f).disk = disk /\ State(f).ret = "ok" /\ State(f).alen = 0
         /\ Inode \in [FileIds -> Inodes] /\ Inode[f] = load_inode(f)
<1> PICK i : i = load_inode(f)
  OBVIOUS
<1>1. Inode \in [FileIds -> Inodes] /\ Inode[f] = i
  BY DEF SfsInv, TypeCorrect, Inode, load_inode
<1>2. /\ State(f).sin = i /\ State(f).disk = disk /\ State(f).ret = "ok" /\ State(f).alen = 0
      /\ State(f) = CallOn(i, disk, freemap, unused)
  BY DEF State, CallOn
<1>3. unused = Cardinality(freemap) /\ Owned(Inode, disk, freemap) /\ disk \in Disks /\ freemap \in SUBSET Blocks
  BY DEF SfsInv, Owners, TypeCorrect
<1>4. Sound(CallOn(Inode[f], disk, freemap, Cardinality(freemap)), Others(Inode, disk, f), disk)
  BY <1>1, <1>3, CallBegins
<1>5. QED
  BY <1>1, <1>2, <1>3, <1>4

\* What a call leaves in the words past the size, if the blocks reach the size.
EndsZero(s) == Ceil(s.sin.size) <= s.sin.blocks => PastSize(s.sin, s.disk)

LEMMA CeilReaches ==
  ASSUME NEW n \in Nat, NEW b \in Nat, Ceil(n) <= b
  PROVE  n <= b * BlkSize
<1>1. BlkSize \in Nat \ {0}
  BY SfsConstants
<1> PICK m \in Nat : m = n + BlkSize - 1
  BY <1>1
<1> PICK c \in Nat : c = m \div BlkSize
  BY DivMod
<1>2. m < c * BlkSize + BlkSize
  <2>1. m = (m \div BlkSize) * BlkSize + (m % BlkSize) /\ m % BlkSize \in 0 .. BlkSize - 1
    BY DivMod
  <2> PICK r : r = m % BlkSize
    OBVIOUS
  <2> PICK p \in Nat : p = c * BlkSize
    BY <1>1
  <2>2. m = p + r /\ r \in 0 .. BlkSize - 1
    BY <2>1
  <2>3. QED
    BY ONLY <1>1, <2>2, p = c * BlkSize, p \in Nat
<1>3. c <= b
  BY DEF Ceil
<1>4. c * BlkSize <= b * BlkSize
  BY ONLY <1>1, <1>3, c \in Nat, b \in Nat
<1> PICK p \in Nat : p = c * BlkSize
  BY <1>1
<1> PICK q \in Nat : q = b * BlkSize
  BY <1>1
<1>5. QED
  <2>1. m < p + BlkSize /\ p <= q
    BY <1>2, <1>4
  <2>2. n <= q
    BY ONLY <1>1, <2>1, m = n + BlkSize - 1, n \in Nat, p \in Nat, q \in Nat
  <2>3. QED
    BY <2>2

\* The parts of the invariant that a call keeps by settling its inode.
LEMMA Settles ==
  ASSUME SfsInv, NEW f \in FileIds, NEW s, Kept(State(f), s, Others(Inode, disk, f), disk),
         ~short => EndsZero(s), Settle(f, s), panic = "no"
  PROVE  /\ ondisk' \in [FileIds -> Inodes] /\ sin' \in [FileIds -> Inodes \cup {NoInode}]
         /\ disk' \in Disks /\ freemap' \in SUBSET Blocks /\ short' \in BOOLEAN
         /\ Owners' /\ Copies' /\ Tails' /\ OnlyKnownPanics'
         /\ panic' = "no" => sin'[f] # NoInode /\ \A g \in FileIds : sin[g] # NoInode => sin'[g] # NoInode
<1> PICK i : i = load_inode(f)
  OBVIOUS
<1>1. /\ State(f).sin = i /\ Inode \in [FileIds -> Inodes] /\ Inode[f] = i /\ i \in Inodes
  BY StateBegins
<1>2. TypeCorrect /\ Owners /\ Copies /\ Tails /\ OnlyKnownPanics
  BY DEF SfsInv
<1>3. s \in Calls /\ Clean(i, s.sin) /\ Sound(s, Others(Inode, disk, f), disk)
  BY <1>1 DEF Kept, Sound, Counted
<1>4. /\ s.sin \in Inodes /\ s.disk \in Disks /\ s.freemap \in SUBSET Blocks /\ s.ret \in Rets
      /\ s.unused = Cardinality(s.freemap)
  BY <1>3, CallFields DEF Sound, Counted
<1>5. CASE s.ret \in {"ok", "nospace", "invalid"}
  <2>1. /\ sin' = [sin EXCEPT ![f] = s.sin] /\ disk' = s.disk /\ freemap' = s.freemap /\ unused' = s.unused
        /\ short' = (short \/ Ceil(s.sin.size) > s.sin.blocks) /\ ondisk' = ondisk /\ panic' = panic
    BY <1>5 DEF Settle
  <2>2. sin'[f] = s.sin /\ s.sin # NoInode /\ \A g \in FileIds \ {f} : sin'[g] = sin[g]
    BY <1>2, <1>4, <2>1, SfsAssumption DEF TypeCorrect
  <2>3. load_inode(f)' = s.sin /\ \A g \in FileIds \ {f} : load_inode(g)' = load_inode(g)
    BY <2>1, <2>2 DEF load_inode
  <2>4. Inode' = WithInode(Inode, f, s.sin)
    BY <2>3 DEF Inode, WithInode
  <2>5. Owned(WithInode(Inode, f, s.sin), s.disk, s.freemap)
    BY <1>1, <1>2, <1>3, CallEnds DEF Owners, TypeCorrect
  <2>6. Owners'
    BY <1>4, <2>1, <2>4, <2>5 DEF Owners
  <2>7. /\ ondisk' \in [FileIds -> Inodes] /\ sin' \in [FileIds -> Inodes \cup {NoInode}]
        /\ disk' \in Disks /\ freemap' \in SUBSET Blocks /\ short' \in BOOLEAN
    BY <1>2, <1>4, <2>1 DEF TypeCorrect
  <2>8. Copies'
    <3>1. \A g \in FileIds \ {f} : ~ondisk'[g].dirty /\ (sin'[g] # NoInode /\ ~sin'[g].dirty => SameMap(ondisk'[g], sin'[g]))
      BY <1>2, <2>1, <2>2 DEF Copies
    <3>2. ~ondisk'[f].dirty
      BY <1>2, <2>1 DEF Copies
    <3>3. ASSUME ~s.sin.dirty PROVE SameMap(ondisk[f], s.sin)
      <4>1. SameMap(i, s.sin) /\ ~i.dirty
        BY <1>3, <3>3 DEF Clean
      <4>2. CASE sin[f] = NoInode
        BY <4>1, <4>2 DEF load_inode
      <4>3. CASE sin[f] # NoInode
        <5>1. SameMap(ondisk[f], i)
          BY <1>2, <4>1, <4>3 DEF load_inode, Copies
        <5> PICK j : j = ondisk[f]
          OBVIOUS
        <5>2. j.blocks \in Nat /\ i.blocks \in Nat /\ s.sin.blocks \in Nat
          BY <1>1, <1>2, <1>4, InodeFields, SfsConstants DEF TypeCorrect
        <5>3. SameMap(j, s.sin)
          BY <4>1, <5>1, <5>2 DEF SameMap
        <5>4. QED
          BY <5>3
      <4>4. QED
        BY <4>2, <4>3
    <3>4. QED
      BY <2>1, <2>2, <3>1, <3>2, <3>3 DEF Copies
  <2>9. Tails'
    <3> SUFFICES ASSUME ~short'
                 PROVE  \A g \in FileIds : /\ Reached(load_inode(g)') /\ PastSize(load_inode(g)', disk')
                                           /\ sin'[g] # NoInode /\ ~sin'[g].dirty => Reached(ondisk'[g])
      BY DEF Tails
    <3>1. ~short /\ Ceil(s.sin.size) <= s.sin.blocks /\ s.sin.size \in Nat /\ s.sin.blocks \in Nat
      <4>1. s.sin.size \in Nat /\ s.sin.blocks \in Nat
        BY <1>4, InodeFields, SfsConstants
      <4>2. ~short /\ ~(Ceil(s.sin.size) > s.sin.blocks)
        BY <2>1
      <4>3. Ceil(s.sin.size) \in Nat
        BY <4>1, CeilTyped
      <4>4. QED
        BY <4>1, <4>2, <4>3
    <3>2. \A g \in FileIds : /\ Reached(load_inode(g)) /\ PastSize(load_inode(g), disk)
                             /\ sin[g] # NoInode /\ ~sin[g].dirty => Reached(ondisk[g])
      BY <1>2, <3>1 DEF Tails
    <3>3. ASSUME NEW g \in FileIds \ {f}
          PROVE  /\ Reached(load_inode(g)') /\ PastSize(load_inode(g)', disk')
                 /\ sin'[g] # NoInode /\ ~sin'[g].dirty => Reached(ondisk'[g])
      <4>1. load_inode(g) = Inode[g]
        BY DEF Inode
      <4>2. Data(Inode[g], s.disk) = Data(Inode[g], disk)
        BY <1>1, <1>2, <1>3, OthersKept DEF Owners, TypeCorrect
      <4>3. PastSize(load_inode(g), s.disk)
        BY <3>2, <4>1, <4>2 DEF PastSize
      <4>4. QED
        BY <2>1, <2>2, <2>3, <3>2, <4>3
    <3>4. Reached(s.sin) /\ PastSize(s.sin, s.disk)
      BY <3>1, CeilReaches DEF Reached, EndsZero
    <3>5. ASSUME ~s.sin.dirty PROVE Reached(ondisk[f])
      <4>1. ~i.dirty
        BY <1>3, <3>5 DEF Clean
      <4>2. QED
        BY <3>2, <4>1 DEF load_inode
    <3>6. QED
      BY <2>1, <2>2, <2>3, <3>3, <3>4, <3>5
  <2>10. OnlyKnownPanics'
    BY <1>2, <2>1 DEF OnlyKnownPanics
  <2>11. QED
    BY <2>2, <2>6, <2>7, <2>8, <2>9, <2>10
<1>6. CASE s.ret \notin {"ok", "nospace", "invalid"}
  <2>1. panic' = s.ret /\ UNCHANGED <<ondisk, sin, disk, freemap, unused, short>>
    BY <1>6 DEF Settle
  <2>2. s.ret \in {"index > blocks", "tblks # blocks", "index out of range"}
    BY <1>4, <1>6 DEF Rets
  <2>3. OnlyKnownPanics' /\ panic' # "no"
    BY <2>1, <2>2 DEF OnlyKnownPanics
  <2>4. Inode' = Inode /\ \A g \in FileIds : load_inode(g)' = load_inode(g)
    BY <2>1 DEF Inode, load_inode
  <2>5. Owners' /\ Copies' /\ Tails'
    BY <1>2, <2>1, <2>4 DEF Owners, Copies, Tails
  <2>6. QED
    BY <1>2, <2>1, <2>3, <2>5 DEF TypeCorrect
<1>7. QED
  BY <1>5, <1>6

\* Reads and writes: what changes lies before the new size, what lay past the old one was zero.
LEMMA IoEndsZero ==
  ASSUME NEW s \in Calls, NEW t \in Calls, PastSize(s.sin, s.disk), NEW off \in Nat, NEW n, NEW v,
         IoDone(s, t, off, n, v)
  PROVE  PastSize(t.sin, t.disk)
<1> PICK a \in Nat : a = s.sin.size
  BY CallFields, InodeFields
<1> PICK b \in Nat : b = t.sin.size
  BY CallFields, InodeFields
<1> PICK l \in Nat : l = t.alen
  BY CallFields
<1> SUFFICES ASSUME NEW k \in Index, NEW x \in 0 .. BlkSize - 1, k * BlkSize + x >= b
             PROVE  Data(t.sin, t.disk)[k][x] = 0
  BY DEF PastSize
<1> PICK p \in Nat : p = k * BlkSize + x
  BY WordNumber
<1>1. b = (IF off < MaxSize /\ off + l > a THEN off + l ELSE a) /\ (off >= MaxSize => l = 0) /\ p >= b
  BY DEF IoDone
<1>2. p >= a /\ ~(off <= p /\ p < off + l) /\ MaxSize \in Nat
  <2>1. MaxSize \in Nat
    BY SfsAssumption
  <2>2. QED
    BY ONLY <1>1, <2>1, p \in Nat, a \in Nat, b \in Nat, l \in Nat, off \in Nat
<1>3. Data(s.sin, s.disk)[k][x] = 0
  BY <1>2 DEF PastSize
<1>4. Data(t.sin, t.disk)[k][x] = Data(s.sin, s.disk)[k][x]
  BY <1>2 DEF Wrote, IoDone
<1>5. QED
  BY <1>3, <1>4

\* The same of a growth; a failed one changes no word.
LEMMA GrowthEndsZero ==
  ASSUME NEW s \in Calls, NEW t \in Calls, PastSize(s.sin, s.disk), NEW len \in Nat, len >= s.sin.size,
         Truncated(s, t, len)
  PROVE  PastSize(t.sin, t.disk)
<1> PICK a \in Nat : a = s.sin.size
  BY CallFields, InodeFields
<1>1. CASE t.ret # "ok"
  BY <1>1 DEF Truncated, PastSize
<1>2. CASE t.ret = "ok"
  <2> SUFFICES ASSUME NEW k \in Index, NEW x \in 0 .. BlkSize - 1, k * BlkSize + x >= len
               PROVE  Data(t.sin, t.disk)[k][x] = 0
    BY <1>2 DEF PastSize, Truncated
  <2> PICK p \in Nat : p = k * BlkSize + x
    BY SfsConstants DEF Index
  <2>1. p >= len /\ len >= a
    OBVIOUS
  <2>2. p >= a
    BY ONLY <2>1, p \in Nat, a \in Nat, len \in Nat
  <2>3. Data(s.sin, s.disk)[k][x] = 0 /\ Zeros[x] = 0
    BY <2>2 DEF PastSize, Zeros
  <2>4. QED
    BY <1>2, <2>3 DEF Truncated
<1>3. QED
  BY <1>1, <1>2

\* Truncation to nothing: the blocks that were there are gone.
LEMMA EmptyEndsZero ==
  ASSUME NEW s \in Calls, NEW t \in Calls, PastSize(s.sin, s.disk), Reached(s.sin), Truncated(s, t, 0)
  PROVE  PastSize(t.sin, t.disk)
<1> PICK a \in Nat : a = s.sin.size
  BY CallFields, InodeFields
<1> PICK b \in Nat : b = s.sin.blocks
  BY CallFields, InodeFields, SfsConstants
<1>1. CASE t.ret # "ok"
  BY <1>1 DEF Truncated, PastSize
<1>2. CASE t.ret = "ok"
  <2> SUFFICES ASSUME NEW k \in Index, NEW x \in 0 .. BlkSize - 1 PROVE Data(t.sin, t.disk)[k][x] = 0
    BY <1>2 DEF PastSize, Truncated
  <2>1. Ceil(0) = 0 /\ k \in Nat /\ BlkSize \in Nat
    <3>1. BlkSize \in Nat \ {0} /\ k \in Nat
      BY SfsConstants DEF Index
    <3>2. (0 + BlkSize - 1) \div BlkSize = 0
      BY ONLY <3>1
    <3>3. QED
      BY <3>1, <3>2 DEF Ceil
  <2>2. Zeros[x] = 0
    BY DEF Zeros
  <2>3. CASE k < b
    BY <1>2, <2>1, <2>2, <2>3 DEF Truncated
  <2>4. CASE ~(k < b)
    <3>1. b * BlkSize <= k * BlkSize
      BY ONLY <2>1, <2>4, b \in Nat
    <3> PICK p \in Nat : p = b * BlkSize
      BY <2>1
    <3> PICK q \in Nat : q = k * BlkSize
      BY <2>1
    <3>2. a <= p /\ p <= q
      BY <3>1 DEF Reached
    <3>3. q + x >= a
      BY ONLY <3>2, a \in Nat, p \in Nat, q \in Nat, x \in 0 .. BlkSize - 1
    <3>4. Data(s.sin, s.disk)[k][x] = 0
      BY <3>3 DEF PastSize
    <3>5. QED
      BY <1>2, <2>2, <3>4 DEF Truncated
  <2>5. QED
    BY <2>3, <2>4
<1>3. QED
  BY <1>1, <1>2

LEMMA OpenStep ==
  ASSUME SfsInv, panic = "no", NEW d \in Fds, NEW f \in FileIds, NEW trunc \in BOOLEAN, sys_open(d, f, trunc)
  PROVE  SfsInv'
<1> PICK s : s = IF trunc THEN truncfile(State(f), 0) ELSE State(f)
  OBVIOUS
<1> PICK b : b = State(f)
  OBVIOUS
<1> PICK others : others = Others(Inode, disk, f)
  OBVIOUS
<1>1. /\ Sound(b, others, disk) /\ b.sin = load_inode(f) /\ b.disk = disk /\ b.ret = "ok" /\ b.alen = 0
      /\ b \in Calls
  BY StateBegins DEF Sound, Counted
<1>2. Settle(f, s) /\ fd' = [fd EXCEPT ![d] = [file |-> f, pos |-> 0]]
  BY DEF sys_open
<1>3. ~short => Reached(b.sin) /\ PastSize(b.sin, b.disk)
  BY <1>1 DEF SfsInv, Tails
<1>4. Kept(b, s, others, disk) /\ (~short => EndsZero(s))
  <2>1. CASE trunc
    <3>1. s = truncfile(b, 0)
      BY <2>1
    <3>2. Kept(b, s, others, disk) /\ Truncated(b, s, 0)
      BY <1>1, <3>1, Truncfile
    <3>3. s \in Calls
      BY <3>2 DEF Kept, Sound, Counted
    <3>4. ~short => PastSize(s.sin, s.disk)
      BY <1>1, <1>3, <3>2, <3>3, EmptyEndsZero
    <3>5. QED
      BY <3>2, <3>4 DEF EndsZero
  <2>2. CASE ~trunc
    <3>1. s = b
      BY <2>2
    <3>2. b.sin.blocks \in Nat
      BY <1>1, CallFields, InodeFields, SfsConstants
    <3>3. Clean(b.sin, b.sin)
      BY <3>2 DEF Clean, SameMap
    <3>4. QED
      BY <1>1, <1>3, <3>1, <3>3 DEF Kept, EndsZero
  <2>3. QED
    BY <2>1, <2>2
<1>5. /\ ondisk' \in [FileIds -> Inodes] /\ sin' \in [FileIds -> Inodes \cup {NoInode}]
      /\ disk' \in Disks /\ freemap' \in SUBSET Blocks /\ short' \in BOOLEAN
      /\ Owners' /\ Copies' /\ Tails' /\ OnlyKnownPanics'
      /\ panic' = "no" => sin'[f] # NoInode /\ \A g \in FileIds : sin[g] # NoInode => sin'[g] # NoInode
  BY <1>2, <1>4, Settles
<1> PICK new \in OpenFiles : new = [file |-> f, pos |-> 0]
  BY DEF OpenFiles
<1>6. new.file = f /\ fd' = [fd EXCEPT ![d] = new] /\ fd \in [Fds -> OpenFiles \cup {NoFd}]
  BY <1>2 DEF SfsInv, TypeCorrect
<1>7. fd' \in [Fds -> OpenFiles \cup {NoFd}]
  BY <1>6
<1>8. TypeCorrect'
  BY <1>5, <1>7 DEF TypeCorrect
<1>9. InMemory'
  <2> SUFFICES ASSUME panic' = "no", NEW e \in Fds, fd'[e] # NoFd PROVE sin'[fd'[e].file] # NoInode
    BY DEF InMemory
  <2>1. CASE e = d
    BY <1>5, <1>6, <2>1
  <2>2. CASE e # d
    <3>1. fd'[e] = fd[e] /\ fd[e] # NoFd /\ fd[e] \in OpenFiles
      BY <1>6, <2>2
    <3>2. fd[e].file \in FileIds /\ sin[fd[e].file] # NoInode
      BY <3>1 DEF OpenFiles, SfsInv, InMemory
    <3>3. QED
      BY <1>5, <3>1, <3>2
  <2>3. QED
    BY <2>1, <2>2
<1>10. QED
  BY <1>5, <1>8, <1>9 DEF SfsInv

\* An open file stays open and its inode in memory, whatever its offset.
LEMMA OffsetMoves ==
  ASSUME SfsInv, panic = "no", NEW d \in Fds, fd[d] # NoFd,
         ondisk' \in [FileIds -> Inodes], sin' \in [FileIds -> Inodes \cup {NoInode}],
         disk' \in Disks, freemap' \in SUBSET Blocks, short' \in BOOLEAN,
         Owners', Copies', Tails', OnlyKnownPanics',
         panic' = "no" => \A g \in FileIds : sin[g] # NoInode => sin'[g] # NoInode,
         NEW pos \in Nat, fd' = fd \/ fd' = [fd EXCEPT ![d].pos = pos]
  PROVE  SfsInv'
<1>1. fd \in [Fds -> OpenFiles \cup {NoFd}]
  BY DEF SfsInv, TypeCorrect
<1> PICK new : new = [fd[d] EXCEPT !.pos = pos]
  OBVIOUS
<1>2. fd[d] \in OpenFiles /\ new \in OpenFiles /\ new.file = fd[d].file
  BY <1>1 DEF OpenFiles
<1>3. fd' = fd \/ fd' = [fd EXCEPT ![d] = new]
  OBVIOUS
<1>4. fd' \in [Fds -> OpenFiles \cup {NoFd}]
  BY ONLY <1>1, <1>2, <1>3
<1>5. TypeCorrect'
  BY <1>4 DEF TypeCorrect
<1>6. InMemory'
  <2> SUFFICES ASSUME panic' = "no", NEW e \in Fds, fd'[e] # NoFd PROVE sin'[fd'[e].file] # NoInode
    BY DEF InMemory
  <2>1. fd[e] # NoFd /\ fd'[e].file = fd[e].file
    BY ONLY <1>1, <1>2, <1>3, fd[d] # NoFd, fd'[e] # NoFd, d \in Fds, e \in Fds
  <2>2. fd[e] \in OpenFiles
    BY <1>1, <2>1
  <2>3. fd[e].file \in FileIds /\ sin[fd[e].file] # NoInode
    BY <2>1, <2>2 DEF OpenFiles, SfsInv, InMemory
  <2>4. QED
    BY <2>1, <2>3
<1>7. QED
  BY <1>5, <1>6 DEF SfsInv

LEMMA OpenFd ==
  ASSUME SfsInv, NEW d \in Fds, fd[d] # NoFd
  PROVE  fd[d].file \in FileIds /\ fd[d].pos \in Nat /\ (panic = "no" => sin[fd[d].file] # NoInode /\ sin[fd[d].file] \in Inodes)
<1>1. fd[d] \in OpenFiles
  BY DEF SfsInv, TypeCorrect
<1>2. fd[d].file \in FileIds /\ fd[d].pos \in Nat
  BY <1>1 DEF OpenFiles
<1>3. QED
  BY <1>2 DEF SfsInv, InMemory, TypeCorrect

LEMMA IoStep ==
  ASSUME SfsInv, panic = "no", NEW d \in Fds, NEW n \in Lengths, NEW v \in Values \cup {0}, sys_io(d, n, v)
  PROVE  SfsInv'
<1> PICK f : f = fd[d].file
  OBVIOUS
<1> PICK off : off = fd[d].pos
  OBVIOUS
<1> PICK b : b = State(f)
  OBVIOUS
<1> PICK s : s = io_nolock(b, off, n, v)
  OBVIOUS
<1>1. fd[d] # NoFd /\ Settle(f, s) /\ fd' = [fd EXCEPT ![d].pos = @ + s.alen]
  BY DEF sys_io, Is
<1>2. f \in FileIds /\ off \in Nat /\ n \in Nat /\ v \in Nat
  BY <1>1, OpenFd, SfsAssumption
<1> PICK others : others = Others(Inode, disk, f)
  OBVIOUS
<1>3. /\ Sound(b, others, disk) /\ b.sin = load_inode(f) /\ b.disk = disk /\ b.ret = "ok" /\ b.alen = 0
      /\ b \in Calls
  BY <1>2, StateBegins DEF Sound, Counted
<1>4. ~short => PastSize(b.sin, b.disk)
  BY <1>2, <1>3 DEF SfsInv, Tails
<1>5. Kept(b, s, others, disk) /\ IoDone(b, s, off, n, v)
  BY <1>2, <1>3, IoNolock
<1>6. s \in Calls /\ s.alen \in Nat
  BY <1>5, CallFields DEF Kept, Sound, Counted
<1>7. ~short => EndsZero(s)
  BY <1>2, <1>3, <1>4, <1>5, <1>6, IoEndsZero DEF EndsZero
<1>8. /\ ondisk' \in [FileIds -> Inodes] /\ sin' \in [FileIds -> Inodes \cup {NoInode}]
      /\ disk' \in Disks /\ freemap' \in SUBSET Blocks /\ short' \in BOOLEAN
      /\ Owners' /\ Copies' /\ Tails' /\ OnlyKnownPanics'
      /\ panic' = "no" => \A g \in FileIds : sin[g] # NoInode => sin'[g] # NoInode
  BY <1>1, <1>2, <1>5, <1>7, Settles
<1> PICK pos \in Nat : pos = off + s.alen
  BY <1>2, <1>6
<1>9. fd' = [fd EXCEPT ![d].pos = pos]
  BY <1>1
<1>10. QED
  BY <1>1, <1>8, <1>9, OffsetMoves

LEMMA SeekStep ==
  ASSUME SfsInv, panic = "no", NEW d \in Fds, NEW pos \in Offsets, sys_seek(d, pos)
  PROVE  SfsInv'
<1> PICK f : f = fd[d].file
  OBVIOUS
<1> PICK b : b = State(f)
  OBVIOUS
<1> PICK s : s = IF pos > sin[f].size THEN truncfile(b, pos) ELSE b
  OBVIOUS
<1>1. fd[d] # NoFd /\ Settle(f, s) /\ fd' = IF s.ret = "ok" THEN [fd EXCEPT ![d].pos = pos] ELSE fd
  BY DEF sys_seek, Is
<1>2. f \in FileIds /\ pos \in Nat /\ sin[f] # NoInode /\ sin[f] \in Inodes
  <2>1. pos \in 0 .. MaxSize - 1
    BY SfsAssumption
  <2>2. QED
    BY <1>1, <2>1, OpenFd
<1> PICK others : others = Others(Inode, disk, f)
  OBVIOUS
<1>3. /\ Sound(b, others, disk) /\ b.sin = load_inode(f) /\ b.disk = disk /\ b.ret = "ok" /\ b.alen = 0
      /\ b \in Calls
  BY <1>2, StateBegins DEF Sound, Counted
<1>4. b.sin = sin[f] /\ (~short => PastSize(b.sin, b.disk))
  BY <1>2, <1>3 DEF SfsInv, Tails, load_inode
<1>5. Kept(b, s, others, disk) /\ (~short => EndsZero(s))
  <2>1. CASE pos > sin[f].size
    <3>1. s = truncfile(b, pos)
      BY <2>1
    <3>2. Kept(b, s, others, disk) /\ Truncated(b, s, pos)
      BY <1>2, <1>3, <3>1, Truncfile
    <3>3. s \in Calls /\ pos >= b.sin.size
      <4>1. sin[f].size \in Nat
        BY <1>2, InodeFields
      <4>2. pos >= b.sin.size
        BY ONLY <1>2, <1>4, <2>1, <4>1
      <4>3. QED
        BY <3>2, <4>2 DEF Kept, Sound, Counted
    <3>4. ~short => PastSize(s.sin, s.disk)
      BY <1>2, <1>3, <1>4, <3>2, <3>3, GrowthEndsZero
    <3>5. QED
      BY <3>2, <3>4 DEF EndsZero
  <2>2. CASE ~(pos > sin[f].size)
    <3>1. s = b
      BY <2>2
    <3>2. Clean(b.sin, b.sin)
      <4>1. b.sin.blocks \in Nat
        BY <1>3, CallFields, InodeFields, SfsConstants
      <4>2. QED
        BY <4>1 DEF Clean, SameMap
    <3>3. QED
      BY <1>3, <1>4, <3>1, <3>2 DEF Kept, EndsZero
  <2>3. QED
    BY <2>1, <2>2
<1>6. /\ ondisk' \in [FileIds -> Inodes] /\ sin' \in [FileIds -> Inodes \cup {NoInode}]
      /\ disk' \in Disks /\ freemap' \in SUBSET Blocks /\ short' \in BOOLEAN
      /\ Owners' /\ Copies' /\ Tails' /\ OnlyKnownPanics'
      /\ panic' = "no" => \A g \in FileIds : sin[g] # NoInode => sin'[g] # NoInode
  BY <1>1, <1>2, <1>5, Settles
<1>7. fd' = fd \/ fd' = [fd EXCEPT ![d].pos = pos]
  BY <1>1
<1>8. QED
  BY <1>1, <1>2, <1>6, <1>7, OffsetMoves

LEMMA DupStep ==
  ASSUME SfsInv, panic = "no", NEW d \in Fds, NEW e \in Fds, sys_dup(d, e)
  PROVE  SfsInv'
<1>1. /\ fd[d] # NoFd /\ fd' = [fd EXCEPT ![e] = fd[d]]
      /\ UNCHANGED <<ondisk, sin, disk, freemap, unused, short, panic>>
  BY DEF sys_dup, Is
<1>2. Inode' = Inode /\ \A g \in FileIds : load_inode(g)' = load_inode(g)
  BY <1>1 DEF Inode, load_inode
<1>3. Owners' /\ Copies' /\ Tails' /\ OnlyKnownPanics'
  BY <1>1, <1>2 DEF SfsInv, Owners, Copies, Tails, OnlyKnownPanics
<1>4. TypeCorrect'
  BY <1>1 DEF SfsInv, TypeCorrect
<1>5. InMemory'
  BY <1>1 DEF SfsInv, TypeCorrect, InMemory
<1>6. QED
  BY <1>3, <1>4, <1>5 DEF SfsInv

\* An inode with the same map owns the same blocks and holds the same words.
LEMMA SameMapAt ==
  ASSUME NEW i, NEW j, SameMap(j, i), NEW d
  PROVE  /\ \A k : At(j, d, k) = At(i, d, k)
         /\ Data(j, d) = Data(i, d)
         /\ PastSize(i, d) => PastSize(j, d)
<1>1. \A k : At(j, d, k) = At(i, d, k)
  BY DEF SameMap, At
<1>2. Data(j, d) = Data(i, d)
  BY <1>1 DEF Data
<1>3. j.size = i.size
  BY DEF SameMap
<1>4. QED
  BY <1>1, <1>2, <1>3 DEF PastSize

\* Writing an inode back, or dropping it, moves no block.
LEMMA WrittenBack ==
  ASSUME SfsInv, ondisk' \in [FileIds -> Inodes], sin' \in [FileIds -> Inodes \cup {NoInode}],
         UNCHANGED <<disk, freemap, unused, short, panic>>,
         \A g \in FileIds : SameMap(load_inode(g)', load_inode(g)) /\ load_inode(g)' \in Inodes
  PROVE  /\ Owners' /\ OnlyKnownPanics'
         /\ ~short => \A g \in FileIds : PastSize(load_inode(g)', disk')
<1> PICK ino : ino = Inode
  OBVIOUS
<1> PICK new : new = Inode'
  OBVIOUS
<1>1. ino \in [FileIds -> Inodes] /\ new \in [FileIds -> Inodes] /\ Owned(ino, disk, freemap)
      /\ unused = Cardinality(freemap)
  BY DEF SfsInv, TypeCorrect, Inode, load_inode, Owners
<1>2. \A g \in FileIds : SameMap(new[g], ino[g])
  BY DEF Inode
<1>3. \A g \in FileIds : \A k : At(new[g], disk, k) = At(ino[g], disk, k)
  BY <1>2, SameMapAt
<1>4. ASSUME NEW g \in FileIds PROVE Mapped(new[g], disk)
  <2>1. Mapped(ino[g], disk)
    BY <1>1 DEF Owned
  <2>2. new[g].blocks <= ino[g].blocks /\ new[g].blocks \in Nat /\ ino[g].blocks \in Nat
    BY <1>1, <1>2, InodeFields, SfsConstants DEF SameMap
  <2> PICK a \in Nat : a = new[g].blocks
    BY <2>2
  <2> PICK b \in Nat : b = ino[g].blocks
    BY <2>2
  <2>3. \A k \in 0 .. a - 1 : k \in 0 .. b - 1
    BY ONLY <2>2, a = new[g].blocks, b = ino[g].blocks, a \in Nat, b \in Nat
  <2>4. \A k \in 0 .. new[g].blocks - 1 : k \in 0 .. ino[g].blocks - 1
    BY ONLY <2>3, a = new[g].blocks, b = ino[g].blocks
  <2> PICK i : i = ino[g]
    OBVIOUS
  <2> PICK j : j = new[g]
    OBVIOUS
  <2>5. \A k : At(j, disk, k) = At(i, disk, k)
    BY <1>3
  <2>6. QED
    BY ONLY <2>1, <2>4, <2>5, i = ino[g], j = new[g] DEF Mapped
<1>5. Owned(new, disk, freemap)
  BY <1>1, <1>3, <1>4 DEF Owned
<1>6. Owners' /\ OnlyKnownPanics'
  BY <1>1, <1>5 DEF Owners, OnlyKnownPanics, SfsInv
<1>7. ~short => \A g \in FileIds : PastSize(load_inode(g)', disk)
  <2>1. ~short => \A g \in FileIds : PastSize(load_inode(g), disk)
    BY DEF SfsInv, Tails
  <2>2. QED
    BY <2>1, SameMapAt
<1>8. QED
  BY <1>6, <1>7

\* The inode that fsync leaves on disk, and what it is like to read the file from it.
AsWritten(f) == IF sin[f].dirty THEN [sin[f] EXCEPT !.dirty = FALSE] ELSE ondisk[f]

LEMMA Fsync ==
  ASSUME SfsInv, NEW f \in FileIds, sin[f] # NoInode, fsync(f)
  PROVE  /\ ondisk' = [ondisk EXCEPT ![f] = AsWritten(f)] /\ AsWritten(f) \in Inodes /\ ~AsWritten(f).dirty
         /\ SameMap(AsWritten(f), sin[f])
         /\ ~short => Reached(AsWritten(f))
<1> PICK i \in Inodes : i = sin[f]
  BY DEF SfsInv, TypeCorrect
<1>1. ondisk \in [FileIds -> Inodes] /\ ~ondisk[f].dirty
  BY DEF SfsInv, TypeCorrect, Copies
<1>2. CASE i.dirty
  <2> PICK j : j = [i EXCEPT !.dirty = FALSE]
    OBVIOUS
  <2>1. /\ j \in Inodes /\ ~j.dirty /\ j.direct = i.direct /\ j.indirect = i.indirect /\ j.size = i.size
        /\ j.blocks = i.blocks /\ i.blocks \in Nat
    <3>1. /\ j \in Inodes /\ ~j.dirty /\ j.direct = i.direct /\ j.indirect = i.indirect /\ j.size = i.size
          /\ j.blocks = i.blocks
      BY DEF Inodes
    <3>2. i.blocks \in Nat
      BY InodeFields, SfsConstants
    <3>3. QED
      BY <3>1, <3>2
  <2>2. AsWritten(f) = j /\ ondisk' = [ondisk EXCEPT ![f] = j]
    BY <1>2 DEF fsync, AsWritten
  <2>3. SameMap(j, i)
    BY <2>1 DEF SameMap
  <2>4. ~short => Reached(j)
    BY <2>1 DEF SfsInv, Tails, Reached, load_inode
  <2>5. QED
    BY <2>1, <2>2, <2>3, <2>4
<1>3. CASE ~i.dirty
  <2>1. AsWritten(f) = ondisk[f] /\ ondisk' = ondisk
    BY <1>3 DEF fsync, AsWritten
  <2>2. SameMap(ondisk[f], i)
    BY <1>3 DEF SfsInv, Copies
  <2>3. ~short => Reached(ondisk[f])
    BY <1>3 DEF SfsInv, Tails
  <2>4. QED
    BY <1>1, <2>1, <2>2, <2>3
<1>4. QED
  BY <1>2, <1>3

LEMMA SameMapSelf ==
  ASSUME NEW i \in Inodes
  PROVE  SameMap(i, i)
<1>1. i.blocks \in Nat
  BY InodeFields, SfsConstants
<1>2. QED
  BY <1>1 DEF SameMap

LEMMA FsyncStep ==
  ASSUME SfsInv, panic = "no", NEW d \in Fds, sys_fsync(d)
  PROVE  SfsInv'
<1> PICK f : f = fd[d].file
  OBVIOUS
<1>1. /\ fd[d] # NoFd /\ fsync(f) /\ sin' = [sin EXCEPT ![f].dirty = FALSE]
      /\ UNCHANGED <<disk, freemap, unused, fd, short, panic>>
  BY DEF sys_fsync, Is
<1>2. f \in FileIds /\ sin[f] # NoInode /\ sin[f] \in Inodes
  BY <1>1, OpenFd
<1> PICK i \in Inodes : i = sin[f]
  BY <1>2
<1> PICK j : j = [i EXCEPT !.dirty = FALSE]
  OBVIOUS
<1> PICK o : o = AsWritten(f)
  OBVIOUS
<1>3. /\ j \in Inodes /\ ~j.dirty /\ j.direct = i.direct /\ j.indirect = i.indirect /\ j.size = i.size
      /\ j.blocks = i.blocks /\ i.blocks \in Nat /\ j # NoInode
  <2>1. /\ j \in Inodes /\ ~j.dirty /\ j.direct = i.direct /\ j.indirect = i.indirect /\ j.size = i.size
        /\ j.blocks = i.blocks
    BY DEF Inodes
  <2>2. i.blocks \in Nat
    BY InodeFields, SfsConstants
  <2>3. j # NoInode
    BY <2>1, SfsAssumption
  <2>4. QED
    BY <2>1, <2>2, <2>3
<1>4. sin' = [sin EXCEPT ![f] = j]
  BY <1>1
<1>5. SameMap(j, i)
  BY <1>3 DEF SameMap
<1>6. /\ ondisk' = [ondisk EXCEPT ![f] = o] /\ o \in Inodes /\ ~o.dirty /\ SameMap(o, i) /\ (~short => Reached(o))
  BY <1>1, <1>2, Fsync
<1>7. ondisk \in [FileIds -> Inodes] /\ sin \in [FileIds -> Inodes \cup {NoInode}]
  BY DEF SfsInv, TypeCorrect
<1>8. ondisk' \in [FileIds -> Inodes] /\ sin' \in [FileIds -> Inodes \cup {NoInode}]
  BY <1>3, <1>4, <1>6, <1>7
<1>9. /\ sin'[f] = j /\ ondisk'[f] = o
      /\ \A g \in FileIds \ {f} : sin'[g] = sin[g] /\ ondisk'[g] = ondisk[g]
  BY <1>2, <1>4, <1>6, <1>7
<1>10. load_inode(f) = i /\ load_inode(f)' = j /\ \A g \in FileIds \ {f} : load_inode(g)' = load_inode(g)
  BY <1>2, <1>3, <1>9 DEF load_inode
<1>11. \A g \in FileIds : load_inode(g) \in Inodes
  BY <1>7 DEF load_inode
<1>12. \A g \in FileIds : SameMap(load_inode(g)', load_inode(g)) /\ load_inode(g)' \in Inodes
  BY <1>3, <1>5, <1>10, <1>11, SameMapSelf
<1>13. Owners' /\ OnlyKnownPanics' /\ (~short => \A g \in FileIds : PastSize(load_inode(g)', disk'))
  BY <1>1, <1>8, <1>12, WrittenBack
<1>14. TypeCorrect'
  BY <1>1, <1>8 DEF SfsInv, TypeCorrect
<1>15. SameMap(o, j)
  BY <1>3, <1>6 DEF SameMap
<1>16. Copies'
  BY <1>6, <1>9, <1>15 DEF SfsInv, Copies
<1>17. InMemory'
  <2>1. \A g \in FileIds : sin[g] # NoInode => sin'[g] # NoInode
    BY <1>3, <1>9
  <2>2. \A e \in Fds : fd[e] # NoFd => fd[e].file \in FileIds
    BY OpenFd
  <2>3. QED
    BY <1>1, <2>1, <2>2 DEF SfsInv, InMemory
<1>18. Tails'
  <2>1. ~short => Reached(i)
    BY <1>2, <1>10 DEF SfsInv, Tails
  <2>2. ~short => Reached(j)
    BY <1>3, <2>1 DEF Reached
  <2>3. QED
    BY <1>1, <1>6, <1>9, <1>10, <1>13, <2>2 DEF SfsInv, Tails
<1>19. QED
  BY <1>13, <1>14, <1>16, <1>17, <1>18 DEF SfsInv

LEMMA CloseStep ==
  ASSUME SfsInv, panic = "no", NEW d \in Fds, sys_close(d)
  PROVE  SfsInv'
<1> PICK f : f = fd[d].file
  OBVIOUS
<1> PICK last : last = \A e \in Fds \ {d} : Is(e) => fd[e].file # f
  OBVIOUS
<1>1. /\ fd[d] # NoFd /\ fd' = [fd EXCEPT ![d] = NoFd]
      /\ IF last THEN fsync(f) /\ sin' = [sin EXCEPT ![f] = NoInode] ELSE UNCHANGED <<ondisk, sin>>
      /\ UNCHANGED <<disk, freemap, unused, short, panic>>
  BY DEF sys_close, Is
<1>2. f \in FileIds /\ sin[f] # NoInode /\ sin[f] \in Inodes
  BY <1>1, OpenFd
<1>3. /\ ondisk \in [FileIds -> Inodes] /\ sin \in [FileIds -> Inodes \cup {NoInode}]
      /\ fd \in [Fds -> OpenFiles \cup {NoFd}]
  BY DEF SfsInv, TypeCorrect
<1>4. fd' \in [Fds -> OpenFiles \cup {NoFd}] /\ fd'[d] = NoFd /\ \A e \in Fds \ {d} : fd'[e] = fd[e]
  BY <1>1, <1>3
<1>5. \A e \in Fds : fd[e] # NoFd => fd[e].file \in FileIds /\ sin[fd[e].file] # NoInode
  BY OpenFd DEF SfsInv, InMemory
<1>6. CASE ~last
  <2>1. Inode' = Inode /\ \A g \in FileIds : load_inode(g)' = load_inode(g)
    BY <1>1, <1>6 DEF Inode, load_inode
  <2>2. Owners' /\ Copies' /\ Tails' /\ OnlyKnownPanics'
    BY <1>1, <1>6, <2>1 DEF SfsInv, Owners, Copies, Tails, OnlyKnownPanics
  <2>3. TypeCorrect'
    BY <1>1, <1>4, <1>6 DEF SfsInv, TypeCorrect
  <2>4. InMemory'
    BY <1>1, <1>4, <1>5, <1>6 DEF InMemory
  <2>5. QED
    BY <2>2, <2>3, <2>4 DEF SfsInv
<1>7. CASE last
  <2> PICK i \in Inodes : i = sin[f]
    BY <1>2
  <2> PICK o : o = AsWritten(f)
    OBVIOUS
  <2>1. fsync(f) /\ sin' = [sin EXCEPT ![f] = NoInode]
    BY <1>1, <1>7
  <2>2. /\ ondisk' = [ondisk EXCEPT ![f] = o] /\ o \in Inodes /\ ~o.dirty /\ SameMap(o, i) /\ (~short => Reached(o))
    BY <1>2, <2>1, Fsync
  <2>3. ondisk' \in [FileIds -> Inodes] /\ sin' \in [FileIds -> Inodes \cup {NoInode}]
    BY <1>3, <2>1, <2>2
  <2>4. /\ sin'[f] = NoInode /\ ondisk'[f] = o
        /\ \A g \in FileIds \ {f} : sin'[g] = sin[g] /\ ondisk'[g] = ondisk[g]
    BY <1>2, <1>3, <2>1, <2>2
  <2>5. load_inode(f) = i /\ load_inode(f)' = o /\ \A g \in FileIds \ {f} : load_inode(g)' = load_inode(g)
    BY <1>2, <2>4 DEF load_inode
  <2>6. \A g \in FileIds : load_inode(g) \in Inodes
    BY <1>3 DEF load_inode
  <2>7. \A g \in FileIds : SameMap(load_inode(g)', load_inode(g)) /\ load_inode(g)' \in Inodes
    BY <2>2, <2>5, <2>6, SameMapSelf
  <2>8. Owners' /\ OnlyKnownPanics' /\ (~short => \A g \in FileIds : PastSize(load_inode(g)', disk'))
    BY <1>1, <2>3, <2>7, WrittenBack
  <2>9. TypeCorrect'
    BY <1>1, <1>4, <2>3 DEF SfsInv, TypeCorrect
  <2>10. Copies'
    BY <2>2, <2>4 DEF SfsInv, Copies
  <2>11. InMemory'
    <3>1. \A e \in Fds \ {d} : fd[e] # NoFd => fd[e].file # f
      BY <1>7 DEF Is
    <3>2. QED
      BY <1>4, <1>5, <2>4, <3>1 DEF InMemory
  <2>12. Tails'
    BY <1>1, <2>2, <2>4, <2>5, <2>8 DEF SfsInv, Tails
  <2>13. QED
    BY <2>8, <2>9, <2>10, <2>11, <2>12 DEF SfsInv
<1>8. QED
  BY <1>6, <1>7
-----------------------------------------------------------------------------
\* The bitmap is exact: a block is used as often as it stands at a place.
LEMMA UsesOnce ==
  ASSUME SfsInv, NEW f \in FileIds, NEW b \in Blocks
  PROVE  Uses(f, b) = IF \E k \in Places : At(load_inode(f), disk, k) = b THEN 1 ELSE 0
<1> PICK i : i = load_inode(f)
  OBVIOUS
<1>1. i \in Inodes /\ Mapped(i, disk)
  BY DEF SfsInv, TypeCorrect, Owners, Owned, Inode, load_inode
<1>2. /\ DOMAIN i.direct = 0 .. NDirect - 1 /\ b # 0 /\ NDirect \in Nat /\ NEntry \in Nat
      /\ Reach = NDirect + NEntry /\ Places = 0 .. Reach
  BY <1>1, InodeFields, SfsConstants DEF Places
<1> PICK D : D = {k \in DOMAIN i.direct : i.direct[k] = b}
  OBVIOUS
<1> PICK E : E = {k \in Entries(i) : disk[i.indirect][k] = b}
  OBVIOUS
<1> PICK n : n = IF i.indirect = b THEN 1 ELSE 0
  OBVIOUS
<1>3. Uses(f, b) = Cardinality(D) + n + Cardinality(E)
  BY DEF Uses
<1>4. \A k \in D : k \in Places /\ k < NDirect /\ At(i, disk, k) = b
  BY <1>2 DEF At
<1>5. \A k \in E : NDirect + k \in Places /\ NDirect + k >= NDirect /\ NDirect + k # Reach /\ At(i, disk, NDirect + k) = b
  <2> SUFFICES ASSUME NEW k \in E
               PROVE  NDirect + k \in Places /\ NDirect + k >= NDirect /\ NDirect + k # Reach /\ At(i, disk, NDirect + k) = b
    OBVIOUS
  <2>1. k \in 0 .. NEntry - 1 /\ i.indirect # 0 /\ disk[i.indirect][k] = b
    BY DEF Entries
  <2> PICK m \in Nat : m = NDirect + k
    BY <1>2, <2>1
  <2>2. m \in Places /\ m >= NDirect /\ ~(m < NDirect) /\ m # Reach /\ m - NDirect = k
    BY ONLY <1>2, <2>1, m = NDirect + k, m \in Nat
  <2>3. At(i, disk, m) = b
    BY ONLY <2>1, <2>2 DEF At
  <2>4. QED
    BY <2>2, <2>3
<1>6. i.indirect = b => Reach \in Places /\ At(i, disk, Reach) = b /\ ~(Reach < NDirect)
  BY <1>2 DEF At
<1>7. \A k \in Places : At(i, disk, k) = b => k \in D \/ (k = Reach /\ i.indirect = b) \/ k - NDirect \in E
  <2> SUFFICES ASSUME NEW k \in Places, At(i, disk, k) = b
               PROVE  k \in D \/ (k = Reach /\ i.indirect = b) \/ k - NDirect \in E
    OBVIOUS
  <2>1. CASE k < NDirect
    BY <1>2, <2>1 DEF At
  <2>2. CASE k = Reach
    BY <1>2, <2>2 DEF At
  <2>3. CASE ~(k < NDirect) /\ k # Reach
    <3>1. k - NDirect \in 0 .. NEntry - 1
      BY ONLY <1>2, <2>3, k \in Places
    <3>2. i.indirect # 0 /\ disk[i.indirect][k - NDirect] = b
      BY <1>2, <2>3 DEF At
    <3>3. QED
      BY <3>1, <3>2 DEF Entries
  <2>4. QED
    BY <2>1, <2>2, <2>3
<1>8. \A k, l \in Places : At(i, disk, k) = b /\ At(i, disk, l) = b => k = l
  BY <1>1, <1>2 DEF Mapped
<1>9. Cardinality({}) = 0 /\ \A x : Cardinality({x}) = 1
  BY FS_EmptySet, FS_Singleton
<1>10. \A k \in E : k \in Nat
  BY SfsConstants DEF Entries
<1>11. CASE \E k \in D : TRUE
  <2> PICK k \in D : TRUE
    BY <1>11
  <2>1. D = {k}
    BY <1>4, <1>8
  <2>2. i.indirect # b
    BY <1>4, <1>6, <1>8
  <2>3. E = {}
    <3> SUFFICES ASSUME NEW l \in E PROVE FALSE
      OBVIOUS
    <3>1. k = NDirect + l
      BY <1>4, <1>5, <1>8
    <3>2. QED
      BY <1>2, <1>4, <1>10, <3>1
  <2>4. Cardinality(D) = 1 /\ n = 0 /\ Cardinality(E) = 0
    BY <1>9, <2>1, <2>2, <2>3
  <2>5. QED
    BY <1>3, <1>4, <2>4
<1>12. CASE i.indirect = b
  <2>1. Reach \in Places /\ At(i, disk, Reach) = b /\ ~(Reach < NDirect)
    BY <1>6, <1>12
  <2>2. D = {}
    BY <1>4, <1>8, <2>1
  <2>3. E = {}
    BY <1>5, <1>8, <2>1
  <2>4. Cardinality(D) = 0 /\ n = 1 /\ Cardinality(E) = 0
    BY <1>9, <1>12, <2>2, <2>3
  <2>5. QED
    BY <1>3, <2>1, <2>4
<1>13. CASE D = {} /\ i.indirect # b /\ \E k \in E : TRUE
  <2> PICK k \in E : TRUE
    BY <1>13
  <2>1. E = {k}
    <3> SUFFICES ASSUME NEW l \in E PROVE l = k
      OBVIOUS
    <3>1. NDirect + k = NDirect + l
      BY <1>5, <1>8
    <3>2. QED
      BY <1>2, <1>10, <3>1
  <2>2. Cardinality(D) = 0 /\ n = 0 /\ Cardinality(E) = 1
    BY <1>9, <1>13, <2>1
  <2>3. QED
    BY <1>3, <1>5, <2>2
<1>14. CASE D = {} /\ i.indirect # b /\ E = {}
  <2>1. Cardinality(D) = 0 /\ n = 0 /\ Cardinality(E) = 0
    BY <1>9, <1>14
  <2>2. QED
    BY <1>3, <1>7, <1>14, <2>1
<1>15. QED
  BY <1>11, <1>12, <1>13, <1>14

Sum(b) == MapThenSumSet(LAMBDA f : Uses(f, b), FileIds)

LEMMA SumOfUses ==
  ASSUME NEW b, NEW A \in SUBSET FileIds, \A f \in FileIds : Uses(f, b) = IF f \in A THEN 1 ELSE 0,
         \A f, g \in A : f = g
  PROVE  Sum(b) = IF A = {} THEN 0 ELSE 1
<1> DEFINE D == FileIds
           op(f, t) == Uses(f, b) + t
           pick == [u \in SUBSET D |-> CHOOSE f \in u : TRUE]
           Rec(it) == [u \in SUBSET D |-> IF u = {} THEN 0
                         ELSE op(CHOOSE f \in u : TRUE, it[u \ {CHOOSE f \in u : TRUE}])]
           iter == CHOOSE it : it = Rec(it)
           K == {u \in SUBSET D : iter[u] = IF A \cap u = {} THEN 0 ELSE 1}
<1>1. IsFiniteSet(D)
  BY SfsAssumption
<1>2. \A u \in SUBSET D : pick[u] = CHOOSE f \in u : TRUE
  OBVIOUS
<1>3. \A u \in SUBSET D : u # {} => pick[u] \in u
  OBVIOUS
<1>4. Sum(b) = iter[D]
  BY DEF Sum, MapThenSumSet, MapThenFoldSet
<1>5. \A f \in D : \A t \in Nat : op(f, t) = (IF f \in A THEN 1 ELSE 0) + t /\ op(f, t) \in Nat
  OBVIOUS
<1> HIDE DEF pick, op
<1>6. \E it : it = Rec(it)
  <2> DEFINE step == [z \in Nat \X D |-> op(z[2], z[1])]
  <2>1. step \in [Nat \X D -> Nat]
    BY <1>5
  <2> HIDE DEF step, D
  <2>2. PICK g : Folds(g, D, Nat, 0, step, pick)
    BY <1>1, <1>3, <2>1, RecursionOnSubsets
  <2>3. g \in [SUBSET D -> Nat] /\ g[{}] = 0
    BY <2>2 DEF Folds
  <2>4. ASSUME NEW u \in SUBSET D, u # {}
        PROVE  g[u] = op(CHOOSE f \in u : TRUE, g[u \ {CHOOSE f \in u : TRUE}])
    <3>1. pick[u] \in D /\ g[u \ {pick[u]}] \in Nat
      BY <1>3, <2>3, <2>4
    <3>2. g[u] = step[<<g[u \ {pick[u]}], pick[u]>>]
      BY <2>2, <2>4 DEF Folds
    <3>3. g[u] = op(pick[u], g[u \ {pick[u]}])
      BY <3>1, <3>2 DEF step
    <3>4. QED
      BY <3>3, <1>2
  <2>5. g = Rec(g)
    BY <2>3, <2>4
  <2> HIDE DEF Rec
  <2>6. QED
    BY <2>5
<1>7. iter = Rec(iter)
  <2> HIDE DEF Rec
  <2>1. QED
    BY <1>6
<1> HIDE DEF iter
<1>8. iter[{}] = 0
  BY <1>7
<1>9. \A u \in SUBSET D : u # {} => iter[u] = op(pick[u], iter[u \ {pick[u]}])
  BY <1>2, <1>7
<1> HIDE DEF D, Rec
<1>10. {} \in K
  BY <1>8
<1>11. ASSUME NEW u \in SUBSET D, u # {}, u \ {pick[u]} \in K PROVE u \in K
  <2> PICK f : f = pick[u]
    OBVIOUS
  <2> PICK t \in Nat : t = iter[u \ {f}]
    BY <1>11
  <2>1. f \in u /\ f \in D
    BY <1>3, <1>11
  <2>2. t = IF A \cap (u \ {f}) = {} THEN 0 ELSE 1
    BY <1>11
  <2>3. iter[u] = (IF f \in A THEN 1 ELSE 0) + t
    BY <1>5, <1>9, <1>11, <2>1
  <2>4. CASE f \in A
    <3>1. A \cap (u \ {f}) = {} /\ A \cap u # {}
      BY <2>1, <2>4
    <3>2. QED
      BY <2>2, <2>3, <2>4, <3>1
  <2>5. CASE f \notin A
    <3>1. A \cap (u \ {f}) = A \cap u
      BY <2>5
    <3>2. QED
      BY <2>2, <2>3, <2>5, <3>1
  <2>6. QED
    BY <2>4, <2>5
<1>12. D \in K
  <2> HIDE DEF K
  <2>1. \A u \in SUBSET D : u # {} /\ u \ {pick[u]} \in K => u \in K
    BY <1>11
  <2>2. QED
    BY ONLY <1>1, <1>3, <1>10, <2>1, SetLoopInvariant
<1>13. A \cap D = A
  BY DEF D
<1>14. QED
  BY <1>4, <1>12, <1>13

LEMMA InvBlocksExact ==
  ASSUME SfsInv
  PROVE  BlocksExact
<1>1. unused = Cardinality(freemap) /\ Owned(Inode, disk, freemap) /\ freemap \in SUBSET Blocks
  BY DEF SfsInv, Owners, TypeCorrect
<1>2. \A f \in FileIds : Inode[f] = load_inode(f)
  BY DEF Inode
<1>3. ASSUME NEW b \in Blocks PROVE Sum(b) = IF b \in freemap THEN 0 ELSE 1
  <2> PICK A : A = {f \in FileIds : \E k \in Places : At(load_inode(f), disk, k) = b}
    OBVIOUS
  <2>1. \A f \in FileIds : Uses(f, b) = IF f \in A THEN 1 ELSE 0
    BY UsesOnce
  <2>2. \A f, g \in A : f = g
    BY <1>1, <1>2, SfsConstants DEF Owned
  <2>3. A \in SUBSET FileIds
    OBVIOUS
  <2>4. Sum(b) = IF A = {} THEN 0 ELSE 1
    BY <2>1, <2>2, <2>3, SumOfUses
  <2>5. A = {} <=> b \in freemap
    BY <1>1, <1>2 DEF Owned
  <2>6. QED
    BY <2>4, <2>5
<1>4. QED
  BY <1>1, <1>3 DEF BlocksExact, Sum

\* The words past the size, read through the block map, are zero.
LEMMA InvTailIsZero ==
  ASSUME SfsInv
  PROVE  TailIsZero
<1> SUFFICES ASSUME ~short, NEW f \in FileIds, NEW i, i = load_inode(f),
                    NEW k \in i.size .. i.blocks * BlkSize - 1
             PROVE  i.size <= i.blocks * BlkSize /\ WordAt(i, k) = 0
  <2>1. ~short => \A f \in FileIds : Reached(load_inode(f))
    BY DEF SfsInv, Tails
  <2>2. QED
    BY <2>1 DEF TailIsZero, Reached
<1>1. i \in Inodes /\ Reached(i) /\ PastSize(i, disk) /\ disk \in Disks
  BY DEF SfsInv, Tails, TypeCorrect, load_inode
<1>2. i.size \in Nat /\ i.blocks \in 0 .. Reach /\ i.blocks \in Nat
  BY <1>1, InodeFields, SfsConstants
<1> PICK p : p = i.blocks * BlkSize
  OBVIOUS
<1>3. p \in Nat /\ k \in Nat /\ k < p /\ k >= i.size
  <2>1. p \in Nat
    BY <1>2, SfsConstants
  <2>2. QED
    BY <1>2, <2>1
<1> PICK q \in Nat : q = k \div BlkSize
  BY <1>3, DivMod
<1> PICK x \in 0 .. BlkSize - 1 : x = k % BlkSize
  BY <1>3, DivMod
<1>4. q * BlkSize + x = k
  BY <1>3, DivMod
<1>5. q < i.blocks
  <2>1. BlkSize \in Nat
    BY SfsConstants
  <2> SUFFICES ASSUME ~(q < i.blocks) PROVE FALSE
    OBVIOUS
  <2> PICK n \in Nat : n = i.blocks
    BY <1>2
  <2>2. n * BlkSize <= q * BlkSize
    BY ONLY <2>1, ~(q < i.blocks), n = i.blocks, n \in Nat, q \in Nat
  <2> PICK r \in Nat : r = q * BlkSize
    BY <2>1
  <2>3. p <= r /\ r + x = k
    BY <1>4, <2>2
  <2>4. QED
    BY ONLY <1>3, <2>1, <2>3, r \in Nat, x \in 0 .. BlkSize - 1
<1>6. q \in Index /\ q # Reach
  BY <1>2, <1>5, SfsConstants DEF Index
<1>7. Data(i, disk)[q][x] = 0
  <2>1. q * BlkSize + x >= i.size
    BY <1>3, <1>4
  <2>2. QED
    BY <1>1, <1>6, <2>1 DEF PastSize
<1>8. BlockAt(i, q) = At(i, disk, q)
  BY <1>6 DEF BlockAt, At
<1>9. WordAt(i, k) = 0
  BY <1>6, <1>7, <1>8 DEF WordAt, Data
<1>10. QED
  BY <1>1, <1>9 DEF Reached
-----------------------------------------------------------------------------
LEMMA SfsInit == Init => SfsInv
<1> SUFFICES ASSUME Init PROVE SfsInv
  OBVIOUS
<1>1. /\ ondisk = [f \in FileIds |-> EmptyInode] /\ sin = [f \in FileIds |-> NoInode]
      /\ disk = [b \in Blocks |-> Zeros] /\ freemap = Blocks /\ unused = NBlocks
      /\ fd = [d \in Fds |-> NoFd] /\ short = FALSE /\ panic = "no"
  BY DEF Init
<1> PICK i : i = EmptyInode
  OBVIOUS
<1>2. /\ i \in Inodes /\ i.size = 0 /\ i.blocks = 0 /\ i.indirect = 0 /\ i.dirty = FALSE
      /\ i.direct = [k \in 0 .. NDirect - 1 |-> 0]
  BY SfsConstants DEF Inodes, EmptyInode
<1>3. Zeros \in Contents
  BY ZerosTyped
<1>4. TypeCorrect
  BY <1>1, <1>2, <1>3 DEF TypeCorrect, Disks
<1>5. \A f \in FileIds : load_inode(f) = i /\ Inode[f] = i
  BY <1>1 DEF load_inode, Inode
<1>6. \A k \in Places : At(i, disk, k) = 0
  BY <1>2, SfsConstants DEF At, Places
<1>7. Mapped(i, disk)
  <2>1. 0 .. i.blocks - 1 = {}
    BY <1>2
  <2>2. QED
    BY <1>6, <2>1, SfsConstants DEF Mapped
<1>8. Owned(Inode, disk, freemap)
  BY <1>1, <1>5, <1>6, <1>7, SfsConstants DEF Owned
<1>9. unused = Cardinality(freemap)
  BY <1>1, FS_Interval, SfsConstants
<1>10. Copies
  BY <1>1, <1>2 DEF Copies
<1>11. InMemory
  BY <1>1 DEF InMemory
<1>12. \A k \in Index : At(i, disk, k) = 0
  BY <1>6, SfsConstants DEF Index, Places
<1>13. Reached(i) /\ PastSize(i, disk)
  <2>1. Reached(i)
    BY <1>2, SfsConstants DEF Reached
  <2>2. PastSize(i, disk)
    BY <1>12 DEF PastSize, Data, Zeros
  <2>3. QED
    BY <2>1, <2>2
<1>14. Tails
  BY <1>1, <1>5, <1>13 DEF Tails
<1>15. OnlyKnownPanics
  BY <1>1 DEF OnlyKnownPanics
<1>16. QED
  BY <1>4, <1>8, <1>9, <1>10, <1>11, <1>14, <1>15 DEF SfsInv, Owners

LEMMA SfsNext == SfsInv /\ [Next]_vars => SfsInv'
<1> SUFFICES ASSUME SfsInv, [Next]_vars PROVE SfsInv'
  OBVIOUS
<1>1. CASE UNCHANGED vars
  <2>1. UNCHANGED <<ondisk, sin, disk, freemap, unused, fd, short, panic>>
    BY <1>1 DEF vars
  <2>2. Inode' = Inode /\ \A g \in FileIds : load_inode(g)' = load_inode(g)
    BY <2>1 DEF Inode, load_inode
  <2>3. TypeCorrect' /\ Owners' /\ Copies'
    BY <2>1, <2>2 DEF SfsInv, TypeCorrect, Owners, Copies
  <2>4. InMemory' /\ Tails' /\ OnlyKnownPanics'
    BY <2>1, <2>2 DEF SfsInv, InMemory, Tails, OnlyKnownPanics
  <2>5. QED
    BY <2>3, <2>4 DEF SfsInv
<1>2. CASE Next
  <2>1. panic = "no"
    BY <1>2 DEF Next
  <2> PICK d \in Fds : \/ \E f \in FileIds, trunc \in BOOLEAN : sys_open(d, f, trunc)
                       \/ \E e \in Fds : sys_dup(d, e)
                       \/ \E n \in Lengths, v \in Values \cup {0} : sys_io(d, n, v)
                       \/ \E pos \in Offsets : sys_seek(d, pos)
                       \/ sys_fsync(d)
                       \/ sys_close(d)
    BY <1>2 DEF Next
  <2>2. CASE \E f \in FileIds, trunc \in BOOLEAN : sys_open(d, f, trunc)
    BY <2>1, <2>2, OpenStep
  <2>3. CASE \E e \in Fds : sys_dup(d, e)
    BY <2>1, <2>3, DupStep
  <2>4. CASE \E n \in Lengths, v \in Values \cup {0} : sys_io(d, n, v)
    BY <2>1, <2>4, IoStep
  <2>5. CASE \E pos \in Offsets : sys_seek(d, pos)
    BY <2>1, <2>5, SeekStep
  <2>6. CASE sys_fsync(d)
    BY <2>1, <2>6, FsyncStep
  <2>7. CASE sys_close(d)
    BY <2>1, <2>7, CloseStep
  <2>8. QED
    BY <2>2, <2>3, <2>4, <2>5, <2>6, <2>7
<1>3. QED
  BY <1>1, <1>2

\* The invariant holds always: it is what the four calls on a file lean on -- every
\* block in one place, the inode on disk no older than the one in memory while that
\* is clean, an inode in memory for every open file.
THEOREM SfsSafe == Spec => []SfsInv
<1>1. QED
  BY SfsInit, SfsNext, PTL DEF Spec

\* The bitmap, the block maps of all inodes and the superblock's count agree after
\* every call, whatever block_alloc found and wherever the call gave up
\* (sfs_block_alloc, sfs_bmap_get_nolock, sfs_bmap_free_nolock).
THEOREM BitmapIsExact == Spec => []BlocksExact
<1>1. QED
  BY SfsSafe, InvBlocksExact, PTL

\* Of the assertions that a file's data meets in sfs_inode.c (block map, reads,
\* writes, truncation, write-back and reclaim) none fails but the three that are
\* known; names and directories are not modelled.
THEOREM NoOtherPanics == Spec => []OnlyKnownPanics
<1>1. SfsInv => OnlyKnownPanics
  BY DEF SfsInv
<1>2. QED
  BY <1>1, SfsSafe, PTL

\* As long as the blocks reach every size, what the blocks of a file hold past its
\* size is zero (sfs_truncfile, sfs_io_nolock, block_alloc's clearing).
THEOREM GrowthShowsZeros == Spec => []TailIsZero
<1>1. QED
  BY SfsSafe, InvTailIsZero, PTL
-----------------------------------------------------------------------------
\* The contents of a file, word by word, as far as its blocks reach.
Words(i, d) == [k \in 1 .. i.size |-> Data(i, d)[(k - 1) \div BlkSize][(k - 1) % BlkSize]]

WordIn(i, d, k) ==
  LET q == k \div BlkSize
      b == IF q < NDirect THEN i.direct[q] ELSE IF i.indirect = 0 THEN 0 ELSE d[i.indirect][q - NDirect]
  IN IF b = 0 THEN 0 ELSE d[b][k % BlkSize]

LEMMA ContentsAreWords ==
  /\ FileContents = [f \in FileIds |-> [k \in 1 .. load_inode(f).size |-> WordIn(load_inode(f), disk, k - 1)]]
  /\ FileContents' = [f \in FileIds |-> [k \in 1 .. load_inode(f)'.size |-> WordIn(load_inode(f)', disk', k - 1)]]
  BY DEF FileContents, WordAt, BlockAt, WordIn

\* The block and the place in it of a word that the blocks reach.
LEMMA PlaceOfWord ==
  ASSUME NEW i \in Inodes, Reached(i), NEW k \in 1 .. i.size
  PROVE  /\ (k - 1) \div BlkSize \in Index /\ (k - 1) % BlkSize \in 0 .. BlkSize - 1
         /\ ((k - 1) \div BlkSize) * BlkSize + ((k - 1) % BlkSize) = k - 1
<1>1. i.size \in Nat /\ i.blocks \in 0 .. Reach /\ i.blocks \in Nat /\ BlkSize \in Nat
  BY InodeFields, SfsConstants
<1> PICK m \in Nat : m = k - 1
  BY <1>1
<1> PICK q \in Nat, x \in 0 .. BlkSize - 1 : q = m \div BlkSize /\ x = m % BlkSize /\ m = q * BlkSize + x
  BY DivMod
<1>2. q < i.blocks
  <2> SUFFICES ASSUME ~(q < i.blocks) PROVE FALSE
    OBVIOUS
  <2> PICK n \in Nat : n = i.blocks
    BY <1>1
  <2>1. n * BlkSize <= q * BlkSize /\ n * BlkSize \in Nat /\ q * BlkSize \in Nat
    BY ONLY <1>1, ~(q < i.blocks), n = i.blocks, n \in Nat, q \in Nat
  <2> PICK p \in Nat, r \in Nat : p = n * BlkSize /\ r = q * BlkSize
    BY <2>1
  <2>2. i.size <= p /\ p <= r /\ m = r + x /\ m < i.size
    BY <1>1, <2>1 DEF Reached
  <2>3. QED
    BY ONLY <1>1, <2>2, m \in Nat, p \in Nat, r \in Nat, x \in 0 .. BlkSize - 1
<1>3. q \in Index
  BY <1>1, <1>2, SfsConstants DEF Index
<1>4. QED
  BY <1>3

LEMMA WordsShown ==
  ASSUME NEW i \in Inodes, Reached(i), NEW d
  PROVE  [k \in 1 .. i.size |-> WordIn(i, d, k - 1)] = Words(i, d)
<1> SUFFICES ASSUME NEW k \in 1 .. i.size
             PROVE  WordIn(i, d, k - 1) = Data(i, d)[(k - 1) \div BlkSize][(k - 1) % BlkSize]
  BY DEF Words
<1> PICK q \in Index, x \in 0 .. BlkSize - 1 : q = (k - 1) \div BlkSize /\ x = (k - 1) % BlkSize
  BY PlaceOfWord
<1>1. q # Reach
  BY SfsConstants DEF Index
<1> PICK b : b = At(i, d, q)
  OBVIOUS
<1>2. WordIn(i, d, k - 1) = IF b = 0 THEN 0 ELSE d[b][x]
  BY <1>1 DEF WordIn, At
<1>3. Data(i, d)[q] = IF b = 0 THEN Zeros ELSE d[b]
  BY DEF Data
<1>4. Zeros[x] = 0
  BY DEF Zeros
<1>5. QED
  BY <1>2, <1>3, <1>4

LEMMA WordsTyped ==
  ASSUME NEW i \in Inodes, Reached(i), NEW d \in Disks, Mapped(i, d)
  PROVE  /\ Words(i, d) \in Seq(Nat) /\ Len(Words(i, d)) = i.size /\ i.size \in Nat
         /\ \A k \in 1 .. i.size : Words(i, d)[k] = Data(i, d)[(k - 1) \div BlkSize][(k - 1) % BlkSize]
<1>1. i.size \in Nat
  BY InodeFields
<1>2. ASSUME NEW k \in 1 .. i.size
      PROVE  Data(i, d)[(k - 1) \div BlkSize][(k - 1) % BlkSize] \in Nat
  <2> PICK q \in Index, x \in 0 .. BlkSize - 1 : q = (k - 1) \div BlkSize /\ x = (k - 1) % BlkSize
    BY PlaceOfWord
  <2>1. q \in Places
    BY KindsOfPlaces
  <2>2. Data(i, d)[q] \in Contents
    <3>1. At(i, d, q) # 0 => At(i, d, q) \in Blocks
      BY <2>1, SfsConstants DEF Mapped
    <3>2. QED
      BY <3>1, ZerosTyped DEF Data, Disks
  <2>3. QED
    BY <2>2 DEF Contents
<1> PICK w : w = Words(i, d)
  OBVIOUS
<1>3. w \in [1 .. i.size -> Nat]
  BY <1>2 DEF Words
<1>4. w \in Seq(Nat) /\ Len(w) = i.size
  BY ONLY <1>1, <1>3
<1>5. \A k \in 1 .. i.size : w[k] = Data(i, d)[(k - 1) \div BlkSize][(k - 1) % BlkSize]
  BY DEF Words
<1>6. QED
  BY <1>1, <1>4, <1>5

\* A word past the size reads as zero, as ByteFile has it.
LEMMA WordsAndZeros ==
  ASSUME NEW i \in Inodes, Reached(i), NEW d \in Disks, Mapped(i, d), PastSize(i, d),
         NEW k \in Nat \ {0}, NEW q \in Index, NEW x \in 0 .. BlkSize - 1,
         q = (k - 1) \div BlkSize, x = (k - 1) % BlkSize
  PROVE  Data(i, d)[q][x] = Bytes!Word(Words(i, d), k)
<1> PICK w : w = Words(i, d)
  OBVIOUS
<1>1. Len(w) = i.size /\ i.size \in Nat /\ \A l \in 1 .. i.size : w[l] = Data(i, d)[(l - 1) \div BlkSize][(l - 1) % BlkSize]
  BY WordsTyped
<1>2. Bytes!Word(w, k) = IF k <= Len(w) THEN w[k] ELSE 0
  BY DEF Bytes!Word
<1>3. CASE k <= i.size
  BY <1>1, <1>2, <1>3
<1>4. CASE ~(k <= i.size)
  <2>1. q * BlkSize + x = k - 1
    BY DivMod
  <2>2. q * BlkSize + x >= i.size
    BY <1>1, <1>4, <2>1
  <2>3. Data(i, d)[q][x] = 0
    BY <2>2 DEF PastSize
  <2>4. QED
    BY <1>1, <1>2, <1>4, <2>3
<1>5. QED
  BY <1>3, <1>4

\* A file that the blocks reach and that ends in zeros.
Shows(s) ==
  s.sin \in Inodes /\ s.disk \in Disks /\ Mapped(s.sin, s.disk) /\ Reached(s.sin) /\ PastSize(s.sin, s.disk)

\* A write writes its value, a read at most lets the file grow by zeros.
LEMMA IoShows ==
  ASSUME NEW s, Shows(s), NEW t, Shows(t), t.alen \in Nat,
         NEW off \in Nat, NEW n \in 1 .. BlkSize, NEW v \in Values \cup {0}, IoDone(s, t, off, n, v),
         NEW w, w = Words(s.sin, s.disk), NEW z, z = Words(t.sin, t.disk)
  PROVE  \/ z = w
         \/ \E m \in 0 .. MaxSize, l \in 1 .. BlkSize, c \in Values : z = Bytes!Written(w, m, l, c)
         \/ \E len \in Len(w) .. MaxSize : z = Bytes!Grown(w, len)
<1> PICK a \in Nat, b \in Nat : a = s.sin.size /\ b = t.sin.size
  BY InodeFields DEF Shows
<1> PICK l \in Nat : l = t.alen
  OBVIOUS
<1>1. MaxSize \in Nat /\ BlkSize \in Nat
  BY SfsAssumption
<1>2. b = (IF off < MaxSize /\ off + l > a THEN off + l ELSE a) /\ (off >= MaxSize => l = 0)
      /\ l <= n /\ (off < MaxSize => off + l <= MaxSize)
  BY DEF IoDone
<1>3. Len(w) = a /\ w \in Seq(Nat) /\ w = [k \in 1 .. a |-> w[k]]
  <2>1. Len(w) = a /\ w \in Seq(Nat)
    BY WordsTyped DEF Shows
  <2>2. QED
    BY ONLY <2>1
<1>4. Len(z) = b /\ z \in Seq(Nat)
  BY WordsTyped DEF Shows
<1>5. z = [k \in 1 .. b |-> z[k]]
  BY ONLY <1>4
<1>6. ASSUME NEW k \in 1 .. b
      PROVE  z[k] = IF v # 0 /\ k > off /\ k <= off + l THEN v ELSE Bytes!Word(w, k)
  <2> PICK q \in Index, x \in 0 .. BlkSize - 1 : /\ q = (k - 1) \div BlkSize /\ x = (k - 1) % BlkSize
                                                 /\ q * BlkSize + x = k - 1
    BY PlaceOfWord DEF Shows
  <2>1. z[k] = Data(t.sin, t.disk)[q][x]
    BY WordsTyped DEF Shows
  <2>2. Data(s.sin, s.disk)[q][x] = Bytes!Word(w, k)
    BY WordsAndZeros DEF Shows
  <2>3. Data(t.sin, t.disk)[q][x] = IF v # 0 /\ off <= q * BlkSize + x /\ q * BlkSize + x < off + l THEN v
                                    ELSE Data(s.sin, s.disk)[q][x]
    BY DEF IoDone, Wrote
  <2> PICK m \in Nat : m = k - 1
    OBVIOUS
  <2>4. (off <= m /\ m < off + l) <=> (k > off /\ k <= off + l)
    OBVIOUS
  <2>5. QED
    BY <2>1, <2>2, <2>3, <2>4
<1>7. CASE v # 0 /\ l # 0
  <2>1. off \in 0 .. MaxSize /\ l \in 1 .. BlkSize /\ v \in Values
    BY <1>1, <1>2, <1>7
  <2>2. b = IF off + l > Len(w) THEN off + l ELSE Len(w)
    BY <1>1, <1>2, <1>3, <1>7
  <2>3. Bytes!Written(w, off, l, v) = [k \in 1 .. b |-> IF k > off /\ k <= off + l THEN v ELSE Bytes!Word(w, k)]
    BY <2>2 DEF Bytes!Written
  <2>4. \A k \in 1 .. b : z[k] = IF k > off /\ k <= off + l THEN v ELSE Bytes!Word(w, k)
    BY <1>6, <1>7
  <2>5. z = Bytes!Written(w, off, l, v)
    BY ONLY <1>5, <2>3, <2>4
  <2>6. QED
    BY <2>1, <2>5
<1>8. CASE v = 0 \/ l = 0
  <2>1. ASSUME NEW k \in 1 .. b PROVE z[k] = Bytes!Word(w, k)
    <3>1. ~(v # 0 /\ k > off /\ k <= off + l)
      BY <1>8
    <3>2. QED
      BY <1>6, <3>1
  <2>2. Bytes!Grown(w, b) = [k \in 1 .. b |-> Bytes!Word(w, k)]
    BY DEF Bytes!Grown
  <2>3. z = Bytes!Grown(w, b)
    BY ONLY <1>5, <2>1, <2>2
  <2>4. CASE b = a
    <3>1. \A k \in 1 .. a : Bytes!Word(w, k) = w[k]
      BY <1>3 DEF Bytes!Word
    <3>2. z = w
      BY ONLY <1>3, <2>2, <2>3, <2>4, <3>1
    <3>3. QED
      BY <3>2
  <2>5. CASE b # a
    <3>1. b \in Len(w) .. MaxSize
      BY <1>1, <1>2, <1>3, <2>5
    <3>2. QED
      BY <2>3, <3>1
  <2>6. QED
    BY <2>4, <2>5
<1>9. QED
  BY <1>7, <1>8

LEMMA GrowthShows ==
  ASSUME NEW s, Shows(s), NEW t, Shows(t), NEW len \in Nat, len > s.sin.size, len <= MaxSize,
         Truncated(s, t, len), NEW w, w = Words(s.sin, s.disk), NEW z, z = Words(t.sin, t.disk)
  PROVE  z = w \/ \E m \in Len(w) .. MaxSize : z = Bytes!Grown(w, m)
<1>1. CASE t.ret # "ok"
  BY <1>1 DEF Truncated, Words
<1>2. CASE t.ret = "ok"
  <2>1. t.sin.size = len /\ MaxSize \in Nat
    BY <1>2, SfsAssumption DEF Truncated
  <2>2. Len(w) = s.sin.size /\ s.sin.size \in Nat
    BY WordsTyped DEF Shows
  <2>3. Len(z) = len /\ z \in Seq(Nat)
    BY <2>1, WordsTyped DEF Shows
  <2>4. z = [k \in 1 .. len |-> z[k]]
    BY <2>3
  <2>5. ASSUME NEW k \in 1 .. len PROVE z[k] = Bytes!Word(w, k)
    <3> PICK q \in Index, x \in 0 .. BlkSize - 1 : /\ q = (k - 1) \div BlkSize /\ x = (k - 1) % BlkSize
                                                   /\ q * BlkSize + x = k - 1
      BY <2>1, PlaceOfWord DEF Shows
    <3>1. z[k] = Data(t.sin, t.disk)[q][x]
      BY <2>1, WordsTyped DEF Shows
    <3>2. Data(s.sin, s.disk)[q][x] = Bytes!Word(w, k)
      BY WordsAndZeros DEF Shows
    <3>3. ~(q >= Ceil(len))
      <4> SUFFICES ASSUME q >= Ceil(len) PROVE FALSE
        OBVIOUS
      <4>1. q \in Nat /\ q * BlkSize \in Nat
        BY WordNumber
      <4>2. Ceil(len) <= q
        BY <4>1, CeilTyped
      <4>3. len <= q * BlkSize
        BY <4>1, <4>2, CeilReaches
      <4> PICK p \in Nat : p = q * BlkSize
        BY <4>1
      <4>4. QED
        BY ONLY <4>3, p \in Nat, p = q * BlkSize, q * BlkSize + x = k - 1, k \in 1 .. len, len \in Nat,
                BlkSize \in Nat, x \in 0 .. BlkSize - 1
    <3>4. QED
      BY <1>2, <3>1, <3>2, <3>3 DEF Truncated
  <2>6. Bytes!Grown(w, len) = [k \in 1 .. len |-> Bytes!Word(w, k)]
    BY DEF Bytes!Grown
  <2>7. z = Bytes!Grown(w, len)
    BY ONLY <2>4, <2>5, <2>6
  <2>8. len \in Len(w) .. MaxSize
    BY <2>1, <2>2
  <2>9. QED
    BY <2>7, <2>8
<1>3. QED
  BY <1>1, <1>2

LEMMA EmptyShows ==
  ASSUME NEW s, NEW t, Shows(t), Truncated(s, t, 0)
  PROVE  Words(t.sin, t.disk) = Words(s.sin, s.disk) \/ Words(t.sin, t.disk) = <<>>
<1>1. CASE t.ret # "ok"
  BY <1>1 DEF Truncated, Words
<1>2. CASE t.ret = "ok"
  <2> PICK z : z = Words(t.sin, t.disk)
    OBVIOUS
  <2>1. Len(z) = 0 /\ z \in Seq(Nat)
    BY <1>2, WordsTyped DEF Shows, Truncated
  <2>2. z = <<>>
    BY ONLY <2>1
  <2>3. QED
    BY <2>2
<1>3. QED
  BY <1>1, <1>2
-----------------------------------------------------------------------------
\* While the blocks reach every size, what a user sees of a file are its words.
LEMMA FileWords ==
  ASSUME SfsInv, ~short, NEW f \in FileIds
  PROVE  /\ load_inode(f) \in Inodes /\ disk \in Disks /\ Mapped(load_inode(f), disk)
         /\ Reached(load_inode(f)) /\ PastSize(load_inode(f), disk)
         /\ FileContents[f] = Words(load_inode(f), disk)
<1>1. load_inode(f) \in Inodes /\ disk \in Disks /\ Inode[f] = load_inode(f)
  BY DEF SfsInv, TypeCorrect, load_inode, Inode
<1>2. Mapped(load_inode(f), disk)
  BY <1>1 DEF SfsInv, Owners, Owned
<1>3. Reached(load_inode(f)) /\ PastSize(load_inode(f), disk)
  BY DEF SfsInv, Tails
<1>4. FileContents[f] = [k \in 1 .. load_inode(f).size |-> WordIn(load_inode(f), disk, k - 1)]
  BY ContentsAreWords
<1>5. QED
  BY <1>1, <1>2, <1>3, <1>4, WordsShown

LEMMA FileWordsAfter ==
  ASSUME SfsInv', ~short', NEW f \in FileIds
  PROVE  FileContents'[f] = Words(load_inode(f)', disk')
<1>1. load_inode(f)' \in Inodes
  BY DEF SfsInv, TypeCorrect, load_inode
<1>2. Reached(load_inode(f)')
  BY DEF SfsInv, Tails
<1>3. FileContents'[f] = [k \in 1 .. load_inode(f)'.size |-> WordIn(load_inode(f)', disk', k - 1)]
  BY ContentsAreWords
<1>4. QED
  BY <1>1, <1>2, <1>3, WordsShown

LEMMA SameContents ==
  ASSUME \A g \in FileIds : FileContents'[g] = FileContents[g]
  PROVE  FileContents' = FileContents
<1> PICK old, new : old = FileContents /\ new = FileContents'
  OBVIOUS
<1>1. old = [g \in FileIds |-> old[g]]
  BY DEF FileContents
<1>2. new = [g \in FileIds |-> new[g]]
  BY DEF FileContents
<1>3. QED
  BY <1>1, <1>2

\* A call on f settles: the other files' words are those they were.
LEMMA CallShown ==
  ASSUME SfsInv, SfsInv', ~short', panic = "no", NEW f \in FileIds, NEW s,
         Kept(State(f), s, Others(Inode, disk, f), disk), Settle(f, s)
  PROVE  /\ \A g \in FileIds \ {f} : FileContents'[g] = FileContents[g]
         /\ Shows(State(f)) /\ FileContents[f] = Words(State(f).sin, State(f).disk)
         /\ \/ FileContents'[f] = FileContents[f]
            \/ Shows(s) /\ FileContents'[f] = Words(s.sin, s.disk)
<1>1. /\ State(f).sin = load_inode(f) /\ State(f).disk = disk
      /\ Inode \in [FileIds -> Inodes] /\ \A g \in FileIds : Inode[g] = load_inode(g)
  BY StateBegins DEF Inode
<1>2. ~short
  BY DEF Settle
<1>3. Shows(State(f)) /\ FileContents[f] = Words(State(f).sin, State(f).disk)
  BY <1>1, <1>2, FileWords DEF Shows
<1>4. s \in Calls /\ Sound(s, Others(Inode, disk, f), disk)
  BY DEF Kept, Sound, Counted
<1>5. TypeCorrect /\ Owned(Inode, disk, freemap)
  BY DEF SfsInv, Owners
<1>6. CASE s.ret \in {"ok", "nospace", "invalid"}
  <2>1. sin' = [sin EXCEPT ![f] = s.sin] /\ disk' = s.disk /\ ondisk' = ondisk
        /\ short' = (short \/ Ceil(s.sin.size) > s.sin.blocks)
    BY <1>6 DEF Settle
  <2>2. s.sin \in Inodes /\ s.disk \in Disks /\ s.sin # NoInode
    BY <1>4, CallFields, SfsAssumption
  <2>3. sin'[f] = s.sin /\ \A g \in FileIds \ {f} : sin'[g] = sin[g]
    BY <1>5, <2>1 DEF TypeCorrect
  <2>4. load_inode(f)' = s.sin /\ \A g \in FileIds \ {f} : load_inode(g)' = load_inode(g)
    BY <2>1, <2>2, <2>3 DEF load_inode
  <2>5. FileContents'[f] = Words(s.sin, s.disk)
    BY <2>1, <2>4, FileWordsAfter
  <2>6. Mapped(s.sin, s.disk)
    BY <1>4 DEF Sound
  <2>7. Reached(load_inode(f)') /\ PastSize(load_inode(f)', disk')
    BY DEF SfsInv, Tails
  <2>8. Shows(s)
    BY <2>1, <2>2, <2>4, <2>6, <2>7 DEF Shows
  <2>9. ASSUME NEW g \in FileIds \ {f} PROVE FileContents'[g] = FileContents[g]
    <3>1. FileContents'[g] = Words(load_inode(g), s.disk)
      BY <2>1, <2>4, FileWordsAfter
    <3>2. FileContents[g] = Words(load_inode(g), disk)
      BY <1>2, FileWords
    <3>3. Data(load_inode(g), s.disk) = Data(load_inode(g), disk)
      <4>1. Data(Inode[g], s.disk) = Data(Inode[g], disk)
        BY <1>1, <1>4, <1>5, OthersKept DEF TypeCorrect
      <4>2. QED
        BY <1>1, <4>1
    <3>4. QED
      BY <3>1, <3>2, <3>3 DEF Words
  <2>10. QED
    BY <1>3, <2>5, <2>8, <2>9
<1>7. CASE s.ret \notin {"ok", "nospace", "invalid"}
  <2>1. UNCHANGED <<ondisk, sin, disk>>
    BY <1>7 DEF Settle
  <2>2. \A g \in FileIds : load_inode(g)' = load_inode(g)
    BY <2>1 DEF load_inode
  <2>3. \A g \in FileIds : FileContents'[g] = FileContents[g]
    BY <1>2, <2>1, <2>2, FileWords, FileWordsAfter
  <2>4. QED
    BY <1>3, <2>3
<1>8. QED
  BY <1>6, <1>7

\* Who has which file open.
LEMMA UsersAre ==
  /\ Users = [d \in Fds |-> IF fd[d] # NoFd THEN fd[d].file ELSE NoFd]
  /\ Users' = [d \in Fds |-> IF fd'[d] # NoFd THEN fd'[d].file ELSE NoFd]
  BY DEF Users, Is

\* A step of one file is a step of ByteFile.
LEMMA OneFile ==
  ASSUME NEW f \in FileIds, \A g \in FileIds \ {f} : FileContents'[g] = FileContents[g],
         \/ Bytes!Use(f, FileContents[f], FileContents'[f])
         \/ Bytes!Open(f, FileContents[f], FileContents'[f])
         \/ Bytes!Close(f, FileContents[f], FileContents'[f])
  PROVE  Bytes!Next
  BY DEF Bytes!Next

\* A user's call on its file: the words change as ByteFile allows or not at all.
LEMMA UserCalls ==
  ASSUME NEW f \in FileIds, \A g \in FileIds \ {f} : FileContents'[g] = FileContents[g],
         NEW d \in Fds, Users[d] = f, Users' = Users,
         NEW w, w = FileContents[f], NEW z, z = FileContents'[f],
         \/ z = w
         \/ \E m \in 0 .. MaxSize, l \in 1 .. BlkSize, c \in Values : z = Bytes!Written(w, m, l, c)
         \/ \E len \in Len(w) .. MaxSize : z = Bytes!Grown(w, len)
  PROVE  Bytes!Next \/ UNCHANGED <<FileContents, Users>>
<1>1. CASE z = w
  <2>1. \A g \in FileIds : FileContents'[g] = FileContents[g]
    BY <1>1
  <2>2. QED
    BY <2>1, SameContents
<1>2. CASE z # w
  <2>1. Bytes!Use(f, w, z)
    BY <1>2 DEF Bytes!Use
  <2>2. QED
    BY <2>1, OneFile
<1>3. QED
  BY <1>1, <1>2

LEMMA OpenShown ==
  ASSUME SfsInv, SfsInv', ~short', panic = "no", NEW d \in Fds, NEW f \in FileIds, NEW trunc \in BOOLEAN,
         sys_open(d, f, trunc)
  PROVE  Bytes!Next
<1> PICK b : b = State(f)
  OBVIOUS
<1> PICK s : s = IF trunc THEN truncfile(b, 0) ELSE b
  OBVIOUS
<1> PICK others : others = Others(Inode, disk, f)
  OBVIOUS
<1>1. /\ Sound(b, others, disk) /\ b.sin = load_inode(f) /\ b.disk = disk /\ b.ret = "ok" /\ b.alen = 0
      /\ b \in Calls
  BY StateBegins DEF Sound, Counted
<1>2. ~(fd[d] # NoFd) /\ Settle(f, s) /\ fd' = [fd EXCEPT ![d] = [file |-> f, pos |-> 0]]
  BY DEF sys_open, Is
<1>3. /\ \A g \in FileIds \ {f} : FileContents'[g] = FileContents[g]
      /\ FileContents'[f] = FileContents[f] \/ FileContents'[f] = <<>>
  <2>1. CASE trunc
    <3>1. Kept(b, s, others, disk) /\ Truncated(b, s, 0)
      BY <1>1, <2>1, Truncfile
    <3>2. /\ \A g \in FileIds \ {f} : FileContents'[g] = FileContents[g]
          /\ FileContents[f] = Words(b.sin, b.disk)
          /\ FileContents'[f] = FileContents[f] \/ (Shows(s) /\ FileContents'[f] = Words(s.sin, s.disk))
      BY <1>2, <3>1, CallShown
    <3>3. QED
      BY <3>1, <3>2, EmptyShows
  <2>2. CASE ~trunc
    <3>1. s = b
      BY <2>2
    <3>2. b.sin \in Inodes
      BY <1>1, CallFields
    <3>3. Clean(b.sin, b.sin)
      BY <3>2, SameMapSelf DEF Clean
    <3>4. Kept(b, s, others, disk)
      BY <1>1, <3>1, <3>3 DEF Kept
    <3>5. /\ \A g \in FileIds \ {f} : FileContents'[g] = FileContents[g]
          /\ FileContents[f] = Words(b.sin, b.disk)
          /\ FileContents'[f] = FileContents[f] \/ FileContents'[f] = Words(s.sin, s.disk)
      BY <1>2, <3>4, CallShown
    <3>6. QED
      BY <3>1, <3>5
  <2>3. QED
    BY <2>1, <2>2
<1>4. Users[d] = NoFd /\ Users' = [Users EXCEPT ![d] = f]
  <2> PICK new \in OpenFiles : new = [file |-> f, pos |-> 0]
    BY DEF OpenFiles
  <2>1. new.file = f /\ new # NoFd
    BY SfsAssumption
  <2>2. fd \in [Fds -> OpenFiles \cup {NoFd}] /\ fd' = [fd EXCEPT ![d] = new]
    BY <1>2 DEF SfsInv, TypeCorrect
  <2>3. fd'[d] = new /\ \A e \in Fds \ {d} : fd'[e] = fd[e]
    BY <2>2
  <2> PICK u, v : u = Users /\ v = Users'
    OBVIOUS
  <2>4. u = [e \in Fds |-> IF fd[e] # NoFd THEN fd[e].file ELSE NoFd]
        /\ v = [e \in Fds |-> IF fd'[e] # NoFd THEN fd'[e].file ELSE NoFd]
    BY UsersAre
  <2>5. v = [u EXCEPT ![d] = f] /\ u[d] = NoFd
    BY <1>2, <2>1, <2>3, <2>4
  <2>6. QED
    BY <2>5
<1>5. Bytes!Open(f, FileContents[f], FileContents'[f])
  BY <1>3, <1>4 DEF Bytes!Open
<1>6. QED
  BY <1>3, <1>5, OneFile

LEMMA DupShown ==
  ASSUME SfsInv, ~short, NEW d \in Fds, NEW e \in Fds, sys_dup(d, e)
  PROVE  Bytes!Next
<1>1. /\ fd[d] # NoFd /\ ~(fd[e] # NoFd) /\ fd' = [fd EXCEPT ![e] = fd[d]]
      /\ UNCHANGED <<ondisk, sin, disk>>
  BY DEF sys_dup, Is
<1> PICK f \in FileIds : f = fd[d].file
  BY <1>1, OpenFd
<1>2. \A g \in FileIds : load_inode(g)' = load_inode(g)
  BY <1>1 DEF load_inode
<1>3. FileContents' = FileContents
  BY <1>1, <1>2, ContentsAreWords
<1>4. Users[e] = NoFd /\ Users' = [Users EXCEPT ![e] = f]
  <2>1. fd'[e] = fd[d] /\ \A x \in Fds \ {e} : fd'[x] = fd[x]
    BY <1>1 DEF SfsInv, TypeCorrect
  <2> PICK u, v : u = Users /\ v = Users'
    OBVIOUS
  <2>2. u = [x \in Fds |-> IF fd[x] # NoFd THEN fd[x].file ELSE NoFd]
        /\ v = [x \in Fds |-> IF fd'[x] # NoFd THEN fd'[x].file ELSE NoFd]
    BY UsersAre
  <2>3. v = [u EXCEPT ![e] = f] /\ u[e] = NoFd
    BY <1>1, <2>1, <2>2
  <2>4. QED
    BY <2>3
<1>5. Bytes!Open(f, FileContents[f], FileContents'[f])
  BY <1>3, <1>4 DEF Bytes!Open
<1>6. QED
  BY <1>3, <1>5, OneFile

\* Reads, writes and seeks leave the descriptors on their files.
LEMMA SameUsers ==
  ASSUME SfsInv, NEW d \in Fds, fd[d] # NoFd, NEW pos \in Nat, fd' = fd \/ fd' = [fd EXCEPT ![d].pos = pos]
  PROVE  Users[d] = fd[d].file /\ Users' = Users
<1>1. fd \in [Fds -> OpenFiles \cup {NoFd}]
  BY DEF SfsInv, TypeCorrect
<1> PICK new : new = [fd[d] EXCEPT !.pos = pos]
  OBVIOUS
<1>2. fd[d] \in OpenFiles /\ new \in OpenFiles /\ new.file = fd[d].file
  BY <1>1 DEF OpenFiles
<1>3. new # NoFd
  BY <1>2, SfsAssumption
<1>4. fd' = fd \/ fd' = [fd EXCEPT ![d] = new]
  OBVIOUS
<1>5. \A e \in Fds : (IF fd'[e] # NoFd THEN fd'[e].file ELSE NoFd) = (IF fd[e] # NoFd THEN fd[e].file ELSE NoFd)
  BY ONLY <1>1, <1>2, <1>3, <1>4, fd[d] # NoFd, d \in Fds
<1>6. QED
  BY <1>5, UsersAre

LEMMA IoShown ==
  ASSUME SfsInv, SfsInv', ~short', panic = "no", NEW d \in Fds, NEW n \in Lengths, NEW v \in Values \cup {0},
         sys_io(d, n, v)
  PROVE  Bytes!Next \/ UNCHANGED <<FileContents, Users>>
<1> PICK f : f = fd[d].file
  OBVIOUS
<1> PICK off : off = fd[d].pos
  OBVIOUS
<1> PICK b : b = State(f)
  OBVIOUS
<1> PICK s : s = io_nolock(b, off, n, v)
  OBVIOUS
<1>1. fd[d] # NoFd /\ Settle(f, s) /\ fd' = [fd EXCEPT ![d].pos = @ + s.alen]
  BY DEF sys_io, Is
<1>2. f \in FileIds /\ off \in Nat /\ n \in Nat /\ n \in 1 .. BlkSize /\ v \in Nat
  BY <1>1, OpenFd, SfsAssumption
<1> PICK others : others = Others(Inode, disk, f)
  OBVIOUS
<1>3. Sound(b, others, disk) /\ b.ret = "ok" /\ b.alen = 0
  BY <1>2, StateBegins
<1>4. Kept(b, s, others, disk) /\ IoDone(b, s, off, n, v)
  BY <1>2, <1>3, IoNolock
<1>5. s.alen \in Nat
  BY <1>4, CallFields DEF Kept, Sound, Counted
<1>6. /\ \A g \in FileIds \ {f} : FileContents'[g] = FileContents[g]
      /\ Shows(b) /\ FileContents[f] = Words(b.sin, b.disk)
      /\ FileContents'[f] = FileContents[f] \/ (Shows(s) /\ FileContents'[f] = Words(s.sin, s.disk))
  BY <1>1, <1>2, <1>4, CallShown
<1> PICK w, z : w = FileContents[f] /\ z = FileContents'[f]
  OBVIOUS
<1>7. \/ z = w
      \/ \E m \in 0 .. MaxSize, l \in 1 .. BlkSize, c \in Values : z = Bytes!Written(w, m, l, c)
      \/ \E len \in Len(w) .. MaxSize : z = Bytes!Grown(w, len)
  <2>1. CASE z = w
    BY <2>1
  <2>2. CASE Shows(s) /\ z = Words(s.sin, s.disk)
    BY <1>2, <1>4, <1>5, <1>6, <2>2, IoShows
  <2>3. QED
    BY <1>6, <2>1, <2>2
<1> PICK pos \in Nat : pos = off + s.alen
  BY <1>2, <1>5
<1>8. Users[d] = f /\ Users' = Users
  <2>1. fd' = [fd EXCEPT ![d].pos = pos]
    BY <1>1
  <2>2. QED
    BY <1>1, <2>1, SameUsers
<1>9. QED
  BY <1>2, <1>6, <1>7, <1>8, UserCalls

LEMMA SeekShown ==
  ASSUME SfsInv, SfsInv', ~short', panic = "no", NEW d \in Fds, NEW pos \in Offsets, sys_seek(d, pos)
  PROVE  Bytes!Next \/ UNCHANGED <<FileContents, Users>>
<1> PICK f : f = fd[d].file
  OBVIOUS
<1> PICK b : b = State(f)
  OBVIOUS
<1> PICK s : s = IF pos > sin[f].size THEN truncfile(b, pos) ELSE b
  OBVIOUS
<1>1. fd[d] # NoFd /\ Settle(f, s) /\ fd' = IF s.ret = "ok" THEN [fd EXCEPT ![d].pos = pos] ELSE fd
  BY DEF sys_seek, Is
<1>2. f \in FileIds /\ pos \in Nat /\ pos <= MaxSize /\ sin[f] # NoInode /\ sin[f] \in Inodes
  <2>1. pos \in 0 .. MaxSize - 1 /\ MaxSize \in Nat
    BY SfsAssumption
  <2>2. pos \in Nat /\ pos <= MaxSize
    BY <2>1
  <2>3. QED
    BY <1>1, <2>2, OpenFd
<1> PICK others : others = Others(Inode, disk, f)
  OBVIOUS
<1>3. Sound(b, others, disk) /\ b.sin = sin[f] /\ b.ret = "ok" /\ b.alen = 0
  BY <1>2, StateBegins DEF load_inode
<1> PICK w, z : w = FileContents[f] /\ z = FileContents'[f]
  OBVIOUS
<1>4. /\ \A g \in FileIds \ {f} : FileContents'[g] = FileContents[g]
      /\ z = w \/ \E len \in Len(w) .. MaxSize : z = Bytes!Grown(w, len)
  <2>1. CASE pos > sin[f].size
    <3>1. s = truncfile(b, pos)
      BY <2>1
    <3>2. Kept(b, s, others, disk) /\ Truncated(b, s, pos)
      BY <1>2, <1>3, <3>1, Truncfile
    <3>3. /\ \A g \in FileIds \ {f} : FileContents'[g] = FileContents[g]
          /\ Shows(b) /\ w = Words(b.sin, b.disk)
          /\ z = w \/ (Shows(s) /\ z = Words(s.sin, s.disk))
      BY <1>1, <1>2, <3>2, CallShown
    <3>4. pos > b.sin.size
      BY <1>3, <2>1
    <3>5. QED
      BY <1>2, <3>2, <3>3, <3>4, GrowthShows
  <2>2. CASE ~(pos > sin[f].size)
    <3>1. s = b
      BY <2>2
    <3>2. Clean(b.sin, b.sin)
      BY <1>2, <1>3, SameMapSelf DEF Clean
    <3>3. Kept(b, s, others, disk)
      BY <1>3, <3>1, <3>2 DEF Kept
    <3>4. /\ \A g \in FileIds \ {f} : FileContents'[g] = FileContents[g]
          /\ w = Words(b.sin, b.disk) /\ (z = w \/ z = Words(s.sin, s.disk))
      BY <1>1, <1>2, <3>3, CallShown
    <3>5. QED
      BY <3>1, <3>4
  <2>3. QED
    BY <2>1, <2>2
<1>5. Users[d] = f /\ Users' = Users
  BY <1>1, <1>2, SameUsers
<1>6. QED
  BY <1>2, <1>4, <1>5, UserCalls

\* An inode with the same map shows the same words.
LEMMA SameMapShows ==
  ASSUME SfsInv, SfsInv', ~short, ~short', disk' = disk, NEW f \in FileIds, SameMap(load_inode(f)', load_inode(f))
  PROVE  FileContents'[f] = FileContents[f]
<1> PICK i, j : i = load_inode(f) /\ j = load_inode(f)'
  OBVIOUS
<1>1. FileContents[f] = Words(i, disk) /\ FileContents'[f] = Words(j, disk)
  BY FileWords, FileWordsAfter
<1>2. Data(j, disk) = Data(i, disk) /\ j.size = i.size
  BY SameMapAt DEF SameMap
<1>3. QED
  BY <1>1, <1>2 DEF Words

LEMMA FsyncShown ==
  ASSUME SfsInv, SfsInv', ~short, ~short', panic = "no", NEW d \in Fds, sys_fsync(d)
  PROVE  UNCHANGED <<FileContents, Users>>
<1> PICK f : f = fd[d].file
  OBVIOUS
<1>1. /\ fd[d] # NoFd /\ fsync(f) /\ sin' = [sin EXCEPT ![f].dirty = FALSE] /\ disk' = disk /\ fd' = fd
  BY DEF sys_fsync, Is
<1>2. f \in FileIds /\ sin[f] # NoInode /\ sin[f] \in Inodes
  BY <1>1, OpenFd
<1> PICK i \in Inodes : i = sin[f]
  BY <1>2
<1> PICK j : j = [i EXCEPT !.dirty = FALSE]
  OBVIOUS
<1>3. /\ j \in Inodes /\ j.direct = i.direct /\ j.indirect = i.indirect /\ j.size = i.size /\ j.blocks = i.blocks
  BY DEF Inodes
<1>4. SameMap(j, i)
  <2>1. i.blocks \in Nat
    BY InodeFields, SfsConstants
  <2>2. QED
    BY <1>3, <2>1 DEF SameMap
<1>5. ondisk \in [FileIds -> Inodes] /\ sin \in [FileIds -> Inodes \cup {NoInode}]
  BY DEF SfsInv, TypeCorrect
<1>6. sin'[f] = j /\ j # NoInode /\ \A g \in FileIds \ {f} : sin'[g] = sin[g] /\ ondisk'[g] = ondisk[g]
  <2>1. sin' = [sin EXCEPT ![f] = j]
    BY <1>1
  <2>2. \A g \in FileIds \ {f} : ondisk'[g] = ondisk[g]
    BY <1>1, <1>5 DEF fsync
  <2>3. QED
    BY <1>2, <1>3, <1>5, <2>1, <2>2, SfsAssumption
<1>7. ASSUME NEW g \in FileIds PROVE SameMap(load_inode(g)', load_inode(g))
  <2>1. CASE g = f
    BY <1>2, <1>4, <1>6, <2>1 DEF load_inode
  <2>2. CASE g # f
    <3>1. load_inode(g)' = load_inode(g) /\ load_inode(g) \in Inodes
      BY <1>5, <1>6, <2>2 DEF load_inode
    <3>2. QED
      BY <3>1, SameMapSelf
  <2>3. QED
    BY <2>1, <2>2
<1>8. \A g \in FileIds : FileContents'[g] = FileContents[g]
  BY <1>1, <1>7, SameMapShows
<1>9. QED
  BY <1>1, <1>8, SameContents, UsersAre

LEMMA CloseShown ==
  ASSUME SfsInv, SfsInv', ~short, ~short', panic = "no", NEW d \in Fds, sys_close(d)
  PROVE  Bytes!Next
<1> PICK f : f = fd[d].file
  OBVIOUS
<1> PICK last : last = \A e \in Fds \ {d} : Is(e) => fd[e].file # f
  OBVIOUS
<1>1. /\ fd[d] # NoFd /\ fd' = [fd EXCEPT ![d] = NoFd] /\ disk' = disk
      /\ IF last THEN fsync(f) /\ sin' = [sin EXCEPT ![f] = NoInode] ELSE UNCHANGED <<ondisk, sin>>
  BY DEF sys_close, Is
<1>2. f \in FileIds /\ sin[f] # NoInode /\ sin[f] \in Inodes
  BY <1>1, OpenFd
<1>3. ondisk \in [FileIds -> Inodes] /\ sin \in [FileIds -> Inodes \cup {NoInode}]
  BY DEF SfsInv, TypeCorrect
<1>4. ASSUME NEW g \in FileIds PROVE SameMap(load_inode(g)', load_inode(g))
  <2>1. load_inode(g) \in Inodes
    BY <1>3 DEF load_inode
  <2>2. CASE last /\ g = f
    <3>1. fsync(f) /\ sin' = [sin EXCEPT ![f] = NoInode]
      BY <1>1, <2>2
    <3>2. ondisk' = [ondisk EXCEPT ![f] = AsWritten(f)] /\ SameMap(AsWritten(f), sin[f])
      BY <1>2, <3>1, Fsync
    <3>3. sin'[f] = NoInode /\ ondisk'[f] = AsWritten(f)
      BY <1>2, <1>3, <3>1, <3>2
    <3>4. load_inode(f)' = AsWritten(f) /\ load_inode(f) = sin[f]
      BY <1>2, <3>3 DEF load_inode
    <3>5. QED
      BY <2>2, <3>2, <3>4
  <2>3. CASE ~(last /\ g = f)
    <3>1. sin'[g] = sin[g] /\ ondisk'[g] = ondisk[g]
      BY <1>1, <1>3, <2>3 DEF fsync
    <3>2. load_inode(g)' = load_inode(g)
      BY <3>1 DEF load_inode
    <3>3. QED
      BY <2>1, <3>2, SameMapSelf
  <2>4. QED
    BY <2>2, <2>3
<1>5. \A g \in FileIds : FileContents'[g] = FileContents[g]
  BY <1>1, <1>4, SameMapShows
<1>6. Users[d] = f /\ Users' = [Users EXCEPT ![d] = NoFd]
  <2>1. fd'[d] = NoFd /\ \A e \in Fds \ {d} : fd'[e] = fd[e]
    BY <1>1 DEF SfsInv, TypeCorrect
  <2> PICK u, v : u = Users /\ v = Users'
    OBVIOUS
  <2>2. u = [e \in Fds |-> IF fd[e] # NoFd THEN fd[e].file ELSE NoFd]
        /\ v = [e \in Fds |-> IF fd'[e] # NoFd THEN fd'[e].file ELSE NoFd]
    BY UsersAre
  <2>3. v = [u EXCEPT ![d] = NoFd] /\ u[d] = f
    BY <1>1, <2>1, <2>2
  <2>4. QED
    BY <2>3
<1>7. Bytes!Close(f, FileContents[f], FileContents'[f])
  BY <1>2, <1>5, <1>6 DEF Bytes!Close
<1>8. QED
  BY <1>2, <1>5, <1>7, OneFile

LEMMA EmptyAtFirst == Init => Bytes!Init
<1> SUFFICES ASSUME Init PROVE Bytes!Init
  OBVIOUS
<1>1. sin = [f \in FileIds |-> NoInode] /\ ondisk = [f \in FileIds |-> EmptyInode] /\ fd = [d \in Fds |-> NoFd]
  BY DEF Init
<1>2. \A f \in FileIds : load_inode(f).size = 0
  BY <1>1 DEF load_inode, EmptyInode
<1>3. ASSUME NEW f \in FileIds PROVE FileContents[f] \in Seq(Values \cup {0})
  <2> PICK w : w = FileContents[f]
    OBVIOUS
  <2>1. w = [k \in 1 .. 0 |-> WordIn(load_inode(f), disk, k - 1)]
    BY <1>2, ContentsAreWords
  <2>2. w \in [1 .. 0 -> Values \cup {0}]
    BY <2>1
  <2>3. w \in Seq(Values \cup {0})
    BY ONLY <2>2
  <2>4. QED
    BY <2>3
<1>4. FileContents \in [FileIds -> Seq(Values \cup {0})]
  <2> PICK c : c = FileContents
    OBVIOUS
  <2>1. c = [f \in FileIds |-> c[f]] /\ \A f \in FileIds : c[f] \in Seq(Values \cup {0})
    BY <1>3 DEF FileContents
  <2>2. QED
    BY <2>1
<1>5. Users = [d \in Fds |-> NoFd]
  BY <1>1, UsersAre
<1>6. QED
  BY <1>4, <1>5 DEF Bytes!Init

LEMMA StepsShow == SfsInv /\ SfsInv' /\ [Next]_vars => [short' \/ Bytes!Next]_<<FileContents, Users>>
<1> SUFFICES ASSUME SfsInv, SfsInv', [Next]_vars, ~short'
             PROVE  Bytes!Next \/ UNCHANGED <<FileContents, Users>>
  OBVIOUS
<1>1. CASE UNCHANGED vars
  <2>1. UNCHANGED <<ondisk, sin, disk, fd>>
    BY <1>1 DEF vars
  <2>2. \A g \in FileIds : load_inode(g)' = load_inode(g)
    BY <2>1 DEF load_inode
  <2>3. FileContents' = FileContents
    BY <2>1, <2>2, ContentsAreWords
  <2>4. QED
    BY <2>1, <2>3, UsersAre
<1>2. CASE Next
  <2>1. panic = "no"
    BY <1>2 DEF Next
  <2> PICK d \in Fds : \/ \E f \in FileIds, trunc \in BOOLEAN : sys_open(d, f, trunc)
                       \/ \E e \in Fds : sys_dup(d, e)
                       \/ \E n \in Lengths, v \in Values \cup {0} : sys_io(d, n, v)
                       \/ \E pos \in Offsets : sys_seek(d, pos)
                       \/ sys_fsync(d)
                       \/ sys_close(d)
    BY <1>2 DEF Next
  <2>2. CASE \E f \in FileIds, trunc \in BOOLEAN : sys_open(d, f, trunc)
    BY <2>1, <2>2, OpenShown
  <2>3. CASE \E e \in Fds : sys_dup(d, e)
    <3>1. ~short
      BY <2>3 DEF sys_dup
    <3>2. QED
      BY <2>3, <3>1, DupShown
  <2>4. CASE \E n \in Lengths, v \in Values \cup {0} : sys_io(d, n, v)
    BY <2>1, <2>4, IoShown
  <2>5. CASE \E pos \in Offsets : sys_seek(d, pos)
    BY <2>1, <2>5, SeekShown
  <2>6. CASE sys_fsync(d)
    <3>1. ~short
      BY <2>6 DEF sys_fsync
    <3>2. QED
      BY <2>1, <2>6, <3>1, FsyncShown
  <2>7. CASE sys_close(d)
    <3>1. ~short
      BY <2>7 DEF sys_close
    <3>2. QED
      BY <2>1, <2>7, <3>1, CloseShown
  <2>8. QED
    BY <2>2, <2>3, <2>4, <2>5, <2>6, <2>7
<1>3. QED
  BY <1>1, <1>2

\* KeepsBytes: as long as the blocks reach every size, the block maps, the bitmap and
\* the copies of the inodes implement arrays of words: sfs_io_nolock, sfs_truncfile
\* and sfs_tryseek change only the file of the call and only as ByteFile says,
\* sfs_fsync and the drop of an inode by the last close change nothing.
THEOREM FilesKeepTheirBytes == Spec => KeepsBytes
<1>1. QED
  BY EmptyAtFirst, StepsShow, SfsSafe, PTL DEF Spec, KeepsBytes
=============================================================================
