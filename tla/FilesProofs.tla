----------------------------- MODULE FilesProofs -----------------------------
(***************************************************************************)
(* Proofs about the open files of lab8, for every number of processes and  *)
(* of table entries, every buffer size and every history of calls.         *)
(***************************************************************************)
EXTENDS Files, Lemmas

Table == [Fds -> Entry]
Counts == [Inodes -> [ref : Int, open : Int]]

\* What the operators on one table act on.
Tables == [fd : Table, inode : Counts, panic : {"no", "assert", "missing vop", "count"}]

Asleep(p, fd) == reading[p] # NoRead /\ reading[p].fd = fd

Cwd(i) == {p \in Procs : files[p] # NoFiles /\ files[p].pwd = i}

FilesTypeOK ==
  /\ files \in [Procs -> [pwd : {"root"}, fd : Table] \cup {NoFiles}]
  /\ inode \in Counts
  /\ reading \in [Procs -> [fd : Fds, want : 1 .. MaxWant] \cup {NoRead}]
  /\ lost \in [Inodes -> Nat] /\ abandoned \in [Inodes -> Nat]
  /\ panic \in {"no", "missing vop", "count"}

\* Between calls an entry is free or opened, once, and once more for the read
\* its process sleeps in.
AtRest ==
  \A p \in Procs :
    /\ files[p] # NoFiles => \A fd \in Fds :
         \/ files[p].fd[fd].status = "NONE"
         \/ /\ files[p].fd[fd].status = "OPENED"
            /\ files[p].fd[fd].open_count = IF Asleep(p, fd) THEN 2 ELSE 1
    /\ reading[p] # NoRead =>
         files[p] # NoFiles /\ files[p].fd[reading[p].fd].status = "OPENED"

\* The inductive invariant.
FilesInv == FilesTypeOK /\ AtRest /\ CountsExact

\* The entries of all tables that hold inode i, when p's table is that of s.
Holding(s, p, i) ==
  {pf \in Procs \X Fds :
     IF pf[1] = p
     THEN s.fd[pf[2]].status # "NONE" /\ s.fd[pf[2]].node = i
     ELSE /\ files[pf[1]] # NoFiles
          /\ files[pf[1]].fd[pf[2]].status # "NONE" /\ files[pf[1]].fd[pf[2]].node = i}

\* What holds before and after each operation on p's table: no assertion has
\* failed but those about functions and the bound, an inode is open as often as
\* entries hold it or held it when they were abandoned, and it has R[i]
\* references besides.
Good(s, p, R) ==
  /\ s \in Tables /\ s.panic # "assert" /\ abandoned \in [Inodes -> Nat]
  /\ \A i \in Inodes : /\ s.inode[i].open = Cardinality(Holding(s, p, i)) + abandoned[i]
                       /\ s.inode[i].ref = s.inode[i].open + R[i]

\* R with one reference to inode i more.
Plus(R, i) == [R EXCEPT ![i] = @ + 1]

\* No entry is closed but still acquired, or acquired by a call.
Quiet(s) == \A fd \in Fds : \/ s.fd[fd].status = "NONE"
                            \/ s.fd[fd].status = "OPENED" /\ s.fd[fd].open_count = 1
-----------------------------------------------------------------------------
\* The fields of an entry and of what the operators act on.
LEMMA EntryFields ==
  ASSUME NEW e \in Entry
  PROVE  /\ e.status \in {"NONE", "INIT", "OPENED", "CLOSED"}
         /\ e.node \in Inodes /\ e.open_count \in Int
  BY DEF Entry

\* Counting an entry down, and closing it.
LEMMA EntryEdit ==
  ASSUME NEW f \in Entry, NEW n \in Int
  PROVE  /\ [f EXCEPT !.open_count = n, !.status = "CLOSED"] =
              [status |-> "CLOSED", node |-> f.node, open_count |-> n]
         /\ [f EXCEPT !.open_count = n, !.status = "CLOSED"] \in Entry
         /\ [f EXCEPT !.open_count = n] =
              [status |-> f.status, node |-> f.node, open_count |-> n]
         /\ [f EXCEPT !.open_count = n] \in Entry
<1>1. PICK st \in {"NONE", "INIT", "OPENED", "CLOSED"}, i \in Inodes, c \in Int :
        f = [status |-> st, node |-> i, open_count |-> c]
  BY DEF Entry
<1>2. f.status = st /\ f.node = i
  BY <1>1
<1>3. [f EXCEPT !.open_count = n] = [status |-> st, node |-> i, open_count |-> n]
  BY <1>1
<1>4. [f EXCEPT !.open_count = n, !.status = "CLOSED"] =
        [status |-> "CLOSED", node |-> i, open_count |-> n]
  <2> DEFINE g == [f EXCEPT !.open_count = n]
  <2>1. [f EXCEPT !.open_count = n, !.status = "CLOSED"] = [g EXCEPT !.status = "CLOSED"]
    OBVIOUS
  <2>2. g = [status |-> st, node |-> i, open_count |-> n]
    BY <1>3
  <2> HIDE DEF g
  <2>3. [g EXCEPT !.status = "CLOSED"] = [status |-> "CLOSED", node |-> i, open_count |-> n]
    BY <2>2
  <2>4. QED
    BY <2>1, <2>3
<1>5. /\ [f EXCEPT !.open_count = n, !.status = "CLOSED"] \in Entry
      /\ [f EXCEPT !.open_count = n] \in Entry
  BY DEF Entry
<1>6. QED
  BY <1>2, <1>3, <1>4, <1>5

LEMMA TablesFields ==
  ASSUME NEW s \in Tables
  PROVE  /\ s.fd \in Table /\ s.inode \in Counts /\ s.panic \in {"no", "assert", "missing vop", "count"}
         /\ \A fd \in Fds : s.fd[fd] \in Entry
         /\ \A i \in Inodes : /\ s.inode[i] \in [ref : Int, open : Int]
                              /\ s.inode[i].ref \in Int /\ s.inode[i].open \in Int
  BY DEF Tables, Table, Counts

\* An assertion of the code: it changes nothing when it holds.
LEMMA EnsureFields ==
  ASSUME NEW s \in Tables, NEW c \in BOOLEAN, NEW why \in {"assert", "missing vop", "count"}
  PROVE  /\ Ensure(s, c, why) \in Tables
         /\ Ensure(s, c, why).fd = s.fd /\ Ensure(s, c, why).inode = s.inode
         /\ c => Ensure(s, c, why) = s
         /\ (why # "assert" /\ s.panic # "assert") => Ensure(s, c, why).panic # "assert"
  BY DEF Ensure, Tables

LEMMA CheckFields ==
  ASSUME NEW s \in Tables, NEW c \in BOOLEAN
  PROVE  /\ Check(s, c) \in Tables
         /\ Check(s, c).fd = s.fd /\ Check(s, c).inode = s.inode
         /\ c => Check(s, c) = s
  BY EnsureFields DEF Check

\* A call of a function of an inode fails no assertion but those about functions
\* and the bound, if there are as many references as openers.
LEMMA VopCallFields ==
  ASSUME NEW s \in Tables, NEW i \in Inodes, NEW op
  PROVE  /\ vop_call(s, i, op) \in Tables
         /\ vop_call(s, i, op).fd = s.fd /\ vop_call(s, i, op).inode = s.inode
         /\ (s.panic # "assert" /\ s.inode[i].ref >= s.inode[i].open /\ s.inode[i].open >= 0)
               => vop_call(s, i, op).panic # "assert"
<1> DEFINE c == s.inode[i]
           has == op \in Vops[i]
           sane == c.ref >= c.open /\ c.open >= 0
           few == c.ref < MaxInodeCount /\ c.open < MaxInodeCount
           t == Ensure(s, has, "missing vop")
           u == Check(t, sane)
           v == Ensure(u, few, "count")
<1>1. vop_call(s, i, op) = v
  BY DEF vop_call
<1>2. has \in BOOLEAN /\ sane \in BOOLEAN /\ few \in BOOLEAN
  OBVIOUS
<1>3. (s.inode[i].ref >= s.inode[i].open /\ s.inode[i].open >= 0) <=> sane
  OBVIOUS
<1> HIDE DEF has, sane, few
<1>4. /\ t \in Tables /\ t.fd = s.fd /\ t.inode = s.inode
      /\ s.panic # "assert" => t.panic # "assert"
  BY <1>2, EnsureFields
<1> HIDE DEF t
<1>5. u \in Tables /\ u.fd = t.fd /\ u.inode = t.inode /\ (sane => u = t)
  BY <1>2, <1>4, CheckFields
<1> HIDE DEF u
<1>6. /\ v \in Tables /\ v.fd = u.fd /\ v.inode = u.inode
      /\ u.panic # "assert" => v.panic # "assert"
  BY <1>2, <1>5, EnsureFields
<1> HIDE DEF v
<1>7. QED
  BY <1>1, <1>3, <1>4, <1>5, <1>6

\* vop_ref_inc, vop_open_inc and their inverses.
LEMMA ShiftFields ==
  ASSUME NEW s \in Tables, NEW i \in Inodes, NEW r \in Int, NEW o \in Int
  PROVE  /\ Shift(s, i, r, o) \in Tables
         /\ Shift(s, i, r, o).fd = s.fd /\ Shift(s, i, r, o).panic = s.panic
         /\ \A j \in Inodes \ {i} : Shift(s, i, r, o).inode[j] = s.inode[j]
         /\ Shift(s, i, r, o).inode[i].ref = s.inode[i].ref + r
         /\ Shift(s, i, r, o).inode[i].open = s.inode[i].open + o
<1>1. s.inode \in [Inodes -> [ref : Int, open : Int]] /\ s.inode[i].ref + r \in Int /\ s.inode[i].open + o \in Int
  <2>1. s.inode \in Counts /\ s.inode[i].ref \in Int /\ s.inode[i].open \in Int
    BY TablesFields
  <2>2. QED
    BY <2>1 DEF Counts
<1> DEFINE c == [ref |-> s.inode[i].ref + r, open |-> s.inode[i].open + o]
<1>2. c \in [ref : Int, open : Int] /\ c.ref = s.inode[i].ref + r /\ c.open = s.inode[i].open + o
  BY <1>1
<1>3. Shift(s, i, r, o) = [s EXCEPT !.inode = [s.inode EXCEPT ![i] = c]]
  BY <1>1 DEF Shift, Tables
<1> HIDE DEF c
<1>4. [s.inode EXCEPT ![i] = c] \in Counts
  BY <1>1, <1>2 DEF Counts
<1>5. QED
  BY <1>1, <1>2, <1>3, <1>4 DEF Tables

\* The entries that hold an inode are finitely many.
LEMMA HoldingFinite ==
  ASSUME NEW s, NEW p, NEW i
  PROVE  IsFiniteSet(Holding(s, p, i)) /\ Cardinality(Holding(s, p, i)) \in Nat
<1>1. IsFiniteSet(Procs) /\ IsFiniteSet(Fds)
  BY FilesAssumption, FS_Interval DEF Fds
<1>2. IsFiniteSet(Procs \X Fds)
  BY <1>1, FS_Product
<1>3. Holding(s, p, i) \subseteq Procs \X Fds
  BY DEF Holding
<1>4. QED
  BY <1>2, <1>3, FS_Subset, FS_CardinalityType

\* inode_open_dec: no assertion of its own fails if someone has the inode open.
LEMMA OpenDecFields ==
  ASSUME NEW s \in Tables, NEW i \in Inodes
  PROVE  /\ inode_open_dec(s, i) \in Tables /\ inode_open_dec(s, i).fd = s.fd
         /\ \A j \in Inodes \ {i} : inode_open_dec(s, i).inode[j] = s.inode[j]
         /\ inode_open_dec(s, i).inode[i].ref = s.inode[i].ref
         /\ inode_open_dec(s, i).inode[i].open = s.inode[i].open - 1
         /\ (s.panic # "assert" /\ s.inode[i].open > 0 /\ s.inode[i].ref >= s.inode[i].open)
               => inode_open_dec(s, i).panic # "assert"
<1> DEFINE c == s.inode[i].open > 0
           t == Shift(Check(s, c), i, 0, -1)
<1>1. /\ Check(s, c) \in Tables /\ Check(s, c).fd = s.fd /\ Check(s, c).inode = s.inode
      /\ c => Check(s, c) = s
  <2>1. c \in BOOLEAN
    OBVIOUS
  <2> HIDE DEF c
  <2>2. QED
    BY <2>1, CheckFields
<1>2. 0 \in Int /\ -1 \in Int
  OBVIOUS
<1>3. s.inode[i].ref \in Int /\ s.inode[i].open \in Int
  BY TablesFields
<1>4. inode_open_dec(s, i) = IF t.inode[i].open = 0 THEN vop_call(t, i, "close") ELSE t
  BY DEF inode_open_dec
<1> HIDE DEF c
<1>5. /\ t \in Tables /\ t.fd = s.fd /\ (c => t.panic = s.panic)
      /\ \A j \in Inodes \ {i} : t.inode[j] = s.inode[j]
      /\ t.inode[i].ref = s.inode[i].ref + 0 /\ t.inode[i].open = s.inode[i].open + (-1)
  BY <1>1, <1>2, ShiftFields
<1> HIDE DEF t
<1>6. /\ vop_call(t, i, "close") \in Tables /\ vop_call(t, i, "close").fd = t.fd
      /\ vop_call(t, i, "close").inode = t.inode
      /\ (t.panic # "assert" /\ t.inode[i].ref >= t.inode[i].open /\ t.inode[i].open >= 0)
           => vop_call(t, i, "close").panic # "assert"
  BY <1>5, VopCallFields
<1>7. ASSUME s.panic # "assert", s.inode[i].open > 0, s.inode[i].ref >= s.inode[i].open
      PROVE  inode_open_dec(s, i).panic # "assert"
  <2>1. t.panic # "assert"
    BY <1>5, <1>7 DEF c
  <2>2. t.inode[i].ref >= t.inode[i].open /\ t.inode[i].open >= 0
    BY <1>3, <1>5, <1>7
  <2>3. QED
    BY <1>4, <1>6, <2>1, <2>2
<1>8. QED
  BY <1>3, <1>4, <1>5, <1>6, <1>7

\* inode_ref_dec: no assertion of its own fails if there is a reference besides
\* those of the openers.
LEMMA RefDecFields ==
  ASSUME NEW s \in Tables, NEW i \in Inodes
  PROVE  /\ inode_ref_dec(s, i) \in Tables /\ inode_ref_dec(s, i).fd = s.fd
         /\ \A j \in Inodes \ {i} : inode_ref_dec(s, i).inode[j] = s.inode[j]
         /\ inode_ref_dec(s, i).inode[i].ref = s.inode[i].ref - 1
         /\ inode_ref_dec(s, i).inode[i].open = s.inode[i].open
         /\ (s.panic # "assert" /\ s.inode[i].open >= 0 /\ s.inode[i].ref > s.inode[i].open)
               => inode_ref_dec(s, i).panic # "assert"
<1> DEFINE c == s.inode[i].ref > 0
           t == Shift(Check(s, c), i, -1, 0)
           u == vop_call(t, i, "reclaim")
           d == t.inode[i].open = 0
<1>1. /\ Check(s, c) \in Tables /\ Check(s, c).fd = s.fd /\ Check(s, c).inode = s.inode
      /\ c => Check(s, c) = s
  <2>1. c \in BOOLEAN
    OBVIOUS
  <2> HIDE DEF c
  <2>2. QED
    BY <2>1, CheckFields
<1>2. 0 \in Int /\ -1 \in Int
  OBVIOUS
<1>3. s.inode[i].ref \in Int /\ s.inode[i].open \in Int
  BY TablesFields
<1>4. inode_ref_dec(s, i) = IF t.inode[i].ref = 0 THEN Check(u, d) ELSE t
  BY DEF inode_ref_dec
<1> HIDE DEF c
<1>5. /\ t \in Tables /\ t.fd = s.fd /\ (c => t.panic = s.panic)
      /\ \A j \in Inodes \ {i} : t.inode[j] = s.inode[j]
      /\ t.inode[i].ref = s.inode[i].ref + (-1) /\ t.inode[i].open = s.inode[i].open + 0
  BY <1>1, <1>2, ShiftFields
<1> HIDE DEF t
<1>6. /\ u \in Tables /\ u.fd = t.fd /\ u.inode = t.inode
      /\ (t.panic # "assert" /\ t.inode[i].ref >= t.inode[i].open /\ t.inode[i].open >= 0)
           => u.panic # "assert"
  BY <1>5, VopCallFields
<1> HIDE DEF u
<1>7. d \in BOOLEAN
  OBVIOUS
<1> HIDE DEF d
<1>8. Check(u, d) \in Tables /\ Check(u, d).fd = u.fd /\ Check(u, d).inode = u.inode /\ (d => Check(u, d) = u)
  BY <1>6, <1>7, CheckFields
<1>9. ASSUME s.panic # "assert", s.inode[i].open >= 0, s.inode[i].ref > s.inode[i].open
      PROVE  inode_ref_dec(s, i).panic # "assert"
  <2>1. t.panic # "assert"
    BY <1>3, <1>5, <1>9 DEF c
  <2>2. t.inode[i].ref >= t.inode[i].open /\ t.inode[i].open >= 0
    BY <1>3, <1>5, <1>9
  <2>3. t.inode[i].ref = 0 => d
    BY <1>3, <1>5, <2>2 DEF d
  <2>4. QED
    BY <1>4, <1>6, <1>8, <2>1, <2>2, <2>3
<1>10. QED
  BY <1>3, <1>4, <1>5, <1>6, <1>8, <1>9

\* vfs_close, of an inode that is open and has a reference for each opener.
LEMMA VfsCloseFields ==
  ASSUME NEW s \in Tables, NEW i \in Inodes
  PROVE  /\ vfs_close(s, i) \in Tables /\ vfs_close(s, i).fd = s.fd
         /\ \A j \in Inodes \ {i} : vfs_close(s, i).inode[j] = s.inode[j]
         /\ vfs_close(s, i).inode[i].ref = s.inode[i].ref - 1
         /\ vfs_close(s, i).inode[i].open = s.inode[i].open - 1
         /\ (s.panic # "assert" /\ s.inode[i].open > 0 /\ s.inode[i].ref >= s.inode[i].open)
               => vfs_close(s, i).panic # "assert"
<1> DEFINE t == inode_open_dec(s, i)
<1>1. s.inode[i].ref \in Int /\ s.inode[i].open \in Int
  BY TablesFields
<1>2. /\ t \in Tables /\ t.fd = s.fd
      /\ \A j \in Inodes \ {i} : t.inode[j] = s.inode[j]
      /\ t.inode[i].ref = s.inode[i].ref /\ t.inode[i].open = s.inode[i].open - 1
      /\ (s.panic # "assert" /\ s.inode[i].open > 0 /\ s.inode[i].ref >= s.inode[i].open)
           => t.panic # "assert"
  BY OpenDecFields
<1> DEFINE u == inode_ref_dec(t, i)
<1>3. u = vfs_close(s, i)
  BY DEF vfs_close
<1> HIDE DEF t
<1>4. /\ u \in Tables /\ u.fd = t.fd
      /\ \A j \in Inodes \ {i} : u.inode[j] = t.inode[j]
      /\ u.inode[i].ref = t.inode[i].ref - 1 /\ u.inode[i].open = t.inode[i].open
      /\ (t.panic # "assert" /\ t.inode[i].open >= 0 /\ t.inode[i].ref > t.inode[i].open)
           => u.panic # "assert"
  BY <1>2, RefDecFields
<1> HIDE DEF u
<1>5. (s.inode[i].open > 0 /\ s.inode[i].ref >= s.inode[i].open)
        => t.inode[i].open >= 0 /\ t.inode[i].ref > t.inode[i].open
  BY <1>1, <1>2
<1>6. QED
  BY <1>2, <1>3, <1>4, <1>5

LEMMA GoodCounts ==
  ASSUME NEW p, NEW R, NEW s, Good(s, p, R), NEW i \in Inodes
  PROVE  /\ s.inode[i].open \in Nat /\ s.inode[i].ref = s.inode[i].open + R[i]
         /\ s.inode[i].open = Cardinality(Holding(s, p, i)) + abandoned[i]
         /\ Cardinality(Holding(s, p, i)) \in Nat /\ abandoned[i] \in Nat
<1>1. Cardinality(Holding(s, p, i)) \in Nat
  BY HoldingFinite
<1>2. abandoned[i] \in Nat
  BY DEF Good
<1>3. QED
  BY <1>1, <1>2 DEF Good

\* Tables with the same entries hold the same inodes.
LEMMA SameHolding ==
  ASSUME NEW s, NEW t, NEW p, NEW i, t.fd = s.fd
  PROVE  Holding(t, p, i) = Holding(s, p, i)
  BY DEF Holding

LEMMA PlusNat ==
  ASSUME NEW R \in [Inodes -> Nat], NEW i \in Inodes
  PROVE  /\ Plus(R, i) \in [Inodes -> Nat] /\ Plus(R, i)[i] = R[i] + 1
         /\ \A j \in Inodes \ {i} : Plus(R, i)[j] = R[j]
  BY DEF Plus

\* vop_ref_inc: someone who is no entry gets a reference.
LEMMA GoodRefInc ==
  ASSUME NEW p, NEW R \in [Inodes -> Nat], NEW s, Good(s, p, R), NEW i \in Inodes
  PROVE  Good(Shift(s, i, 1, 0), p, Plus(R, i)) /\ Shift(s, i, 1, 0).fd = s.fd
<1> DEFINE t == Shift(s, i, 1, 0)
<1>1. s \in Tables /\ 1 \in Int /\ 0 \in Int
  BY DEF Good
<1>2. /\ t \in Tables /\ t.fd = s.fd /\ t.panic = s.panic
      /\ \A j \in Inodes \ {i} : t.inode[j] = s.inode[j]
      /\ t.inode[i].ref = s.inode[i].ref + 1 /\ t.inode[i].open = s.inode[i].open + 0
  BY <1>1, ShiftFields
<1> HIDE DEF t
<1>3. ASSUME NEW j \in Inodes
      PROVE  /\ t.inode[j].open = Cardinality(Holding(t, p, j)) + abandoned[j]
             /\ t.inode[j].ref = t.inode[j].open + Plus(R, i)[j]
  <2>1. Holding(t, p, j) = Holding(s, p, j)
    BY <1>2, SameHolding
  <2>2. /\ s.inode[j].open \in Nat /\ s.inode[j].ref = s.inode[j].open + R[j] /\ R[j] \in Nat
        /\ s.inode[j].open = Cardinality(Holding(s, p, j)) + abandoned[j]
    BY GoodCounts
  <2>3. CASE j = i
    <3>1. Plus(R, i)[j] = R[j] + 1
      BY <2>3, PlusNat
    <3>2. QED
      BY <2>1, <2>2, <2>3, <3>1, <1>2
  <2>4. CASE j # i
    <3>1. Plus(R, i)[j] = R[j]
      BY <2>4, PlusNat
    <3>2. QED
      BY <2>1, <2>2, <2>4, <3>1, <1>2
  <2>5. QED
    BY <2>3, <2>4
<1>4. QED
  BY <1>2, <1>3 DEF Good, t

\* vop_ref_dec: he gives it back.
LEMMA GoodRefDec ==
  ASSUME NEW p, NEW R \in [Inodes -> Nat], NEW s, NEW i \in Inodes, Good(s, p, Plus(R, i))
  PROVE  Good(inode_ref_dec(s, i), p, R) /\ inode_ref_dec(s, i).fd = s.fd
<1> DEFINE t == inode_ref_dec(s, i)
<1>1. s \in Tables /\ s.panic # "assert"
  BY DEF Good
<1>2. /\ t \in Tables /\ t.fd = s.fd
      /\ \A j \in Inodes \ {i} : t.inode[j] = s.inode[j]
      /\ t.inode[i].ref = s.inode[i].ref - 1 /\ t.inode[i].open = s.inode[i].open
      /\ (s.panic # "assert" /\ s.inode[i].open >= 0 /\ s.inode[i].ref > s.inode[i].open)
           => t.panic # "assert"
  BY <1>1, RefDecFields
<1> HIDE DEF t
<1>3. Plus(R, i) \in [Inodes -> Nat] /\ Plus(R, i)[i] = R[i] + 1 /\ R[i] \in Nat
  BY PlusNat
<1>4. t.panic # "assert"
  <2>1. /\ s.inode[i].open \in Nat /\ s.inode[i].ref = s.inode[i].open + Plus(R, i)[i]
    BY GoodCounts
  <2>2. QED
    BY <1>1, <1>2, <1>3, <2>1
<1>5. ASSUME NEW j \in Inodes
      PROVE  /\ t.inode[j].open = Cardinality(Holding(t, p, j)) + abandoned[j]
             /\ t.inode[j].ref = t.inode[j].open + R[j]
  <2>1. Holding(t, p, j) = Holding(s, p, j)
    BY <1>2, SameHolding
  <2>2. /\ s.inode[j].open \in Nat /\ s.inode[j].ref = s.inode[j].open + Plus(R, i)[j]
        /\ s.inode[j].open = Cardinality(Holding(s, p, j)) + abandoned[j]
    BY GoodCounts
  <2>3. CASE j = i
    BY <2>1, <2>2, <2>3, <1>2, <1>3
  <2>4. CASE j # i
    <3>1. Plus(R, i)[j] = R[j]
      BY <2>4, PlusNat
    <3>2. QED
      BY <2>1, <2>2, <2>4, <3>1, <1>2
  <2>5. QED
    BY <2>3, <2>4
<1>6. QED
  BY <1>2, <1>4, <1>5 DEF Good, t

\* A call of a function of an inode.
LEMMA GoodVopCall ==
  ASSUME NEW p, NEW R \in [Inodes -> Nat], NEW s, Good(s, p, R), NEW i \in Inodes, NEW op
  PROVE  Good(vop_call(s, i, op), p, R) /\ vop_call(s, i, op).fd = s.fd
<1> DEFINE t == vop_call(s, i, op)
<1>1. s \in Tables /\ s.panic # "assert" /\ s.inode[i].ref >= s.inode[i].open /\ s.inode[i].open >= 0
  BY GoodCounts DEF Good
<1>2. t \in Tables /\ t.fd = s.fd /\ t.inode = s.inode /\ t.panic # "assert"
  BY <1>1, VopCallFields
<1> HIDE DEF t
<1>3. \A j \in Inodes : Holding(t, p, j) = Holding(s, p, j)
  BY <1>2, SameHolding
<1>4. Good(t, p, R)
  BY <1>2, <1>3 DEF Good
<1>5. QED
  BY <1>2, <1>4 DEF t

LEMMA GoodVisit ==
  ASSUME NEW p, NEW R \in [Inodes -> Nat], NEW s, Good(s, p, R), NEW i \in Inodes, NEW op
  PROVE  Good(visit(s, i, op), p, R) /\ visit(s, i, op).fd = s.fd
<1> DEFINE t == Shift(s, i, 1, 0)
           u == vop_call(t, i, op)
<1>1. Good(t, p, Plus(R, i)) /\ t.fd = s.fd /\ Plus(R, i) \in [Inodes -> Nat]
  BY GoodRefInc, PlusNat
<1>2. inode_ref_dec(u, i) = visit(s, i, op)
  BY DEF visit
<1> HIDE DEF t
<1>3. Good(u, p, Plus(R, i)) /\ u.fd = t.fd
  BY <1>1, GoodVopCall
<1> HIDE DEF u
<1>4. Good(inode_ref_dec(u, i), p, R) /\ inode_ref_dec(u, i).fd = u.fd
  BY <1>3, GoodRefDec
<1>5. QED
  BY <1>1, <1>2, <1>3, <1>4

LEMMA GoodLookup ==
  ASSUME NEW p, NEW R \in [Inodes -> Nat], NEW s, Good(s, p, R), NEW i \in Inodes, NEW named
  PROVE  Good(vfs_lookup(s, i, named), p, Plus(R, i)) /\ vfs_lookup(s, i, named).fd = s.fd
<1> DEFINE t == IF named THEN visit(s, "root", "lookup") ELSE s
<1>1. "root" \in Inodes
  BY DEF Inodes
<1>2. Good(visit(s, "root", "lookup"), p, R) /\ visit(s, "root", "lookup").fd = s.fd
  BY <1>1, GoodVisit
<1>3. Good(t, p, R) /\ t.fd = s.fd
  BY <1>2
<1>4. vfs_lookup(s, i, named) = Shift(t, i, 1, 0)
  BY DEF vfs_lookup
<1> HIDE DEF t
<1>5. QED
  BY <1>3, <1>4, GoodRefInc

OpenOn(i) == [status |-> "OPENED", node |-> i, open_count |-> 1]

\* An entry is opened on inode i, with the r references it takes and the one
\* that was there for it if it takes none.
LEMMA EntryOpens ==
  ASSUME NEW p \in Procs, NEW Q, NEW R \in [Inodes -> Nat],
         NEW s, Good(s, p, Q), NEW fd \in Fds, s.fd[fd].status = "NONE",
         NEW i \in Inodes, NEW r \in Int, Q[i] \in Int, Q[i] + r = R[i] + 1, \A j \in Inodes \ {i} : R[j] = Q[j]
  PROVE  /\ Good(fd_array_open(Shift(s, i, r, 1), fd, i), p, R)
         /\ fd_array_open(Shift(s, i, r, 1), fd, i).fd =
              [s.fd EXCEPT ![fd] = OpenOn(i)]
<1> DEFINE u == Shift(s, i, r, 1)
           e == [status |-> "OPENED", node |-> i, open_count |-> 1]
           t == fd_array_open(u, fd, i)
<1>1. s \in Tables /\ s.panic # "assert" /\ s.fd \in Table /\ 1 \in Int
  <2>1. s \in Tables /\ s.panic # "assert"
    BY DEF Good
  <2>2. s.fd \in Table
    BY ONLY <2>1, TablesFields
  <2>3. QED
    BY <2>1, <2>2
<1>2. /\ u \in Tables /\ u.fd = s.fd /\ u.panic = s.panic
      /\ \A j \in Inodes \ {i} : u.inode[j] = s.inode[j]
      /\ u.inode[i].ref = s.inode[i].ref + r /\ u.inode[i].open = s.inode[i].open + 1
  BY <1>1, ShiftFields
<1>3. e \in Entry
  BY DEF Entry
<1>4. t = [u EXCEPT !.fd = [u.fd EXCEPT ![fd] = e]]
  <2> HIDE DEF u
  <2>1. QED
    BY <1>2 DEF fd_array_open, Tables
<1> HIDE DEF u, e, t
<1>5. t.fd = [s.fd EXCEPT ![fd] = e] /\ t.inode = u.inode /\ t.panic # "assert" /\ t \in Tables
  BY <1>1, <1>2, <1>3, <1>4 DEF Tables, Table
<1>6. Holding(t, p, i) = Holding(s, p, i) \cup {<<p, fd>>} /\ <<p, fd>> \notin Holding(s, p, i)
  BY <1>1, <1>3, <1>5 DEF Holding, e, Table
<1>7. \A j \in Inodes \ {i} : Holding(t, p, j) = Holding(s, p, j)
  BY <1>1, <1>3, <1>5 DEF Holding, e, Table
<1>8. Cardinality(Holding(t, p, i)) = Cardinality(Holding(s, p, i)) + 1
  BY <1>6, HoldingFinite, FS_AddElement
<1>9. Good(t, p, R)
  <2>1. ASSUME NEW j \in Inodes
        PROVE  /\ t.inode[j].open = Cardinality(Holding(t, p, j)) + abandoned[j]
               /\ t.inode[j].ref = t.inode[j].open + R[j]
    <3>1. /\ s.inode[j].open = Cardinality(Holding(s, p, j)) + abandoned[j]
          /\ s.inode[j].ref = s.inode[j].open + Q[j]
          /\ s.inode[j].open \in Nat
          /\ Cardinality(Holding(s, p, j)) \in Nat /\ abandoned[j] \in Nat
      BY GoodCounts
    <3>5. R[j] \in Nat /\ Q[i] \in Int
      OBVIOUS
    <3>2. CASE j = i
      BY <3>1, <3>2, <3>5, <1>2, <1>5, <1>8
    <3>3. CASE j # i
      BY <3>1, <3>3, <3>5, <1>2, <1>5, <1>7
    <3>4. QED
      BY <3>2, <3>3
  <2>2. QED
    BY <2>1, <1>5 DEF Good
<1>10. QED
  BY <1>5, <1>9 DEF t, e, u, OpenOn

\* fd_array_dup on a free entry.
LEMMA DupOpens ==
  ASSUME NEW p \in Procs, NEW R \in [Inodes -> Nat], NEW s, Good(s, p, R),
         NEW fd \in Fds, s.fd[fd].status = "NONE", NEW i \in Inodes
  PROVE  /\ Good(fd_array_dup(s, fd, i), p, R)
         /\ fd_array_dup(s, fd, i).fd =
              [s.fd EXCEPT ![fd] = [status |-> "OPENED", node |-> i, open_count |-> 1]]
<1>1. PICK r \in Int : r = 1
  OBVIOUS
<1>2. R[i] + r = R[i] + 1 /\ \A j \in Inodes \ {i} : R[j] = R[j]
  BY <1>1
<1>3. /\ Good(fd_array_open(Shift(s, i, r, 1), fd, i), p, R)
      /\ fd_array_open(Shift(s, i, r, 1), fd, i).fd = [s.fd EXCEPT ![fd] = OpenOn(i)]
  <2>1. R[i] \in Int
    OBVIOUS
  <2>2. Good(fd_array_open(Shift(s, i, r, 1), fd, i), p, R)
    BY <1>2, <2>1, EntryOpens
  <2>3. fd_array_open(Shift(s, i, r, 1), fd, i).fd = [s.fd EXCEPT ![fd] = OpenOn(i)]
    <3> DEFINE u == Shift(s, i, r, 1)
    <3>1. u \in Tables /\ u.fd = s.fd
      <4>1. s \in Tables /\ 1 \in Int
        BY DEF Good
      <4>2. QED
        BY <4>1, ShiftFields
    <3> HIDE DEF u
    <3>2. fd_array_open(u, fd, i) = [u EXCEPT !.fd = [u.fd EXCEPT ![fd] = OpenOn(i)]]
      BY <3>1 DEF fd_array_open, Tables, OpenOn
    <3>3. QED
      BY <3>1, <3>2 DEF u, Tables
  <2>4. QED
    BY <2>2, <2>3
<1>4. fd_array_dup(s, fd, i) = fd_array_open(Shift(s, i, r, 1), fd, i)
  BY <1>1 DEF fd_array_dup
<1>5. QED
  BY <1>3, <1>4 DEF OpenOn

\* fd_array_close keeps the tables what they are, whatever it is called with.
LEMMA CloseTyped ==
  ASSUME NEW s \in Tables, NEW fd \in Fds
  PROVE  fd_array_close(s, fd) \in Tables
<1> DEFINE c == s.fd[fd].status = "OPENED" /\ s.fd[fd].open_count > 0
           e == [s.fd[fd] EXCEPT !.open_count = @ - 1, !.status = "CLOSED"]
           t == [Check(s, c) EXCEPT !.fd = [@ EXCEPT ![fd] = e]]
           k == t.fd[fd].status \in {"INIT", "CLOSED"} /\ t.fd[fd].open_count = 0
           v == IF t.fd[fd].status = "CLOSED" THEN vfs_close(Check(t, k), t.fd[fd].node)
                ELSE Check(t, k)
<1>1. s.fd \in [Fds -> Entry] /\ s.fd[fd] \in Entry /\ e \in Entry
  <2>1. s.fd \in [Fds -> Entry] /\ s.fd[fd] \in Entry
    BY TablesFields DEF Table
  <2>2. s.fd[fd].open_count - 1 \in Int
    BY <2>1, EntryFields
  <2>3. QED
    BY <2>1, <2>2, EntryEdit
<1>2. Check(s, c) \in Tables /\ Check(s, c).fd = s.fd
  BY CheckFields
<1>3. t \in Tables /\ t.fd[fd] = e
  <2> HIDE DEF e, c
  <2>1. QED
    BY <1>1, <1>2 DEF Tables, Table
<1>4. k \in BOOLEAN /\ t.fd[fd].node \in Inodes
  BY <1>3, <1>1, EntryFields
<1>5. v \in Tables
  <2> HIDE DEF t, k
  <2>1. QED
    BY <1>3, <1>4, CheckFields, VfsCloseFields
<1>6. Empty \in Entry
  BY DEF Empty, Entry, Inodes
<1>7. [v EXCEPT !.fd[fd] = Empty] \in Tables
  <2> HIDE DEF v
  <2>1. QED
    BY <1>5, <1>6 DEF Tables, Table
<1>8. fd_array_close(s, fd) = IF t.fd[fd].open_count = 0 THEN fd_array_free(t, fd) ELSE t
  BY <1>1, <1>2 DEF fd_array_close, Tables, Table
<1>9. fd_array_free(t, fd) = [v EXCEPT !.fd[fd] = Empty]
  BY DEF fd_array_free
<1> HIDE DEF t, v
<1>10. QED
  BY <1>3, <1>7, <1>8, <1>9

\* fd_array_close on an entry that is opened once: the entry is free, the inode
\* has one opener and one reference less, and no assertion fails.
LEMMA CloseFrees ==
  ASSUME NEW p \in Procs, NEW R \in [Inodes -> Nat], NEW s, Good(s, p, R),
         NEW fd \in Fds, s.fd[fd].status = "OPENED", s.fd[fd].open_count = 1
  PROVE  /\ Good(fd_array_close(s, fd), p, R)
         /\ fd_array_close(s, fd).fd = [s.fd EXCEPT ![fd] = Empty]
<1> DEFINE i == s.fd[fd].node
           e == [status |-> "CLOSED", node |-> i, open_count |-> 0]
           t == [s EXCEPT !.fd = [s.fd EXCEPT ![fd] = e]]
           u == vfs_close(t, i)
           w == fd_array_close(s, fd)
<1>1. /\ s \in Tables /\ s.panic # "assert" /\ s.fd \in [Fds -> Entry] /\ s.fd[fd] \in Entry
      /\ i \in Inodes /\ e \in Entry
  <2>1. s \in Tables /\ s.panic # "assert"
    BY DEF Good
  <2>2. s.fd \in [Fds -> Entry] /\ s.fd[fd] \in Entry
    BY <2>1, TablesFields DEF Table
  <2>3. i \in Inodes
    BY <2>2, EntryFields
  <2>4. e \in Entry
    BY <2>3 DEF Entry
  <2>5. QED
    BY <2>1, <2>2, <2>3, <2>4
<1>2. [s.fd[fd] EXCEPT !.open_count = @ - 1, !.status = "CLOSED"] = e
  <2>1. s.fd[fd].open_count - 1 = 0 /\ 0 \in Int
    OBVIOUS
  <2>2. [s.fd[fd] EXCEPT !.open_count = 0, !.status = "CLOSED"] = e
    BY <1>1, <2>1, EntryEdit
  <2>3. QED
    BY <2>1, <2>2
<1>3. t \in Tables /\ t.fd = [s.fd EXCEPT ![fd] = e] /\ t.inode = s.inode /\ t.panic # "assert"
  <2> HIDE DEF e
  <2>1. QED
    BY <1>1 DEF Tables, Table
<1>4. t.fd[fd] = e
  BY <1>1, <1>3
<1>5. Holding(s, p, i) \ {<<p, fd>>} = {pf \in Holding(s, p, i) : pf # <<p, fd>>}
      /\ <<p, fd>> \in Holding(s, p, i)
  BY <1>1 DEF Holding
<1>6. /\ Cardinality(Holding(s, p, i) \ {<<p, fd>>}) = Cardinality(Holding(s, p, i)) - 1
      /\ s.inode[i].open > 0 /\ s.inode[i].ref >= s.inode[i].open
  <2>1. IsFiniteSet(Holding(s, p, i)) /\ Cardinality(Holding(s, p, i)) \in Nat
    BY HoldingFinite
  <2>2. Cardinality(Holding(s, p, i)) # 0
    BY <2>1, <1>5, FS_EmptySet
  <2>3. Cardinality(Holding(s, p, i) \ {<<p, fd>>}) = Cardinality(Holding(s, p, i)) - 1
    BY <2>1, <1>5, FS_RemoveElement
  <2>4. /\ s.inode[i].open = Cardinality(Holding(s, p, i)) + abandoned[i] /\ abandoned[i] \in Nat
        /\ s.inode[i].ref = s.inode[i].open + R[i] /\ R[i] \in Nat
    BY <1>1, GoodCounts
  <2>5. QED
    BY <2>1, <2>2, <2>3, <2>4
<1>7. /\ u \in Tables /\ u.fd = t.fd /\ u.panic # "assert"
      /\ \A j \in Inodes \ {i} : u.inode[j] = s.inode[j]
      /\ u.inode[i].ref = s.inode[i].ref - 1 /\ u.inode[i].open = s.inode[i].open - 1
  <2>1. t.inode[i].open > 0 /\ t.inode[i].ref >= t.inode[i].open
    BY <1>3, <1>6
  <2> HIDE DEF t, i
  <2>2. QED
    BY <1>1, <1>3, <2>1, VfsCloseFields
<1>8. w = [u EXCEPT !.fd[fd] = Empty]
  <2>1. Check(s, s.fd[fd].status = "OPENED" /\ s.fd[fd].open_count > 0) = s
    BY DEF Check, Ensure
  <2>2. w = fd_array_free(t, fd)
    <3>1. [s EXCEPT !.fd[fd].open_count = @ - 1, !.fd[fd].status = "CLOSED"] = t
      BY <1>1, <1>2 DEF Tables
    <3>2. t.fd[fd].open_count = 0
      BY <1>4
    <3> HIDE DEF t
    <3>3. QED
      BY <2>1, <3>1, <3>2 DEF fd_array_close
  <2>3. Check(t, t.fd[fd].status \in {"INIT", "CLOSED"} /\ t.fd[fd].open_count = 0) = t
    BY <1>4 DEF Check, Ensure
  <2>4. t.fd[fd].status = "CLOSED" /\ t.fd[fd].node = i
    BY <1>4
  <2> HIDE DEF t, u, w, i
  <2>5. QED
    BY <2>2, <2>3, <2>4 DEF fd_array_free, u
<1>9. Empty \in Entry /\ Empty.status = "NONE"
  BY DEF Empty, Entry, Inodes
<1>10. w \in Tables /\ w.fd = [s.fd EXCEPT ![fd] = Empty] /\ w.inode = u.inode /\ w.panic # "assert"
  <2>1. w \in Tables /\ w.fd = [u.fd EXCEPT ![fd] = Empty] /\ w.inode = u.inode /\ w.panic # "assert"
    <3> HIDE DEF u, w
    <3>1. QED
      BY <1>7, <1>8, <1>9 DEF Tables, Table
  <2>2. [u.fd EXCEPT ![fd] = Empty] = [s.fd EXCEPT ![fd] = Empty]
    BY <1>1, <1>3, <1>7
  <2>3. QED
    BY <2>1, <2>2
<1> HIDE DEF w, u, t, e
<1>12. Holding(w, p, i) = Holding(s, p, i) \ {<<p, fd>>}
  BY <1>1, <1>9, <1>10 DEF Holding
<1>13. \A j \in Inodes \ {i} : Holding(w, p, j) = Holding(s, p, j)
  BY <1>1, <1>9, <1>10 DEF Holding
<1>14. Good(w, p, R)
  <2>1. ASSUME NEW j \in Inodes
        PROVE  /\ w.inode[j].open = Cardinality(Holding(w, p, j)) + abandoned[j]
               /\ w.inode[j].ref = w.inode[j].open + R[j]
    <3>1. /\ s.inode[j].open = Cardinality(Holding(s, p, j)) + abandoned[j]
          /\ s.inode[j].ref = s.inode[j].open + R[j]
          /\ s.inode[j].open \in Nat /\ R[j] \in Nat
          /\ Cardinality(Holding(s, p, j)) \in Nat /\ abandoned[j] \in Nat
      BY GoodCounts
    <3>2. CASE j = i
      <4>1. w.inode[j].open = s.inode[j].open - 1 /\ w.inode[j].ref = s.inode[j].ref - 1
        BY <3>2, <1>10, <1>7
      <4>2. Cardinality(Holding(w, p, j)) = Cardinality(Holding(s, p, j)) - 1
        BY <3>2, <1>6, <1>12
      <4>3. QED
        BY <3>1, <4>1, <4>2
    <3>3. CASE j # i
      BY <3>1, <3>3, <1>10, <1>7, <1>13
    <3>4. QED
      BY <3>2, <3>3
  <2>2. QED
    BY <2>1, <1>10 DEF Good
<1>15. QED
  BY <1>10, <1>14 DEF w

\* The loop of files_destroy and of fs_closeall closes the entries from first on,
\* leaves the others alone, and no assertion fails on its way.
LEMMA CloseFromCloses ==
  ASSUME NEW p \in Procs, NEW R \in [Inodes -> Nat], NEW s, Good(s, p, R), Quiet(s),
         NEW first \in 0 .. NFd
  PROVE  /\ Good(CloseFrom(s, first), p, R) /\ Quiet(CloseFrom(s, first))
         /\ \A fd \in Fds : IF fd >= first THEN CloseFrom(s, first).fd[fd].status = "NONE"
                            ELSE CloseFrom(s, first).fd[fd] = s.fd[fd]
<1> DEFINE n == NFd - first
           D == DOMAIN [k \in 1 .. n |-> first + k]
           fdOf(k) == [j \in 1 .. n |-> first + j][k] - 1
           op(t, k) == IF t.fd[fdOf(k)].status = "OPENED" THEN fd_array_close(t, fdOf(k)) ELSE t
           Rec(it) == [u \in SUBSET D |-> IF u = {} THEN s ELSE op(it[u \ {Max(u)}], Max(u))]
           iter == CHOOSE it : it = Rec(it)
           P == [j \in 0 .. n |->
                  {t \in Tables : /\ Good(t, p, R) /\ Quiet(t)
                                  /\ \A fd \in Fds : IF fd >= first /\ fd < first + j
                                                     THEN t.fd[fd].status = "NONE"
                                                     ELSE t.fd[fd] = s.fd[fd]}]
<1>1. n \in Nat /\ NFd \in Nat /\ D = 1 .. n
  BY FilesAssumption
<1>2. \A k \in 1 .. n : fdOf(k) = first + k - 1 /\ fdOf(k) \in Fds
  BY <1>1 DEF Fds
<1>3. CloseFrom(s, first) = iter[D]
  BY DEF CloseFrom, FoldLeft, MapThenFoldSet
<1> HIDE DEF fdOf
<1>4. \A t \in Tables, k \in 1 .. n : op(t, k) \in Tables
  BY <1>2, CloseTyped
<1>5. \E it : it = Rec(it)
  <2> DEFINE step == [z \in Tables \X (1 .. n) |-> op(z[1], z[2])]
  <2>1. step \in [Tables \X (1 .. n) -> Tables]
    <3>1. \A z \in Tables \X (1 .. n) : op(z[1], z[2]) \in Tables
      BY <1>4
    <3> HIDE DEF op
    <3>2. QED
      BY <3>1
  <2>2. s \in Tables
    BY DEF Good
  <2> HIDE DEF step
  <2>3. PICK g : Loops(g, n, Tables, s, step)
    BY <1>1, <2>1, <2>2, LoopRecursion
  <2>4. g \in [SUBSET (1 .. n) -> Tables] /\ g[{}] = s
    BY <2>3 DEF Loops
  <2>5. ASSUME NEW u \in SUBSET (1 .. n), u # {}
        PROVE  g[u] = op(g[u \ {Max(u)}], Max(u))
    <3>1. Max(u) \in 1 .. n /\ g[u \ {Max(u)}] \in Tables
      BY <1>1, <2>4, <2>5, MaxIsGreatest
    <3>2. g[u] = step[<<g[u \ {Max(u)}], Max(u)>>]
      BY <2>3, <2>5 DEF Loops
    <3> HIDE DEF op
    <3>3. QED
      BY <3>1, <3>2 DEF step
  <2> HIDE DEF op
  <2>6. g = Rec(g)
    BY <2>4, <2>5, <1>1
  <2> HIDE DEF Rec
  <2>7. QED
    BY <2>6
<1>6. iter = Rec(iter)
  <2> HIDE DEF Rec
  <2>1. QED
    BY <1>5
<1> HIDE DEF iter
<1>7. iter[1 .. 0] \in P[0]
  <2>1. iter[1 .. 0] = s
    <3> HIDE DEF op
    <3>1. QED
      BY <1>1, <1>6
  <2>2. s \in Tables /\ \A fd \in Fds : ~(fd >= first /\ fd < first + 0)
    BY DEF Good, Fds
  <2>3. QED
    BY <1>1, <2>1, <2>2
<1>8. ASSUME NEW k \in 1 .. n, iter[1 .. (k - 1)] \in P[k - 1]
      PROVE  iter[1 .. k] \in P[k]
  <2> DEFINE t == iter[1 .. (k - 1)]
             fd0 == fdOf(k)
  <2>1. iter[1 .. k] = op(t, k)
    <3>1. Max(1 .. k) = k /\ (1 .. k) \ {Max(1 .. k)} = 1 .. (k - 1) /\ 1 .. k # {}
      BY MaxOfInterval
    <3>2. 1 .. k \in SUBSET D
      BY <1>1
    <3> HIDE DEF op, D
    <3>3. QED
      BY <1>6, <3>1, <3>2
  <2> HIDE DEF t
  <2>2. /\ t \in Tables /\ Good(t, p, R) /\ Quiet(t)
        /\ \A fd \in Fds : IF fd >= first /\ fd < first + (k - 1)
                           THEN t.fd[fd].status = "NONE" ELSE t.fd[fd] = s.fd[fd]
    <3>1. k - 1 \in 0 .. n
      BY <1>1
    <3>2. t \in P[k - 1]
      <4> HIDE DEF P
      <4>1. QED
        BY <1>8 DEF t
    <3>3. QED
      BY <3>1, <3>2
  <2>3. fd0 = first + k - 1 /\ fd0 \in Fds
    BY <1>2
  <2>4. CASE t.fd[fd0].status # "OPENED"
    <3>1. iter[1 .. k] = t /\ t.fd[fd0].status = "NONE"
      BY <2>1, <2>2, <2>3, <2>4 DEF Quiet
    <3>2. ASSUME NEW fd \in Fds
          PROVE  IF fd >= first /\ fd < first + k
                 THEN t.fd[fd].status = "NONE" ELSE t.fd[fd] = s.fd[fd]
      BY <2>2, <2>3, <3>1 DEF Fds
    <3>3. QED
      BY <2>2, <3>1, <3>2
  <2>5. CASE t.fd[fd0].status = "OPENED"
    <3> DEFINE w == fd_array_close(t, fd0)
    <3>1. iter[1 .. k] = w
      BY <2>1, <2>5
    <3>2. t.fd[fd0].open_count = 1
      BY <2>2, <2>3, <2>5 DEF Quiet
    <3>3. Good(w, p, R) /\ w.fd = [t.fd EXCEPT ![fd0] = Empty]
      BY <2>2, <2>3, <2>5, <3>2, CloseFrees
    <3> HIDE DEF w, fd0
    <3>4. t.fd \in [Fds -> Entry] /\ w \in Tables
      BY <2>2, <3>3, TablesFields DEF Good, Table
    <3>5. \A fd \in Fds : w.fd[fd] = IF fd = fd0 THEN Empty ELSE t.fd[fd]
      BY <2>3, <3>3, <3>4
    <3>6. Quiet(w)
      BY <2>2, <3>5 DEF Quiet, Empty
    <3>7. ASSUME NEW fd \in Fds
          PROVE  IF fd >= first /\ fd < first + k
                 THEN w.fd[fd].status = "NONE" ELSE w.fd[fd] = s.fd[fd]
      BY <2>2, <2>3, <3>5 DEF Fds, Empty
    <3>8. QED
      BY <3>1, <3>3, <3>4, <3>6, <3>7
  <2>6. QED
    BY <2>4, <2>5
<1>9. iter[1 .. n] \in P[n]
  <2> HIDE DEF P
  <2>1. QED
    BY <1>1, <1>7, <1>8, LoopInvariant
<1>10. /\ Good(iter[D], p, R) /\ Quiet(iter[D])
       /\ \A fd \in Fds : IF fd >= first /\ fd < first + n
                          THEN iter[D].fd[fd].status = "NONE" ELSE iter[D].fd[fd] = s.fd[fd]
  BY <1>1, <1>9
<1>11. \A fd \in Fds : fd < first + n
  BY <1>1 DEF Fds
<1>12. QED
  BY <1>3, <1>10, <1>11

LEMMA DupTyped ==
  ASSUME NEW s \in Tables, NEW fd \in Fds, NEW i \in Inodes
  PROVE  fd_array_dup(s, fd, i) \in Tables
<1> DEFINE u == Shift(s, i, 1, 1)
           e == [status |-> "OPENED", node |-> i, open_count |-> 1]
<1>1. u \in Tables /\ u.fd \in [Fds -> Entry]
  <2>1. u \in Tables /\ u.fd = s.fd
    <3>1. 1 \in Int
      OBVIOUS
    <3>2. QED
      BY <3>1, ShiftFields
  <2>2. QED
    BY <2>1, TablesFields DEF Table
<1>2. e \in Entry
  BY DEF Entry
<1> HIDE DEF u
<1>3. fd_array_dup(s, fd, i) = [u EXCEPT !.fd[fd] = e]
  BY DEF fd_array_dup, fd_array_open, u
<1> HIDE DEF e
<1>4. [u.fd EXCEPT ![fd] = e] \in Table
  BY <1>1, <1>2 DEF Table
<1>5. [u EXCEPT !.fd = [u.fd EXCEPT ![fd] = e]] \in Tables
  BY <1>1, <1>4 DEF Tables
<1>6. QED
  BY <1>3, <1>5

\* dup_files on an empty table opens what is open in the other one.
LEMMA DupFiles ==
  ASSUME NEW p \in Procs, NEW R \in [Inodes -> Nat], NEW empty, NEW from,
         from \in [pwd : Inodes, fd : Table],
         Good(Shift(empty, from.pwd, 1, 0), p, R),
         \A fd \in Fds : Shift(empty, from.pwd, 1, 0).fd[fd].status = "NONE"
  PROVE  Good(dup_files(empty, from), p, R) /\ Quiet(dup_files(empty, from))
<1> DEFINE s == Shift(empty, from.pwd, 1, 0)
           D == {fd \in Fds : from.fd[fd].status = "OPENED"}
<1>0. Good(s, p, R) /\ \A fd \in Fds : s.fd[fd].status = "NONE"
  OBVIOUS
<1> DEFINE op(u, fd) == fd_array_dup(u, fd, from.fd[fd].node)
           pick == [u \in SUBSET D |-> CHOOSE fd \in u : TRUE]
           Rec(it) == [u \in SUBSET D |-> IF u = {} THEN s
                         ELSE op(it[u \ {CHOOSE fd \in u : TRUE}], CHOOSE fd \in u : TRUE)]
           iter == CHOOSE it : it = Rec(it)
           K == {u \in SUBSET D : /\ Good(iter[u], p, R) /\ Quiet(iter[u])
                                  /\ \A fd \in D \ u : iter[u].fd[fd].status = "NONE"}
<1>1. IsFiniteSet(D)
  <2>1. IsFiniteSet(Fds)
    BY FilesAssumption, FS_Interval DEF Fds
  <2>2. QED
    BY <2>1, FS_Subset DEF D
<1>2. \A u \in SUBSET D : pick[u] = CHOOSE fd \in u : TRUE
  OBVIOUS
<1>3. \A u \in SUBSET D : u # {} => pick[u] \in u
  OBVIOUS
<1> HIDE DEF pick, s, D
<1>4. \A fd \in D : fd \in Fds /\ from.fd[fd].node \in Inodes
  BY EntryFields DEF Table, D
<1>5. \E it : it = Rec(it)
  <2> DEFINE step == [z \in Tables \X D |-> op(z[1], z[2])]
  <2>1. step \in [Tables \X D -> Tables]
    <3>1. \A z \in Tables \X D : op(z[1], z[2]) \in Tables
      BY <1>4, DupTyped
    <3> HIDE DEF op
    <3>2. QED
      BY <3>1
  <2>2. s \in Tables
    BY <1>0 DEF Good
  <2> HIDE DEF step
  <2>3. PICK g : Folds(g, D, Tables, s, step, pick)
    BY <1>1, <1>3, <2>1, <2>2, RecursionOnSubsets
  <2>4. g \in [SUBSET D -> Tables] /\ g[{}] = s
    BY <2>3 DEF Folds
  <2>5. ASSUME NEW u \in SUBSET D, u # {}
        PROVE  g[u] = op(g[u \ {CHOOSE fd \in u : TRUE}], CHOOSE fd \in u : TRUE)
    <3>1. pick[u] \in D /\ g[u \ {pick[u]}] \in Tables
      BY <1>3, <2>4, <2>5
    <3>2. g[u] = step[<<g[u \ {pick[u]}], pick[u]>>]
      BY <2>3, <2>5 DEF Folds
    <3> HIDE DEF op
    <3>3. g[u] = op(g[u \ {pick[u]}], pick[u])
      BY <3>1, <3>2 DEF step
    <3>4. QED
      BY <3>3, <1>2
  <2> HIDE DEF op
  <2>6. g = Rec(g)
    BY <2>4, <2>5
  <2> HIDE DEF Rec
  <2>7. QED
    BY <2>6
<1>6. iter = Rec(iter)
  <2> HIDE DEF Rec
  <2>1. QED
    BY <1>5
<1>7. dup_files(empty, from) = iter[D]
  BY DEF dup_files, FoldSet, MapThenFoldSet, s, D
<1> HIDE DEF iter
<1>8. {} \in K
  <2>1. iter[{}] = s
    <3> HIDE DEF op
    <3>1. QED
      BY <1>6
  <2>2. QED
    BY <1>0, <1>4, <2>1 DEF Quiet
<1>9. ASSUME NEW u \in SUBSET D, u # {}, u \ {pick[u]} \in K
      PROVE  u \in K
  <2> DEFINE fd0 == pick[u]
             v == iter[u \ {fd0}]
             e == [status |-> "OPENED", node |-> from.fd[fd0].node, open_count |-> 1]
  <2>1. iter[u] = op(v, fd0)
    <3> HIDE DEF op
    <3>1. iter[u] = Rec(iter)[u]
      BY <1>6
    <3>2. pick[u] = CHOOSE fd \in u : TRUE
      BY <1>2, <1>9
    <3> HIDE DEF pick
    <3>3. QED
      BY <1>9, <3>1, <3>2
  <2>2. fd0 \in u /\ fd0 \in D /\ fd0 \in Fds
    BY <1>3, <1>4, <1>9
  <2>3. Good(v, p, R) /\ Quiet(v) /\ \A fd \in D \ (u \ {fd0}) : v.fd[fd].status = "NONE"
    BY <1>9
  <2> HIDE DEF v, fd0
  <2>4. v.fd[fd0].status = "NONE" /\ v.fd \in [Fds -> Entry]
    BY <2>2, <2>3, TablesFields DEF Good, Table
  <2>5. Good(iter[u], p, R) /\ iter[u].fd = [v.fd EXCEPT ![fd0] = e]
    <3>1. from.fd[fd0].node \in Inodes
      BY <1>4, <2>2
    <3> DEFINE w == fd_array_dup(v, fd0, from.fd[fd0].node)
    <3>2. Good(w, p, R) /\ w.fd = [v.fd EXCEPT ![fd0] = e]
      BY <2>2, <2>3, <2>4, <3>1, DupOpens
    <3>3. QED
      BY <2>1, <3>2
  <2>6. \A fd \in Fds : iter[u].fd[fd] = IF fd = fd0 THEN e ELSE v.fd[fd]
    BY <2>2, <2>4, <2>5
  <2>7. Quiet(iter[u])
    <3>1. e.status = "OPENED" /\ e.open_count = 1
      OBVIOUS
    <3> HIDE DEF e
    <3>2. QED
      BY <2>3, <2>6, <3>1 DEF Quiet
  <2>8. \A fd \in D \ u : iter[u].fd[fd].status = "NONE"
    BY <1>4, <2>2, <2>3, <2>6
  <2>9. QED
    BY <2>5, <2>7, <2>8
<1>10. D \in K
  <2> HIDE DEF K
  <2>1. \A u \in SUBSET D : u # {} /\ u \ {pick[u]} \in K => u \in K
    BY <1>9
  <2>2. QED
    BY <1>1, <1>3, <1>8, <2>1, SetLoopInvariant
<1>11. QED
  BY <1>7, <1>10
-----------------------------------------------------------------------------
Files_struct == [pwd : {"root"}, fd : Table]
Read == [fd : Fds, want : 1 .. MaxWant]

\* The references an inode has besides those of table entries.
Refs(i) == Base[i] + lost[i] + Cardinality(Cwd(i))

LEMMA CwdFinite ==
  ASSUME NEW i
  PROVE  IsFiniteSet(Cwd(i)) /\ Cardinality(Cwd(i)) \in Nat
<1>1. Cwd(i) \subseteq Procs
  BY DEF Cwd
<1>2. QED
  BY <1>1, FilesAssumption, FS_Subset, FS_CardinalityType

LEMMA FilesTypes ==
  ASSUME FilesInv, NEW p \in Procs
  PROVE  /\ files[p] # NoFiles =>
              /\ files[p] \in Files_struct /\ files[p].fd \in Table /\ files[p].pwd = "root"
              /\ files[p] = [pwd |-> "root", fd |-> files[p].fd]
         /\ reading[p] # NoRead =>
              reading[p] \in Read /\ reading[p].fd \in Fds /\ reading[p].want \in 1 .. MaxWant
         /\ files[p] = NoFiles => reading[p] = NoRead
<1>1. files[p] # NoFiles => files[p] \in Files_struct
  BY DEF FilesInv, FilesTypeOK, Files_struct
<1>2. reading[p] # NoRead => reading[p] \in Read
  BY DEF FilesInv, FilesTypeOK, Read
<1>3. files[p] = NoFiles => reading[p] = NoRead
  BY DEF FilesInv, AtRest
<1>4. \A f \in Files_struct : f.fd \in Table /\ f.pwd = "root" /\ f = [pwd |-> "root", fd |-> f.fd]
  BY DEF Files_struct
<1>5. \A r \in Read : r.fd \in Fds /\ r.want \in 1 .. MaxWant
  BY DEF Read
<1>6. QED
  BY <1>1, <1>2, <1>3, <1>4, <1>5

LEMMA StructIsNone ==
  /\ \A f \in Files_struct : f # NoFiles
  /\ \A r \in Read : r # NoRead
<1>1. ASSUME NEW f \in Files_struct PROVE f # NoFiles
  <2>1. f \in [pwd : Inodes, fd : [Fds -> Entry]]
    BY DEF Files_struct, Inodes, Table
  <2>2. QED
    BY <2>1, FilesAssumption
<1>2. ASSUME NEW r \in Read PROVE r # NoRead
  <2>1. r \in [fd : Fds, want : Int]
    BY DEF Read
  <2>2. QED
    BY <2>1, FilesAssumption
<1>3. QED
  BY <1>1, <1>2

\* When p's table becomes that of s, or goes, the invariant holds again if s is
\* good and the references are those that the working directories account for.
LEMMA NewTable ==
  ASSUME FilesInv, NEW p \in Procs, NEW s, NEW R \in [Inodes -> Nat], Good(s, p, R),
         NEW tab \in Files_struct \cup {NoFiles},
         files' = [files EXCEPT ![p] = tab],
         inode' = s.inode, panic' = s.panic,
         lost' \in [Inodes -> Nat], abandoned' = abandoned,
         reading' \in [Procs -> Read \cup {NoRead}],
         \A q \in Procs \ {p} : reading'[q] = reading[q],
         \A i \in Inodes : R[i] = Refs(i)',
         tab = NoFiles => reading'[p] = NoRead /\ \A fd \in Fds : s.fd[fd].status = "NONE",
         tab # NoFiles =>
           /\ tab.fd = s.fd
           /\ \A fd \in Fds :
                \/ s.fd[fd].status = "NONE"
                \/ /\ s.fd[fd].status = "OPENED"
                   /\ s.fd[fd].open_count = IF Asleep(p, fd)' THEN 2 ELSE 1
           /\ reading'[p] # NoRead => s.fd[reading'[p].fd].status = "OPENED"
  PROVE  FilesInv'
<1>1. files \in [Procs -> Files_struct \cup {NoFiles}]
  BY DEF FilesInv, FilesTypeOK, Files_struct
<1>2. /\ files' \in [Procs -> Files_struct \cup {NoFiles}] /\ files'[p] = tab
      /\ \A q \in Procs \ {p} : files'[q] = files[q]
  BY <1>1
<1>3. FilesTypeOK'
  <2>1. inode' \in Counts /\ panic' \in {"no", "missing vop", "count"}
    <3>1. s \in Tables /\ s.panic # "assert"
      BY DEF Good
    <3>2. s.inode \in Counts /\ s.panic \in {"no", "assert", "missing vop", "count"}
      BY <3>1, TablesFields
    <3>3. QED
      BY <3>1, <3>2
  <2>2. lost' \in [Inodes -> Nat] /\ abandoned' \in [Inodes -> Nat]
    BY DEF FilesInv, FilesTypeOK
  <2>3. QED
    BY <1>2, <2>1, <2>2 DEF FilesTypeOK, Files_struct, Read
<1>4. AtRest'
  <2> SUFFICES ASSUME NEW q \in Procs
               PROVE  /\ files'[q] # NoFiles => \A fd \in Fds :
                           \/ files'[q].fd[fd].status = "NONE"
                           \/ /\ files'[q].fd[fd].status = "OPENED"
                              /\ files'[q].fd[fd].open_count = IF Asleep(q, fd)' THEN 2 ELSE 1
                      /\ reading'[q] # NoRead =>
                           files'[q] # NoFiles /\ files'[q].fd[reading'[q].fd].status = "OPENED"
    BY DEF AtRest
  <2>1. CASE q = p
    BY <2>1, <1>2
  <2>2. CASE q # p
    <3>1. files'[q] = files[q] /\ reading'[q] = reading[q]
      BY <2>2, <1>2
    <3>2. \A fd : Asleep(q, fd)' <=> Asleep(q, fd)
      BY <3>1 DEF Asleep
    <3>3. QED
      BY <3>1, <3>2 DEF FilesInv, AtRest
  <2>3. QED
    BY <2>1, <2>2
<1>5. ASSUME NEW i \in Inodes PROVE Holders(i)' = Holding(s, p, i)
  <2>1. Holders(i)' = {pf \in Procs \X Fds : /\ files'[pf[1]] # NoFiles
                                             /\ files'[pf[1]].fd[pf[2]].status # "NONE"
                                             /\ files'[pf[1]].fd[pf[2]].node = i}
    BY DEF Holders, Used
  <2>2. ASSUME NEW pf \in Procs \X Fds
        PROVE  /\ files'[pf[1]] # NoFiles
               /\ files'[pf[1]].fd[pf[2]].status # "NONE"
               /\ files'[pf[1]].fd[pf[2]].node = i
               <=> pf \in Holding(s, p, i)
    <3>1. CASE pf[1] = p
      BY <3>1, <1>2 DEF Holding
    <3>2. CASE pf[1] # p
      BY <3>2, <1>2 DEF Holding
    <3>3. QED
      BY <3>1, <3>2
  <2>3. Holding(s, p, i) \subseteq Procs \X Fds
    BY DEF Holding
  <2>4. QED
    BY <2>1, <2>2, <2>3
<1>6. CountsExact'
  <2> SUFFICES ASSUME NEW i \in Inodes
               PROVE  /\ inode'[i].open = Cardinality(Holders(i)') + abandoned'[i]
                      /\ inode'[i].ref = inode'[i].open + Base[i] + lost'[i] + Cardinality(Cwd(i)')
    BY DEF CountsExact, Cwd
  <2>1. /\ s.inode[i].open = Cardinality(Holding(s, p, i)) + abandoned[i]
        /\ s.inode[i].ref = s.inode[i].open + R[i] /\ s.inode[i].open \in Nat
    BY GoodCounts
  <2>2. R[i] = Base[i] + lost'[i] + Cardinality(Cwd(i)')
    BY DEF Refs
  <2>3. lost'[i] \in Nat /\ Base[i] \in Int /\ Cardinality(Cwd(i)') \in Nat
    <3>1. lost'[i] \in Nat /\ Base[i] \in Int
      BY DEF Base
    <3>2. Cwd(i)' \subseteq Procs
      BY DEF Cwd
    <3>3. Cardinality(Cwd(i)') \in Nat
      BY <3>2, FilesAssumption, FS_Subset, FS_CardinalityType
    <3>4. QED
      BY <3>1, <3>3
  <2>4. QED
    BY <2>1, <2>2, <2>3, <1>5
<1>7. QED
  BY <1>3, <1>4, <1>6 DEF FilesInv

\* What a call of p starts from.
LEMMA StateGood ==
  ASSUME FilesInv, panic = "no", NEW p \in Procs, files[p] # NoFiles
  PROVE  /\ State(p).fd = files[p].fd /\ State(p).inode = inode
         /\ [i \in Inodes |-> Refs(i)] \in [Inodes -> Nat]
         /\ Good(State(p), p, [i \in Inodes |-> Refs(i)])
         /\ reading[p] = NoRead => Quiet(State(p))
<1>1. /\ files[p].fd \in Table /\ inode \in Counts /\ lost \in [Inodes -> Nat]
      /\ abandoned \in [Inodes -> Nat]
  BY FilesTypes DEF FilesInv, FilesTypeOK
<1>2. State(p) \in Tables /\ State(p).fd = files[p].fd /\ State(p).inode = inode /\ State(p).panic = "no"
  BY <1>1 DEF State, Tables
<1>3. ASSUME NEW i \in Inodes PROVE Holding(State(p), p, i) = Holders(i)
  BY <1>2 DEF Holding, Holders, Used
<1>4. ASSUME NEW i \in Inodes PROVE Refs(i) \in Nat
  BY <1>1, CwdFinite DEF Refs, Base
<1>5. ASSUME NEW i \in Inodes
      PROVE  /\ State(p).inode[i].open = Cardinality(Holding(State(p), p, i)) + abandoned[i]
             /\ State(p).inode[i].ref = State(p).inode[i].open + Refs(i)
  <2>1. /\ inode[i].open = Cardinality(Holders(i)) + abandoned[i]
        /\ inode[i].ref = inode[i].open + Base[i] + lost[i] + Cardinality(Cwd(i))
    BY DEF FilesInv, CountsExact, Cwd
  <2>2. inode[i].open \in Int /\ lost[i] \in Nat /\ Base[i] \in Int /\ Cardinality(Cwd(i)) \in Nat
    BY <1>1, CwdFinite DEF Counts, Base
  <2>3. QED
    BY <2>1, <2>2, <1>2, <1>3 DEF Refs
<1>6. Good(State(p), p, [i \in Inodes |-> Refs(i)])
  BY <1>1, <1>2, <1>5 DEF Good
<1>7. reading[p] = NoRead => Quiet(State(p))
  BY <1>2 DEF Quiet, FilesInv, AtRest, Asleep
<1>8. QED
  BY <1>2, <1>4, <1>6, <1>7

\* A call that leaves p's table in state s and p awake or asleep in a read, and
\* loses the references that it does not account for.
LEMMA SettleLoses ==
  ASSUME FilesInv, panic = "no", NEW p \in Procs, files[p] # NoFiles,
         NEW R \in [Inodes -> Nat], NEW s, Good(s, p, R), Settle(p, s),
         lost' \in [Inodes -> Nat], abandoned' = abandoned,
         \A i \in Inodes : R[i] = Base[i] + lost'[i] + Cardinality(Cwd(i)),
         reading' \in [Procs -> Read \cup {NoRead}],
         \A q \in Procs \ {p} : reading'[q] = reading[q],
         \A fd \in Fds : \/ s.fd[fd].status = "NONE"
                         \/ /\ s.fd[fd].status = "OPENED"
                            /\ s.fd[fd].open_count = IF Asleep(p, fd)' THEN 2 ELSE 1,
         reading'[p] # NoRead => s.fd[reading'[p].fd].status = "OPENED"
  PROVE  FilesInv'
<1> DEFINE tab == [pwd |-> "root", fd |-> s.fd]
<1>1. tab \in Files_struct /\ tab.fd = s.fd /\ tab # NoFiles
  BY TablesFields, StructIsNone DEF Good, Files_struct
<1>2. files' = [files EXCEPT ![p] = tab] /\ inode' = s.inode /\ panic' = s.panic
  <2>1. files[p] = [pwd |-> "root", fd |-> files[p].fd]
    BY FilesTypes
  <2>2. [files[p] EXCEPT !.fd = s.fd] = tab
    BY <2>1
  <2>3. QED
    BY <2>2 DEF Settle
<1> HIDE DEF tab
<1>3. ASSUME NEW i \in Inodes PROVE R[i] = Refs(i)'
  <2>1. files \in [Procs -> Files_struct \cup {NoFiles}] /\ files[p].pwd = "root" /\ tab.pwd = "root"
    BY FilesTypes DEF FilesInv, FilesTypeOK, Files_struct, tab
  <2>2. Cwd(i)' = Cwd(i)
    BY <1>1, <1>2, <2>1 DEF Cwd
  <2>3. QED
    BY <2>2 DEF Refs
<1>4. QED
  BY <1>1, <1>2, <1>3, NewTable

\* A call that loses nothing.
LEMMA SettleKeeps ==
  ASSUME FilesInv, panic = "no", NEW p \in Procs, files[p] # NoFiles,
         NEW s, Good(s, p, [i \in Inodes |-> Refs(i)]), Settle(p, s), UNCHANGED leaks,
         reading' \in [Procs -> Read \cup {NoRead}],
         \A q \in Procs \ {p} : reading'[q] = reading[q],
         \A fd \in Fds : \/ s.fd[fd].status = "NONE"
                         \/ /\ s.fd[fd].status = "OPENED"
                            /\ s.fd[fd].open_count = IF Asleep(p, fd)' THEN 2 ELSE 1,
         reading'[p] # NoRead => s.fd[reading'[p].fd].status = "OPENED"
  PROVE  FilesInv'
<1> DEFINE R == [i \in Inodes |-> Refs(i)]
<1>1. R \in [Inodes -> Nat]
  BY StateGood
<1>2. lost' \in [Inodes -> Nat] /\ abandoned' = abandoned /\ lost' = lost
  BY DEF FilesInv, FilesTypeOK, leaks
<1>3. \A i \in Inodes : R[i] = Base[i] + lost'[i] + Cardinality(Cwd(i))
  BY <1>2 DEF Refs
<1> HIDE DEF R
<1>4. Good(s, p, R)
  BY DEF R
<1>5. QED
  BY <1>1, <1>2, <1>3, <1>4, SettleLoses

\* A call after which p has no table: all its entries are closed, and its
\* working directory loses a reference.
LEMMA LeaveKeeps ==
  ASSUME FilesInv, panic = "no", NEW p \in Procs, files[p] # NoFiles,
         NEW s, Good(s, p, [i \in Inodes |-> Refs(i)]), Quiet(s), Leave(p, s), UNCHANGED leaks,
         reading' \in [Procs -> Read \cup {NoRead}], reading'[p] = NoRead,
         \A q \in Procs \ {p} : reading'[q] = reading[q]
  PROVE  FilesInv'
<1> DEFINE u == inode_ref_dec(s, "root")
           t == CloseFrom(u, 0)
           R == [i \in Inodes |-> Refs(i)]
           Q == [i \in Inodes |-> IF i = "root" THEN R[i] - 1 ELSE R[i]]
<1>1. files[p].pwd = "root" /\ "root" \in Inodes /\ p \in Cwd("root")
  BY FilesTypes DEF Inodes, Cwd
<1>2. Cardinality(Cwd("root") \ {p}) = Cardinality(Cwd("root")) - 1 /\ Cardinality(Cwd("root")) > 0
  <2>1. IsFiniteSet(Cwd("root")) /\ Cardinality(Cwd("root")) \in Nat
    BY CwdFinite
  <2>2. Cardinality(Cwd("root")) # 0
    BY <2>1, <1>1, FS_EmptySet
  <2>3. Cardinality(Cwd("root") \ {p}) = Cardinality(Cwd("root")) - 1
    BY <2>1, <1>1, FS_RemoveElement
  <2>4. QED
    BY <2>1, <2>2, <2>3
<1>3. R \in [Inodes -> Nat] /\ Q \in [Inodes -> Nat]
  <2>1. R \in [Inodes -> Nat]
    BY StateGood
  <2>2. Base["root"] = 1 /\ lost["root"] \in Nat /\ R["root"] = Base["root"] + lost["root"] + Cardinality(Cwd("root"))
    BY <1>1 DEF Refs, Base, FilesInv, FilesTypeOK
  <2>3. Cardinality(Cwd("root")) \in Nat
    BY CwdFinite
  <2>4. R["root"] - 1 \in Nat
    BY <2>2, <2>3, <1>2
  <2> HIDE DEF R
  <2>5. QED
    BY <2>1, <2>4
<1>4. Good(u, p, Q) /\ Quiet(u)
  <2>1. R = Plus(Q, "root")
    <3> HIDE DEF R
    <3>1. R["root"] \in Nat /\ (R["root"] - 1) + 1 = R["root"]
      BY <1>1, <1>3
    <3>2. ASSUME NEW i \in Inodes PROVE R[i] = Plus(Q, "root")[i]
      <4>1. CASE i = "root"
        BY <1>1, <1>3, <3>1, <4>1, PlusNat
      <4>2. CASE i # "root"
        BY <1>1, <1>3, <4>2, PlusNat
      <4>3. QED
        BY <4>1, <4>2
    <3>3. Plus(Q, "root") \in [Inodes -> Nat]
      BY <1>1, <1>3, PlusNat
    <3>4. QED
      BY <1>3, <3>2, <3>3
  <2> HIDE DEF u, R, Q
  <2>2. Good(s, p, Plus(Q, "root"))
    BY <2>1 DEF R
  <2>3. Good(u, p, Q) /\ u.fd = s.fd
    BY <1>1, <1>3, <2>2, GoodRefDec DEF u
  <2>4. QED
    BY <2>3 DEF Quiet
<1> HIDE DEF u, R, Q
<1>5. Good(t, p, Q) /\ Quiet(t) /\ \A fd \in Fds : t.fd[fd].status = "NONE"
  <2>1. 0 \in 0 .. NFd /\ \A fd \in Fds : fd >= 0
    BY FilesAssumption DEF Fds
  <2>2. QED
    BY <1>3, <1>4, <2>1, CloseFromCloses
<1> HIDE DEF t
<1>6. files_destroy(s, files[p].pwd) = t
  <2>1. Check(t, \A fd \in Fds : t.fd[fd].status = "NONE") = t
    BY <1>5 DEF Check, Ensure
  <2>2. QED
    BY <1>1, <2>1 DEF files_destroy, t, u
<1>7. files' = [files EXCEPT ![p] = NoFiles] /\ inode' = t.inode /\ panic' = t.panic
  BY <1>6 DEF Leave
<1>8. ASSUME NEW i \in Inodes PROVE Q[i] = Refs(i)'
  <2>0. lost' = lost
    BY DEF leaks
  <2>1. files \in [Procs -> Files_struct \cup {NoFiles}] /\ files[p].pwd = "root"
    BY <1>1 DEF FilesInv, FilesTypeOK, Files_struct
  <2>2. \A q \in Procs : files'[q] = IF q = p THEN NoFiles ELSE files[q]
    BY <1>7, <2>1
  <2>3. CASE i = "root"
    <3>1. Cwd(i)' = Cwd(i) \ {p}
      BY <2>2, <2>3 DEF Cwd
    <3>2. Cardinality(Cwd(i)) \in Nat /\ Base[i] \in Int /\ lost[i] \in Nat
      BY CwdFinite DEF Base, FilesInv, FilesTypeOK
    <3>3. Q[i] = Base[i] + lost[i] + Cardinality(Cwd(i)) - 1
      <4>1. Q[i] = R[i] - 1
        BY <2>3 DEF Q
      <4>2. R[i] = Base[i] + lost[i] + Cardinality(Cwd(i))
        BY DEF R, Refs
      <4>3. QED
        BY <3>2, <4>1, <4>2
    <3>4. QED
      BY <2>0, <2>3, <3>1, <3>2, <3>3, <1>2 DEF Refs
  <2>4. CASE i # "root"
    <3>1. Cwd(i)' = Cwd(i)
      BY <2>1, <2>2, <2>4 DEF Cwd
    <3>2. Q[i] = Base[i] + lost[i] + Cardinality(Cwd(i))
      BY <2>4 DEF Q, R, Refs
    <3>3. QED
      BY <2>0, <3>1, <3>2 DEF Refs
  <2>5. QED
    BY <2>3, <2>4
<1>9. /\ NoFiles \in Files_struct \cup {NoFiles}
      /\ lost' \in [Inodes -> Nat] /\ abandoned' = abandoned
  BY DEF leaks, FilesInv, FilesTypeOK
<1>10. QED
  BY <1>3, <1>5, <1>7, <1>8, <1>9, NewTable

Recounted(s, fd, n) == [s EXCEPT !.fd[fd].open_count = n]

\* Acquiring and releasing an entry touch no inode.
LEMMA Recount ==
  ASSUME NEW p \in Procs, NEW R \in [Inodes -> Nat], NEW s, Good(s, p, R),
         NEW fd \in Fds, s.fd[fd].status = "OPENED", NEW n \in Int
  PROVE  /\ Good(Recounted(s, fd, n), p, R)
         /\ Recounted(s, fd, n).fd =
              [s.fd EXCEPT ![fd] = [status |-> "OPENED", node |-> s.fd[fd].node, open_count |-> n]]
<1> DEFINE e == [status |-> "OPENED", node |-> s.fd[fd].node, open_count |-> n]
           t == Recounted(s, fd, n)
<1>1. s \in Tables /\ s.panic # "assert" /\ s.fd \in [Fds -> Entry] /\ s.fd[fd] \in Entry
  <2>1. s \in Tables /\ s.panic # "assert"
    BY DEF Good
  <2>2. s.fd \in [Fds -> Entry] /\ s.fd[fd] \in Entry
    BY ONLY <2>1, TablesFields DEF Table
  <2>3. QED
    BY <2>1, <2>2
<1>2. [s.fd[fd] EXCEPT !.open_count = n] = e /\ e \in Entry
  <2> DEFINE f == s.fd[fd]
  <2>1. f \in Entry /\ f.status = "OPENED"
    BY <1>1
  <2> HIDE DEF f
  <2>2. /\ [f EXCEPT !.open_count = n] = [status |-> f.status, node |-> f.node, open_count |-> n]
        /\ [f EXCEPT !.open_count = n] \in Entry
    BY <2>1, EntryEdit
  <2>3. QED
    BY <2>1, <2>2 DEF f
<1>3. e.status = "OPENED" /\ e.node = s.fd[fd].node
  OBVIOUS
<1> HIDE DEF e
<1>4. t = [s EXCEPT !.fd = [s.fd EXCEPT ![fd] = e]]
  BY <1>2 DEF Recounted
<1> HIDE DEF t
<1>5. t \in Tables /\ t.fd = [s.fd EXCEPT ![fd] = e] /\ t.inode = s.inode /\ t.panic # "assert"
  BY <1>1, <1>2, <1>4 DEF Tables, Table
<1>6. \A i \in Inodes : Holding(t, p, i) = Holding(s, p, i)
  BY <1>1, <1>3, <1>5 DEF Holding
<1>7. Good(t, p, R)
  BY <1>5, <1>6 DEF Good
<1>8. QED
  BY <1>5, <1>7 DEF t, e

LEMMA Acquire ==
  ASSUME NEW p \in Procs, NEW R \in [Inodes -> Nat], NEW s, Good(s, p, R),
         NEW fd \in Fds, s.fd[fd].status = "OPENED", s.fd[fd].open_count = 1
  PROVE  /\ Good(fd_array_acquire(s, fd), p, R)
         /\ fd_array_acquire(s, fd).fd =
              [s.fd EXCEPT ![fd] = [status |-> "OPENED", node |-> s.fd[fd].node, open_count |-> 2]]
<1>1. Check(s, s.fd[fd].status = "OPENED") = s
  BY DEF Check, Ensure
<1>2. s.fd[fd].open_count + 1 = 2
  OBVIOUS
<1>3. fd_array_acquire(s, fd) = Recounted(s, fd, 2)
  BY <1>1, <1>2 DEF fd_array_acquire, Recounted
<1>4. PICK n \in Int : n = 2
  OBVIOUS
<1>5. Good(Recounted(s, fd, n), p, R)
  BY Recount
<1>6. Recounted(s, fd, n).fd =
        [s.fd EXCEPT ![fd] = [status |-> "OPENED", node |-> s.fd[fd].node, open_count |-> n]]
  BY Recount
<1>7. QED
  BY <1>3, <1>4, <1>5, <1>6

LEMMA Release ==
  ASSUME NEW p \in Procs, NEW R \in [Inodes -> Nat], NEW s, Good(s, p, R),
         NEW fd \in Fds, s.fd[fd].status = "OPENED", s.fd[fd].open_count = 2
  PROVE  /\ Good(fd_array_release(s, fd), p, R)
         /\ fd_array_release(s, fd).fd =
              [s.fd EXCEPT ![fd] = [status |-> "OPENED", node |-> s.fd[fd].node, open_count |-> 1]]
<1> DEFINE t == Recounted(s, fd, 1)
<1>1. Check(s, s.fd[fd].status \in {"OPENED", "CLOSED"} /\ s.fd[fd].open_count > 0) = s
  BY DEF Check, Ensure
<1>2. s.fd[fd].open_count - 1 = 1
  OBVIOUS
<1>3. fd_array_release(s, fd) = IF t.fd[fd].open_count = 0 THEN fd_array_free(t, fd) ELSE t
  BY <1>1, <1>2 DEF fd_array_release, Recounted
<1>4. Good(t, p, R)
      /\ t.fd = [s.fd EXCEPT ![fd] = [status |-> "OPENED", node |-> s.fd[fd].node, open_count |-> 1]]
  <2>1. PICK n \in Int : n = 1
    OBVIOUS
  <2>2. Good(Recounted(s, fd, n), p, R)
    BY Recount
  <2>3. Recounted(s, fd, n).fd =
          [s.fd EXCEPT ![fd] = [status |-> "OPENED", node |-> s.fd[fd].node, open_count |-> n]]
    BY Recount
  <2>4. QED
    BY <2>1, <2>2, <2>3
<1>5. s.fd \in [Fds -> Entry]
  BY TablesFields DEF Good, Table
<1> HIDE DEF t
<1>6. t.fd[fd].open_count # 0
  BY <1>4, <1>5
<1>7. QED
  BY <1>3, <1>4, <1>6
-----------------------------------------------------------------------------
LEMMA FilesInitInv == Init => FilesInv
<1> SUFFICES ASSUME Init PROVE FilesInv
  OBVIOUS
<1> DEFINE f0 == [pwd |-> "root", fd |-> [fd \in Fds |-> Empty]]
<1>1. Empty \in Entry /\ Empty.status = "NONE"
  BY DEF Empty, Entry, Inodes
<1>2. f0 \in Files_struct /\ f0 # NoFiles /\ f0.pwd = "root" /\ \A fd \in Fds : f0.fd[fd].status = "NONE"
  BY <1>1, StructIsNone DEF Files_struct, Table
<1>3. files = [p \in Procs |-> IF p = InitProc THEN f0 ELSE NoFiles]
  BY DEF Init
<1> HIDE DEF f0
<1>4. FilesTypeOK
  <2>1. inode \in Counts
    BY DEF Init, Base, Counts
  <2>2. QED
    BY <1>2, <1>3, <2>1 DEF Init, FilesTypeOK, Files_struct
<1>5. AtRest
  BY <1>2, <1>3 DEF Init, AtRest
<1>6. ASSUME NEW i \in Inodes PROVE Holders(i) = {} /\ Cardinality(Holders(i)) = 0
  <2>1. Holders(i) = {}
    BY <1>2, <1>3 DEF Holders, Used
  <2>2. QED
    BY <2>1, FS_EmptySet
<1>7. ASSUME NEW i \in Inodes PROVE Cardinality(Cwd(i)) = IF i = "root" THEN 1 ELSE 0
  <2>1. Cwd(i) = IF i = "root" THEN {InitProc} ELSE {}
    BY <1>2, <1>3, FilesAssumption DEF Cwd
  <2>2. Cardinality({InitProc}) = 1 /\ Cardinality({}) = 0
    BY FS_Singleton, FS_EmptySet
  <2>3. QED
    BY <2>1, <2>2
<1>8. CountsExact
  <2> SUFFICES ASSUME NEW i \in Inodes
               PROVE  /\ inode[i].open = Cardinality(Holders(i)) + abandoned[i]
                      /\ inode[i].ref = inode[i].open + Base[i] + lost[i] + Cardinality(Cwd(i))
    BY DEF CountsExact, Cwd
  <2>1. /\ inode[i].open = 0 /\ inode[i].ref = Base[i] + (IF i = "root" THEN 1 ELSE 0)
        /\ lost[i] = 0 /\ abandoned[i] = 0 /\ Base[i] \in Int
    BY DEF Init, Base
  <2>2. QED
    BY <2>1, <1>6, <1>7
<1>9. QED
  BY <1>4, <1>5, <1>8 DEF FilesInv

\* The invariant is about nothing but the file tables.
LEMMA FilesUnchanged ==
  ASSUME FilesInv, UNCHANGED <<files, inode, reading, leaks>>,
         panic' \in {"no", "missing vop", "count"}
  PROVE  FilesInv'
<1>1. FilesTypeOK'
  BY DEF FilesInv, FilesTypeOK, leaks
<1>2. AtRest'
  BY DEF FilesInv, AtRest, Asleep
<1>3. CountsExact'
  <2>1. CountsExact
    BY DEF FilesInv
  <2>2. QED
    BY <2>1 DEF CountsExact, Holders, Used, leaks
<1>4. QED
  BY <1>1, <1>2, <1>3 DEF FilesInv

\* A call of a running process that leaves its table quiet.
LEMMA QuietSettles ==
  ASSUME FilesInv, panic = "no", NEW p \in Procs, Running(p),
         NEW s, Good(s, p, [i \in Inodes |-> Refs(i)]), Quiet(s), Settle(p, s),
         UNCHANGED <<reading, leaks>>
  PROVE  FilesInv'
<1>1. files[p] # NoFiles /\ reading'[p] = NoRead
  BY DEF Running
<1>2. reading' \in [Procs -> Read \cup {NoRead}]
  BY DEF FilesInv, FilesTypeOK, Read
<1>3. \A fd \in Fds : \/ s.fd[fd].status = "NONE"
                      \/ /\ s.fd[fd].status = "OPENED"
                         /\ s.fd[fd].open_count = IF Asleep(p, fd)' THEN 2 ELSE 1
  BY <1>1 DEF Quiet, Asleep
<1> DEFINE R == [i \in Inodes |-> Refs(i)]
<1>4. QED
  BY <1>1, <1>2, <1>3, SettleKeeps

LEMMA FreeFdIsFree ==
  ASSUME NEW S, S \subseteq Fds, S # {}
  PROVE  Min(S) \in S
<1>1. S \subseteq Nat
  BY FilesAssumption DEF Fds
<1>2. QED
  BY <1>1, MinIsLeast

\* open with O_CREAT and O_EXCL of what is there: the reference is lost.
LEMMA LoseReference ==
  ASSUME FilesInv, panic = "no", NEW p \in Procs, Running(p), NEW i \in Inodes, NEW named,
         Settle(p, vfs_lookup(State(p), i, named)), lost' = [lost EXCEPT ![i] = @ + 1],
         UNCHANGED <<reading, abandoned>>
  PROVE  FilesInv'
<1> DEFINE R == [j \in Inodes |-> Refs(j)]
           s == vfs_lookup(State(p), i, named)
           Q == Plus(R, i)
<1>1. files[p] # NoFiles /\ reading[p] = NoRead /\ reading' = reading
  BY DEF Running
<1>2. R \in [Inodes -> Nat] /\ Good(State(p), p, R) /\ Quiet(State(p))
  BY <1>1, StateGood
<1>3. \A j \in Inodes : R[j] = Base[j] + lost[j] + Cardinality(Cwd(j))
  BY DEF Refs
<1>4. lost \in [Inodes -> Nat] /\ \A j \in Inodes : Base[j] \in Int /\ Cardinality(Cwd(j)) \in Nat
  BY CwdFinite DEF FilesInv, FilesTypeOK, Base
<1> HIDE DEF R
<1>5. Good(s, p, Q) /\ s.fd = State(p).fd /\ Settle(p, s)
  BY <1>2, GoodLookup
<1>6. Q \in [Inodes -> Nat] /\ Q[i] = R[i] + 1 /\ \A j \in Inodes \ {i} : Q[j] = R[j]
  BY <1>2, PlusNat
<1> HIDE DEF s, Q
<1>7. lost' \in [Inodes -> Nat] /\ lost'[i] = lost[i] + 1 /\ \A j \in Inodes \ {i} : lost'[j] = lost[j]
  BY <1>4
<1>8. ASSUME NEW j \in Inodes PROVE Q[j] = Base[j] + lost'[j] + Cardinality(Cwd(j))
  <2>1. /\ R[j] = Base[j] + lost[j] + Cardinality(Cwd(j))
        /\ lost[j] \in Nat /\ Base[j] \in Int /\ Cardinality(Cwd(j)) \in Nat
    BY <1>3, <1>4
  <2>2. CASE j = i
    <3>1. Q[j] = R[j] + 1 /\ lost'[j] = lost[j] + 1
      BY <1>6, <1>7, <2>2
    <3>2. QED
      BY <2>1, <3>1
  <2>3. CASE j # i
    BY <1>6, <1>7, <2>1, <2>3
  <2>4. QED
    BY <2>2, <2>3
<1>9. \A fd \in Fds : \/ s.fd[fd].status = "NONE"
                      \/ /\ s.fd[fd].status = "OPENED"
                         /\ s.fd[fd].open_count = IF Asleep(p, fd)' THEN 2 ELSE 1
  BY <1>1, <1>2, <1>5 DEF Quiet, Asleep
<1>10. reading' \in [Procs -> Read \cup {NoRead}]
  BY <1>1 DEF FilesInv, FilesTypeOK, Read
<1>11. QED
  BY <1>1, <1>5, <1>6, <1>7, <1>8, <1>9, <1>10, SettleLoses

\* The new entry is one that is free, opened on the inode.
LEMMA FreeEntry ==
  ASSUME NEW s, {k \in Fds : s.fd[k].status = "NONE"} # {}
  PROVE  /\ Min({k \in Fds : s.fd[k].status = "NONE"}) \in Fds
         /\ s.fd[Min({k \in Fds : s.fd[k].status = "NONE"})].status = "NONE"
<1> DEFINE S == {k \in Fds : s.fd[k].status = "NONE"}
<1>1. S \subseteq Fds /\ S # {}
  OBVIOUS
<1> HIDE DEF S
<1>2. Min(S) \in S
  BY <1>1, FreeFdIsFree
<1>3. QED
  BY <1>2 DEF S

OpensOne(s, t, i) == t.fd = [s.fd EXCEPT ![Min({k \in Fds : s.fd[k].status = "NONE"})] = OpenOn(i)]

\* open of what is there, in a table with a free entry: the entry is opened, or
\* the lookup's reference is given back.
LEMMA FileOpen ==
  ASSUME NEW p \in Procs, NEW R \in [Inodes -> Nat], NEW s, Good(s, p, R), Quiet(s),
         NEW i \in Inodes, NEW named, NEW flags,
         {k \in Fds : s.fd[k].status = "NONE"} # {}
  PROVE  /\ Good(file_open(s, i, named, flags), p, R)
         /\ Quiet(file_open(s, i, named, flags))
         /\ vop_open(i, flags) => OpensOne(s, file_open(s, i, named, flags), i)
<1> DEFINE fd     == Min({k \in Fds : s.fd[k].status = "NONE"})
           sought == vfs_lookup(s, i, named)
           found  == vop_call(sought, i, "open")
           opened == fd_array_open(Shift(found, i, 0, 1), fd, i)
           cut    == IF flags \cap {"creat", "trunc"} = {} THEN opened
                     ELSE vop_call(opened, i, "truncate")
           sized  == IF "append" \in flags THEN vop_call(cut, i, "fstat") ELSE cut
           back   == inode_ref_dec(found, i)
           new    == [s.fd EXCEPT ![fd] = OpenOn(i)]
           Q      == Plus(R, i)
<1>1. fd \in Fds /\ s.fd[fd].status = "NONE"
  BY FreeEntry
<1>2. file_open(s, i, named, flags) = IF ~vop_open(i, flags) THEN back ELSE sized
  BY DEF file_open
<1>3. Good(sought, p, Q) /\ sought.fd = s.fd
  BY GoodLookup
<1>4. Q \in [Inodes -> Nat] /\ Q[i] = R[i] + 1 /\ \A j \in Inodes \ {i} : Q[j] = R[j]
  BY PlusNat
<1> HIDE DEF fd, sought
<1>5. Good(found, p, Q) /\ found.fd = s.fd
  <2> HIDE DEF Q
  <2>1. QED
    BY <1>3, <1>4, GoodVopCall
<1> HIDE DEF found
<1>6. Good(back, p, R) /\ back.fd = s.fd
  BY <1>5, GoodRefDec
<1> HIDE DEF Q, back
<1>7. Good(opened, p, R) /\ opened.fd = new
  <2>1. PICK r \in Int : r = 0
    OBVIOUS
  <2>2. Q[i] \in Int /\ Q[i] + r = R[i] + 1 /\ \A j \in Inodes \ {i} : R[j] = Q[j]
    BY <1>4, <2>1
  <2>3. found.fd[fd].status = "NONE"
    BY <1>1, <1>5
  <2>4. Good(fd_array_open(Shift(found, i, r, 1), fd, i), p, R)
    BY <1>1, <1>5, <2>2, <2>3, EntryOpens
  <2>5. opened.fd = [found.fd EXCEPT ![fd] = OpenOn(i)]
    <3> DEFINE u == Shift(found, i, 0, 1)
    <3>1. u \in Tables /\ u.fd = found.fd
      <4>1. found \in Tables /\ 0 \in Int /\ 1 \in Int
        BY <1>5 DEF Good
      <4>2. QED
        BY <4>1, ShiftFields
    <3> HIDE DEF u
    <3>2. fd_array_open(u, fd, i) = [u EXCEPT !.fd = [u.fd EXCEPT ![fd] = OpenOn(i)]]
      BY <3>1 DEF fd_array_open, Tables, OpenOn
    <3>3. QED
      BY <3>1, <3>2 DEF u, Tables
  <2>6. QED
    BY <1>5, <2>1, <2>4, <2>5
<1> HIDE DEF opened, new
<1>8. Good(cut, p, R) /\ cut.fd = new
  BY <1>7, GoodVopCall
<1> HIDE DEF cut
<1>9. Good(sized, p, R) /\ sized.fd = new
  BY <1>8, GoodVopCall
<1> HIDE DEF sized
<1>10. s.fd \in Table
  <2>1. s \in Tables
    BY DEF Good
  <2>2. QED
    BY ONLY <2>1, TablesFields
<1>11. Quiet(back)
  BY <1>6 DEF Quiet
<1>12. Quiet(sized)
  BY <1>1, <1>9, <1>10 DEF Quiet, Table, new, OpenOn
<1>13. QED
  BY <1>2, <1>6, <1>9, <1>11, <1>12 DEF new, fd, OpensOne

\* A new entry of a running process, on inode i.
LEMMA OpensEntry ==
  ASSUME FilesInv, panic = "no", NEW p \in Procs, Running(p),
         NEW fd \in FreeFds(p), NEW i \in Inodes,
         Settle(p, fd_array_dup(State(p), fd, i)), UNCHANGED <<reading, leaks>>
  PROVE  FilesInv'
<1> DEFINE R == [j \in Inodes |-> Refs(j)]
           t == fd_array_dup(State(p), fd, i)
<1>1. files[p] # NoFiles /\ reading[p] = NoRead
  BY DEF Running
<1>2. R \in [Inodes -> Nat] /\ Good(State(p), p, R) /\ Quiet(State(p)) /\ State(p).fd = files[p].fd
  BY <1>1, StateGood
<1>3. fd \in Fds /\ State(p).fd[fd].status = "NONE" /\ State(p).fd \in Table
  BY <1>1, <1>2, FilesTypes DEF FreeFds
<1> HIDE DEF R
<1>4. PICK s : s = State(p)
  OBVIOUS
<1>5. /\ Good(t, p, R)
      /\ t.fd = [State(p).fd EXCEPT ![fd] = [status |-> "OPENED", node |-> i, open_count |-> 1]]
  <2>1. /\ Good(fd_array_dup(s, fd, i), p, R)
        /\ fd_array_dup(s, fd, i).fd =
              [s.fd EXCEPT ![fd] = [status |-> "OPENED", node |-> i, open_count |-> 1]]
    <3>1. Good(s, p, R) /\ fd \in Fds /\ s.fd[fd].status = "NONE" /\ s.fd \in [Fds -> Entry]
      BY <1>2, <1>3, <1>4 DEF Table
    <3>2. R \in [Inodes -> Nat]
      BY <1>2
    <3>3. QED
      BY <3>1, <3>2, DupOpens
  <2>2. QED
    BY <2>1, <1>4
<1> HIDE DEF t
<1>6. Quiet(t)
  BY <1>2, <1>3, <1>5 DEF Quiet, Table
<1>7. Settle(p, t)
  BY DEF t
<1>8. QED
  BY <1>5, <1>6, <1>7, QuietSettles DEF R

\* What open finds: a table with a free entry.
LEMMA OpenFinds ==
  ASSUME FilesInv, panic = "no", NEW p \in Procs, files[p] # NoFiles, FreeFds(p) # {}
  PROVE  {k \in Fds : State(p).fd[k].status = "NONE"} # {}
  BY StateGood DEF FreeFds

LEMMA OpenStep ==
  ASSUME FilesInv, panic = "no", NEW p \in Procs, NEW i \in Inodes, NEW named, NEW flags,
         sys_open(p, i, named, flags)
  PROVE  FilesInv'
<1> DEFINE R == [j \in Inodes |-> Refs(j)]
           s == State(p)
           t == file_open(s, i, named, flags)
<1>1. /\ Running(p) /\ files[p] # NoFiles /\ reading[p] = NoRead /\ FreeFds(p) # {}
      /\ UNCHANGED <<reading, abandoned>>
  BY DEF sys_open, Running, console
<1>2. \/ /\ Settle(p, vfs_lookup(State(p), i, named))
         /\ lost' = [lost EXCEPT ![i] = @ + 1]
      \/ Settle(p, t) /\ UNCHANGED lost
  BY DEF sys_open
<1>3. CASE /\ Settle(p, vfs_lookup(State(p), i, named))
           /\ lost' = [lost EXCEPT ![i] = @ + 1]
  BY <1>1, <1>3, LoseReference
<1>4. CASE Settle(p, t) /\ UNCHANGED lost
  <2>1. R \in [Inodes -> Nat] /\ Good(s, p, R) /\ Quiet(s)
    BY <1>1, StateGood
  <2>2. {k \in Fds : s.fd[k].status = "NONE"} # {}
    BY <1>1, OpenFinds
  <2> HIDE DEF R, s
  <2>3. Good(t, p, R) /\ Quiet(t)
    BY <2>1, <2>2, FileOpen
  <2> HIDE DEF t
  <2>4. UNCHANGED <<reading, leaks>>
    BY <1>1, <1>4 DEF leaks
  <2>5. QED
    BY <1>1, <1>4, <2>3, <2>4, QuietSettles DEF R
<1>5. QED
  BY <1>2, <1>3, <1>4

LEMMA OpenAbsentStep ==
  ASSUME FilesInv, panic = "no", NEW p \in Procs, NEW d \in Inodes, NEW creat,
         sys_open_absent(p, d, creat)
  PROVE  FilesInv'
<1> DEFINE R == [j \in Inodes |-> Refs(j)]
           s == State(p)
           u == visit(s, d, "lookup")
           v == visit(u, d, "create")
           t == IF creat THEN v ELSE u
<1>1. /\ Running(p) /\ files[p] # NoFiles /\ reading[p] = NoRead
      /\ Settle(p, t) /\ UNCHANGED <<reading, leaks>>
  BY DEF sys_open_absent, Running, console
<1>2. R \in [Inodes -> Nat] /\ Good(s, p, R) /\ Quiet(s)
  BY <1>1, StateGood
<1> HIDE DEF R, s
<1>3. Good(u, p, R) /\ u.fd = s.fd
  BY <1>2, GoodVisit
<1> HIDE DEF u
<1>4. Good(v, p, R) /\ v.fd = u.fd
  BY <1>2, <1>3, GoodVisit
<1> HIDE DEF v
<1>5. Good(t, p, R) /\ Quiet(t)
  BY <1>2, <1>3, <1>4 DEF Quiet
<1> HIDE DEF t
<1>6. QED
  BY <1>1, <1>5, QuietSettles DEF R

LEMMA CloseStep ==
  ASSUME FilesInv, panic = "no", NEW p \in Procs, NEW fd \in Fds, sys_close(p, fd)
  PROVE  FilesInv'
<1> DEFINE R == [j \in Inodes |-> Refs(j)]
           t == fd_array_close(State(p), fd)
<1>1. Running(p) /\ files[p] # NoFiles /\ reading[p] = NoRead
  BY DEF sys_close, Running
<1>2. R \in [Inodes -> Nat] /\ Good(State(p), p, R) /\ Quiet(State(p)) /\ State(p).fd = files[p].fd
  BY <1>1, StateGood
<1>3. State(p).fd[fd].status = "OPENED" /\ State(p).fd[fd].open_count = 1 /\ State(p).fd \in Table
  <2>1. State(p).fd[fd].status = "OPENED" /\ State(p).fd \in Table
    BY <1>1, <1>2, FilesTypes DEF sys_close, Opened
  <2>2. QED
    BY <2>1, <1>2 DEF Quiet
<1> HIDE DEF R
<1>4. PICK s : s = State(p)
  OBVIOUS
<1>5. Good(t, p, R) /\ t.fd = [State(p).fd EXCEPT ![fd] = Empty]
  <2>1. Good(fd_array_close(s, fd), p, R) /\ fd_array_close(s, fd).fd = [s.fd EXCEPT ![fd] = Empty]
    BY <1>2, <1>3, <1>4, CloseFrees
  <2>2. QED
    BY <2>1, <1>4
<1> HIDE DEF t
<1>6. Quiet(t)
  BY <1>2, <1>3, <1>5 DEF Quiet, Table, Empty
<1>7. Settle(p, t) /\ UNCHANGED <<reading, leaks>>
  BY DEF t, sys_close, console
<1>8. QED
  BY <1>1, <1>5, <1>6, <1>7, QuietSettles DEF R

LEMMA DupStep ==
  ASSUME FilesInv, panic = "no", NEW p \in Procs, NEW from \in Fds, NEW to \in Fds,
         sys_dup(p, from, to)
  PROVE  FilesInv'
<1> DEFINE i == files[p].fd[from].node
<1>1. Running(p) /\ files[p] # NoFiles /\ to \in FreeFds(p)
  BY DEF sys_dup, Running
<1>2. i \in Inodes
  BY <1>1, FilesTypes, EntryFields DEF Table
<1>3. Settle(p, fd_array_dup(State(p), to, i)) /\ UNCHANGED <<reading, leaks>>
  BY DEF sys_dup, console
<1> HIDE DEF i
<1>4. QED
  BY <1>1, <1>2, <1>3, OpensEntry

\* A call on an open file: its entry is acquired and released again.
LEMMA FileCallStep ==
  ASSUME FilesInv, panic = "no", NEW p \in Procs, NEW fd \in Fds, NEW op, sys_file(p, fd, op)
  PROVE  FilesInv'
<1> DEFINE R == [j \in Inodes |-> Refs(j)]
           i == files[p].fd[fd].node
           s == State(p)
           a == fd_array_acquire(s, fd)
           c == vop_call(a, i, op)
           t == fd_array_release(c, fd)
<1>1. /\ Running(p) /\ files[p] # NoFiles /\ reading[p] = NoRead
      /\ files[p].fd[fd].status = "OPENED"
      /\ Settle(p, t) /\ UNCHANGED <<reading, leaks>>
  BY DEF sys_file, Running, Opened, console
<1>2. R \in [Inodes -> Nat] /\ Good(s, p, R) /\ Quiet(s) /\ s.fd = files[p].fd
  BY <1>1, StateGood
<1>3. i \in Inodes
  BY <1>1, FilesTypes, EntryFields DEF Table
<1> HIDE DEF R, s, i
<1>4. s.fd[fd].status = "OPENED" /\ s.fd[fd].open_count = 1 /\ s.fd \in [Fds -> Entry]
  BY <1>1, <1>2, TablesFields DEF Quiet, Good, Table
<1>5. Good(a, p, R)
      /\ a.fd = [s.fd EXCEPT ![fd] = [status |-> "OPENED", node |-> s.fd[fd].node, open_count |-> 2]]
  BY <1>2, <1>4, Acquire
<1> HIDE DEF a
<1>6. Good(c, p, R) /\ c.fd = a.fd
  <2>1. Good(a, p, R)
    BY <1>5
  <2>2. QED
    BY <1>2, <1>3, <2>1, GoodVopCall
<1> HIDE DEF c
<1>7. c.fd[fd].status = "OPENED" /\ c.fd[fd].open_count = 2 /\ c.fd \in [Fds -> Entry]
  <2>1. c \in Tables
    BY <1>6 DEF Good
  <2>2. c.fd \in [Fds -> Entry]
    BY ONLY <2>1, TablesFields DEF Table
  <2>3. QED
    BY <1>4, <1>5, <1>6, <2>2
<1>8. Good(t, p, R)
      /\ t.fd = [c.fd EXCEPT ![fd] = [status |-> "OPENED", node |-> c.fd[fd].node, open_count |-> 1]]
  BY <1>2, <1>6, <1>7, Release
<1> HIDE DEF t
<1>9. Quiet(t)
  BY <1>2, <1>4, <1>5, <1>6, <1>7, <1>8 DEF Quiet
<1>10. QED
  BY <1>1, <1>8, <1>9, QuietSettles DEF R

LEMMA GetcwdStep ==
  ASSUME FilesInv, panic = "no", NEW p \in Procs, sys_getcwd(p)
  PROVE  FilesInv'
<1> DEFINE R == [j \in Inodes |-> Refs(j)]
           s == State(p)
           t == visit(s, files[p].pwd, "namefile")
<1>1. /\ Running(p) /\ files[p] # NoFiles /\ reading[p] = NoRead
      /\ Settle(p, t) /\ UNCHANGED <<reading, leaks>>
  BY DEF sys_getcwd, Running, console
<1>2. R \in [Inodes -> Nat] /\ Good(s, p, R) /\ Quiet(s)
  BY <1>1, StateGood
<1>3. files[p].pwd \in Inodes
  BY <1>1, FilesTypes DEF Inodes
<1> HIDE DEF R, s
<1>4. Good(t, p, R) /\ t.fd = s.fd
  BY <1>2, <1>3, GoodVisit
<1> HIDE DEF t
<1>5. Quiet(t)
  BY <1>2, <1>4 DEF Quiet
<1>6. QED
  BY <1>1, <1>4, <1>5, QuietSettles DEF R

\* chdir: there is one directory, and it is where the process was.
LEMMA ChdirStep ==
  ASSUME FilesInv, panic = "no", NEW p \in Procs, NEW i \in Inodes, NEW named,
         sys_chdir(p, i, named)
  PROVE  FilesInv'
<1> DEFINE R == [j \in Inodes |-> Refs(j)]
           s == State(p)
           found == vfs_lookup(s, i, named)
           asked == vop_call(found, i, "gettype")
           checked == IF i = "root" THEN found ELSE asked
           t == inode_ref_dec(checked, i)
           Q == Plus(R, i)
<1>1. Running(p) /\ files[p] # NoFiles /\ reading[p] = NoRead /\ UNCHANGED <<reading, leaks>>
  BY DEF sys_chdir, Running, console
<1>2. files[p].pwd = "root" /\ files[p] = [pwd |-> "root", fd |-> files[p].fd]
  BY <1>1, FilesTypes
<1>3. files' = [files EXCEPT ![p].pwd = "root"] /\ inode' = t.inode /\ panic' = t.panic
  BY <1>2 DEF sys_chdir
<1>4. R \in [Inodes -> Nat] /\ Good(s, p, R) /\ Quiet(s) /\ s.fd = files[p].fd
  BY <1>1, StateGood
<1> HIDE DEF R, s
<1>5. Good(found, p, Q) /\ found.fd = s.fd /\ Q \in [Inodes -> Nat]
  BY <1>4, GoodLookup, PlusNat
<1> HIDE DEF found
<1>6. Good(asked, p, Q) /\ asked.fd = s.fd
  <2> HIDE DEF Q
  <2>1. QED
    BY <1>5, GoodVopCall
<1> HIDE DEF asked
<1>7. Good(checked, p, Q) /\ checked.fd = s.fd
  BY <1>5, <1>6
<1> HIDE DEF checked
<1>8. Good(t, p, R) /\ t.fd = s.fd
  BY <1>4, <1>7, GoodRefDec
<1> HIDE DEF t
<1>9. Settle(p, t)
  <2> DEFINE f == files[p]
  <2>1. f = [pwd |-> "root", fd |-> t.fd]
    BY <1>2, <1>4, <1>8
  <2> HIDE DEF f
  <2>2. [f EXCEPT !.pwd = "root"] = f /\ [f EXCEPT !.fd = t.fd] = f
    BY <2>1
  <2>3. QED
    BY <1>3, <2>2 DEF f, Settle
<1>10. Quiet(t)
  BY <1>4, <1>8 DEF Quiet
<1>11. QED
  BY <1>1, <1>8, <1>9, <1>10, QuietSettles DEF R

\* The child's table gets every open entry of its parent's, each counted.
LEMMA ForkStep ==
  ASSUME FilesInv, panic = "no", NEW p \in Procs, NEW c \in Procs, do_fork(p, c)
  PROVE  FilesInv'
<1> DEFINE none == [fd |-> [fd \in Fds |-> Empty], inode |-> inode, panic |-> panic]
           from == files[p]
           t == dup_files(none, from)
           tab == [pwd |-> "root", fd |-> t.fd]
           R == [i \in Inodes |-> Refs(i)]
           Q == [i \in Inodes |-> IF i = "root" THEN R[i] + 1 ELSE R[i]]
           u == Shift(none, "root", 1, 0)
<1>1. files[p] # NoFiles /\ files[c] = NoFiles /\ reading[c] = NoRead
  BY FilesTypes DEF do_fork, Running
<1>2. from \in Files_struct /\ from.pwd = "root"
  BY <1>1, FilesTypes
<1>3. /\ files' = [files EXCEPT ![c] = tab] /\ inode' = t.inode /\ panic' = t.panic
      /\ UNCHANGED <<reading, leaks>> /\ UNCHANGED <<lost, abandoned>>
  BY <1>2 DEF do_fork, console, leaks
<1>4. /\ R \in [Inodes -> Nat] /\ inode \in Counts
      /\ lost \in [Inodes -> Nat] /\ abandoned \in [Inodes -> Nat]
  BY <1>1, StateGood DEF FilesInv, FilesTypeOK
<1>5. Q \in [Inodes -> Nat]
  <2> HIDE DEF R
  <2>1. QED
    BY <1>4
<1>6. "root" \in Inodes /\ Empty \in Entry /\ Empty.status = "NONE"
  BY DEF Inodes, Empty, Entry
<1>7. none \in Tables /\ none.inode = inode /\ none.panic = "no" /\ none.fd = [fd \in Fds |-> Empty]
  BY <1>4, <1>6 DEF Tables, Table
<1>8. ASSUME NEW i \in Inodes
      PROVE  /\ inode[i].open = Cardinality(Holders(i)) + abandoned[i]
             /\ inode[i].ref = inode[i].open + R[i]
             /\ inode[i].open \in Int /\ inode[i].ref \in Int /\ R[i] \in Int
             /\ Cardinality(Holders(i)) + abandoned[i] \in Int
  <2>1. /\ State(p).inode[i].open = Cardinality(Holding(State(p), p, i)) + abandoned[i]
        /\ State(p).inode[i].ref = State(p).inode[i].open + R[i]
        /\ State(p).inode = inode /\ State(p).fd = files[p].fd
    BY <1>1, StateGood DEF Good
  <2>2. Holding(State(p), p, i) = Holders(i)
    BY <2>1, <1>1 DEF Holding, Holders, Used
  <2>3. inode[i].open \in Int /\ inode[i].ref \in Int
    BY <1>4 DEF Counts
  <2> HIDE DEF R
  <2>4. QED
    BY <1>4, <2>1, <2>2, <2>3
<1> HIDE DEF none
<1>9. /\ u \in Tables /\ u.fd = none.fd /\ u.panic = "no"
      /\ \A j \in Inodes \ {"root"} : u.inode[j] = inode[j]
      /\ u.inode["root"].ref = inode["root"].ref + 1
      /\ u.inode["root"].open = inode["root"].open + 0
  <2>1. 1 \in Int /\ 0 \in Int
    OBVIOUS
  <2>2. QED
    BY <2>1, <1>6, <1>7, ShiftFields
<1> HIDE DEF u, R
<1>10. Good(u, c, Q) /\ \A fd \in Fds : u.fd[fd].status = "NONE"
  <2>1. \A fd \in Fds : u.fd[fd].status = "NONE"
    BY <1>6, <1>7, <1>9
  <2>2. ASSUME NEW i \in Inodes
        PROVE  /\ u.inode[i].open = Cardinality(Holding(u, c, i)) + abandoned[i]
               /\ u.inode[i].ref = u.inode[i].open + Q[i]
    <3>1. Holding(u, c, i) = Holders(i)
      BY <1>1, <2>1 DEF Holding, Holders, Used
    <3>2. CASE i = "root"
      BY <1>6, <1>8, <1>9, <3>1, <3>2
    <3>3. CASE i # "root"
      BY <1>8, <1>9, <3>1, <3>3
    <3>4. QED
      BY <3>2, <3>3
  <2>3. u \in Tables /\ u.panic # "assert" /\ abandoned \in [Inodes -> Nat]
    BY <1>4, <1>9
  <2>4. Good(u, c, Q)
    BY <2>2, <2>3 DEF Good
  <2>5. QED
    BY <2>1, <2>4
<1> HIDE DEF Q
<1>11. Good(t, c, Q) /\ Quiet(t)
  <2>1. from \in [pwd : Inodes, fd : Table]
    BY <1>2, <1>6 DEF Files_struct
  <2>2. Shift(none, from.pwd, 1, 0) = u
    BY <1>2 DEF u
  <2>3. Good(Shift(none, from.pwd, 1, 0), c, Q)
        /\ \A fd \in Fds : Shift(none, from.pwd, 1, 0).fd[fd].status = "NONE"
    BY <2>2, <1>10
  <2> HIDE DEF from
  <2>4. QED
    BY <1>5, <2>1, <2>3, DupFiles
<1> HIDE DEF t
<1>12. tab \in Files_struct /\ tab.fd = t.fd /\ tab.pwd = "root" /\ tab # NoFiles
  BY <1>11, TablesFields, StructIsNone DEF Good, Files_struct
<1> HIDE DEF tab
<1>13. ASSUME NEW i \in Inodes PROVE Q[i] = Refs(i)'
  <2>1. files \in [Procs -> Files_struct \cup {NoFiles}]
    BY DEF FilesInv, FilesTypeOK, Files_struct
  <2>2. \A q \in Procs : files'[q] = IF q = c THEN tab ELSE files[q]
    BY <1>3, <2>1
  <2>3. Cardinality(Cwd(i)) \in Nat /\ Base[i] \in Int /\ lost[i] \in Int /\ IsFiniteSet(Cwd(i))
    BY CwdFinite, <1>4 DEF Base
  <2>4. R[i] = Base[i] + lost[i] + Cardinality(Cwd(i))
    BY DEF R, Refs
  <2>5. CASE i = "root"
    <3>1. Cwd(i)' = Cwd(i) \cup {c} /\ c \notin Cwd(i)
      BY <1>1, <1>12, <2>2, <2>5 DEF Cwd
    <3>2. Cardinality(Cwd(i) \cup {c}) = Cardinality(Cwd(i)) + 1
      BY <2>3, <3>1, FS_AddElement
    <3>3. Q[i] = R[i] + 1
      BY <2>5 DEF Q
    <3>4. Refs(i)' = Base[i] + lost[i] + Cardinality(Cwd(i) \cup {c})
      BY <1>3, <3>1 DEF Refs
    <3>5. QED
      BY <2>3, <2>4, <3>2, <3>3, <3>4
  <2>6. CASE i # "root"
    <3>1. Cwd(i)' = Cwd(i)
      BY <1>1, <1>12, <2>2, <2>6 DEF Cwd
    <3>2. Q[i] = R[i]
      BY <2>6 DEF Q
    <3>3. QED
      BY <1>3, <2>4, <3>1, <3>2 DEF Refs
  <2>7. QED
    BY <2>5, <2>6
<1>14. /\ reading' \in [Procs -> Read \cup {NoRead}] /\ reading'[c] = NoRead
       /\ lost' \in [Inodes -> Nat] /\ abandoned' = abandoned
       /\ \A q \in Procs \ {c} : reading'[q] = reading[q]
  BY <1>1, <1>3, <1>4 DEF leaks, FilesInv, FilesTypeOK, Read
<1>15. \A fd \in Fds : \/ t.fd[fd].status = "NONE"
                       \/ /\ t.fd[fd].status = "OPENED"
                          /\ t.fd[fd].open_count = IF Asleep(c, fd)' THEN 2 ELSE 1
  BY <1>11, <1>14 DEF Quiet, Asleep
<1>16. QED
  BY <1>3, <1>5, <1>11, <1>12, <1>13, <1>14, <1>15, NewTable

LEMMA ExitStep ==
  ASSUME FilesInv, panic = "no", NEW p \in Procs, do_exit(p)
  PROVE  FilesInv'
<1>1. files[p] # NoFiles /\ reading[p] = NoRead /\ Leave(p, State(p)) /\ UNCHANGED <<reading, leaks>>
  BY DEF do_exit, Running, console
<1>2. Good(State(p), p, [i \in Inodes |-> Refs(i)]) /\ Quiet(State(p))
  BY <1>1, StateGood
<1>3. reading' \in [Procs -> Read \cup {NoRead}] /\ reading'[p] = NoRead
  BY <1>1 DEF FilesInv, FilesTypeOK, Read
<1>4. QED
  BY <1>1, <1>2, <1>3, LeaveKeeps

\* The entries of p among those that hold an inode.
LEMMA OwnEntries ==
  ASSUME NEW p \in Procs, NEW s, NEW i
  PROVE  LET others == {pf \in Holding(s, p, i) : pf[1] # p}
             own    == {fd \in Fds : s.fd[fd].status # "NONE" /\ s.fd[fd].node = i}
         IN /\ Cardinality(others) \in Nat /\ Cardinality(own) \in Nat
            /\ Cardinality(Holding(s, p, i)) = Cardinality(others) + Cardinality(own)
<1> DEFINE H == Holding(s, p, i)
           others == {pf \in H : pf[1] # p}
           own == {fd \in Fds : s.fd[fd].status # "NONE" /\ s.fd[fd].node = i}
           mine == {pf \in H : pf[1] = p}
           f == [fd \in own |-> <<p, fd>>]
<1>1. IsFiniteSet(H)
  BY HoldingFinite
<1>2. IsFiniteSet(Fds)
  BY FilesAssumption, FS_Interval DEF Fds
<1>3. f \in Bijection(own, mine)
  <2>1. \A fd \in own : <<p, fd>> \in mine
    BY DEF Holding
  <2>2. \A pf \in mine : pf[2] \in own /\ pf = <<p, pf[2]>>
    BY DEF Holding
  <2> HIDE DEF own, mine
  <2>3. f \in [own -> mine] /\ \A a, b \in own : f[a] = f[b] => a = b
    BY <2>1
  <2>4. \A pf \in mine : \E fd \in own : f[fd] = pf
    BY <2>2
  <2> HIDE DEF f
  <2>5. QED
    BY <2>3, <2>4 DEF Bijection, Injection, Surjection, IsInjective
<1> HIDE DEF H
<1>4. H = others \cup mine /\ others \cap mine = {} /\ others \subseteq H /\ mine \subseteq H
  OBVIOUS
<1>5. IsFiniteSet(others) /\ IsFiniteSet(mine) /\ IsFiniteSet(own)
  <2>1. own \subseteq Fds
    OBVIOUS
  <2> HIDE DEF others, mine, own
  <2>2. QED
    BY <1>1, <1>2, <1>4, <2>1, FS_Subset
<1> HIDE DEF f, own, mine, others
<1>6. Cardinality(mine) = Cardinality(own)
  <2>1. ExistsBijection(own, mine)
    BY <1>3 DEF ExistsBijection
  <2>2. QED
    BY <1>5, <2>1, FS_Bijection
<1>7. Cardinality(others) \in Nat /\ Cardinality(own) \in Nat /\ Cardinality({}) = 0
  BY <1>5, FS_CardinalityType, FS_EmptySet
<1>8. Cardinality(H) = Cardinality(others) + Cardinality(own)
  <2>1. Cardinality(others \cup mine) =
          Cardinality(others) + Cardinality(mine) - Cardinality(others \cap mine)
    BY <1>5, FS_Union
  <2>2. Cardinality(others \cap mine) = 0
    BY <1>4, <1>7
  <2>3. QED
    BY <1>4, <1>6, <1>7, <2>1, <2>2
<1>9. QED
  BY <1>7, <1>8 DEF H, others, own

\* A process that exits without put_files: what its entries count for and the
\* reference of its working directory are nobody's from then on.
LEMMA AbandonKeeps ==
  ASSUME FilesInv, panic = "no", NEW p \in Procs, Running(p), NEW s,
         Good(s, p, [i \in Inodes |-> Refs(i)]), Abandon(p, s), UNCHANGED reading
  PROVE  FilesInv'
<1> DEFINE own(i) == {fd \in Fds : s.fd[fd].status # "NONE" /\ s.fd[fd].node = i}
           others(i) == {pf \in Holding(s, p, i) : pf[1] # p}
           R == [i \in Inodes |-> Refs(i)]
<1>1. /\ files[p] # NoFiles /\ reading[p] = NoRead /\ files[p].pwd = "root" /\ "root" \in Inodes
      /\ files \in [Procs -> Files_struct \cup {NoFiles}]
      /\ lost \in [Inodes -> Nat] /\ abandoned \in [Inodes -> Nat]
  BY FilesTypes DEF Running, Inodes, FilesInv, FilesTypeOK, Files_struct
<1>2. /\ files' = [files EXCEPT ![p] = NoFiles] /\ inode' = s.inode /\ panic' = s.panic
      /\ lost' = [lost EXCEPT !["root"] = @ + 1]
      /\ abandoned' = [i \in Inodes |-> abandoned[i] + Cardinality(own(i))]
  BY <1>1 DEF Abandon
<1>3. ASSUME NEW i \in Inodes
      PROVE  /\ Cardinality(others(i)) \in Nat /\ Cardinality(own(i)) \in Nat
             /\ Cardinality(Holding(s, p, i)) = Cardinality(others(i)) + Cardinality(own(i))
  BY OwnEntries
<1> HIDE DEF own
<1>4. files'[p] = NoFiles /\ \A q \in Procs \ {p} : files'[q] = files[q]
  BY <1>1, <1>2
<1>5. s.inode \in Counts /\ s.panic \in {"no", "missing vop", "count"}
  <2>1. s \in Tables /\ s.panic # "assert"
    BY DEF Good
  <2>2. s.inode \in Counts /\ s.panic \in {"no", "assert", "missing vop", "count"}
    BY ONLY <2>1, TablesFields
  <2>3. QED
    BY <2>1, <2>2
<1>6. FilesTypeOK'
  <2>1. lost' \in [Inodes -> Nat]
    BY <1>1, <1>2
  <2> HIDE DEF others
  <2>5. abandoned' \in [Inodes -> Nat]
    <3>1. \A i \in Inodes : abandoned[i] + Cardinality(own(i)) \in Nat
      BY <1>1, <1>3
    <3>2. QED
      BY <1>2, <3>1
  <2>2. files' \in [Procs -> Files_struct \cup {NoFiles}]
    BY <1>1, <1>2
  <2>3. reading' \in [Procs -> [fd : Fds, want : 1 .. MaxWant] \cup {NoRead}]
    BY DEF FilesInv, FilesTypeOK
  <2>4. QED
    BY <1>2, <1>5, <2>1, <2>2, <2>3, <2>5 DEF FilesTypeOK, Files_struct
<1>7. AtRest'
  <2> SUFFICES ASSUME NEW q \in Procs
               PROVE  /\ files'[q] # NoFiles => \A fd \in Fds :
                           \/ files'[q].fd[fd].status = "NONE"
                           \/ /\ files'[q].fd[fd].status = "OPENED"
                              /\ files'[q].fd[fd].open_count = IF Asleep(q, fd)' THEN 2 ELSE 1
                      /\ reading'[q] # NoRead =>
                           files'[q] # NoFiles /\ files'[q].fd[reading'[q].fd].status = "OPENED"
    BY DEF AtRest
  <2>1. CASE q = p
    BY <2>1, <1>1, <1>4
  <2>2. CASE q # p
    <3>1. files'[q] = files[q] /\ reading'[q] = reading[q]
      BY <2>2, <1>4
    <3>2. \A fd : Asleep(q, fd)' <=> Asleep(q, fd)
      BY <3>1 DEF Asleep
    <3>3. QED
      BY <3>1, <3>2 DEF FilesInv, AtRest
  <2>3. QED
    BY <2>1, <2>2
<1>8. ASSUME NEW i \in Inodes PROVE Holders(i)' = others(i)
  BY <1>4 DEF Holders, Used, Holding
<1>9. R \in [Inodes -> Nat]
  BY <1>1, StateGood
<1> HIDE DEF others
<1>10. ASSUME NEW i \in Inodes
       PROVE  R[i] = Base[i] + lost'[i] + Cardinality(Cwd(i)')
  <2>1. /\ IsFiniteSet(Cwd(i)) /\ Cardinality(Cwd(i)) \in Nat /\ Base[i] \in Int /\ lost[i] \in Nat
    BY <1>1, CwdFinite DEF Base
  <2>2. R[i] = Base[i] + lost[i] + Cardinality(Cwd(i))
    BY DEF Refs
  <2>3. CASE i = "root"
    <3>1. p \in Cwd(i) /\ Cwd(i)' = Cwd(i) \ {p} /\ lost'[i] = lost[i] + 1
      BY <1>1, <1>2, <1>4, <2>3 DEF Cwd
    <3>2. Cardinality(Cwd(i) \ {p}) = Cardinality(Cwd(i)) - 1
      BY <2>1, <3>1, FS_RemoveElement
    <3>3. QED
      BY <2>1, <2>2, <3>1, <3>2
  <2>4. CASE i # "root"
    <3>1. Cwd(i)' = Cwd(i) /\ lost'[i] = lost[i]
      BY <1>1, <1>2, <1>4, <2>4 DEF Cwd
    <3>2. QED
      BY <2>2, <3>1
  <2>5. QED
    BY <2>3, <2>4
<1> HIDE DEF R
<1>11. CountsExact'
  <2> SUFFICES ASSUME NEW i \in Inodes
               PROVE  /\ inode'[i].open = Cardinality(Holders(i)') + abandoned'[i]
                      /\ inode'[i].ref = inode'[i].open + Base[i] + lost'[i] + Cardinality(Cwd(i)')
    BY DEF CountsExact, Cwd
  <2>1. /\ s.inode[i].open = Cardinality(Holding(s, p, i)) + abandoned[i]
        /\ s.inode[i].ref = s.inode[i].open + R[i] /\ s.inode[i].open \in Nat
        /\ abandoned[i] \in Nat
    BY GoodCounts DEF R
  <2>2. abandoned'[i] = abandoned[i] + Cardinality(own(i))
    BY <1>2
  <2>3. inode'[i].open = Cardinality(Holders(i)') + abandoned'[i]
    BY <1>2, <1>3, <1>8, <2>1, <2>2
  <2>4. Base[i] \in Int /\ lost'[i] \in Nat /\ Cardinality(Cwd(i)') \in Nat
    <3>1. Base[i] \in Int
      BY DEF Base
    <3>2. lost'[i] \in Nat
      BY <1>6 DEF FilesTypeOK
    <3>3. Cwd(i)' \subseteq Procs
      BY DEF Cwd
    <3>4. Cardinality(Cwd(i)') \in Nat
      BY <3>3, FilesAssumption, FS_Subset, FS_CardinalityType
    <3>5. QED
      BY <3>1, <3>2, <3>4
  <2>5. inode'[i].ref = inode'[i].open + R[i] /\ inode'[i].open \in Nat
    BY <1>2, <2>1
  <2>6. R[i] = Base[i] + lost'[i] + Cardinality(Cwd(i)')
    BY <1>10
  <2>7. inode'[i].ref = inode'[i].open + Base[i] + lost'[i] + Cardinality(Cwd(i)')
    BY <2>4, <2>5, <2>6
  <2>8. QED
    BY <2>3, <2>7
<1>12. QED
  BY <1>6, <1>7, <1>11 DEF FilesInv

\* The entries from 2 on are closed, so that there is one for the program.
LEMMA ClosedForExec ==
  ASSUME FilesInv, panic = "no", NEW p \in Procs, Running(p),
         NEW R, R = [i \in Inodes |-> Refs(i)]
  PROVE  /\ R \in [Inodes -> Nat]
         /\ Good(CloseFrom(State(p), 2), p, R) /\ Quiet(CloseFrom(State(p), 2))
         /\ {k \in Fds : CloseFrom(State(p), 2).fd[k].status = "NONE"} # {}
<1>1. files[p] # NoFiles /\ reading[p] = NoRead
  BY DEF Running
<1>2. R \in [Inodes -> Nat] /\ Good(State(p), p, R) /\ Quiet(State(p))
  BY <1>1, StateGood
<1>3. 2 \in 0 .. NFd /\ 2 \in Fds /\ 2 >= 2
  BY FilesAssumption DEF Fds
<1>4. PICK s0 : s0 = State(p)
  OBVIOUS
<1>5. PICK first \in 0 .. NFd : first = 2
  BY <1>3
<1>6. Good(s0, p, R) /\ Quiet(s0)
  BY <1>2, <1>4
<1>7. /\ Good(CloseFrom(s0, first), p, R) /\ Quiet(CloseFrom(s0, first))
      /\ \A k \in Fds : IF k >= first THEN CloseFrom(s0, first).fd[k].status = "NONE"
                        ELSE CloseFrom(s0, first).fd[k] = s0.fd[k]
  <2> HIDE <1>4, <1>5
  <2>1. QED
    BY <1>2, <1>6, CloseFromCloses
<1>8. CloseFrom(State(p), 2).fd[2].status = "NONE"
  BY <1>3, <1>4, <1>5, <1>7
<1>9. QED
  BY <1>2, <1>3, <1>4, <1>5, <1>7, <1>8

\* execve of what is not there: the process exits.
LEMMA ExecveAbsentStep ==
  ASSUME FilesInv, panic = "no", NEW p \in Procs, NEW d \in Inodes, do_execve_absent(p, d)
  PROVE  FilesInv'
<1> DEFINE R == [i \in Inodes |-> Refs(i)]
           s == CloseFrom(State(p), 2)
           t == visit(s, d, "lookup")
<1>1. /\ Running(p) /\ files[p] # NoFiles /\ reading[p] = NoRead
      /\ Leave(p, s) \/ Leave(p, t)
      /\ UNCHANGED <<reading, leaks>>
  BY DEF do_execve_absent, Running, console
<1>2. R \in [Inodes -> Nat] /\ Good(s, p, R) /\ Quiet(s)
  BY <1>1, ClosedForExec
<1> HIDE DEF R, s
<1>3. Good(t, p, R) /\ t.fd = s.fd
  BY <1>2, GoodVisit
<1> HIDE DEF t
<1>4. Quiet(t)
  BY <1>2, <1>3 DEF Quiet
<1>5. /\ reading' \in [Procs -> Read \cup {NoRead}] /\ reading'[p] = NoRead
      /\ UNCHANGED leaks /\ \A q \in Procs \ {p} : reading'[q] = reading[q]
  BY <1>1 DEF FilesInv, FilesTypeOK, Read
<1>6. CASE Leave(p, s)
  BY <1>1, <1>2, <1>5, <1>6, LeaveKeeps DEF R
<1>7. CASE Leave(p, t)
  BY <1>1, <1>3, <1>4, <1>5, <1>7, LeaveKeeps DEF R
<1>8. QED
  BY <1>1, <1>6, <1>7

\* execve of what can be opened: it is read and closed, or load_icode fails and
\* the table with the open entry is abandoned.
LEMMA ExecveStep ==
  ASSUME FilesInv, panic = "no", NEW p \in Procs, NEW i \in Inodes, NEW named,
         do_execve(p, i, named)
  PROVE  FilesInv'
<1> DEFINE R == [j \in Inodes |-> Refs(j)]
           s == CloseFrom(State(p), 2)
           fd == Min({k \in Fds : s.fd[k].status = "NONE"})
           t == file_open(s, i, named, {})
           sought == vop_call(t, i, "tryseek")
           read == vop_call(sought, i, "read")
           v == fd_array_close(read, fd)
<1>1. /\ Running(p) /\ files[p] # NoFiles /\ reading[p] = NoRead /\ UNCHANGED reading
      /\ \/ Settle(p, v) /\ UNCHANGED leaks
         \/ Abandon(p, t) \/ Abandon(p, sought) \/ Abandon(p, read)
  BY DEF do_execve, Running, console
<1>2. /\ R \in [Inodes -> Nat] /\ Good(s, p, R) /\ Quiet(s)
      /\ {k \in Fds : s.fd[k].status = "NONE"} # {}
  BY <1>1, ClosedForExec
<1> HIDE DEF R, s
<1>3. vop_open(i, {})
  BY DEF vop_open, Inodes
<1>4. fd \in Fds
  BY <1>2, FreeEntry
<1>5. Good(t, p, R) /\ Quiet(t) /\ t.fd = [s.fd EXCEPT ![fd] = OpenOn(i)]
  <2>1. Good(t, p, R) /\ Quiet(t) /\ OpensOne(s, t, i)
    BY <1>2, <1>3, FileOpen
  <2>2. QED
    BY <2>1 DEF OpensOne
<1> HIDE DEF t, fd
<1>6. s.fd \in [Fds -> Entry]
  <2>1. s \in Tables
    BY <1>2 DEF Good
  <2>2. QED
    BY ONLY <2>1, TablesFields DEF Table
<1>7. t.fd[fd].status = "OPENED" /\ t.fd[fd].open_count = 1
  BY <1>4, <1>5, <1>6 DEF OpenOn
<1>8. Good(t, p, R) /\ Quiet(t)
  BY <1>5
<1>9. Good(sought, p, R) /\ sought.fd = t.fd
  BY <1>2, <1>8, GoodVopCall
<1> HIDE DEF sought
<1>10. Good(read, p, R) /\ read.fd = t.fd
  BY <1>2, <1>9, GoodVopCall
<1> HIDE DEF read
<1>11. read.fd[fd].status = "OPENED" /\ read.fd[fd].open_count = 1 /\ Quiet(read)
  BY <1>7, <1>8, <1>10 DEF Quiet
<1>12. Good(v, p, R) /\ v.fd = [read.fd EXCEPT ![fd] = Empty]
  BY <1>2, <1>4, <1>10, <1>11, CloseFrees
<1> HIDE DEF v
<1>13. Quiet(v)
  <2>1. read.fd \in [Fds -> Entry]
    <3>1. read \in Tables
      BY <1>10 DEF Good
    <3>2. QED
      BY ONLY <3>1, TablesFields DEF Table
  <2>2. QED
    BY <1>4, <1>11, <1>12, <2>1 DEF Quiet, Empty
<1>14. CASE Settle(p, v) /\ UNCHANGED leaks
  <2>1. Good(v, p, R)
    BY <1>12
  <2>2. QED
    BY <1>1, <1>13, <1>14, <2>1, QuietSettles DEF R
<1>15. CASE Abandon(p, t)
  BY <1>1, <1>8, <1>15, AbandonKeeps DEF R
<1>16. CASE Abandon(p, sought)
  BY <1>1, <1>9, <1>16, AbandonKeeps DEF R
<1>17. CASE Abandon(p, read)
  BY <1>1, <1>10, <1>17, AbandonKeeps DEF R
<1>18. QED
  BY <1>1, <1>14, <1>15, <1>16, <1>17

\* A read of the keyboard goes on from a table in which its entry is acquired.
LEMMA ProceedStep ==
  ASSUME FilesInv, panic = "no", unread \in Seq(Nat), NEW p \in Procs, files[p] # NoFiles,
         NEW s, Good(s, p, [i \in Inodes |-> Refs(i)]),
         NEW fd \in Fds, s.fd[fd].status = "OPENED", s.fd[fd].open_count = 2,
         \A k \in Fds \ {fd} : \/ s.fd[k].status = "NONE"
                               \/ s.fd[k].status = "OPENED" /\ s.fd[k].open_count = 1,
         NEW want \in 1 .. MaxWant, Proceed(p, s, fd, want)
  PROVE  FilesInv'
<1> DEFINE R == [i \in Inodes |-> Refs(i)]
           t == fd_array_release(s, fd)
           left == [fd |-> fd, want |-> want - Len(unread)]
<1>1. R \in [Inodes -> Nat]
  BY StateGood
<1>2. reading \in [Procs -> Read \cup {NoRead}] /\ MaxWant \in Nat /\ Len(unread) \in Nat
  BY FilesAssumption DEF FilesInv, FilesTypeOK, Read
<1>3. UNCHANGED leaks
  BY DEF Proceed
<1>4. Good(s, p, R) /\ s.fd \in [Fds -> Entry]
  BY TablesFields DEF Good, Table
<1>5. CASE want <= Len(unread)
  <2>1. Settle(p, t) /\ reading' = [reading EXCEPT ![p] = NoRead]
    BY <1>5 DEF Proceed
  <2> HIDE DEF R
  <2>2. Good(t, p, R)
        /\ t.fd = [s.fd EXCEPT ![fd] = [status |-> "OPENED", node |-> s.fd[fd].node, open_count |-> 1]]
    BY <1>1, <1>4, Release
  <2>3. s.fd \in [Fds -> Entry]
    BY TablesFields DEF Good, Table
  <2> HIDE DEF t
  <2>4. /\ reading' \in [Procs -> Read \cup {NoRead}] /\ reading'[p] = NoRead
        /\ \A q \in Procs \ {p} : reading'[q] = reading[q]
    BY <1>2, <2>1
  <2>5. \A k \in Fds : \/ t.fd[k].status = "NONE"
                       \/ /\ t.fd[k].status = "OPENED"
                          /\ t.fd[k].open_count = IF Asleep(p, k)' THEN 2 ELSE 1
    BY <2>2, <2>3, <2>4 DEF Asleep
  <2>6. Good(t, p, R) /\ Settle(p, t) /\ (reading'[p] # NoRead => t.fd[reading'[p].fd].status = "OPENED")
    BY <2>1, <2>2, <2>4
  <2>7. QED
    BY <1>3, <2>4, <2>5, <2>6, SettleKeeps DEF R
<1>6. CASE ~(want <= Len(unread))
  <2>1. Settle(p, s) /\ reading' = [reading EXCEPT ![p] = left]
    BY <1>6 DEF Proceed
  <2>2. want - Len(unread) \in 1 .. MaxWant
    BY <1>2, <1>6
  <2>3. left \in Read /\ left.fd = fd /\ left # NoRead
    BY <2>2, StructIsNone DEF Read
  <2> HIDE DEF left
  <2>4. /\ reading' \in [Procs -> Read \cup {NoRead}] /\ reading'[p] = left
        /\ \A q \in Procs \ {p} : reading'[q] = reading[q]
    BY <1>2, <2>1, <2>3
  <2>5. \A k \in Fds : \/ s.fd[k].status = "NONE"
                       \/ /\ s.fd[k].status = "OPENED"
                          /\ s.fd[k].open_count = IF Asleep(p, k)' THEN 2 ELSE 1
    BY <2>3, <2>4 DEF Asleep
  <2>6. reading'[p] # NoRead => s.fd[reading'[p].fd].status = "OPENED"
    BY <2>3, <2>4
  <2>7. QED
    BY <1>3, <2>1, <2>4, <2>5, <2>6, SettleKeeps
<1>7. QED
  BY <1>5, <1>6

LEMMA ReadStep ==
  ASSUME FilesInv, panic = "no", unread \in Seq(Nat), NEW p \in Procs,
         NEW fd \in Fds, NEW want \in 1 .. MaxWant, sys_read(p, fd, want)
  PROVE  FilesInv'
<1> DEFINE R == [i \in Inodes |-> Refs(i)]
           s == State(p)
           a == fd_array_acquire(s, fd)
           t == vop_call(a, "stdin", "read")
<1>1. /\ files[p] # NoFiles /\ reading[p] = NoRead /\ files[p].fd[fd].status = "OPENED"
      /\ Proceed(p, t, fd, want)
  BY DEF sys_read, Running, Opened
<1>2. R \in [Inodes -> Nat] /\ Good(s, p, R) /\ Quiet(s) /\ s.fd = files[p].fd
  BY <1>1, StateGood
<1> HIDE DEF R, s
<1>3. s.fd[fd].status = "OPENED" /\ s.fd[fd].open_count = 1 /\ s.fd \in [Fds -> Entry]
  BY <1>1, <1>2, TablesFields DEF Quiet, Good, Table
<1>4. Good(a, p, R)
      /\ a.fd = [s.fd EXCEPT ![fd] = [status |-> "OPENED", node |-> s.fd[fd].node, open_count |-> 2]]
  BY <1>2, <1>3, Acquire
<1> HIDE DEF a
<1>5. Good(t, p, R) /\ t.fd = a.fd
  <2>1. Good(a, p, R) /\ "stdin" \in Inodes
    BY <1>4 DEF Inodes
  <2>2. QED
    BY <1>2, <2>1, GoodVopCall
<1> HIDE DEF t
<1>6. /\ t.fd[fd].status = "OPENED" /\ t.fd[fd].open_count = 2
      /\ \A k \in Fds \ {fd} : \/ t.fd[k].status = "NONE"
                               \/ t.fd[k].status = "OPENED" /\ t.fd[k].open_count = 1
  BY <1>2, <1>3, <1>4, <1>5 DEF Quiet
<1>7. QED
  BY <1>1, <1>6, <1>5, ProceedStep DEF R

\* What a sleeping read finds when it goes on.
LEMMA SleeperState ==
  ASSUME FilesInv, panic = "no", NEW p \in Procs, reading[p] # NoRead
  PROVE  /\ files[p] # NoFiles /\ reading[p].fd \in Fds /\ reading[p].want \in 1 .. MaxWant
         /\ State(p).fd[reading[p].fd].status = "OPENED"
         /\ State(p).fd[reading[p].fd].open_count = 2
         /\ \A k \in Fds \ {reading[p].fd} :
              \/ State(p).fd[k].status = "NONE"
              \/ State(p).fd[k].status = "OPENED" /\ State(p).fd[k].open_count = 1
<1>1. files[p] # NoFiles /\ reading[p].fd \in Fds /\ reading[p].want \in 1 .. MaxWant
  BY FilesTypes
<1>2. State(p).fd = files[p].fd
  BY <1>1, StateGood
<1>3. /\ files[p].fd[reading[p].fd].status = "OPENED"
      /\ \A fd \in Fds : \/ files[p].fd[fd].status = "NONE"
                         \/ /\ files[p].fd[fd].status = "OPENED"
                            /\ files[p].fd[fd].open_count = IF Asleep(p, fd) THEN 2 ELSE 1
  BY <1>1 DEF FilesInv, AtRest
<1>4. QED
  BY <1>1, <1>2, <1>3 DEF Asleep

LEMMA ReadOnStep ==
  ASSUME FilesInv, panic = "no", unread \in Seq(Nat), NEW p \in Procs, ReadOn(p)
  PROVE  FilesInv'
<1>1. reading[p] # NoRead /\ Proceed(p, State(p), reading[p].fd, reading[p].want)
  BY DEF ReadOn
<1>2. Good(State(p), p, [i \in Inodes |-> Refs(i)])
  BY <1>1, SleeperState, StateGood
<1>3. QED
  BY <1>1, <1>2, SleeperState, ProceedStep

LEMMA ReadKilledStep ==
  ASSUME FilesInv, panic = "no", NEW p \in Procs, ReadKilled(p)
  PROVE  FilesInv'
<1> DEFINE R == [i \in Inodes |-> Refs(i)]
           s == State(p)
           fd == reading[p].fd
           t == fd_array_release(s, fd)
<1>1. reading[p] # NoRead /\ Leave(p, t) /\ reading' = [reading EXCEPT ![p] = NoRead]
      /\ UNCHANGED leaks
  BY DEF ReadKilled
<1>2. /\ files[p] # NoFiles /\ fd \in Fds
      /\ s.fd[fd].status = "OPENED" /\ s.fd[fd].open_count = 2
      /\ \A k \in Fds \ {fd} : \/ s.fd[k].status = "NONE"
                               \/ s.fd[k].status = "OPENED" /\ s.fd[k].open_count = 1
  BY <1>1, SleeperState
<1>3. R \in [Inodes -> Nat] /\ Good(s, p, R)
  BY <1>2, StateGood
<1> HIDE DEF R, s, fd
<1>4. s.fd \in [Fds -> Entry]
  BY <1>3, TablesFields DEF Good, Table
<1>5. Good(t, p, R)
      /\ t.fd = [s.fd EXCEPT ![fd] = [status |-> "OPENED", node |-> s.fd[fd].node, open_count |-> 1]]
  BY <1>2, <1>3, <1>4, Release
<1> HIDE DEF t
<1>6. Quiet(t)
  BY <1>2, <1>4, <1>5 DEF Quiet
<1>7. /\ reading' \in [Procs -> Read \cup {NoRead}] /\ reading'[p] = NoRead
      /\ \A q \in Procs \ {p} : reading'[q] = reading[q]
  BY <1>1 DEF FilesInv, FilesTypeOK, Read
<1>8. QED
  BY <1>1, <1>2, <1>5, <1>6, <1>7, LeaveKeeps DEF R
-----------------------------------------------------------------------------
\* w is what was typed so far, 1 .. n, without the overwritten characters o.
Keys(w, n, o) ==
  /\ w \in Seq(1 .. n)
  /\ IsInjective(w)
  /\ ToSet(w) \cup o = 1 .. n
  /\ ToSet(w) \cap o = {}
  /\ o = {} => w = [k \in 1 .. n |-> k]

\* The inductive invariant about the keyboard.
KeysInv ==
  /\ typed \in Nat
  /\ unread \in Seq(1 .. typed) /\ delivered \in Seq(1 .. typed)
  /\ Keys(delivered \o unread, typed, overrun)

\* A character goes into the buffer, behind the others.
LEMMA KeyAppended ==
  ASSUME NEW n \in Nat, NEW o, NEW w, Keys(w, n, o)
  PROVE  Keys(Append(w, n + 1), n + 1, o)
<1> DEFINE v == Append(w, n + 1)
<1>1. w \in Seq(1 .. n) /\ w \in Seq(1 .. (n + 1)) /\ n + 1 \in 1 .. (n + 1) /\ Len(w) \in Nat
  <2>1. w \in Seq(1 .. n)
    BY DEF Keys
  <2>2. \A k \in 1 .. Len(w) : w[k] \in 1 .. n /\ w[k] \in 1 .. (n + 1)
    BY <2>1
  <2>3. w \in Seq(1 .. (n + 1))
    <3>1. DOMAIN w = 1 .. Len(w) /\ w = [k \in 1 .. Len(w) |-> w[k]] /\ Len(w) \in Nat
      BY <2>1
    <3>2. QED
      BY <2>2, <3>1, IsASeq
  <2>4. QED
    BY <2>1, <2>3
<1>2. /\ v \in Seq(1 .. (n + 1)) /\ Len(v) = Len(w) + 1
      /\ \A k \in 1 .. Len(w) : v[k] = w[k] /\ w[k] \in 1 .. n
      /\ v[Len(w) + 1] = n + 1
  BY <1>1
<1>3. DOMAIN v = 1 .. (Len(w) + 1) /\ DOMAIN w = 1 .. Len(w)
  BY <1>1, <1>2
<1> HIDE DEF v
<1>4. IsInjective(v)
  <2> SUFFICES ASSUME NEW a \in 1 .. (Len(w) + 1), NEW b \in 1 .. (Len(w) + 1), v[a] = v[b]
               PROVE  a = b
    BY <1>3 DEF IsInjective
  <2>1. \A c \in 1 .. Len(w), d \in 1 .. Len(w) : w[c] = w[d] => c = d
    BY <1>3 DEF Keys, IsInjective
  <2>2. CASE a \in 1 .. Len(w) /\ b \in 1 .. Len(w)
    BY <1>2, <2>1, <2>2
  <2>3. \A c \in 1 .. Len(w) : v[c] # n + 1
    BY <1>2
  <2>4. CASE (a = Len(w) + 1) # (b = Len(w) + 1)
    <3>1. CASE a = Len(w) + 1
      <4>1. b \in 1 .. Len(w) /\ v[a] = n + 1
        BY <1>1, <1>2, <2>4, <3>1
      <4>2. QED
        BY <2>3, <4>1
    <3>2. CASE b = Len(w) + 1
      <4>1. a \in 1 .. Len(w) /\ v[b] = n + 1
        BY <1>1, <1>2, <2>4, <3>2
      <4>2. QED
        BY <2>3, <4>1
    <3>3. QED
      BY <2>4, <3>1, <3>2
  <2>5. QED
    BY <1>1, <2>2, <2>3, <2>4
<1>5. ToSet(v) = ToSet(w) \cup {n + 1}
  <2>1. ToSet(v) = {v[k] : k \in 1 .. (Len(w) + 1)} /\ ToSet(w) = {w[k] : k \in 1 .. Len(w)}
    BY <1>3 DEF ToSet
  <2>2. 1 .. (Len(w) + 1) = (1 .. Len(w)) \cup {Len(w) + 1}
    BY <1>1
  <2>3. {v[k] : k \in 1 .. (Len(w) + 1)} = {v[k] : k \in 1 .. Len(w)} \cup {n + 1}
    BY <1>2, <2>2
  <2>4. {v[k] : k \in 1 .. Len(w)} = {w[k] : k \in 1 .. Len(w)}
    BY <1>2
  <2>5. QED
    BY <2>1, <2>3, <2>4
<1>6. n + 1 \notin o /\ ToSet(w) \cup o = 1 .. n /\ ToSet(w) \cap o = {}
  BY DEF Keys
<1>7. ToSet(v) \cup o = 1 .. (n + 1) /\ ToSet(v) \cap o = {}
  BY <1>5, <1>6
<1>8. ASSUME o = {} PROVE v = [k \in 1 .. (n + 1) |-> k]
  <2>1. w = [k \in 1 .. n |-> k]
    BY <1>8 DEF Keys
  <2>2. Len(w) = n
    BY <1>1, <2>1
  <2>3. \A k \in 1 .. (n + 1) : v[k] = k
    BY <1>2, <2>1, <2>2
  <2>4. v = [k \in 1 .. (Len(w) + 1) |-> v[k]]
    BY <1>2, <1>3
  <2>5. QED
    BY <2>2, <2>3, <2>4
<1>9. QED
  BY <1>2, <1>4, <1>7, <1>8 DEF Keys, v

\* The buffer is full: the character replaces an unread one.
LEMMA KeyReplaces ==
  ASSUME NEW n \in Nat, NEW o, NEW w, Keys(w, n, o), NEW i \in 1 .. Len(w)
  PROVE  Keys([w EXCEPT ![i] = n + 1], n + 1, o \cup {w[i]})
<1> DEFINE v == [w EXCEPT ![i] = n + 1]
<1>1. /\ w \in Seq(1 .. n) /\ Len(w) \in Nat /\ DOMAIN w = 1 .. Len(w)
      /\ \A k \in 1 .. Len(w) : w[k] \in 1 .. n
  BY DEF Keys
<1>2. /\ v = [k \in 1 .. Len(w) |-> IF k = i THEN n + 1 ELSE w[k]]
      /\ \A k \in 1 .. Len(w) : v[k] = IF k = i THEN n + 1 ELSE w[k]
  BY <1>1
<1> HIDE DEF v
<1>3. v \in Seq(1 .. (n + 1)) /\ DOMAIN v = 1 .. Len(w)
  <2>1. \A k \in 1 .. Len(w) : v[k] \in 1 .. (n + 1)
    BY <1>1, <1>2
  <2>2. v = [k \in 1 .. Len(w) |-> v[k]]
    BY <1>2
  <2>3. QED
    BY <1>1, <2>1, <2>2, IsASeq
<1>4. \A c \in 1 .. Len(w), d \in 1 .. Len(w) : w[c] = w[d] => c = d
  BY <1>1 DEF Keys, IsInjective
<1>5. IsInjective(v)
  <2> SUFFICES ASSUME NEW a \in 1 .. Len(w), NEW b \in 1 .. Len(w), v[a] = v[b]
               PROVE  a = b
    BY <1>3 DEF IsInjective
  <2>1. w[a] # n + 1 /\ w[b] # n + 1
    BY <1>1
  <2>2. QED
    BY <1>2, <1>4, <2>1
<1>6. ToSet(v) = (ToSet(w) \ {w[i]}) \cup {n + 1}
  BY <1>1, <1>2, <1>3, <1>4 DEF ToSet
<1>7. n + 1 \notin o /\ ToSet(w) \cup o = 1 .. n /\ ToSet(w) \cap o = {} /\ w[i] \in 1 .. n
  <2>1. ToSet(w) \cup o = 1 .. n /\ ToSet(w) \cap o = {}
    BY DEF Keys
  <2>2. n + 1 \notin 1 .. n
    OBVIOUS
  <2>3. QED
    BY <1>1, <2>1, <2>2
<1>8. w[i] \in ToSet(w)
  BY <1>1 DEF ToSet
<1>9. ToSet(v) \cup (o \cup {w[i]}) = 1 .. (n + 1) /\ ToSet(v) \cap (o \cup {w[i]}) = {}
  BY <1>6, <1>7, <1>8
<1>10. QED
  BY <1>3, <1>5, <1>9 DEF Keys, v

\* The characters a reader takes only change hands.
LEMMA TakeKeeps ==
  ASSUME KeysInv, NEW want \in Nat, TakeChars(want), UNCHANGED <<typed, overrun>>
  PROVE  KeysInv'
<1> DEFINE n == Min({want, Len(unread)})
           S == 1 .. typed
           front == SubSeq(unread, 1, n)
           back == SubSeq(unread, n + 1, Len(unread))
<1>1. unread \in Seq(S) /\ delivered \in Seq(S) /\ Len(unread) \in Nat
  BY DEF KeysInv
<1>2. n \in 0 .. Len(unread)
  <2>1. {want, Len(unread)} \subseteq Nat /\ {want, Len(unread)} # {}
    BY <1>1
  <2>2. n \in {want, Len(unread)} /\ \A k \in {want, Len(unread)} : n <= k
    BY <2>1, MinIsLeast
  <2>3. QED
    BY <2>1, <2>2
<1>3. delivered' = delivered \o front /\ unread' = back
  BY DEF TakeChars
<1> HIDE DEF n, S
<1>4. /\ front \in Seq(S) /\ Len(front) = n
      /\ \A k \in 1 .. n : front[k] = unread[k]
  <2>1. \A k \in 1 .. n : unread[k] \in S
    BY <1>1, <1>2
  <2>2. QED
    BY <1>1, <1>2, <2>1, SubSeqProperties
<1>5. /\ back \in Seq(S) /\ Len(back) = Len(unread) - n
      /\ \A k \in 1 .. Len(unread) - n : back[k] = unread[k + n]
  <2>1. \A k \in n + 1 .. Len(unread) : unread[k] \in S
    BY <1>1, <1>2
  <2>2. QED
    BY <1>1, <1>2, <2>1, SubSeqProperties
<1> HIDE DEF front, back
<1>6. front \o back = unread
  <2>1. /\ front \o back \in Seq(S) /\ Len(front \o back) = Len(unread)
        /\ \A k \in 1 .. Len(front) + Len(back) :
             (front \o back)[k] = IF k <= Len(front) THEN front[k] ELSE back[k - Len(front)]
    <3>1. /\ front \o back \in Seq(S) /\ Len(front \o back) = Len(front) + Len(back)
          /\ \A k \in 1 .. Len(front) + Len(back) :
               (front \o back)[k] = IF k <= Len(front) THEN front[k] ELSE back[k - Len(front)]
      <4>1. front \in Seq(S) /\ back \in Seq(S)
        BY <1>4, <1>5
      <4>2. QED
        BY ONLY <4>1, ConcatProperties
    <3>2. Len(front) + Len(back) = Len(unread)
      BY <1>1, <1>2, <1>4, <1>5
    <3>3. QED
      BY <3>1, <3>2
  <2>2. ASSUME NEW k \in 1 .. Len(unread) PROVE (front \o back)[k] = unread[k]
    <3>1. CASE k <= n
      BY <1>1, <1>2, <1>4, <1>5, <2>1, <3>1
    <3>2. CASE ~(k <= n)
      <4>1. k - n \in 1 .. Len(unread) - n /\ (k - n) + n = k
        BY <1>1, <1>2, <3>2
      <4>2. QED
        <5>1. k \in 1 .. Len(front) + Len(back) /\ ~(k <= Len(front)) /\ k - Len(front) = k - n
          BY <1>1, <1>2, <1>4, <1>5, <3>2
        <5>2. (front \o back)[k] = back[k - n]
          BY <2>1, <5>1
        <5>3. back[k - n] = unread[k]
          BY <1>5, <4>1
        <5>4. QED
          BY <5>2, <5>3
    <3>3. QED
      BY <3>1, <3>2
  <2>3. QED
    BY <1>1, <2>1, <2>2, SeqEqual
<1>7. delivered' \o unread' = delivered \o unread /\ delivered' \in Seq(S) /\ unread' \in Seq(S)
  <2>1. (delivered \o front) \o back = delivered \o (front \o back)
    <3>1. delivered \in Seq(S) /\ front \in Seq(S) /\ back \in Seq(S)
      BY <1>1, <1>4, <1>5
    <3>2. QED
      BY ONLY <3>1, ConcatAssociative, SMT
  <2>2. QED
    BY <1>1, <1>3, <1>4, <1>5, <1>6, <2>1, ConcatProperties
<1>8. QED
  BY <1>7 DEF KeysInv, S

LEMMA WriteKeeps ==
  ASSUME KeysInv, dev_stdin_write
  PROVE  KeysInv'
<1> DEFINE c == typed + 1
           m == Len(delivered)
           w == delivered \o unread
           w1 == delivered' \o unread'
<1>1. typed \in Nat /\ unread \in Seq(1 .. typed) /\ delivered \in Seq(1 .. typed) /\ Keys(w, typed, overrun)
  BY DEF KeysInv
<1>2. typed' = c /\ delivered' = delivered /\ c \in Nat
  BY <1>1 DEF dev_stdin_write
<1>3. unread \in Seq(1 .. c) /\ delivered \in Seq(1 .. c) /\ c \in 1 .. c
  <2>1. \A v \in Seq(1 .. typed) : v \in Seq(1 .. c)
    <3> SUFFICES ASSUME NEW v \in Seq(1 .. typed) PROVE v \in Seq(1 .. c)
      OBVIOUS
    <3>1. Len(v) \in Nat /\ v = [k \in 1 .. Len(v) |-> v[k]]
      OBVIOUS
    <3>2. \A k \in 1 .. Len(v) : v[k] \in 1 .. c
      BY <1>1
    <3> HIDE DEF c
    <3>3. [k \in 1 .. Len(v) |-> v[k]] \in Seq(1 .. c)
      BY <3>1, <3>2, IsASeq
    <3>4. QED
      BY <3>1, <3>3
  <2>2. QED
    BY <1>1, <2>1
<1>4. CASE Len(unread) < BufSize
  <2>1. unread' = Append(unread, c) /\ overrun' = overrun
    BY <1>4 DEF dev_stdin_write
  <2>2. w1 = Append(w, c)
    <3>1. Append(unread, c) = unread \o <<c>> /\ Append(w, c) = w \o <<c>> /\ <<c>> \in Seq(1 .. c)
          /\ w \in Seq(1 .. c)
      BY <1>3, AppendIsConcat, ConcatProperties
    <3>2. (delivered \o unread) \o <<c>> = delivered \o (unread \o <<c>>)
      <4>1. delivered \in Seq(1 .. c) /\ unread \in Seq(1 .. c) /\ <<c>> \in Seq(1 .. c)
        BY <1>3, <3>1
      <4>2. QED
        BY ONLY <4>1, ConcatAssociative, SMTT(20)
    <3>3. QED
      BY <1>2, <2>1, <3>1, <3>2
  <2>3. Keys(Append(w, c), c, overrun)
    BY <1>1, KeyAppended
  <2>4. unread' \in Seq(1 .. c)
    BY <1>3, <2>1
  <2>5. QED
    BY <1>2, <1>3, <2>1, <2>2, <2>3, <2>4 DEF KeysInv
<1>5. CASE ~(Len(unread) < BufSize)
  <2>1. unread' = [unread EXCEPT ![1] = c] /\ overrun' = overrun \cup {unread[1]}
    BY <1>5 DEF dev_stdin_write
  <2>2. Len(unread) \in Nat /\ 1 \in 1 .. Len(unread) /\ m \in Nat
    BY <1>1, <1>5, FilesAssumption
  <2>3. unread' \in Seq(1 .. c) /\ Len(unread') = Len(unread)
    BY <1>3, <2>1, <2>2, ExceptSeq
  <2>4. /\ w \in Seq(1 .. c) /\ Len(w) = m + Len(unread)
        /\ \A k \in 1 .. m + Len(unread) : w[k] = IF k <= m THEN delivered[k] ELSE unread[k - m]
    BY <1>3, ConcatProperties
  <2>5. /\ w1 \in Seq(1 .. c) /\ Len(w1) = m + Len(unread)
        /\ \A k \in 1 .. m + Len(unread) : w1[k] = IF k <= m THEN delivered[k] ELSE unread'[k - m]
    <3>1. PICK v \in Seq(1 .. c) : v = unread'
      BY <2>3
    <3>2. /\ delivered \o v \in Seq(1 .. c) /\ Len(delivered \o v) = m + Len(v)
          /\ \A k \in 1 .. m + Len(v) : (delivered \o v)[k] = IF k <= m THEN delivered[k] ELSE v[k - m]
      BY <1>3, ConcatProperties
    <3>3. w1 = delivered \o v /\ Len(v) = Len(unread)
      BY <1>2, <2>3, <3>1
    <3>4. QED
      BY <3>1, <3>2, <3>3
  <2> HIDE DEF w, w1, m, c
  <2>6. m + 1 \in 1 .. Len(w) /\ w[m + 1] = unread[1]
    <3>1. m + 1 \in 1 .. m + Len(unread) /\ (m + 1) - m = 1 /\ ~(m + 1 <= m)
      BY <2>2
    <3>2. QED
      BY <2>4, <3>1
  <2>7. w1 = [w EXCEPT ![m + 1] = c]
    <3> DEFINE v == [w EXCEPT ![m + 1] = c]
    <3>1. v \in Seq(1 .. c) /\ Len(v) = Len(w)
          /\ \A k \in 1 .. Len(w) : v[k] = IF k = m + 1 THEN c ELSE w[k]
      BY <1>3, <2>4, <2>6, ExceptSeq
    <3> HIDE DEF v
    <3>2. ASSUME NEW k \in 1 .. m + Len(unread) PROVE w1[k] = v[k]
      <4>1. v[k] = IF k = m + 1 THEN c ELSE w[k]
        BY <2>4, <3>1
      <4>2. CASE k <= m
        <5>1. k # m + 1
          BY <2>2, <4>2
        <5>2. QED
          BY <2>4, <2>5, <4>1, <4>2, <5>1
      <4>3. CASE ~(k <= m)
        <5>1. k - m \in 1 .. Len(unread) /\ (k - m = 1 <=> k = m + 1)
          BY <2>2, <4>3
        <5>2. unread'[k - m] = IF k - m = 1 THEN c ELSE unread[k - m]
          BY <1>1, <2>1, <2>2, <5>1
        <5>3. w1[k] = unread'[k - m] /\ w[k] = unread[k - m]
          BY <2>4, <2>5, <4>3
        <5>4. QED
          BY <4>1, <5>1, <5>2, <5>3
      <4>4. QED
        BY <4>2, <4>3
    <3>3. Len(w1) = Len(v) /\ Len(w1) = m + Len(unread)
      BY <2>4, <2>5, <3>1
    <3>4. w1 = v
      <4>1. \A k \in 1 .. Len(w1) : w1[k] = v[k]
        BY <3>2, <3>3
      <4>2. QED
        BY <2>5, <3>1, <3>3, <4>1, SeqEqual
    <3>5. QED
      BY <3>4 DEF v
  <2>8. Keys([w EXCEPT ![m + 1] = c], c, overrun \cup {w[m + 1]})
    BY <1>1, <2>6, KeyReplaces DEF c
  <2>9. Keys(w1, c, overrun')
    BY <2>1, <2>6, <2>7, <2>8
  <2>10. QED
    BY <1>2, <1>3, <2>3, <2>9 DEF KeysInv, w1
<1>6. QED
  BY <1>4, <1>5

\* Only the keyboard and its readers touch the characters.
LEMMA CallKeepsKeys ==
  ASSUME FilesInv, panic = "no", KeysInv, NEW p \in Procs, Call(p)
  PROVE  KeysInv'
<1>1. CASE UNCHANGED <<unread, typed, delivered, overrun>>
  BY <1>1 DEF KeysInv
<1>2. ASSUME NEW want \in 1 .. MaxWant, TakeChars(want), UNCHANGED <<typed, overrun>>
      PROVE  KeysInv'
  <2>1. want \in Nat
    BY FilesAssumption
  <2>2. QED
    BY <1>2, <2>1, TakeKeeps
<1>3. ASSUME NEW fd \in Fds, NEW want \in 1 .. MaxWant, sys_read(p, fd, want) PROVE KeysInv'
  BY <1>2, <1>3 DEF sys_read, Proceed
<1>4. CASE ReadOn(p)
  <2>1. reading[p] # NoRead /\ Proceed(p, State(p), reading[p].fd, reading[p].want)
    BY <1>4 DEF ReadOn
  <2>2. reading[p].want \in 1 .. MaxWant
    BY <2>1, SleeperState
  <2>3. QED
    BY <1>2, <2>1, <2>2 DEF Proceed
<1>5. CASE ReadKilled(p)
  BY <1>1, <1>5 DEF ReadKilled
<1>6. ASSUME UNCHANGED console PROVE KeysInv'
  BY <1>1, <1>6 DEF console
<1>7. QED
  BY <1>3, <1>4, <1>5, <1>6
     DEF Call, sys_open, sys_open_absent, sys_close, sys_dup, sys_file, do_fork,
         do_execve_absent, do_execve, do_exit, sys_chdir, sys_getcwd
-----------------------------------------------------------------------------
Inv == FilesInv /\ KeysInv

LEMMA KeysInitInv == Init => KeysInv
<1> SUFFICES ASSUME Init PROVE KeysInv
  OBVIOUS
<1>1. typed = 0 /\ unread = <<>> /\ delivered = <<>> /\ overrun = {}
  BY DEF Init
<1>2. <<>> \in Seq(1 .. 0) /\ <<>> \o <<>> = <<>> /\ DOMAIN <<>> = {} /\ 1 .. 0 = {}
  OBVIOUS
<1>3. IsInjective(<<>>) /\ ToSet(<<>>) = {}
  BY <1>2 DEF IsInjective, ToSet
<1>4. <<>> = [k \in 1 .. 0 |-> k]
  BY <1>2
<1>5. Keys(<<>>, 0, {})
  BY <1>2, <1>3, <1>4 DEF Keys
<1>6. QED
  BY <1>1, <1>2, <1>5 DEF KeysInv

LEMMA FilesStep == Inv /\ [Next]_vars => Inv'
<1> SUFFICES ASSUME Inv, [Next]_vars PROVE Inv'
  OBVIOUS
<1>1. FilesInv /\ KeysInv
  BY DEF Inv
<1>2. unread \in Seq(Nat)
  <2>1. unread \in Seq(1 .. typed) /\ typed \in Nat
    BY <1>1 DEF KeysInv
  <2>2. \A k \in 1 .. Len(unread) : unread[k] \in Nat
    BY <2>1
  <2>3. Len(unread) \in Nat /\ unread = [k \in 1 .. Len(unread) |-> unread[k]]
    BY <2>1
  <2>4. QED
    BY <2>2, <2>3, IsASeq
<1>3. CASE UNCHANGED vars
  <2>1. /\ UNCHANGED <<files, inode, reading, leaks>>
        /\ panic' \in {"no", "missing vop", "count"}
    BY <1>1, <1>3 DEF vars, leaks, FilesInv, FilesTypeOK
  <2>2. FilesInv'
    BY <1>1, <2>1, FilesUnchanged
  <2>3. KeysInv'
    BY <1>1, <1>3 DEF vars, KeysInv
  <2>4. QED
    BY <2>2, <2>3 DEF Inv
<1>4. ASSUME panic = "no", dev_stdin_write PROVE Inv'
  <2>1. /\ UNCHANGED <<files, inode, reading, leaks>>
        /\ panic' \in {"no", "missing vop", "count"}
    BY <1>4 DEF dev_stdin_write
  <2>2. QED
    BY <1>1, <1>4, <2>1, FilesUnchanged, WriteKeeps DEF Inv
<1>5. ASSUME panic = "no", NEW p \in Procs, Call(p) PROVE Inv'
  <2>1. KeysInv'
    BY <1>1, <1>5, CallKeepsKeys
  <2>2. ASSUME NEW i \in Inodes, NEW flags, NEW named, sys_open(p, i, named, flags) PROVE FilesInv'
    BY <1>1, <1>5, <2>2, OpenStep
  <2>3. ASSUME NEW d \in {"root", "stdin"}, NEW creat, sys_open_absent(p, d, creat) PROVE FilesInv'
    BY <1>1, <1>5, <2>3, OpenAbsentStep DEF Inodes
  <2>4. ASSUME NEW fd \in Fds, sys_close(p, fd) PROVE FilesInv'
    BY <1>1, <1>5, <2>4, CloseStep
  <2>5. ASSUME NEW from \in Fds, NEW to \in Fds, sys_dup(p, from, to) PROVE FilesInv'
    BY <1>1, <1>5, <2>5, DupStep
  <2>6. ASSUME NEW fd \in Fds, NEW op, sys_file(p, fd, op) PROVE FilesInv'
    BY <1>1, <1>5, <2>6, FileCallStep
  <2>7. ASSUME NEW c \in Procs, do_fork(p, c) PROVE FilesInv'
    BY <1>1, <1>5, <2>7, ForkStep
  <2>8. ASSUME NEW d \in {"root", "stdin"}, do_execve_absent(p, d) PROVE FilesInv'
    BY <1>1, <1>5, <2>8, ExecveAbsentStep DEF Inodes
  <2>9. ASSUME NEW i \in Inodes, NEW named, do_execve(p, i, named) PROVE FilesInv'
    BY <1>1, <1>5, <2>9, ExecveStep
  <2>10. ASSUME NEW i \in Inodes, NEW named, sys_chdir(p, i, named) PROVE FilesInv'
    BY <1>1, <1>5, <2>10, ChdirStep
  <2>11. ASSUME do_exit(p) PROVE FilesInv'
    BY <1>1, <1>5, <2>11, ExitStep
  <2>12. ASSUME sys_getcwd(p) PROVE FilesInv'
    BY <1>1, <1>5, <2>12, GetcwdStep
  <2>13. ASSUME NEW fd \in Fds, NEW want \in 1 .. MaxWant, sys_read(p, fd, want) PROVE FilesInv'
    BY <1>1, <1>2, <1>5, <2>13, ReadStep
  <2>14. ASSUME ReadOn(p) PROVE FilesInv'
    BY <1>1, <1>2, <1>5, <2>14, ReadOnStep
  <2>15. ASSUME ReadKilled(p) PROVE FilesInv'
    BY <1>1, <1>5, <2>15, ReadKilledStep
  <2>16. FilesInv'
    BY <1>5, <2>2, <2>3, <2>4, <2>5, <2>6, <2>7, <2>8, <2>9, <2>10, <2>11, <2>12, <2>13, <2>14,
       <2>15 DEF Call
  <2>17. QED
    BY <2>1, <2>16 DEF Inv
<1>6. QED
  BY <1>3, <1>4, <1>5 DEF Next

\* Whatever the processes open, duplicate, close, inherit, read and abandon,
\* between two calls an entry of a file table is free or opened with the count its
\* holder accounts for (file.c, fs.c), and the counts of the inodes are exact.
THEOREM FilesSafe == Spec => []Inv
<1>1. Init => Inv
  BY FilesInitInv, KeysInitInv DEF Inv
<1>2. QED
  BY <1>1, FilesStep, PTL DEF Spec

\* open_count of an inode is the number of entries that hold it, those of the
\* tables included that do_exit leaves behind when load_icode has failed
\* (proc.c:892 and 569), and ref_count accounts for everything that refers to it
\* (inode.c, vfsfile.c, fs.c): no inode is freed in use, whichever process closes
\* it last, and nothing is lost but what abandoned and lost say.
THEOREM InodeCountsAreExact == Spec => []CountsExact
<1>1. Inv => CountsExact
  BY DEF Inv, FilesInv
<1>2. QED
  BY <1>1, FilesSafe, PTL

\* No assertion of file.c, fs.c and inode.c fails, whatever the processes do, but
\* those that an inode has the function that is called (inode.h) and that its
\* counts are below MAX_INODE_COUNT (inode.c:114).
THEOREM FileAssertionsHold == Spec => []NoAssertionFails
<1>1. Inv => NoAssertionFails
  BY DEF Inv, FilesInv, FilesTypeOK, NoAssertionFails
<1>2. QED
  BY <1>1, FilesSafe, PTL

\* dev_stdin_write and the readers that share the keyboard buffer hand out every
\* character once and in order, but for those that a full buffer overwrites.
THEOREM KeysAreReadOnce == Spec => []TypedOnce
<1>1. Inv => TypedOnce
  BY DEF Inv, KeysInv, Keys, TypedOnce
<1>2. QED
  BY <1>1, FilesSafe, PTL
=============================================================================
