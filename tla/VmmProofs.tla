------------------------------ MODULE VmmProofs ------------------------------
(***************************************************************************)
(* Proofs about the user memory of lab5_with_COW, for every number of      *)
(* processes, pages and frames, every set of programs and every history of *)
(* forks, execs, exits, stores and page faults.                            *)
(***************************************************************************)
EXTENDS Vmm, Lemmas

Data == Values \cup {Program, Leftover}

\* The values m and what the operators on it work with may have.
Mem == [free : SUBSET Frames, ref : [Frames -> Int], data : [Frames -> Data],
        oom : BOOLEAN, pte : [Procs -> [Pages -> Pte \cup {NoPte}]]]

\* The page table entries that name frame f.
UsersOf(s, f) == {pa \in Procs \X Pages : /\ s.pte[pa[1]][pa[2]] # NoPte
                                          /\ s.pte[pa[1]][pa[2]].frame = f}

\* What every operator on page tables keeps: counts are exact, a free frame is
\* unused and holds leftovers, a frame with a writable entry has no other one.
Good(s) ==
  /\ s \in Mem
  /\ \A f \in Frames :
       /\ s.ref[f] = Cardinality(UsersOf(s, f))
       /\ f \in s.free => UsersOf(s, f) = {} /\ s.data[f] = Leftover
       /\ \A pa, qb \in UsersOf(s, f) : pa # qb => "w" \notin s.pte[pa[1]][pa[2]].perm

\* What process p finds in page a.
Cell(s, p, a) == IF s.pte[p][a] = NoPte THEN Undef ELSE s.data[s.pte[p][a].frame]

\* A list of vmas is sorted, and no two of them overlap.
Sorted(list) ==
  /\ list \in Seq(Vma)
  /\ \A i \in DOMAIN list : list[i].start < list[i].end
  /\ \A i, j \in DOMAIN list : i < j => list[i].end <= list[j].start

\* Every page of a page table lies in a vma that allows what the entry does.
Mapped(table, list) ==
  \A a \in Pages : table[a] # NoPte =>
    \E i \in DOMAIN list : /\ Covers(list[i], a)
                           /\ "w" \in table[a].perm => "w" \in list[i].flags

\* The inductive invariant.
VmmInv ==
  /\ Good(m) /\ m.oom = FALSE
  /\ mmap_list \in [Procs -> Seq(Vma)]
  /\ mmap_cache \in [Procs -> Vma \cup {NoVma}]
  /\ \A p \in Procs : /\ Sorted(mmap_list[p])
                      /\ Mapped(m.pte[p], mmap_list[p])
                      /\ mmap_cache[p] # NoVma => mmap_cache[p] \in ToSet(mmap_list[p])
  /\ panic \in BOOLEAN
-----------------------------------------------------------------------------
LEMMA PteFields ==
  ASSUME NEW e \in Pte
  PROVE  e.frame \in Frames /\ e.perm \in SUBSET Rights /\ e # NoPte
  BY VmmAssumption DEF Pte

LEMMA MemFields ==
  ASSUME NEW s \in Mem
  PROVE  /\ s.free \in SUBSET Frames /\ s.ref \in [Frames -> Int] /\ s.data \in [Frames -> Data]
         /\ s.oom \in BOOLEAN /\ s.pte \in [Procs -> [Pages -> Pte \cup {NoPte}]]
         /\ \A p \in Procs, a \in Pages : s.pte[p][a] \in Pte \cup {NoPte}
  BY DEF Mem

LEMMA UsersFinite ==
  ASSUME NEW s, NEW f
  PROVE  IsFiniteSet(UsersOf(s, f)) /\ Cardinality(UsersOf(s, f)) \in Nat
<1>1. IsFiniteSet(Procs) /\ IsFiniteSet(Pages)
  <2>1. 0 \in Int /\ NPages - 1 \in Int
    BY VmmAssumption
  <2>2. QED
    BY <2>1, VmmAssumption, FS_Interval DEF Pages
<1>2. IsFiniteSet(Procs \X Pages)
  BY <1>1, FS_Product
<1>3. UsersOf(s, f) \subseteq Procs \X Pages
  BY DEF UsersOf
<1>4. QED
  BY <1>2, <1>3, FS_Subset, FS_CardinalityType

\* Page x of process q has the same entry and the same contents in s and t.
Same(s, t, q, x) == t.pte[q][x] = s.pte[q][x] /\ Cell(t, q, x) = Cell(s, q, x)

\* t is s after the entry of page a of process p became e: no other entry has
\* changed, and no other page its contents.
Edits(s, t, p, a, e) ==
  /\ Good(t) /\ t.oom = s.oom
  /\ t.pte[p][a] = e
  /\ \A q \in Procs, x \in Pages : <<q, x>> # <<p, a>> => Same(s, t, q, x)

\* A change of one entry keeps what Good says if the counts follow it, if it frees
\* and clears a frame at most when the old entry was its last one, and if it does
\* not let a process write what another one maps.
LEMMA EditGood ==
  ASSUME NEW s, Good(s), NEW t \in Mem, NEW p \in Procs, NEW a \in Pages,
         NEW e \in Pte \cup {NoPte}, NEW old, old = s.pte[p][a],
         \A q \in Procs, x \in Pages :
           t.pte[q][x] = IF <<q, x>> = <<p, a>> THEN e ELSE s.pte[q][x],
         \A f \in Frames :
           t.ref[f] = s.ref[f] + (IF e # NoPte /\ e.frame = f THEN 1 ELSE 0)
                               - (IF old # NoPte /\ old.frame = f THEN 1 ELSE 0),
         \A f \in t.free : \/ f \in s.free
                           \/ old # NoPte /\ old.frame = f /\ s.ref[f] = 1 /\ t.data[f] = Leftover,
         e # NoPte => e.frame \notin t.free,
         \A f \in Frames : \/ t.data[f] = s.data[f]
                           \/ old # NoPte /\ old.frame = f /\ s.ref[f] = 1,
         t.oom = s.oom,
         e # NoPte => \A pa \in UsersOf(s, e.frame) \ {<<p, a>>} :
                        "w" \notin e.perm /\ "w" \notin s.pte[pa[1]][pa[2]].perm
  PROVE  Edits(s, t, p, a, e)
<1> DEFINE u == <<p, a>>
<1>1. s \in Mem /\ u \in Procs \X Pages
  BY DEF Good
<1>2. ASSUME NEW f \in Frames
      PROVE  /\ UsersOf(t, f) = IF e # NoPte /\ e.frame = f THEN UsersOf(s, f) \cup {u}
                                ELSE UsersOf(s, f) \ {u}
             /\ u \in UsersOf(s, f) <=> old # NoPte /\ old.frame = f
  <2>1. ASSUME NEW pa \in Procs \X Pages
        PROVE  pa \in UsersOf(t, f) <=> IF pa = u THEN e # NoPte /\ e.frame = f
                                        ELSE pa \in UsersOf(s, f)
    <3>1. PICK q \in Procs, x \in Pages : pa = <<q, x>>
      OBVIOUS
    <3>2. pa[1] = q /\ pa[2] = x
      BY <3>1
    <3>3. QED
      BY <3>1, <3>2 DEF UsersOf
  <2>2. UsersOf(t, f) \subseteq Procs \X Pages /\ UsersOf(s, f) \subseteq Procs \X Pages
    BY DEF UsersOf
  <2>3. u \in UsersOf(s, f) <=> old # NoPte /\ old.frame = f
    BY <1>1 DEF UsersOf
  <2> HIDE DEF u
  <2>4. QED
    BY <1>1, <2>1, <2>2, <2>3
<1>3. ASSUME NEW f \in Frames
      PROVE  /\ Cardinality(UsersOf(s, f) \cup {u}) =
                  IF u \in UsersOf(s, f) THEN s.ref[f] ELSE s.ref[f] + 1
             /\ Cardinality(UsersOf(s, f) \ {u}) =
                  IF u \in UsersOf(s, f) THEN s.ref[f] - 1 ELSE s.ref[f]
             /\ s.ref[f] \in Nat
  <2>1. s.ref[f] = Cardinality(UsersOf(s, f)) /\ IsFiniteSet(UsersOf(s, f))
        /\ Cardinality(UsersOf(s, f)) \in Nat
    BY UsersFinite DEF Good
  <2> HIDE DEF u
  <2>2. CASE u \in UsersOf(s, f)
    <3>1. UsersOf(s, f) \cup {u} = UsersOf(s, f)
      BY <2>2
    <3>2. Cardinality(UsersOf(s, f) \ {u}) = Cardinality(UsersOf(s, f)) - 1
      BY <2>1, <2>2, FS_RemoveElement
    <3>3. QED
      BY <2>1, <2>2, <3>1, <3>2
  <2>3. CASE u \notin UsersOf(s, f)
    <3>1. UsersOf(s, f) \ {u} = UsersOf(s, f)
      BY <2>3
    <3>2. Cardinality(UsersOf(s, f) \cup {u}) = Cardinality(UsersOf(s, f)) + 1
      BY <2>1, <2>3, FS_AddElement
    <3>3. QED
      BY <2>1, <2>3, <3>1, <3>2
  <2>4. QED
    BY <2>2, <2>3
<1>4. ASSUME NEW f \in Frames PROVE t.ref[f] = Cardinality(UsersOf(t, f))
  <2> HIDE DEF u
  <2>1. t.ref[f] = s.ref[f] + (IF e # NoPte /\ e.frame = f THEN 1 ELSE 0)
                            - (IF u \in UsersOf(s, f) THEN 1 ELSE 0)
    BY <1>2
  <2>2. s.ref[f] \in Nat
    BY <1>3
  <2>3. CASE e # NoPte /\ e.frame = f
    <3>1. UsersOf(t, f) = UsersOf(s, f) \cup {u}
      BY <1>2, <2>3
    <3>2. t.ref[f] = IF u \in UsersOf(s, f) THEN s.ref[f] ELSE s.ref[f] + 1
      BY <2>1, <2>2, <2>3
    <3>3. QED
      BY <1>3, <3>1, <3>2
  <2>4. CASE ~(e # NoPte /\ e.frame = f)
    <3>1. UsersOf(t, f) = UsersOf(s, f) \ {u}
      BY <1>2, <2>4
    <3>2. t.ref[f] = IF u \in UsersOf(s, f) THEN s.ref[f] - 1 ELSE s.ref[f]
      BY <2>1, <2>2, <2>4
    <3>3. QED
      BY <1>3, <3>1, <3>2
  <2>5. QED
    BY <2>3, <2>4
\* the last user of a frame is alone
<1>5. ASSUME NEW f \in Frames, u \in UsersOf(s, f), s.ref[f] = 1
      PROVE  UsersOf(s, f) \ {u} = {}
  <2> HIDE DEF u
  <2>1. Cardinality(UsersOf(s, f) \ {u}) = 0
    BY <1>3, <1>5
  <2>2. IsFiniteSet(UsersOf(s, f) \ {u})
    BY UsersFinite, FS_Subset
  <2>3. QED
    BY <2>1, <2>2, FS_EmptySet
<1>6. ASSUME NEW f \in Frames, f \in t.free
      PROVE  UsersOf(t, f) = {} /\ t.data[f] = Leftover
  <2>1. UsersOf(t, f) = UsersOf(s, f) \ {u}
    BY <1>2, <1>6
  <2>2. CASE f \in s.free
    <3>1. UsersOf(s, f) = {} /\ s.data[f] = Leftover
      BY <2>2 DEF Good
    <3>2. u \notin UsersOf(s, f)
      BY <3>1
    <3>3. ~(old # NoPte /\ old.frame = f)
      BY <3>2, <1>2
    <3>4. QED
      BY <2>1, <3>1, <3>3
  <2>3. CASE old # NoPte /\ old.frame = f /\ s.ref[f] = 1 /\ t.data[f] = Leftover
    <3>1. u \in UsersOf(s, f)
      BY <1>2, <2>3
    <3>2. QED
      BY <1>5, <2>1, <2>3, <3>1
  <2>4. QED
    BY <1>6, <2>2, <2>3
<1>7. ASSUME NEW f \in Frames, NEW pa \in UsersOf(t, f), NEW qb \in UsersOf(t, f), pa # qb
      PROVE  "w" \notin t.pte[pa[1]][pa[2]].perm
  <2>1. pa \in Procs \X Pages /\ qb \in Procs \X Pages
    BY DEF UsersOf
  <2>2. t.pte[pa[1]][pa[2]] = IF pa = u THEN e ELSE s.pte[pa[1]][pa[2]]
    BY <2>1
  <2>3. CASE pa = u
    <3>1. e # NoPte /\ e.frame = f /\ qb \in UsersOf(s, f) \ {u}
      BY <1>2, <1>7, <2>3
    <3>2. QED
      BY <2>2, <2>3, <3>1
  <2>4. CASE pa # u /\ qb = u
    <3>1. e # NoPte /\ e.frame = f /\ pa \in UsersOf(s, f) \ {u}
      BY <1>2, <1>7, <2>4
    <3>2. QED
      BY <2>2, <2>4, <3>1
  <2>5. CASE pa # u /\ qb # u
    <3>1. pa \in UsersOf(s, f) /\ qb \in UsersOf(s, f)
      BY <1>2, <2>5
    <3>2. QED
      BY <1>7, <2>2, <2>5, <3>1 DEF Good
  <2>6. QED
    BY <2>3, <2>4, <2>5
<1>8. Good(t)
  BY <1>4, <1>6, <1>7 DEF Good
<1>9. ASSUME NEW q \in Procs, NEW x \in Pages, <<q, x>> # u
      PROVE  Same(s, t, q, x)
  <2>1. t.pte[q][x] = s.pte[q][x]
    BY <1>9
  <2>2. CASE s.pte[q][x] = NoPte
    BY <2>1, <2>2 DEF Cell, Same
  <2>3. CASE s.pte[q][x] # NoPte
    <3> DEFINE f == s.pte[q][x].frame
    <3>1. f \in Frames /\ <<q, x>> \in UsersOf(s, f)
      BY <1>1, <2>3, MemFields, PteFields DEF UsersOf
    <3>2. t.data[f] = s.data[f]
      <4> SUFFICES ASSUME old # NoPte, old.frame = f, s.ref[f] = 1 PROVE FALSE
        BY <3>1
      <4>1. u \in UsersOf(s, f)
        BY <1>2, <3>1
      <4>2. UsersOf(s, f) \ {u} = {}
        BY <1>5, <3>1, <4>1
      <4>3. QED
        BY <1>9, <3>1, <4>2
    <3>3. QED
      BY <2>1, <2>3, <3>2 DEF Cell, Same
  <2>4. QED
    BY <2>2, <2>3
<1>10. t.pte[p][a] = e
  OBVIOUS
<1>11. QED
  BY <1>8, <1>9, <1>10 DEF Edits

-----------------------------------------------------------------------------
\* alloc_page takes a frame off the free list or, when there is none, kills the
\* kernel; entries and contents stay.
LEMMA AllocPage ==
  ASSUME NEW s, Good(s), NEW t, t = alloc_page(s)
  PROVE  /\ Good(t) /\ t.pte = s.pte /\ t.data = s.data /\ t.ref = s.ref
         /\ IF s.free = {} THEN t.oom = TRUE /\ t.free = {}
            ELSE /\ t.oom = s.oom /\ Min(s.free) \in s.free
                 /\ t.free = s.free \ {Min(s.free)}
<1>1. s \in Mem
  BY DEF Good
<1>2. s.free # {} => Min(s.free) \in s.free
  <2>1. s.free \subseteq Nat
    BY <1>1 DEF Mem, Frames
  <2>2. QED
    BY <2>1, MinIsLeast
<1>3. /\ t \in Mem /\ t.pte = s.pte /\ t.data = s.data /\ t.ref = s.ref
      /\ IF s.free = {} THEN t.oom = TRUE /\ t.free = {}
         ELSE t.oom = s.oom /\ t.free = s.free \ {Min(s.free)}
  BY <1>1 DEF alloc_page, Mem
<1>4. \A f \in Frames : UsersOf(t, f) = UsersOf(s, f)
  BY <1>3 DEF UsersOf
<1>5. ASSUME NEW f \in Frames
      PROVE  /\ t.ref[f] = Cardinality(UsersOf(t, f))
             /\ f \in t.free => UsersOf(t, f) = {} /\ t.data[f] = Leftover
             /\ \A pa, qb \in UsersOf(t, f) : pa # qb => "w" \notin t.pte[pa[1]][pa[2]].perm
  BY <1>3, <1>4 DEF Good
<1>6. Good(t)
  BY <1>3, <1>5 DEF Good
<1>7. QED
  BY <1>2, <1>3, <1>6

\* page_remove_pte clears an entry, and frees its frame with the last one.
LEMMA PageRemove ==
  ASSUME NEW s, Good(s), NEW p \in Procs, NEW a \in Pages, s.pte[p][a] # NoPte
  PROVE  Edits(s, page_remove_pte(s, p, a), p, a, NoPte)
<1> DEFINE t == page_remove_pte(s, p, a)
           f0 == s.pte[p][a].frame
<1>1. s \in Mem /\ s.pte[p][a] \in Pte /\ f0 \in Frames
  BY MemFields, PteFields DEF Good
<1>2. /\ s.free \in SUBSET Frames /\ s.ref \in [Frames -> Int] /\ s.data \in [Frames -> Data]
      /\ s.oom \in BOOLEAN /\ s.pte \in [Procs -> [Pages -> Pte \cup {NoPte}]]
  BY <1>1, MemFields
<1> HIDE DEF f0
<1>3. t = [s EXCEPT !.ref[f0] = @ - 1, !.pte[p][a] = NoPte,
                    !.free = IF s.ref[f0] = 1 THEN @ \cup {f0} ELSE @,
                    !.data[f0] = IF s.ref[f0] = 1 THEN Leftover ELSE @]
  BY DEF page_remove_pte, f0
<1>4. /\ t.ref = [s.ref EXCEPT ![f0] = @ - 1]
      /\ t.pte = [s.pte EXCEPT ![p][a] = NoPte]
      /\ t.free = IF s.ref[f0] = 1 THEN s.free \cup {f0} ELSE s.free
      /\ t.data = [s.data EXCEPT ![f0] = IF s.ref[f0] = 1 THEN Leftover ELSE @]
      /\ t.oom = s.oom
      /\ t = [free |-> t.free, ref |-> t.ref, data |-> t.data, oom |-> t.oom, pte |-> t.pte]
  BY <1>1, <1>3 DEF Mem
<1> HIDE DEF t
<1>5. /\ t.free \in SUBSET Frames /\ t.ref \in [Frames -> Int] /\ t.data \in [Frames -> Data]
      /\ t.pte \in [Procs -> [Pages -> Pte \cup {NoPte}]]
  <2>1. Leftover \in Data
    BY DEF Data
  <2>2. QED
    BY <1>1, <1>2, <1>4, <2>1
<1>6. t \in Mem
  BY <1>2, <1>4, <1>5 DEF Mem
<1> DEFINE old == s.pte[p][a]
           e == NoPte
<1>7. \A q \in Procs, x \in Pages :
        t.pte[q][x] = IF <<q, x>> = <<p, a>> THEN e ELSE s.pte[q][x]
  BY <1>2, <1>4
<1>8. \A f \in Frames :
        t.ref[f] = s.ref[f] + (IF e # NoPte /\ e.frame = f THEN 1 ELSE 0)
                            - (IF old # NoPte /\ old.frame = f THEN 1 ELSE 0)
  <2>1. \A f \in Frames : s.ref[f] \in Int /\ t.ref[f] = IF f = f0 THEN s.ref[f] - 1 ELSE s.ref[f]
    BY <1>2, <1>4
  <2>2. QED
    BY <2>1 DEF f0
<1>9. \A f \in Frames : t.data[f] = IF f = f0 /\ s.ref[f0] = 1 THEN Leftover ELSE s.data[f]
  BY <1>1, <1>2, <1>4
<1>10. \A f \in t.free : \/ f \in s.free
                         \/ old # NoPte /\ old.frame = f /\ s.ref[f] = 1 /\ t.data[f] = Leftover
  <2>1. \A f \in t.free : f \in s.free \/ (f = f0 /\ s.ref[f0] = 1)
    BY <1>4
  <2>2. t.free \subseteq Frames
    BY <1>5
  <2>3. old # NoPte /\ old.frame = f0
    BY DEF f0
  <2>4. QED
    BY <1>9, <2>1, <2>2, <2>3
<1>11. \A f \in Frames : \/ t.data[f] = s.data[f]
                         \/ old # NoPte /\ old.frame = f /\ s.ref[f] = 1
  BY <1>9 DEF f0
<1>12. /\ e # NoPte => e.frame \notin t.free
       /\ e # NoPte => \A pa \in UsersOf(s, e.frame) \ {<<p, a>>} :
                         "w" \notin e.perm /\ "w" \notin s.pte[pa[1]][pa[2]].perm
       /\ e \in Pte \cup {NoPte} /\ t.oom = s.oom
  BY <1>4
<1> HIDE DEF e
<1>13. Edits(s, t, p, a, e)
  BY <1>6, <1>7, <1>8, <1>10, <1>11, <1>12, EditGood
<1>14. QED
  BY <1>13 DEF e, t

\* page_insert maps a used or freshly allocated frame, provided that this lets no
\* process write what another one maps.
LEMMA PageInsert ==
  ASSUME NEW s, Good(s), NEW p \in Procs, NEW a \in Pages, NEW f \in Frames,
         NEW perm \in SUBSET Rights, f \notin s.free,
         \A pa \in UsersOf(s, f) \ {<<p, a>>} :
           "w" \notin perm /\ "w" \notin s.pte[pa[1]][pa[2]].perm,
         NEW t, t = page_insert(s, p, a, f, perm)
  PROVE  /\ Edits(s, t, p, a, [frame |-> f, perm |-> perm])
         /\ Cell(t, p, a) = s.data[f]
<1> DEFINE e == [frame |-> f, perm |-> perm]
           old == s.pte[p][a]
           f0 == old.frame
           gone == old # NoPte /\ f0 # f
           more == [s EXCEPT !.ref[f] = @ + 1]
           kept == CASE old = NoPte -> more
                     [] old # NoPte /\ old.frame = f -> s
                     [] OTHER -> page_remove_pte(more, p, a)
<1>1. s \in Mem /\ old \in Pte \cup {NoPte} /\ (old # NoPte => f0 \in Frames)
  <2>1. s \in Mem /\ old \in Pte \cup {NoPte}
    BY MemFields DEF Good
  <2>2. QED
    BY <2>1, PteFields
<1>2. /\ s.free \in SUBSET Frames /\ s.ref \in [Frames -> Int] /\ s.data \in [Frames -> Data]
      /\ s.oom \in BOOLEAN /\ s.pte \in [Procs -> [Pages -> Pte \cup {NoPte}]]
      /\ s = [free |-> s.free, ref |-> s.ref, data |-> s.data, oom |-> s.oom, pte |-> s.pte]
  BY <1>1, MemFields DEF Mem
<1>3. e \in Pte /\ e.frame = f /\ e.perm = perm
  BY DEF Pte
<1>4. t = [kept EXCEPT !.pte[p][a] = e]
  BY DEF page_insert
<1> HIDE DEF e
<1>5. /\ more = [free |-> s.free, ref |-> [s.ref EXCEPT ![f] = @ + 1], data |-> s.data,
                 oom |-> s.oom, pte |-> s.pte]
      /\ more.pte[p][a] = old /\ more.ref = [s.ref EXCEPT ![f] = @ + 1]
  BY <1>2
<1> HIDE DEF more
\* what page_insert does to each frame and entry
<1>6. /\ t.oom = s.oom
      /\ t.pte = [s.pte EXCEPT ![p][a] = e]
      /\ t.free = IF gone /\ s.ref[f0] = 1 THEN s.free \cup {f0} ELSE s.free
      /\ t.data = IF gone /\ s.ref[f0] = 1 THEN [s.data EXCEPT ![f0] = Leftover] ELSE s.data
      /\ t.ref = IF old = NoPte THEN [s.ref EXCEPT ![f] = @ + 1]
                 ELSE IF gone THEN [s.ref EXCEPT ![f] = @ + 1, ![f0] = @ - 1] ELSE s.ref
      /\ t = [free |-> t.free, ref |-> t.ref, data |-> t.data, oom |-> t.oom, pte |-> t.pte]
  <2>1. CASE old = NoPte
    <3>1. kept = more
      BY <2>1
    <3> HIDE DEF kept
    <3>2. QED
      BY <1>2, <1>4, <1>5, <2>1, <3>1
  <2>2. CASE old # NoPte /\ f0 = f
    <3>1. kept = s
      BY <2>2
    <3> HIDE DEF kept
    <3>2. QED
      BY <1>2, <1>4, <2>2, <3>1
  <2>3. CASE gone
    <3>1. kept = page_remove_pte(more, p, a)
      BY <2>3
    <3>2. more.ref[f0] = s.ref[f0]
      BY <1>1, <1>2, <1>5, <2>3
    <3> HIDE DEF kept
    <3> DEFINE last == s.ref[f0] = 1
    <3>3. kept = [more EXCEPT !.ref[f0] = @ - 1, !.pte[p][a] = NoPte,
                              !.free = IF last THEN @ \cup {f0} ELSE @,
                              !.data[f0] = IF last THEN Leftover ELSE @]
      <4>1. more.pte[p][a].frame = f0
        BY <1>5
      <4> HIDE DEF gone
      <4>2. QED
        BY <3>1, <3>2, <4>1 DEF page_remove_pte
    <3>9. /\ more.free = s.free /\ more.data = s.data /\ more.pte = s.pte /\ more.oom = s.oom
          /\ more.ref = [s.ref EXCEPT ![f] = @ + 1]
          /\ more = [free |-> more.free, ref |-> more.ref, data |-> more.data, oom |-> more.oom,
                     pte |-> more.pte]
      BY <1>5
    <3>10. kept.ref = [more.ref EXCEPT ![f0] = @ - 1]
      BY <3>3, <3>9
    <3>4. /\ kept.ref = [s.ref EXCEPT ![f] = @ + 1, ![f0] = @ - 1]
          /\ kept.pte = [s.pte EXCEPT ![p][a] = NoPte]
          /\ kept.free = IF last THEN s.free \cup {f0} ELSE s.free
          /\ kept.data = [s.data EXCEPT ![f0] = IF last THEN Leftover ELSE @]
          /\ kept.oom = s.oom
          /\ kept = [free |-> kept.free, ref |-> kept.ref, data |-> kept.data,
                     oom |-> kept.oom, pte |-> kept.pte]
      <4>1. kept.ref = [s.ref EXCEPT ![f] = @ + 1, ![f0] = @ - 1]
        BY <3>9, <3>10
      <4>2. /\ kept.pte = [s.pte EXCEPT ![p][a] = NoPte]
            /\ kept.free = IF last THEN s.free \cup {f0} ELSE s.free
            /\ kept.data = [s.data EXCEPT ![f0] = IF last THEN Leftover ELSE @]
            /\ kept.oom = s.oom
        <5> HIDE DEF last
        <5>1. QED
          BY <3>3, <3>9
      <4>3. kept = [free |-> kept.free, ref |-> kept.ref, data |-> kept.data,
                    oom |-> kept.oom, pte |-> kept.pte]
        <5> HIDE DEF last
        <5>1. QED
          BY <3>3, <3>9
      <4>4. QED
        BY <4>1, <4>2, <4>3
    <3>5. kept.data = IF last THEN [s.data EXCEPT ![f0] = Leftover] ELSE s.data
      <4> HIDE DEF last, gone
      <4>1. kept.data = [s.data EXCEPT ![f0] = IF last THEN Leftover ELSE @]
            /\ s.data \in [Frames -> Data]
        BY <1>2, <3>4
      <4>2. QED
        BY <4>1
    <3>6. [kept.pte EXCEPT ![p][a] = e] = [s.pte EXCEPT ![p][a] = e]
      <4> HIDE DEF last, gone
      <4>1. kept.pte = [s.pte EXCEPT ![p][a] = NoPte]
            /\ s.pte \in [Procs -> [Pages -> Pte \cup {NoPte}]]
        BY <1>2, <3>4
      <4>2. QED
        BY <4>1
    <3> HIDE DEF last
    <3>7. /\ t.ref = kept.ref /\ t.pte = [kept.pte EXCEPT ![p][a] = e] /\ t.free = kept.free
          /\ t.data = kept.data /\ t.oom = kept.oom
          /\ t = [free |-> t.free, ref |-> t.ref, data |-> t.data, oom |-> t.oom, pte |-> t.pte]
      BY <1>4, <3>4
    <3>8. QED
      BY <2>3, <3>4, <3>5, <3>6, <3>7 DEF last
  <2>4. QED
    BY <2>1, <2>2, <2>3
<1> HIDE DEF kept
<1>7. t \in Mem
  <2>1. Leftover \in Data
    BY DEF Data
  <2>2. t.ref \in [Frames -> Int]
    <3>1. [s.ref EXCEPT ![f] = @ + 1] \in [Frames -> Int]
      BY <1>2
    <3>2. gone => [s.ref EXCEPT ![f] = @ + 1, ![f0] = @ - 1] \in [Frames -> Int]
      BY <1>1, <1>2
    <3> HIDE DEF gone
    <3>3. QED
      BY <1>2, <1>6, <3>1, <3>2
  <2>3. t.free \in SUBSET Frames /\ t.data \in [Frames -> Data] /\ t.oom \in BOOLEAN
    <3>1. gone => s.free \cup {f0} \in SUBSET Frames
      BY <1>1, <1>2
    <3>2. [s.data EXCEPT ![f0] = Leftover] \in [Frames -> Data]
      BY <1>2, <2>1
    <3> HIDE DEF gone
    <3>3. QED
      BY <1>2, <1>6, <3>1, <3>2
  <2>4. t.pte \in [Procs -> [Pages -> Pte \cup {NoPte}]]
    <3> HIDE DEF gone
    <3>1. t.pte = [s.pte EXCEPT ![p][a] = e]
      BY <1>6
    <3>2. QED
      BY <1>2, <1>3, <3>1
  <2> HIDE DEF gone
  <2>5. QED
    BY <1>6, <2>2, <2>3, <2>4 DEF Mem
<1>8. \A q \in Procs, x \in Pages :
        t.pte[q][x] = IF <<q, x>> = <<p, a>> THEN e ELSE s.pte[q][x]
  <2> HIDE DEF gone
  <2>1. t.pte = [s.pte EXCEPT ![p][a] = e]
    BY <1>6
  <2>2. QED
    BY <1>2, <2>1
<1>9. e # NoPte /\ e.frame = f
  BY <1>3, PteFields
<1>10. \A g \in Frames :
         t.ref[g] = s.ref[g] + (IF e # NoPte /\ e.frame = g THEN 1 ELSE 0)
                             - (IF old # NoPte /\ old.frame = g THEN 1 ELSE 0)
  <2> SUFFICES ASSUME NEW g \in Frames
               PROVE  t.ref[g] = s.ref[g] + (IF g = f THEN 1 ELSE 0)
                                          - (IF old # NoPte /\ f0 = g THEN 1 ELSE 0)
    BY <1>9
  <2>1. s.ref[g] \in Int
    BY <1>2
  <2>2. CASE old = NoPte
    BY <1>2, <1>6, <2>1, <2>2
  <2>3. CASE old # NoPte /\ f0 = f
    BY <1>6, <2>1, <2>3
  <2>4. CASE gone
    <3>1. t.ref = [s.ref EXCEPT ![f] = @ + 1, ![f0] = @ - 1] /\ f0 # f
      BY <1>6, <2>4
    <3>2. t.ref[g] = IF g = f0 THEN s.ref[g] - 1 ELSE IF g = f THEN s.ref[g] + 1 ELSE s.ref[g]
      BY <1>1, <1>2, <2>4, <3>1
    <3>3. QED
      BY <2>1, <2>4, <3>1, <3>2
  <2>5. QED
    BY <2>2, <2>3, <2>4
<1>60. /\ t.free = IF gone /\ s.ref[f0] = 1 THEN s.free \cup {f0} ELSE s.free
       /\ t.data = IF gone /\ s.ref[f0] = 1 THEN [s.data EXCEPT ![f0] = Leftover] ELSE s.data
  <2> HIDE DEF gone
  <2>1. QED
    BY <1>6
<1>11. \A g \in Frames : t.data[g] = IF gone /\ g = f0 /\ s.ref[f0] = 1 THEN Leftover ELSE s.data[g]
  BY <1>1, <1>2, <1>60
<1>12. \A g \in t.free : \/ g \in s.free
                         \/ old # NoPte /\ old.frame = g /\ s.ref[g] = 1 /\ t.data[g] = Leftover
  <2> SUFFICES ASSUME NEW g \in t.free, g \notin s.free
               PROVE  old # NoPte /\ old.frame = g /\ s.ref[g] = 1 /\ t.data[g] = Leftover
    OBVIOUS
  <2>1. gone /\ s.ref[f0] = 1 /\ g = f0
    <3> HIDE DEF gone
    <3>1. QED
      BY <1>60
  <2>2. g \in Frames /\ t.data[g] = Leftover
    BY <1>1, <1>11, <2>1
  <2>3. QED
    BY <2>1, <2>2
<1>13. \A g \in Frames : \/ t.data[g] = s.data[g]
                         \/ old # NoPte /\ old.frame = g /\ s.ref[g] = 1
  BY <1>11
<1>14. f \notin t.free /\ t.data[f] = s.data[f]
  <2>1. ~(gone /\ f = f0)
    OBVIOUS
  <2>2. t.data[f] = s.data[f]
    BY <1>11, <2>1
  <2>3. f \notin t.free
    <3> HIDE DEF gone
    <3>1. QED
      BY <1>60, <2>1
  <2>4. QED
    BY <2>2, <2>3
<1>15. /\ e # NoPte => e.frame \notin t.free
       /\ e # NoPte => \A pa \in UsersOf(s, e.frame) \ {<<p, a>>} :
                         "w" \notin e.perm /\ "w" \notin s.pte[pa[1]][pa[2]].perm
       /\ e \in Pte \cup {NoPte} /\ t.oom = s.oom
  BY <1>3, <1>6, <1>14
<1>16. Edits(s, t, p, a, e)
  BY <1>7, <1>8, <1>10, <1>12, <1>13, <1>15, EditGood
<1>17. Cell(t, p, a) = s.data[f]
  BY <1>9, <1>14, <1>16 DEF Edits, Cell
<1>18. QED
  BY <1>16, <1>17 DEF e

\* No other entry names the frame of page a of process p.
Alone(s, p, a) == \A q \in Procs, x \in Pages :
  <<q, x>> # <<p, a>> /\ s.pte[q][x] # NoPte => s.pte[q][x].frame # s.pte[p][a].frame

LEMMA WritableIsAlone ==
  ASSUME NEW s, Good(s), NEW p \in Procs, NEW a \in Pages, s.pte[p][a] # NoPte,
         "w" \in s.pte[p][a].perm
  PROVE  Alone(s, p, a)
<1> SUFFICES ASSUME NEW q \in Procs, NEW x \in Pages, <<q, x>> # <<p, a>>, s.pte[q][x] # NoPte,
                    s.pte[q][x].frame = s.pte[p][a].frame
             PROVE  FALSE
  BY DEF Alone
<1> DEFINE f == s.pte[p][a].frame
           u == <<p, a>>
           w == <<q, x>>
<1>1. f \in Frames
  BY MemFields, PteFields DEF Good
<1>2. u \in UsersOf(s, f) /\ w \in UsersOf(s, f) /\ u # w /\ u[1] = p /\ u[2] = a
  BY DEF UsersOf
<1> HIDE DEF f, u, w
<1>3. "w" \notin s.pte[u[1]][u[2]].perm
  BY <1>1, <1>2 DEF Good
<1>4. QED
  BY <1>2, <1>3

\* A store to a page that shares its frame with no other changes only this page.
LEMMA WriteGood ==
  ASSUME NEW s, Good(s), NEW p \in Procs, NEW a \in Pages, s.pte[p][a] # NoPte,
         Alone(s, p, a), NEW v \in Data,
         NEW t, t = [s EXCEPT !.data[s.pte[p][a].frame] = v]
  PROVE  /\ Good(t) /\ t.oom = s.oom /\ t.pte = s.pte
         /\ Cell(t, p, a) = v
         /\ \A q \in Procs, x \in Pages : <<q, x>> # <<p, a>> => Same(s, t, q, x)
<1> DEFINE f == s.pte[p][a].frame
<1>1. s \in Mem /\ f \in Frames
  BY MemFields, PteFields DEF Good
<1>2. <<p, a>> \in UsersOf(s, f)
  BY DEF UsersOf
<1>3. f \notin s.free
  BY <1>1, <1>2 DEF Good
<1>4. t = [s EXCEPT !.data[f] = v]
  OBVIOUS
<1> HIDE DEF f
<1>5. /\ t \in Mem /\ t.oom = s.oom /\ t.pte = s.pte /\ t.ref = s.ref /\ t.free = s.free
      /\ t.data = [s.data EXCEPT ![f] = v] /\ s.data \in [Frames -> Data]
  BY <1>1, <1>4 DEF Mem
<1>6. \A g \in Frames : UsersOf(t, g) = UsersOf(s, g)
  BY <1>5 DEF UsersOf
<1>7. \A g \in Frames : t.data[g] = IF g = f THEN v ELSE s.data[g]
  BY <1>1, <1>5
<1>8. ASSUME NEW g \in Frames
      PROVE  /\ t.ref[g] = Cardinality(UsersOf(t, g))
             /\ g \in t.free => UsersOf(t, g) = {} /\ t.data[g] = Leftover
             /\ \A pa, qb \in UsersOf(t, g) : pa # qb => "w" \notin t.pte[pa[1]][pa[2]].perm
  BY <1>3, <1>5, <1>6, <1>7 DEF Good
<1>9. Good(t)
  BY <1>5, <1>8 DEF Good
<1>10. Cell(t, p, a) = v
  BY <1>1, <1>5, <1>7 DEF Cell, f
<1>11. ASSUME NEW q \in Procs, NEW x \in Pages, <<q, x>> # <<p, a>>
       PROVE  Same(s, t, q, x)
  <2>1. s.pte[q][x] # NoPte => s.pte[q][x].frame \in Frames /\ s.pte[q][x].frame # f
    BY <1>1, <1>11, MemFields, PteFields DEF Alone, f
  <2>2. QED
    BY <1>5, <1>7, <2>1 DEF Same, Cell
<1>12. QED
  BY <1>5, <1>9, <1>10, <1>11

LEMMA EditsAlone ==
  ASSUME NEW s, NEW t, NEW p \in Procs, NEW a \in Pages, NEW e \in Pte, Edits(s, t, p, a, e),
         UsersOf(s, e.frame) = {}
  PROVE  Alone(t, p, a)
<1>1. t.pte[p][a] = e
  BY DEF Edits
<1>2. ASSUME NEW q \in Procs, NEW x \in Pages, <<q, x>> # <<p, a>>, t.pte[q][x] # NoPte
      PROVE  t.pte[q][x].frame # e.frame
  <2>1. t.pte[q][x] = s.pte[q][x]
    BY <1>2 DEF Edits, Same
  <2>2. <<q, x>> \notin UsersOf(s, e.frame)
    OBVIOUS
  <2>3. QED
    BY <1>2, <2>1, <2>2 DEF UsersOf
<1>3. QED
  BY <1>1, <1>2 DEF Alone

\* Page a of process p has a frame of its own, unless there was none.
Allocated(s, t, p, a, perm) ==
  /\ Good(t)
  /\ \A q \in Procs, x \in Pages : <<q, x>> # <<p, a>> => Same(s, t, q, x)
  /\ s.free = {} => t.oom = TRUE /\ Same(s, t, p, a)
  /\ s.free # {} => /\ t.oom = s.oom /\ t.pte[p][a] # NoPte /\ t.pte[p][a].perm = perm
                    /\ Alone(t, p, a) /\ Cell(t, p, a) = Leftover

\* pgdir_alloc_page maps a frame of its own at a page, or kills the kernel.
LEMMA PageAlloc ==
  ASSUME NEW s, Good(s), NEW p \in Procs, NEW a \in Pages, NEW perm \in SUBSET Rights,
         NEW t, t = pgdir_alloc_page(s, p, a, perm)
  PROVE  Allocated(s, t, p, a, perm)
<1> DEFINE u == alloc_page(s)
           f == Min(s.free)
<1>1. /\ Good(u) /\ u.pte = s.pte /\ u.data = s.data
      /\ IF s.free = {} THEN u.oom = TRUE /\ u.free = {}
         ELSE u.oom = s.oom /\ f \in s.free /\ u.free = s.free \ {f}
  BY AllocPage
<1>2. \A q \in Procs, x \in Pages : Same(s, u, q, x)
  BY <1>1 DEF Same, Cell
<1>3. s.free = {} => t = u
  BY DEF pgdir_alloc_page
<1>4. CASE s.free = {}
  <2> HIDE DEF u
  <2>1. QED
    BY <1>1, <1>2, <1>3, <1>4 DEF Allocated
<1>5. CASE s.free # {}
  <2>1. t = page_insert(u, p, a, f, perm)
    BY <1>5 DEF pgdir_alloc_page
  <2>2. f \in Frames /\ f \notin u.free /\ UsersOf(s, f) = {} /\ s.data[f] = Leftover
    <3>1. f \in s.free /\ s.free \in SUBSET Frames
      BY <1>1, <1>5, MemFields DEF Good
    <3> HIDE DEF f, u
    <3>2. QED
      BY <1>1, <1>5, <3>1 DEF Good
  <2> DEFINE e == [frame |-> f, perm |-> perm]
  <2> HIDE DEF f, u
  <2>3. UsersOf(u, f) = {}
    BY <1>1, <2>2 DEF UsersOf
  <2>4. Edits(u, t, p, a, e) /\ Cell(t, p, a) = u.data[f]
    BY <1>1, <2>1, <2>2, <2>3, PageInsert
  <2>5. e \in Pte /\ e.frame = f /\ e.perm = perm
    BY <2>2 DEF Pte
  <2>6. e # NoPte
    BY <2>5, PteFields
  <2> HIDE DEF e
  <2>7. Alone(t, p, a)
    BY <2>3, <2>4, <2>5, EditsAlone
  <2>8. Good(t) /\ t.oom = s.oom /\ t.pte[p][a] = e
    BY <1>1, <1>5, <2>4 DEF Edits
  <2>9. \A q \in Procs, x \in Pages : <<q, x>> # <<p, a>> => Same(s, t, q, x)
    BY <1>2, <2>4 DEF Edits, Same
  <2>10. QED
    BY <1>1, <1>5, <2>2, <2>4, <2>5, <2>6, <2>7, <2>8, <2>9 DEF Allocated
<1>6. QED
  BY <1>4, <1>5

\* A page keeps its contents and may lose the right to write.
Kept(s, t, q, x) ==
  /\ Cell(t, q, x) = Cell(s, q, x)
  /\ t.pte[q][x] = NoPte <=> s.pte[q][x] = NoPte
  /\ t.pte[q][x] # NoPte /\ "w" \in t.pte[q][x].perm => "w" \in s.pte[q][x].perm

\* copy_page gives a process another one's page: the same frame, read only for both.
LEMMA CopyPage ==
  ASSUME NEW s, Good(s), NEW from \in Procs, NEW to \in Procs, from # to, NEW a \in Pages,
         NEW t, t = copy_page(s, from, to, a)
  PROVE  /\ Good(t)
         /\ s.oom => t.oom
         /\ \A q \in Procs, x \in Pages : <<q, x>> # <<to, a>> => Kept(s, t, q, x)
         /\ ~t.oom => IF s.pte[from][a] = NoPte THEN Kept(s, t, to, a)
                      ELSE /\ t.pte[to][a] # NoPte /\ "w" \notin t.pte[to][a].perm
                           /\ Cell(t, to, a) = Cell(s, from, a)
<1> DEFINE pte == s.pte[from][a]
           u == alloc_page(s)
           f == pte.frame
           ro == pte.perm \ {"w"}
           v == page_insert(u, from, a, f, ro)
<1>1. Good(u) /\ u.pte = s.pte /\ u.data = s.data /\ (u.oom = s.oom \/ u.oom = TRUE)
      /\ u.free \subseteq s.free
  <2>1. /\ Good(u) /\ u.pte = s.pte /\ u.data = s.data
        /\ IF s.free = {} THEN u.oom = TRUE /\ u.free = {}
           ELSE u.oom = s.oom /\ u.free = s.free \ {Min(s.free)}
    BY AllocPage
  <2> HIDE DEF u
  <2>2. QED
    BY <2>1
<1>2. \A q \in Procs, x \in Pages : Kept(s, s, q, x) /\ Kept(s, u, q, x)
  <2> HIDE DEF u
  <2>1. QED
    BY <1>1 DEF Kept, Cell
<1>3. s.oom \in BOOLEAN /\ u.oom \in BOOLEAN
  <2> HIDE DEF u
  <2>1. QED
    BY <1>1 DEF Good, Mem
<1>4. CASE pte = NoPte \/ s.oom
  <2>1. t = s
    BY <1>4 DEF copy_page
  <2>2. QED
    BY <1>2, <1>4, <2>1
<1>5. CASE pte # NoPte /\ ~s.oom /\ u.oom
  <2>1. t = u
    BY <1>5 DEF copy_page
  <2> HIDE DEF u
  <2>2. QED
    BY <1>1, <1>2, <1>5, <2>1
<1>6. CASE pte # NoPte /\ ~s.oom /\ ~u.oom
  <2>1. t = page_insert(v, to, a, f, ro)
    BY <1>6 DEF copy_page
  <2>2. pte \in Pte /\ f \in Frames /\ ro \in SUBSET Rights /\ "w" \notin ro
    BY <1>6, MemFields, PteFields DEF Good
  <2> DEFINE e == [frame |-> f, perm |-> ro]
  <2>3. e \in Pte /\ e.frame = f /\ e.perm = ro /\ e # NoPte
    <3>1. e \in Pte /\ e.frame = f /\ e.perm = ro
      BY <2>2 DEF Pte
    <3>2. QED
      BY <3>1, PteFields
  <2> HIDE DEF u, e, ro
  <2>4. u.pte[from][a] = pte
    BY <1>1
  <2> HIDE DEF pte
  <2>5. <<from, a>> \in UsersOf(u, f)
    BY <1>6, <2>4 DEF UsersOf
  <2> HIDE DEF f
  <2>6. \A pa \in UsersOf(u, f) \ {<<from, a>>} : "w" \notin u.pte[pa[1]][pa[2]].perm
    BY <1>1, <2>2, <2>5 DEF Good
  <2>7. f \notin u.free
    BY <1>1, <2>2, <2>5 DEF Good
  <2>8. Edits(u, v, from, a, e) /\ Cell(v, from, a) = u.data[f]
    BY <1>1, <2>2, <2>6, <2>7, PageInsert DEF e
  <2> HIDE DEF v
  <2>9. Good(v) /\ v.pte[from][a] = e /\ v.oom = u.oom
    BY <2>8 DEF Edits
  <2>10. <<from, a>> \in UsersOf(v, f)
    BY <2>3, <2>9 DEF UsersOf
  <2>11. \A pa \in UsersOf(v, f) : "w" \notin v.pte[pa[1]][pa[2]].perm
    <3> SUFFICES ASSUME NEW pa \in UsersOf(v, f) PROVE "w" \notin v.pte[pa[1]][pa[2]].perm
      OBVIOUS
    <3>1. pa # <<from, a>> => "w" \notin v.pte[pa[1]][pa[2]].perm
      BY <2>2, <2>9, <2>10 DEF Good
    <3>2. "w" \notin e.perm
      BY <2>2, <2>3
    <3>3. QED
      BY <2>9, <3>1, <3>2
  <2>12. f \notin v.free
    BY <2>2, <2>9, <2>10 DEF Good
  <2>13. Edits(v, t, to, a, e) /\ Cell(t, to, a) = v.data[f]
    BY <2>1, <2>2, <2>9, <2>11, <2>12, PageInsert DEF e
  <2>14. Good(t) /\ t.pte[to][a] = e /\ t.oom = v.oom
    BY <2>13 DEF Edits
  <2>15. ASSUME NEW q \in Procs, NEW x \in Pages, <<q, x>> # <<to, a>>
         PROVE  Kept(s, t, q, x)
    <3>1. Same(v, t, q, x)
      BY <2>13, <2>15 DEF Edits
    <3>2. CASE <<q, x>> = <<from, a>>
      <4>1. Cell(u, q, x) = u.data[f]
        BY <1>6, <2>4, <3>2 DEF Cell, f
      <4>2. Cell(t, q, x) = Cell(u, q, x)
        BY <2>8, <3>1, <3>2, <4>1 DEF Same
      <4>3. t.pte[q][x] = e
        BY <2>9, <3>1, <3>2 DEF Same
      <4>4. Cell(t, q, x) = Cell(s, q, x)
        BY <1>2, <4>2 DEF Kept
      <4>5. QED
        BY <1>6, <2>2, <2>3, <3>2, <4>3, <4>4 DEF Kept, pte
    <3>3. CASE <<q, x>> # <<from, a>>
      <4>1. Same(u, v, q, x)
        BY <2>8, <3>3 DEF Edits
      <4>2. Kept(s, u, q, x)
        BY <1>2
      <4>3. QED
        BY <3>1, <4>1, <4>2 DEF Same, Kept
    <3>4. QED
      BY <3>2, <3>3
  <2>16. Cell(t, to, a) = Cell(s, from, a)
    <3>1. Cell(v, from, a) = v.data[f]
      BY <2>3, <2>9 DEF Cell
    <3>2. Cell(u, from, a) = u.data[f]
      BY <1>6, <2>4 DEF Cell, f
    <3>3. Cell(u, from, a) = Cell(s, from, a)
      BY <1>2 DEF Kept
    <3>4. QED
      BY <2>8, <2>13, <3>1, <3>2, <3>3
  <2>17. QED
    BY <1>6, <2>2, <2>3, <2>14, <2>15, <2>16 DEF pte
<1>7. QED
  BY <1>3, <1>4, <1>5, <1>6

-----------------------------------------------------------------------------
GoodMem == {s \in Mem : Good(s)}

LEMMA GoodMemIsGood ==
  ASSUME NEW s
  PROVE  s \in GoodMem <=> Good(s)
  BY DEF GoodMem, Good

LEMMA PagesFinite == IsFiniteSet(Pages)
<1>1. 0 \in Int /\ NPages - 1 \in Int
  BY VmmAssumption
<1>2. QED
  BY <1>1, FS_Interval DEF Pages

\* Process p has lost the pages of some set, and all else is as it was.
Unmapped(s, t, p, pages) ==
  /\ Good(t) /\ t.oom = s.oom
  /\ \A q \in Procs, x \in Pages :
       IF q = p /\ x \in pages THEN t.pte[q][x] = NoPte ELSE Same(s, t, q, x)

\* unmap_range drops the entries of its range.
LEMMA UnmapRange ==
  ASSUME NEW s, Good(s), NEW p \in Procs, NEW D \in SUBSET Pages
  PROVE  Unmapped(s, unmap_range(s, p, D), p, D)
<1> DEFINE op(t, a) == IF t.pte[p][a] = NoPte THEN t ELSE page_remove_pte(t, p, a)
           pick == [u \in SUBSET D |-> CHOOSE a \in u : TRUE]
           Rec(it) == [u \in SUBSET D |-> IF u = {} THEN s
                         ELSE op(it[u \ {CHOOSE a \in u : TRUE}], CHOOSE a \in u : TRUE)]
           iter == CHOOSE it : it = Rec(it)
           K == {u \in SUBSET D : Unmapped(s, iter[u], p, u)}
<1>1. IsFiniteSet(D)
  BY PagesFinite, FS_Subset
<1>2. /\ \A u \in SUBSET D : pick[u] = CHOOSE a \in u : TRUE
      /\ \A u \in SUBSET D : u # {} => pick[u] \in u
  OBVIOUS
<1> HIDE DEF pick
<1>3. \A t \in GoodMem, a \in D : /\ op(t, a) \in GoodMem
                                  /\ Edits(t, op(t, a), p, a, NoPte)
  <2> SUFFICES ASSUME NEW t \in GoodMem, NEW a \in D
               PROVE  op(t, a) \in GoodMem /\ Edits(t, op(t, a), p, a, NoPte)
    OBVIOUS
  <2>1. Good(t) /\ a \in Pages
    BY GoodMemIsGood
  <2>2. Edits(t, op(t, a), p, a, NoPte)
    <3>1. CASE t.pte[p][a] = NoPte
      <4>1. op(t, a) = t
        BY <3>1
      <4> HIDE DEF op
      <4>2. QED
        BY <2>1, <3>1, <4>1 DEF Edits, Same
    <3>2. CASE t.pte[p][a] # NoPte
      <4>1. op(t, a) = page_remove_pte(t, p, a)
        BY <3>2
      <4> HIDE DEF op
      <4>2. Edits(t, page_remove_pte(t, p, a), p, a, NoPte)
        BY <2>1, <3>2, PageRemove
      <4>3. QED
        BY <4>1, <4>2
    <3>3. QED
      BY <3>1, <3>2
  <2> HIDE DEF op
  <2>3. QED
    BY <2>2, GoodMemIsGood DEF Edits
<1>4. unmap_range(s, p, D) = iter[D]
  BY DEF unmap_range, FoldSet, MapThenFoldSet
<1> HIDE DEF op
<1>5. \E it : it = Rec(it)
  <2> DEFINE step == [z \in GoodMem \X D |-> op(z[1], z[2])]
  <2>1. step \in [GoodMem \X D -> GoodMem]
    BY <1>3
  <2>2. s \in GoodMem
    BY GoodMemIsGood
  <2> HIDE DEF step
  <2>3. PICK g : Folds(g, D, GoodMem, s, step, pick)
    BY <1>1, <1>2, <2>1, <2>2, RecursionOnSubsets
  <2>4. g \in [SUBSET D -> GoodMem] /\ g[{}] = s
    BY <2>3 DEF Folds
  <2>5. ASSUME NEW u \in SUBSET D, u # {}
        PROVE  g[u] = op(g[u \ {CHOOSE a \in u : TRUE}], CHOOSE a \in u : TRUE)
    <3>1. pick[u] \in D /\ g[u \ {pick[u]}] \in GoodMem
      BY <1>2, <2>4, <2>5
    <3>2. g[u] = step[<<g[u \ {pick[u]}], pick[u]>>]
      BY <2>3, <2>5 DEF Folds
    <3>3. g[u] = op(g[u \ {pick[u]}], pick[u])
      BY <3>1, <3>2 DEF step
    <3>4. QED
      BY <3>3, <1>2
  <2>6. g = Rec(g)
    BY <2>4, <2>5
  <2> HIDE DEF Rec
  <2>7. QED
    BY <2>6
<1>6. iter = Rec(iter)
  <2> HIDE DEF Rec
  <2>1. QED
    BY <1>5
<1> HIDE DEF iter
<1>7. {} \in K
  <2>1. iter[{}] = s
    BY <1>6
  <2>2. Unmapped(s, s, p, {})
    BY DEF Unmapped, Same
  <2>3. QED
    BY <2>1, <2>2
<1>8. ASSUME NEW u \in SUBSET D, u # {}, u \ {pick[u]} \in K PROVE u \in K
  <2> DEFINE a0 == pick[u]
             v == iter[u \ {a0}]
  <2>1. iter[u] = op(v, a0)
    <3>1. iter[u] = Rec(iter)[u]
      BY <1>6
    <3>2. QED
      BY <1>2, <1>8, <3>1
  <2>2. a0 \in u /\ a0 \in D
    BY <1>2, <1>8
  <2>3. Unmapped(s, v, p, u \ {a0})
    BY <1>8
  <2> HIDE DEF v, a0
  <2>4. v \in GoodMem
    BY <2>3, GoodMemIsGood DEF Unmapped
  <2>5. Edits(v, iter[u], p, a0, NoPte)
    BY <1>3, <2>1, <2>2, <2>4
  <2>6. ASSUME NEW q \in Procs, NEW x \in Pages
        PROVE  IF q = p /\ x \in u THEN iter[u].pte[q][x] = NoPte ELSE Same(s, iter[u], q, x)
    <3>1. CASE <<q, x>> = <<p, a0>>
      BY <2>2, <2>5, <3>1 DEF Edits
    <3>2. CASE <<q, x>> # <<p, a0>>
      <4>1. Same(v, iter[u], q, x)
        BY <2>5, <3>2 DEF Edits
      <4>2. q = p /\ x \in u <=> q = p /\ x \in u \ {a0}
        BY <3>2
      <4>3. IF q = p /\ x \in u THEN v.pte[q][x] = NoPte ELSE Same(s, v, q, x)
        BY <2>3, <4>2 DEF Unmapped
      <4>4. QED
        BY <4>1, <4>3 DEF Same
    <3>3. QED
      BY <3>1, <3>2
  <2>7. Unmapped(s, iter[u], p, u)
    BY <2>3, <2>5, <2>6 DEF Unmapped, Edits
  <2>8. QED
    BY <2>7
<1>9. D \in K
  <2> HIDE DEF K
  <2>1. \A u \in SUBSET D : u # {} /\ u \ {pick[u]} \in K => u \in K
    BY <1>8
  <2>2. QED
    BY <1>1, <1>2, <1>7, <2>1, SetLoopInvariant
<1>10. QED
  BY <1>4, <1>9

LEMMA VmaFields ==
  ASSUME NEW vma \in Vma
  PROVE  /\ vma.start \in Pages /\ vma.end \in 1 .. NPages /\ vma.flags \in SUBSET Rights
         /\ vma # NoVma /\ Span(vma) \subseteq Pages
         /\ \A a \in Int : Covers(vma, a) <=> a \in Span(vma)
<1>1. vma.start \in Pages /\ vma.end \in 1 .. NPages /\ vma.flags \in SUBSET Rights /\ vma # NoVma
  BY VmmAssumption DEF Vma
<1>2. vma.start \in Int /\ vma.end \in Int /\ NPages \in Nat /\ vma.start >= 0 /\ vma.end <= NPages
  BY <1>1, VmmAssumption DEF Pages
<1>3. QED
  BY <1>1, <1>2 DEF Span, Covers, Pages

\* The pages of the vmas list[1 .. k].
PagesOf(list, k) == {x \in Pages : \E i \in 1 .. k : x \in Span(list[i])}

\* exit_mmap drops every page of every vma on the list.
LEMMA ExitMmap ==
  ASSUME NEW s, Good(s), NEW p \in Procs, NEW list \in Seq(Vma)
  PROVE  Unmapped(s, exit_mmap(s, p, list), p, PagesOf(list, Len(list)))
<1> DEFINE n == Len(list)
           D == DOMAIN list
           op(t, i) == unmap_range(t, p, Span(list[i]))
           Rec(it) == [u \in SUBSET D |-> IF u = {} THEN s ELSE op(it[u \ {Max(u)}], Max(u))]
           iter == CHOOSE it : it = Rec(it)
           P == [k \in 0 .. n |-> {t \in GoodMem : Unmapped(s, t, p, PagesOf(list, k))}]
<1>1. n \in Nat /\ D = 1 .. n /\ \A i \in 1 .. n : list[i] \in Vma /\ Span(list[i]) \in SUBSET Pages
  BY VmaFields
<1>2. exit_mmap(s, p, list) = iter[D]
  BY DEF exit_mmap, FoldLeft, MapThenFoldSet
<1>3. \A t \in GoodMem, k \in 1 .. n : /\ op(t, k) \in GoodMem
                                       /\ Unmapped(t, op(t, k), p, Span(list[k]))
  <2> SUFFICES ASSUME NEW t \in GoodMem, NEW k \in 1 .. n
               PROVE  op(t, k) \in GoodMem /\ Unmapped(t, op(t, k), p, Span(list[k]))
    OBVIOUS
  <2>1. Good(t) /\ Span(list[k]) \in SUBSET Pages
    BY <1>1, GoodMemIsGood
  <2>2. Unmapped(t, op(t, k), p, Span(list[k]))
    BY <2>1, UnmapRange
  <2> HIDE DEF op
  <2>3. QED
    BY <2>2, GoodMemIsGood DEF Unmapped
<1> HIDE DEF op
<1>4. \E it : it = Rec(it)
  <2> DEFINE step == [z \in GoodMem \X (1 .. n) |-> op(z[1], z[2])]
  <2>1. step \in [GoodMem \X (1 .. n) -> GoodMem]
    BY <1>3
  <2>2. s \in GoodMem
    BY GoodMemIsGood
  <2> HIDE DEF step
  <2>3. PICK g : Loops(g, n, GoodMem, s, step)
    BY <1>1, <2>1, <2>2, LoopRecursion
  <2>4. g \in [SUBSET (1 .. n) -> GoodMem] /\ g[{}] = s
    BY <2>3 DEF Loops
  <2>5. ASSUME NEW u \in SUBSET (1 .. n), u # {}
        PROVE  g[u] = op(g[u \ {Max(u)}], Max(u))
    <3>1. Max(u) \in 1 .. n /\ g[u \ {Max(u)}] \in GoodMem
      BY <1>1, <2>4, <2>5, MaxIsGreatest
    <3>2. g[u] = step[<<g[u \ {Max(u)}], Max(u)>>]
      BY <2>3, <2>5 DEF Loops
    <3>3. QED
      BY <3>1, <3>2 DEF step
  <2>6. g = Rec(g)
    BY <2>4, <2>5, <1>1
  <2> HIDE DEF Rec
  <2>7. QED
    BY <2>6
<1>5. iter = Rec(iter)
  <2> HIDE DEF Rec
  <2>1. QED
    BY <1>4
<1> HIDE DEF iter
<1>6. iter[1 .. 0] \in P[0]
  <2>1. iter[1 .. 0] = s
    BY <1>1, <1>5
  <2>2. Unmapped(s, s, p, PagesOf(list, 0)) /\ s \in GoodMem
    BY GoodMemIsGood DEF Unmapped, Same, PagesOf
  <2>3. QED
    BY <1>1, <2>1, <2>2
<1>7. ASSUME NEW k \in 1 .. n, iter[1 .. (k - 1)] \in P[k - 1] PROVE iter[1 .. k] \in P[k]
  <2> DEFINE t == iter[1 .. (k - 1)]
             w == iter[1 .. k]
  <2>1. w = op(t, k)
    <3>0. k \in Nat \ {0}
      OBVIOUS
    <3>1. Max(1 .. k) = k /\ (1 .. k) \ {Max(1 .. k)} = 1 .. (k - 1) /\ 1 .. k # {}
      BY <3>0, MaxOfInterval
    <3>2. 1 .. k \in SUBSET D
      BY <1>1
    <3> HIDE DEF D
    <3>3. QED
      BY <1>5, <3>1, <3>2
  <2> HIDE DEF t, w
  <2>2. t \in GoodMem /\ Unmapped(s, t, p, PagesOf(list, k - 1))
    <3>1. k - 1 \in 0 .. n
      BY <1>1
    <3>2. t \in P[k - 1]
      <4> HIDE DEF P
      <4>1. QED
        BY <1>7 DEF t
    <3>3. QED
      BY <3>1, <3>2
  <2>3. w \in GoodMem /\ Unmapped(t, w, p, Span(list[k]))
    BY <1>3, <2>1, <2>2
  <2>4. ASSUME NEW q \in Procs, NEW x \in Pages
        PROVE  IF q = p /\ x \in PagesOf(list, k) THEN w.pte[q][x] = NoPte ELSE Same(s, w, q, x)
    <3>1. x \in PagesOf(list, k) <=> x \in PagesOf(list, k - 1) \/ x \in Span(list[k])
      <4>1. 1 .. k = (1 .. (k - 1)) \cup {k}
        BY <1>1
      <4>2. QED
        BY <4>1 DEF PagesOf
    <3>2. IF q = p /\ x \in Span(list[k]) THEN w.pte[q][x] = NoPte ELSE Same(t, w, q, x)
      BY <2>3 DEF Unmapped
    <3>3. IF q = p /\ x \in PagesOf(list, k - 1) THEN t.pte[q][x] = NoPte ELSE Same(s, t, q, x)
      BY <2>2 DEF Unmapped
    <3>4. QED
      BY <3>1, <3>2, <3>3 DEF Same
  <2>5. Unmapped(s, w, p, PagesOf(list, k))
    BY <2>2, <2>3, <2>4 DEF Unmapped
  <2>6. QED
    BY <2>3, <2>5 DEF w
<1>8. iter[1 .. n] \in P[n]
  <2> HIDE DEF P
  <2>1. QED
    BY <1>1, <1>6, <1>7, LoopInvariant
<1>9. QED
  BY <1>1, <1>2, <1>8

-----------------------------------------------------------------------------
\* Some pages of one process have become pages of another one too.
Copied(s, t, from, to, pages) ==
  /\ Good(t) /\ (s.oom => t.oom)
  /\ \A q \in Procs, x \in Pages : ~(q = to /\ x \in pages) => Kept(s, t, q, x)
  /\ ~t.oom => \A x \in pages : IF s.pte[from][x] = NoPte THEN Kept(s, t, to, x)
                                ELSE /\ t.pte[to][x] # NoPte /\ "w" \notin t.pte[to][x].perm
                                     /\ Cell(t, to, x) = Cell(s, from, x)

LEMMA CopiedTwice ==
  ASSUME NEW s, NEW t, NEW w, NEW from \in Procs, NEW to \in Procs, from # to,
         NEW A \in SUBSET Pages, NEW B \in SUBSET Pages,
         Copied(s, t, from, to, A), Copied(t, w, from, to, B)
  PROVE  Copied(s, w, from, to, A \cup B)
<1>1. Good(w) /\ (s.oom => w.oom) /\ (t.oom => w.oom)
  BY DEF Copied
<1>2. ASSUME NEW q \in Procs, NEW x \in Pages, ~(q = to /\ x \in A \cup B)
      PROVE  Kept(s, w, q, x)
  <2>1. Kept(s, t, q, x) /\ Kept(t, w, q, x)
    BY <1>2 DEF Copied
  <2>2. QED
    BY <2>1 DEF Kept
<1>3. ASSUME ~w.oom, NEW x \in A \cup B
      PROVE  IF s.pte[from][x] = NoPte THEN Kept(s, w, to, x)
             ELSE /\ w.pte[to][x] # NoPte /\ "w" \notin w.pte[to][x].perm
                  /\ Cell(w, to, x) = Cell(s, from, x)
  <2>1. x \in Pages /\ ~t.oom
    BY <1>1, <1>3
  <2>2. Kept(s, t, from, x)
    BY <2>1 DEF Copied
  <2>3. IF x \in A /\ s.pte[from][x] # NoPte
        THEN /\ t.pte[to][x] # NoPte /\ "w" \notin t.pte[to][x].perm
             /\ Cell(t, to, x) = Cell(s, from, x)
        ELSE Kept(s, t, to, x)
    BY <2>1 DEF Copied
  <2>4. IF x \in B /\ t.pte[from][x] # NoPte
        THEN /\ w.pte[to][x] # NoPte /\ "w" \notin w.pte[to][x].perm
             /\ Cell(w, to, x) = Cell(t, from, x)
        ELSE Kept(t, w, to, x)
    BY <1>3, <2>1 DEF Copied
  <2>5. QED
    BY <1>3, <2>2, <2>3, <2>4 DEF Kept
<1>4. QED
  BY <1>1, <1>2, <1>3 DEF Copied

\* copy_range copies every page of its range.
LEMMA CopyRange ==
  ASSUME NEW s, Good(s), NEW from \in Procs, NEW to \in Procs, from # to,
         NEW vma \in Vma, vma.start < vma.end
  PROVE  Copied(s, copy_range(s, from, to, vma), from, to, Span(vma))
<1> DEFINE n == vma.end - vma.start
           D == DOMAIN [i \in 1 .. n |-> i]
           page(k) == vma.start + [i \in 1 .. n |-> i][k] - 1
           op(t, k) == copy_page(t, from, to, page(k))
           Rec(it) == [u \in SUBSET D |-> IF u = {} THEN s ELSE op(it[u \ {Max(u)}], Max(u))]
           iter == CHOOSE it : it = Rec(it)
           upto(k) == {x \in Pages : vma.start <= x /\ x < vma.start + k}
           P == [k \in 0 .. n |-> {t \in GoodMem : Copied(s, t, from, to, upto(k))}]
<1>1. /\ n \in Nat /\ D = 1 .. n /\ vma.start \in Nat /\ NPages \in Nat
      /\ \A k \in 1 .. n : page(k) = vma.start + k - 1 /\ page(k) \in Pages
      /\ upto(n) = Span(vma)
  <2>1. vma.start \in Nat /\ vma.end \in Nat /\ NPages \in Nat /\ vma.end <= NPages
    BY VmaFields, VmmAssumption DEF Pages
  <2>2. QED
    BY <2>1 DEF Pages, Span
<1>2. copy_range(s, from, to, vma) = iter[D]
  BY DEF copy_range, FoldLeft, MapThenFoldSet
<1> HIDE DEF page
<1>3. \A t \in GoodMem, k \in 1 .. n : /\ op(t, k) \in GoodMem
                                       /\ Copied(t, op(t, k), from, to, {page(k)})
  <2> SUFFICES ASSUME NEW t \in GoodMem, NEW k \in 1 .. n
               PROVE  op(t, k) \in GoodMem /\ Copied(t, op(t, k), from, to, {page(k)})
    OBVIOUS
  <2> DEFINE a == page(k)
             w == op(t, k)
  <2>1. Good(t) /\ a \in Pages /\ w = copy_page(t, from, to, a)
    BY <1>1, GoodMemIsGood
  <2> HIDE DEF a, w
  <2>2. /\ Good(w)
        /\ t.oom => w.oom
        /\ \A q \in Procs, x \in Pages : <<q, x>> # <<to, a>> => Kept(t, w, q, x)
        /\ ~w.oom => IF t.pte[from][a] = NoPte THEN Kept(t, w, to, a)
                     ELSE /\ w.pte[to][a] # NoPte /\ "w" \notin w.pte[to][a].perm
                          /\ Cell(w, to, a) = Cell(t, from, a)
    BY <2>1, CopyPage
  <2>3. Copied(t, w, from, to, {a})
    BY <2>2 DEF Copied
  <2>4. QED
    BY <2>2, <2>3, GoodMemIsGood DEF a, w
<1> HIDE DEF op
<1>4. \E it : it = Rec(it)
  <2> DEFINE step == [z \in GoodMem \X (1 .. n) |-> op(z[1], z[2])]
  <2>1. step \in [GoodMem \X (1 .. n) -> GoodMem]
    BY <1>3
  <2>2. s \in GoodMem
    BY GoodMemIsGood
  <2> HIDE DEF step
  <2>3. PICK g : Loops(g, n, GoodMem, s, step)
    BY <1>1, <2>1, <2>2, LoopRecursion
  <2>4. g \in [SUBSET (1 .. n) -> GoodMem] /\ g[{}] = s
    BY <2>3 DEF Loops
  <2>5. ASSUME NEW u \in SUBSET (1 .. n), u # {}
        PROVE  g[u] = op(g[u \ {Max(u)}], Max(u))
    <3>1. Max(u) \in 1 .. n /\ g[u \ {Max(u)}] \in GoodMem
      BY <1>1, <2>4, <2>5, MaxIsGreatest
    <3>2. g[u] = step[<<g[u \ {Max(u)}], Max(u)>>]
      BY <2>3, <2>5 DEF Loops
    <3>3. QED
      BY <3>1, <3>2 DEF step
  <2>6. g = Rec(g)
    BY <2>4, <2>5, <1>1
  <2> HIDE DEF Rec
  <2>7. QED
    BY <2>6
<1>5. iter = Rec(iter)
  <2> HIDE DEF Rec
  <2>1. QED
    BY <1>4
<1> HIDE DEF iter
<1>6. iter[1 .. 0] \in P[0]
  <2>1. iter[1 .. 0] = s
    BY <1>1, <1>5
  <2>2. upto(0) = {}
    BY <1>1 DEF Pages
  <2>3. Copied(s, s, from, to, {}) /\ s \in GoodMem
    BY GoodMemIsGood DEF Copied, Kept
  <2> HIDE DEF upto
  <2>4. QED
    BY <1>1, <2>1, <2>2, <2>3
<1>7. ASSUME NEW k \in 1 .. n, iter[1 .. (k - 1)] \in P[k - 1] PROVE iter[1 .. k] \in P[k]
  <2> DEFINE t == iter[1 .. (k - 1)]
             w == iter[1 .. k]
  <2>1. w = op(t, k)
    <3>0. k \in Nat \ {0}
      OBVIOUS
    <3>1. Max(1 .. k) = k /\ (1 .. k) \ {Max(1 .. k)} = 1 .. (k - 1) /\ 1 .. k # {}
      BY <3>0, MaxOfInterval
    <3>2. 1 .. k \in SUBSET D
      BY <1>1
    <3> HIDE DEF D
    <3>3. QED
      BY <1>5, <3>1, <3>2
  <2> HIDE DEF t, w
  <2>2. t \in GoodMem /\ Copied(s, t, from, to, upto(k - 1))
    <3>1. k - 1 \in 0 .. n
      BY <1>1
    <3>2. t \in P[k - 1]
      <4> HIDE DEF P
      <4>1. QED
        BY <1>7 DEF t
    <3> HIDE DEF upto
    <3>3. QED
      BY <3>1, <3>2
  <2>3. w \in GoodMem /\ Copied(t, w, from, to, {page(k)})
    BY <1>3, <2>1, <2>2
  <2>4. upto(k) = upto(k - 1) \cup {page(k)} /\ upto(k - 1) \in SUBSET Pages
        /\ {page(k)} \in SUBSET Pages
    BY <1>1 DEF Pages
  <2> HIDE DEF upto
  <2>5. Copied(s, w, from, to, upto(k - 1) \cup {page(k)})
    BY <2>2, <2>3, <2>4, CopiedTwice
  <2>6. k \in 0 .. n
    BY <1>1
  <2>7. QED
    BY <2>3, <2>4, <2>5, <2>6 DEF w
<1>8. iter[1 .. n] \in P[n]
  <2> HIDE DEF P
  <2>1. QED
    BY <1>1, <1>6, <1>7, LoopInvariant
<1> HIDE DEF upto
<1>9. iter[D] \in {t \in GoodMem : Copied(s, t, from, to, Span(vma))}
  BY <1>1, <1>8
<1>10. QED
  BY <1>2, <1>9

-----------------------------------------------------------------------------
\* Place is the first vma that starts later, or the end of the list.
LEMMA PlaceBetween ==
  ASSUME NEW list \in Seq(Vma), NEW vma \in Vma
  PROVE  /\ Place(list, vma) \in 1 .. Len(list) + 1
         /\ Place(list, vma) <= Len(list) => list[Place(list, vma)].start > vma.start
         /\ \A j \in 1 .. Len(list) : j < Place(list, vma) => list[j].start <= vma.start
<1> DEFINE later == {i \in DOMAIN list : list[i].start > vma.start}
           S == later \cup {Len(list) + 1}
<1>1. S \subseteq Nat /\ S # {} /\ Len(list) \in Nat /\ DOMAIN list = 1 .. Len(list)
  OBVIOUS
<1>2. Place(list, vma) = Min(S)
  BY DEF Place
<1>3. Min(S) \in S /\ \A i \in S : Min(S) <= i
  <2> HIDE DEF S
  <2>1. QED
    BY <1>1, MinIsLeast
<1>4. \A j \in 1 .. Len(list) : list[j].start \in Int /\ vma.start \in Int
  BY VmaFields, VmmAssumption DEF Pages
<1>5. PICK k : k = Min(S)
  OBVIOUS
<1>6. k \in 1 .. Len(list) + 1 /\ (k <= Len(list) => k \in later)
  BY <1>1, <1>3, <1>5
<1>7. \A j \in 1 .. Len(list) : j < k => ~(list[j].start > vma.start)
  BY <1>1, <1>3, <1>5, <1>6
<1>8. QED
  BY <1>2, <1>4, <1>5, <1>6, <1>7

\* insert_vma_struct puts the vma in its place and keeps the others in order.
LEMMA InsertVmaElements ==
  ASSUME NEW list \in Seq(Vma), NEW vma \in Vma,
         NEW i \in 1 .. Len(list) + 1, i = Place(list, vma)
  PROVE  /\ insert_vma_struct(list, vma) \in Seq(Vma)
         /\ Len(insert_vma_struct(list, vma)) = Len(list) + 1
         /\ \A k \in 1 .. Len(list) + 1 : insert_vma_struct(list, vma)[k] =
              IF k < i THEN list[k] ELSE IF k = i THEN vma ELSE list[k - 1]
<1>3. /\ InsertAt(list, i, vma) \in Seq(Vma)
      /\ Len(InsertAt(list, i, vma)) = Len(list) + 1
      /\ \A k \in 1 .. Len(list) + 1 : InsertAt(list, i, vma)[k] =
           IF k < i THEN list[k] ELSE IF k = i THEN vma ELSE list[k - 1]
  BY InsertAtElements
<1>4. QED
  BY <1>3 DEF insert_vma_struct

\* The list then has one vma more, and is sorted if no assertion of
\* insert_vma_struct fails.
On(list, e) == \E i \in DOMAIN list : list[i] = e

Apart(list, vma) == \A e : On(list, e) => e.end <= vma.start \/ vma.end <= e.start

Inserted(list, vma, new) ==
  /\ new \in Seq(Vma)
  /\ \A e : On(new, e) <=> e = vma \/ On(list, e)
  /\ Sorted(list) /\ ~insert_vma_fails(list, vma) => Sorted(new) /\ Apart(list, vma)

LEMMA InsertVma ==
  ASSUME NEW list \in Seq(Vma), NEW vma \in Vma, NEW new, new = insert_vma_struct(list, vma)
  PROVE  Inserted(list, vma, new)
<1>1. PICK i : i = Place(list, vma)
  OBVIOUS
<1>2. /\ i \in 1 .. Len(list) + 1 /\ Len(list) \in Nat
      /\ i <= Len(list) => list[i].start > vma.start
      /\ \A j \in 1 .. Len(list) : j < i => list[j].start <= vma.start
  BY <1>1, PlaceBetween
<1>4. /\ new \in Seq(Vma) /\ Len(new) = Len(list) + 1
      /\ \A k \in 1 .. Len(list) + 1 :
           new[k] = IF k < i THEN list[k] ELSE IF k = i THEN vma ELSE list[k - 1]
  <2>1. /\ insert_vma_struct(list, vma) \in Seq(Vma)
        /\ Len(insert_vma_struct(list, vma)) = Len(list) + 1
        /\ \A k \in 1 .. Len(list) + 1 : insert_vma_struct(list, vma)[k] =
             IF k < i THEN list[k] ELSE IF k = i THEN vma ELSE list[k - 1]
    BY <1>1, <1>2, InsertVmaElements
  <2>2. QED
    BY <2>1
<1>5. DOMAIN new = 1 .. Len(list) + 1 /\ DOMAIN list = 1 .. Len(list)
  BY <1>4
<1>6. ASSUME NEW v
      PROVE  (\E k \in DOMAIN new : new[k] = v) <=> v = vma \/ \E k \in DOMAIN list : list[k] = v
  <2>1. ASSUME NEW k \in DOMAIN new, new[k] = v
        PROVE  v = vma \/ \E j \in DOMAIN list : list[j] = v
    <3>1. CASE k < i
      BY <1>2, <1>4, <1>5, <2>1, <3>1
    <3>2. CASE k = i
      BY <1>2, <1>4, <1>5, <2>1, <3>2
    <3>3. CASE k > i
      <4>1. k - 1 \in DOMAIN list /\ new[k] = list[k - 1]
        BY <1>2, <1>4, <1>5, <2>1, <3>3
      <4>2. QED
        BY <2>1, <4>1
    <3>4. QED
      BY <1>2, <1>5, <3>1, <3>2, <3>3
  <2>2. \E k \in DOMAIN new : new[k] = vma
    BY <1>2, <1>4, <1>5
  <2>3. ASSUME NEW j \in DOMAIN list, list[j] = v
        PROVE  \E k \in DOMAIN new : new[k] = v
    <3>1. CASE j < i
      BY <1>2, <1>4, <1>5, <2>3, <3>1
    <3>2. CASE ~(j < i)
      <4>1. j + 1 \in DOMAIN new /\ ~(j + 1 < i) /\ j + 1 # i /\ (j + 1) - 1 = j
        BY <1>2, <1>5, <2>3, <3>2
      <4>2. QED
        BY <1>4, <1>5, <2>3, <4>1
    <3>3. QED
      BY <3>1, <3>2
  <2>4. QED
    BY <2>1, <2>2, <2>3
<1>7. ASSUME Sorted(list), ~insert_vma_fails(list, vma) PROVE Sorted(new) /\ Apart(list, vma)
  <2>1. /\ vma.start < vma.end
        /\ i > 1 => list[i - 1].end <= vma.start
        /\ i <= Len(list) => vma.end <= list[i].start
    <3>1. \A j \in 1 .. Len(list) : list[j].end \in Int /\ list[j].start \in Int
      BY VmaFields, VmmAssumption DEF Pages
    <3>2. vma.start \in Int /\ vma.end \in Int
      BY VmaFields, VmmAssumption DEF Pages
    <3>3. QED
      BY <1>1, <1>2, <1>7, <3>1, <3>2 DEF insert_vma_fails, overlaps
  <2>2. /\ \A j \in 1 .. Len(list) : list[j].start < list[j].end
        /\ \A j, k \in 1 .. Len(list) : j < k => list[j].end <= list[k].start
    BY <1>5, <1>7 DEF Sorted
  <2>3. \A j \in 1 .. Len(list) : list[j].end \in Int /\ list[j].start \in Int
    BY VmaFields, VmmAssumption DEF Pages
  <2>4. vma.start \in Int /\ vma.end \in Int
    BY VmaFields, VmmAssumption DEF Pages
  <2>5. ASSUME NEW j \in DOMAIN new PROVE new[j].start < new[j].end
    <3>1. CASE j <= i
      BY <1>2, <1>4, <1>5, <2>1, <2>2, <2>5, <3>1
    <3>2. CASE j > i
      <4>1. j - 1 \in 1 .. Len(list) /\ new[j] = list[j - 1]
        BY <1>2, <1>4, <1>5, <2>5, <3>2
      <4>2. QED
        BY <2>2, <4>1
    <3>3. QED
      BY <1>2, <1>5, <3>1, <3>2
  <2>6. \A j \in 1 .. Len(list) : j < i => list[j].end <= vma.start
    <3> SUFFICES ASSUME NEW j \in 1 .. Len(list), j < i PROVE list[j].end <= vma.start
      OBVIOUS
    <3>1. i - 1 \in 1 .. Len(list) /\ list[i - 1].end <= vma.start
      BY <1>2, <2>1
    <3>2. CASE j = i - 1
      BY <3>1, <3>2
    <3>3. CASE j < i - 1
      <4>1. list[j].end <= list[i - 1].start /\ list[i - 1].start < list[i - 1].end
        BY <2>2, <3>1, <3>3
      <4>2. QED
        BY <2>3, <2>4, <3>1, <4>1
    <3>4. QED
      BY <1>2, <3>2, <3>3
  <2>7. \A j \in 1 .. Len(list) : ~(j < i) => vma.end <= list[j].start
    <3> SUFFICES ASSUME NEW j \in 1 .. Len(list), ~(j < i) PROVE vma.end <= list[j].start
      OBVIOUS
    <3>1. i \in 1 .. Len(list) /\ vma.end <= list[i].start
      BY <1>2, <2>1
    <3>2. CASE j = i
      BY <3>1, <3>2
    <3>3. CASE i < j
      <4>1. list[i].end <= list[j].start /\ list[i].start < list[i].end
        BY <2>2, <3>1, <3>3
      <4>2. QED
        BY <2>3, <2>4, <3>1, <4>1
    <3>4. QED
      BY <1>2, <3>2, <3>3
  <2>8. ASSUME NEW j \in DOMAIN new, NEW k \in DOMAIN new, j < k
        PROVE  new[j].end <= new[k].start
    <3>1. CASE j < i /\ k < i
      BY <1>2, <1>4, <1>5, <2>2, <2>8, <3>1
    <3>2. CASE j < i /\ k = i
      BY <1>2, <1>4, <1>5, <2>6, <2>8, <3>2
    <3>3. CASE j < i /\ k > i
      <4>1. j \in 1 .. Len(list) /\ k - 1 \in 1 .. Len(list) /\ j < k - 1
            /\ new[j] = list[j] /\ new[k] = list[k - 1]
        BY <1>2, <1>4, <1>5, <2>8, <3>3
      <4>2. QED
        BY <2>2, <4>1
    <3>4. CASE j = i
      <4>1. k - 1 \in 1 .. Len(list) /\ ~(k - 1 < i) /\ new[j] = vma /\ new[k] = list[k - 1]
        BY <1>2, <1>4, <1>5, <2>8, <3>4
      <4>2. QED
        BY <2>7, <4>1
    <3>5. CASE j > i
      <4>1. j - 1 \in 1 .. Len(list) /\ k - 1 \in 1 .. Len(list) /\ j - 1 < k - 1
            /\ new[j] = list[j - 1] /\ new[k] = list[k - 1]
        BY <1>2, <1>4, <1>5, <2>8, <3>5
      <4>2. QED
        BY <2>2, <4>1
    <3>6. QED
      BY <1>2, <1>5, <2>8, <3>1, <3>2, <3>3, <3>4, <3>5
  <2>9. Apart(list, vma)
    BY <1>5, <2>6, <2>7 DEF Apart, On
  <2>10. QED
    BY <1>4, <2>5, <2>8, <2>9 DEF Sorted
<1>8. QED
  BY <1>4, <1>6, <1>7 DEF Inserted, On

\* dup_mmap gives the new process the same vmas, inserted from the last to the
\* first, and all the pages in them.
LEMMA DupMmap ==
  ASSUME NEW s, Good(s), NEW from \in Procs, NEW to \in Procs, from # to,
         NEW list, Sorted(list)
  PROVE  /\ dup_mmap(s, from, to, list).list = list
         /\ Copied(s, dup_mmap(s, from, to, list).m, from, to, PagesOf(list, Len(list)))
<1> DEFINE n == Len(list)
           rev == Reverse(list)
           D == DOMAIN rev
           X == [m : GoodMem, list : Seq(Vma)]
           base == [m |-> s, list |-> <<>>]
           op(b, i) == [m |-> copy_range(b.m, from, to, rev[i]),
                        list |-> insert_vma_struct(b.list, rev[i])]
           Rec(it) == [u \in SUBSET D |-> IF u = {} THEN base ELSE op(it[u \ {Max(u)}], Max(u))]
           iter == CHOOSE it : it = Rec(it)
           last(k) == {x \in Pages : \E i \in n - k + 1 .. n : x \in Span(list[i])}
           P == [k \in 0 .. n |->
                  {b \in X : /\ Copied(s, b.m, from, to, last(k))
                             /\ Len(b.list) = k
                             /\ \A j \in 1 .. k : b.list[j] = list[n - k + j]}]
<1>1. /\ list \in Seq(Vma) /\ n \in Nat /\ D = 1 .. n /\ DOMAIN list = 1 .. n
      /\ \A i \in 1 .. n : /\ rev[i] = list[n - i + 1] /\ rev[i] \in Vma
                           /\ rev[i].start < rev[i].end
      /\ last(n) = PagesOf(list, n)
  <2>1. list \in Seq(Vma) /\ n \in Nat /\ DOMAIN list = 1 .. n
    BY DEF Sorted
  <2>2. D = 1 .. n /\ \A i \in 1 .. n : rev[i] = list[n - i + 1] /\ n - i + 1 \in 1 .. n
    BY <2>1 DEF Reverse
  <2>3. \A i \in 1 .. n : list[i] \in Vma /\ list[i].start < list[i].end
    BY <2>1 DEF Sorted
  <2>4. n - n + 1 = 1
    BY <2>1
  <2>5. QED
    BY <2>1, <2>2, <2>3, <2>4 DEF PagesOf
<1>2. dup_mmap(s, from, to, list) = iter[D]
  BY DEF dup_mmap, FoldLeft, MapThenFoldSet
<1> HIDE DEF rev, D
<1>3. \A b \in X, k \in 1 .. n :
        /\ op(b, k) \in X
        /\ op(b, k).m = copy_range(b.m, from, to, rev[k])
        /\ op(b, k).list = insert_vma_struct(b.list, rev[k])
        /\ Copied(b.m, op(b, k).m, from, to, Span(rev[k]))
  <2> SUFFICES ASSUME NEW b \in X, NEW k \in 1 .. n
               PROVE  /\ op(b, k) \in X
                      /\ op(b, k).m = copy_range(b.m, from, to, rev[k])
                      /\ op(b, k).list = insert_vma_struct(b.list, rev[k])
                      /\ Copied(b.m, op(b, k).m, from, to, Span(rev[k]))
    OBVIOUS
  <2>1. PICK t, l, v : t = b.m /\ l = b.list /\ v = rev[k]
    OBVIOUS
  <2>2. Good(t) /\ l \in Seq(Vma) /\ v \in Vma /\ v.start < v.end
    BY <1>1, <2>1, GoodMemIsGood
  <2>3. Copied(t, copy_range(t, from, to, v), from, to, Span(v))
    BY <2>2, CopyRange
  <2>4. copy_range(t, from, to, v) \in GoodMem
    BY <2>3, GoodMemIsGood DEF Copied
  <2>5. insert_vma_struct(l, v) \in Seq(Vma)
    BY <2>2, InsertVma DEF Inserted
  <2>6. op(b, k) = [m |-> copy_range(t, from, to, v), list |-> insert_vma_struct(l, v)]
    BY <2>1
  <2> HIDE DEF op
  <2>7. QED
    BY <2>1, <2>3, <2>4, <2>5, <2>6
<1> HIDE DEF op
<1>4. base \in X /\ base.m = s /\ base.list = <<>>
  BY GoodMemIsGood
<1> HIDE DEF base, X
<1>5. \E it : it = Rec(it)
  <2> DEFINE step == [z \in X \X (1 .. n) |-> op(z[1], z[2])]
  <2>1. step \in [X \X (1 .. n) -> X]
    BY <1>3
  <2> HIDE DEF step
  <2>2. PICK g : Loops(g, n, X, base, step)
    BY <1>1, <1>4, <2>1, LoopRecursion
  <2>3. g \in [SUBSET (1 .. n) -> X] /\ g[{}] = base
    BY <2>2 DEF Loops
  <2>4. ASSUME NEW u \in SUBSET (1 .. n), u # {}
        PROVE  g[u] = op(g[u \ {Max(u)}], Max(u))
    <3>1. Max(u) \in 1 .. n /\ g[u \ {Max(u)}] \in X
      BY <1>1, <2>3, <2>4, MaxIsGreatest
    <3>2. g[u] = step[<<g[u \ {Max(u)}], Max(u)>>]
      BY <2>2, <2>4 DEF Loops
    <3>3. QED
      BY <3>1, <3>2 DEF step
  <2>5. g = Rec(g)
    BY <2>3, <2>4, <1>1
  <2> HIDE DEF Rec
  <2>6. QED
    BY <2>5
<1>6. iter = Rec(iter)
  <2> HIDE DEF Rec
  <2>1. QED
    BY <1>5
<1> HIDE DEF iter
<1>7. iter[1 .. 0] \in P[0]
  <2>1. iter[1 .. 0] = base
    BY <1>1, <1>6
  <2>2. last(0) = {}
    BY <1>1
  <2>3. Copied(s, s, from, to, {})
    BY DEF Copied, Kept
  <2>4. 0 \in 0 .. n
    BY <1>1
  <2> HIDE DEF last
  <2>5. /\ base \in X /\ Copied(s, base.m, from, to, last(0)) /\ Len(base.list) = 0
        /\ \A j \in 1 .. 0 : base.list[j] = list[n - 0 + j]
    BY <1>4, <2>2, <2>3
  <2>6. QED
    BY <2>1, <2>4, <2>5
<1>8. ASSUME NEW k \in 1 .. n, iter[1 .. (k - 1)] \in P[k - 1] PROVE iter[1 .. k] \in P[k]
  <2> DEFINE b == iter[1 .. (k - 1)]
             c == iter[1 .. k]
  <2>1. c = op(b, k)
    <3>0. k \in Nat \ {0}
      OBVIOUS
    <3>1. Max(1 .. k) = k /\ (1 .. k) \ {Max(1 .. k)} = 1 .. (k - 1) /\ 1 .. k # {}
      BY <3>0, MaxOfInterval
    <3>2. 1 .. k \in SUBSET D
      BY <1>1
    <3>3. QED
      BY <1>6, <3>1, <3>2
  <2> HIDE DEF b, c
  <2>2. /\ b \in X /\ Copied(s, b.m, from, to, last(k - 1)) /\ Len(b.list) = k - 1
        /\ \A j \in 1 .. k - 1 : b.list[j] = list[n - (k - 1) + j]
    <3>1. k - 1 \in 0 .. n
      BY <1>1
    <3>2. b \in P[k - 1]
      <4> HIDE DEF P
      <4>1. QED
        BY <1>8 DEF b
    <3> HIDE DEF last
    <3>3. QED
      BY <3>1, <3>2
  <2>3. PICK v : v = rev[k]
    OBVIOUS
  <2>4. v \in Vma /\ v = list[n - k + 1] /\ v.start < v.end /\ n - k + 1 \in 1 .. n
    BY <1>1, <2>3
  <2>5. /\ c \in X /\ c.list = insert_vma_struct(b.list, v)
        /\ Copied(b.m, c.m, from, to, Span(v))
    BY <1>3, <2>1, <2>2, <2>3
  <2>6. last(k) = last(k - 1) \cup Span(v) /\ last(k - 1) \in SUBSET Pages /\ Span(v) \in SUBSET Pages
    <3>1. n - k + 1 .. n = (n - (k - 1) + 1 .. n) \cup {n - k + 1}
      BY <1>1
    <3>2. Span(v) \in SUBSET Pages
      BY <2>4, VmaFields
    <3>3. QED
      BY <2>4, <3>1, <3>2
  <2>7. Copied(s, c.m, from, to, last(k))
    <3>1. PICK A, B : A = last(k - 1) /\ B = Span(v)
      OBVIOUS
    <3>2. PICK t, w : t = b.m /\ w = c.m
      OBVIOUS
    <3>3. A \in SUBSET Pages /\ B \in SUBSET Pages /\ last(k) = A \cup B
      BY <2>6, <3>1
    <3> HIDE DEF last
    <3>4. Copied(s, t, from, to, A) /\ Copied(t, w, from, to, B)
      BY <2>2, <2>5, <3>1, <3>2
    <3>5. Copied(s, w, from, to, A \cup B)
      BY <3>3, <3>4, CopiedTwice
    <3>6. QED
      BY <3>2, <3>3, <3>5
  \* the vma goes to the front: the others start where it ends or later
  <2>8. b.list \in Seq(Vma)
    BY <2>2 DEF X
  <2>9. Place(b.list, v) = 1
    <3>1. PICK l, i : l = b.list /\ i = Place(b.list, v)
      OBVIOUS
    <3>2. /\ l \in Seq(Vma) /\ Len(l) = k - 1 /\ i \in 1 .. Len(l) + 1
          /\ \A j \in 1 .. Len(l) : j < i => l[j].start <= v.start
      BY <2>2, <2>4, <2>8, <3>1, PlaceBetween
    <3>3. ASSUME i > 1 PROVE FALSE
      <4>1. 1 \in 1 .. Len(l) /\ l[1].start <= v.start /\ l[1] = list[n - (k - 1) + 1]
        BY <2>2, <3>1, <3>2, <3>3
      <4>2. n - (k - 1) + 1 \in 1 .. n /\ n - k + 1 < n - (k - 1) + 1
        BY <1>1, <3>2, <3>3
      <4>3. v.end <= l[1].start
        BY <1>1, <2>4, <4>1, <4>2 DEF Sorted
      <4>4. v.end \in Int /\ v.start \in Int /\ l[1].start \in Int
        BY <1>1, <2>4, <4>1, <4>2, VmaFields, VmmAssumption DEF Pages
      <4>5. QED
        BY <2>4, <4>1, <4>3, <4>4
    <3>4. QED
      BY <3>1, <3>2, <3>3
  <2>10. /\ Len(c.list) = k
         /\ \A j \in 1 .. k : c.list[j] = IF j = 1 THEN v ELSE b.list[j - 1]
    <3>1. PICK l, new : l = b.list /\ new = c.list
      OBVIOUS
    <3>2. l \in Seq(Vma) /\ new = insert_vma_struct(l, v) /\ Len(l) = k - 1 /\ Place(l, v) = 1
      BY <2>2, <2>5, <2>8, <2>9, <3>1
    <3>3. /\ new \in Seq(Vma) /\ Len(new) = Len(l) + 1
          /\ \A j \in 1 .. Len(l) + 1 :
               new[j] = IF j < 1 THEN l[j] ELSE IF j = 1 THEN v ELSE l[j - 1]
      <4>1. /\ insert_vma_struct(l, v) \in Seq(Vma)
            /\ Len(insert_vma_struct(l, v)) = Len(l) + 1
            /\ \A j \in 1 .. Len(l) + 1 : insert_vma_struct(l, v)[j] =
                 IF j < 1 THEN l[j] ELSE IF j = 1 THEN v ELSE l[j - 1]
        <5>1. 1 \in 1 .. Len(l) + 1 /\ Len(l) \in Nat
          BY <3>2
        <5>2. QED
          BY <2>4, <3>2, <5>1, InsertVmaElements
      <4>2. QED
        BY <3>2, <4>1
    <3>4. \A j \in 1 .. k : new[j] = IF j = 1 THEN v ELSE l[j - 1]
      BY <3>2, <3>3
    <3>5. QED
      BY <3>1, <3>2, <3>3, <3>4
  <2>11. \A j \in 1 .. k : c.list[j] = list[n - k + j]
    <3> SUFFICES ASSUME NEW j \in 1 .. k PROVE c.list[j] = list[n - k + j]
      OBVIOUS
    <3>1. CASE j = 1
      BY <2>4, <2>10, <3>1
    <3>2. CASE j # 1
      <4>1. j - 1 \in 1 .. k - 1 /\ n - (k - 1) + (j - 1) = n - k + j
        <5>1. n \in Nat /\ j \in Nat /\ k \in Nat /\ j >= 1 /\ j <= k
          BY <1>1
        <5> HIDE DEF n
        <5>2. QED
          BY <3>2, <5>1
      <4>2. QED
        BY <2>2, <2>10, <3>2, <4>1
    <3>3. QED
      BY <3>1, <3>2
  <2>12. k \in 0 .. n
    BY <1>1
  <2> HIDE DEF last
  <2>13. QED
    BY <2>5, <2>7, <2>10, <2>11, <2>12 DEF c
<1>9. iter[1 .. n] \in P[n]
  <2> HIDE DEF P
  <2>1. QED
    BY <1>1, <1>7, <1>8, LoopInvariant
<1> DEFINE d == iter[D]
<1>10. /\ d \in X /\ Copied(s, d.m, from, to, PagesOf(list, n)) /\ Len(d.list) = n
       /\ \A j \in 1 .. n : d.list[j] = list[n - n + j]
  <2> HIDE DEF last
  <2>1. QED
    BY <1>1, <1>9
<1> HIDE DEF d
<1>11. d.list = list
  <2>1. \A j \in 1 .. n : n - n + j = j
    BY <1>1
  <2>2. d.list \in Seq(Vma) /\ \A j \in 1 .. n : d.list[j] = list[j]
    BY <1>10, <2>1 DEF X
  <2>3. QED
    BY <1>1, <1>10, <2>2
<1>12. QED
  BY <1>2, <1>10, <1>11 DEF d

-----------------------------------------------------------------------------
\* Some pages of process p have become pages of its own with the same right and
\* contents; what an allocation that fails leaves undone is as it was.
Filled(s, t, p, pages, perm, v) ==
  /\ Good(t) /\ (s.oom => t.oom)
  /\ \A q \in Procs, x \in Pages : ~(q = p /\ x \in pages) => Same(s, t, q, x)
  /\ \A x \in pages : Same(s, t, p, x) \/ (t.pte[p][x] # NoPte /\ t.pte[p][x].perm = perm)
  /\ ~t.oom => \A x \in pages : t.pte[p][x] # NoPte /\ Cell(t, p, x) = v

LEMMA FilledTwice ==
  ASSUME NEW s, NEW t, NEW w, NEW p \in Procs, NEW A \in SUBSET Pages, NEW B \in SUBSET Pages,
         NEW perm, NEW v, Filled(s, t, p, A, perm, v), Filled(t, w, p, B, perm, v)
  PROVE  Filled(s, w, p, A \cup B, perm, v)
<1>1. Good(w) /\ (s.oom => w.oom) /\ (t.oom => w.oom)
  BY DEF Filled
<1>2. ASSUME NEW q \in Procs, NEW x \in Pages, ~(q = p /\ x \in A \cup B)
      PROVE  Same(s, w, q, x)
  <2>1. Same(s, t, q, x) /\ Same(t, w, q, x)
    BY <1>2 DEF Filled
  <2>2. QED
    BY <2>1 DEF Same
<1>3. ASSUME NEW x \in A \cup B
      PROVE  /\ Same(s, w, p, x) \/ (w.pte[p][x] # NoPte /\ w.pte[p][x].perm = perm)
             /\ ~w.oom => w.pte[p][x] # NoPte /\ Cell(w, p, x) = v
  <2>1. x \in Pages
    OBVIOUS
  <2>2. /\ Same(s, t, p, x) \/ (t.pte[p][x] # NoPte /\ t.pte[p][x].perm = perm)
        /\ x \in A /\ ~t.oom => t.pte[p][x] # NoPte /\ Cell(t, p, x) = v
    BY <2>1 DEF Filled
  <2>3. /\ Same(t, w, p, x) \/ (w.pte[p][x] # NoPte /\ w.pte[p][x].perm = perm)
        /\ x \in B /\ ~w.oom => w.pte[p][x] # NoPte /\ Cell(w, p, x) = v
        /\ x \notin B => Same(t, w, p, x)
    BY <2>1 DEF Filled
  <2>4. QED
    BY <1>1, <1>3, <2>2, <2>3 DEF Same
<1>4. QED
  BY <1>1, <1>2, <1>3 DEF Filled

LEMMA NotFilled ==
  ASSUME NEW s, Good(s), NEW p, NEW perm, NEW v
  PROVE  Filled(s, s, p, {}, perm, v)
  BY DEF Filled, Same

LEMMA AllocFills ==
  ASSUME NEW s, Good(s), NEW p \in Procs, NEW a \in Pages, NEW perm \in SUBSET Rights
  PROVE  Filled(s, pgdir_alloc_page(s, p, a, perm), p, {a}, perm, Leftover)
<1> DEFINE t == pgdir_alloc_page(s, p, a, perm)
<1>1. /\ Good(t)
      /\ \A q \in Procs, x \in Pages : <<q, x>> # <<p, a>> => Same(s, t, q, x)
      /\ s.free = {} => t.oom = TRUE /\ Same(s, t, p, a)
      /\ s.free # {} => /\ t.oom = s.oom /\ t.pte[p][a] # NoPte /\ t.pte[p][a].perm = perm
                        /\ Alone(t, p, a) /\ Cell(t, p, a) = Leftover
  <2>1. Allocated(s, t, p, a, perm)
    BY PageAlloc
  <2> HIDE DEF t
  <2>2. QED
    BY <2>1 DEF Allocated
<1> HIDE DEF t
<1>2. Filled(s, t, p, {a}, perm, Leftover)
  BY <1>1 DEF Filled
<1>3. QED
  BY <1>2 DEF t

\* One page of a segment: a new frame with the program's bytes.
LEMMA LoadPage ==
  ASSUME NEW s, Good(s), NEW p \in Procs, NEW a \in Pages, NEW perm \in SUBSET Rights,
         NEW u, u = pgdir_alloc_page(s, p, a, perm),
         NEW t, t = IF s.oom \/ u.oom THEN u ELSE [u EXCEPT !.data[u.pte[p][a].frame] = Program]
  PROVE  Filled(s, t, p, {a}, perm, Program)
<1>1. /\ Good(u)
      /\ \A q \in Procs, x \in Pages : <<q, x>> # <<p, a>> => Same(s, u, q, x)
      /\ s.free = {} => u.oom = TRUE /\ Same(s, u, p, a)
      /\ s.free # {} => /\ u.oom = s.oom /\ u.pte[p][a] # NoPte /\ u.pte[p][a].perm = perm
                        /\ Alone(u, p, a) /\ Cell(u, p, a) = Leftover
  <2>1. Allocated(s, u, p, a, perm)
    BY PageAlloc
  <2>2. QED
    BY <2>1 DEF Allocated
<1>2. CASE s.oom \/ u.oom
  <2>1. u.oom /\ t = u
    BY <1>1, <1>2
  <2>2. QED
    BY <1>1, <2>1 DEF Filled
<1>3. CASE ~(s.oom \/ u.oom)
  <2>1. t = [u EXCEPT !.data[u.pte[p][a].frame] = Program]
    BY <1>3
  <2>2. Program \in Data /\ u.pte[p][a] # NoPte /\ Alone(u, p, a) /\ u.pte[p][a].perm = perm
    BY <1>1, <1>3 DEF Data
  <2>3. /\ Good(t) /\ t.oom = u.oom /\ t.pte = u.pte
        /\ Cell(t, p, a) = Program
        /\ \A q \in Procs, x \in Pages : <<q, x>> # <<p, a>> => Same(u, t, q, x)
    BY <1>1, <2>1, <2>2, WriteGood
  <2>4. \A q \in Procs, x \in Pages : <<q, x>> # <<p, a>> => Same(s, t, q, x)
    BY <1>1, <2>3 DEF Same
  <2>5. QED
    BY <1>1, <1>3, <2>2, <2>3, <2>4 DEF Filled
<1>4. QED
  BY <1>2, <1>3

LEMMA SegmentPermRights ==
  ASSUME NEW flags \in SUBSET Rights
  PROVE  /\ SegmentPerm(flags) \in SUBSET Rights
         /\ "w" \in SegmentPerm(flags) => "w" \in flags
  BY DEF SegmentPerm, Rights


\* load_icode's loop over a segment fills all of its pages.
LEMMA LoadSegment ==
  ASSUME NEW s, Good(s), NEW p \in Procs, NEW seg \in Vma, seg.start < seg.end
  PROVE  Filled(s, load_segment(s, p, seg), p, Span(seg), SegmentPerm(seg.flags), Program)
<1> DEFINE n == seg.end - seg.start
           D == DOMAIN [i \in 1 .. n |-> i]
           perm0 == SegmentPerm(seg.flags)
           page(k) == seg.start + [i \in 1 .. n |-> i][k] - 1
           fill(t, a) ==
             LET u == pgdir_alloc_page(t, p, a, SegmentPerm(seg.flags))
             IN IF t.oom \/ u.oom THEN u ELSE [u EXCEPT !.data[u.pte[p][a].frame] = Program]
           op(t, k) == fill(t, page(k))
           upto(k) == {x \in Pages : seg.start <= x /\ x < seg.start + k}
           Rec(it) == [u \in SUBSET D |-> IF u = {} THEN s ELSE op(it[u \ {Max(u)}], Max(u))]
           iter == CHOOSE it : it = Rec(it)
           P == [k \in 0 .. n |-> {t \in GoodMem : Filled(s, t, p, upto(k), perm0, Program)}]
<1>1. /\ n \in Nat /\ D = 1 .. n /\ seg.start \in Nat /\ NPages \in Nat
      /\ \A k \in 1 .. n : page(k) = seg.start + k - 1 /\ page(k) \in Pages
      /\ upto(n) = Span(seg)
  <2>1. seg.start \in Nat /\ seg.end \in Nat /\ NPages \in Nat /\ seg.end <= NPages
    BY VmaFields, VmmAssumption DEF Pages
  <2>2. QED
    BY <2>1 DEF Pages, Span
<1>11. perm0 \in SUBSET Rights
  <2>1. seg.flags \in SUBSET Rights
    BY VmaFields
  <2>2. QED
    BY <2>1, SegmentPermRights
<1>2. load_segment(s, p, seg) = iter[D]
  BY DEF load_segment, FoldLeft, MapThenFoldSet
<1>3. \A t \in GoodMem, k \in 1 .. n : /\ op(t, k) \in GoodMem
                                       /\ Filled(t, op(t, k), p, {page(k)}, perm0, Program)
  <2> SUFFICES ASSUME NEW t \in GoodMem, NEW k \in 1 .. n
               PROVE  op(t, k) \in GoodMem /\ Filled(t, op(t, k), p, {page(k)}, perm0, Program)
    OBVIOUS
  <2>1. PICK a : a = page(k)
    OBVIOUS
  <2>2. PICK u : u = pgdir_alloc_page(t, p, a, perm0)
    OBVIOUS
  <2>3. PICK w : w = fill(t, a)
    OBVIOUS
  <2>4. w = IF t.oom \/ u.oom THEN u ELSE [u EXCEPT !.data[u.pte[p][a].frame] = Program]
    BY <2>2, <2>3
  <2>5. a \in Pages /\ op(t, k) = w /\ Good(t)
    BY <1>1, <2>1, <2>3, GoodMemIsGood
  <2> HIDE DEF op, page, fill, perm0
  <2>6. Filled(t, w, p, {a}, perm0, Program)
    BY <1>11, <2>2, <2>4, <2>5, LoadPage
  <2>7. w \in GoodMem
    BY <2>6, GoodMemIsGood DEF Filled
  <2>8. QED
    BY <2>1, <2>5, <2>6, <2>7
<1> HIDE DEF perm0, fill
<1> HIDE DEF op, page
<1>4. \E it : it = Rec(it)
  <2> DEFINE step == [z \in GoodMem \X (1 .. n) |-> op(z[1], z[2])]
  <2>1. step \in [GoodMem \X (1 .. n) -> GoodMem]
    BY <1>3
  <2>2. s \in GoodMem
    BY GoodMemIsGood
  <2> HIDE DEF step
  <2>3. PICK g : Loops(g, n, GoodMem, s, step)
    BY <1>1, <2>1, <2>2, LoopRecursion
  <2>4. g \in [SUBSET (1 .. n) -> GoodMem] /\ g[{}] = s
    BY <2>3 DEF Loops
  <2>5. ASSUME NEW u \in SUBSET (1 .. n), u # {}
        PROVE  g[u] = op(g[u \ {Max(u)}], Max(u))
    <3>1. Max(u) \in 1 .. n /\ g[u \ {Max(u)}] \in GoodMem
      BY <1>1, <2>4, <2>5, MaxIsGreatest
    <3>2. g[u] = step[<<g[u \ {Max(u)}], Max(u)>>]
      BY <2>3, <2>5 DEF Loops
    <3>3. QED
      BY <3>1, <3>2 DEF step
  <2>6. g = Rec(g)
    BY <2>4, <2>5, <1>1
  <2> HIDE DEF Rec
  <2>7. QED
    BY <2>6
<1>5. iter = Rec(iter)
  <2> HIDE DEF Rec
  <2>1. QED
    BY <1>4
<1> HIDE DEF iter
<1>6. iter[1 .. 0] \in P[0]
  <2>1. iter[1 .. 0] = s
    BY <1>1, <1>5
  <2>2. upto(0) = {} /\ 0 \in 0 .. n
    BY <1>1 DEF Pages
  <2>3. Filled(s, s, p, {}, perm0, Program) /\ s \in GoodMem
    BY GoodMemIsGood, NotFilled
  <2> HIDE DEF upto
  <2>4. QED
    BY <2>1, <2>2, <2>3
<1>7. ASSUME NEW k \in 1 .. n, iter[1 .. (k - 1)] \in P[k - 1] PROVE iter[1 .. k] \in P[k]
  <2> DEFINE t == iter[1 .. (k - 1)]
             w == iter[1 .. k]
  <2>1. w = op(t, k)
    <3>0. k \in Nat \ {0}
      OBVIOUS
    <3>1. Max(1 .. k) = k /\ (1 .. k) \ {Max(1 .. k)} = 1 .. (k - 1) /\ 1 .. k # {}
      BY <3>0, MaxOfInterval
    <3>2. 1 .. k \in SUBSET D
      BY <1>1
    <3> HIDE DEF D
    <3>3. QED
      BY <1>5, <3>1, <3>2
  <2> HIDE DEF t, w
  <2>2. t \in GoodMem /\ Filled(s, t, p, upto(k - 1), perm0, Program)
    <3>1. k - 1 \in 0 .. n
      BY <1>1
    <3>2. t \in P[k - 1]
      <4> HIDE DEF P
      <4>1. QED
        BY <1>7 DEF t
    <3> HIDE DEF upto
    <3>3. QED
      BY <3>1, <3>2
  <2>3. w \in GoodMem /\ Filled(t, w, p, {page(k)}, perm0, Program)
    BY <1>3, <2>1, <2>2
  <2>4. upto(k) = upto(k - 1) \cup {page(k)} /\ upto(k - 1) \in SUBSET Pages
        /\ {page(k)} \in SUBSET Pages
    BY <1>1 DEF Pages
  <2>5. PICK A, B : A = upto(k - 1) /\ B = {page(k)}
    OBVIOUS
  <2>6. upto(k) = A \cup B /\ A \in SUBSET Pages /\ B \in SUBSET Pages
    <3> HIDE DEF upto
    <3>1. QED
      BY <2>4, <2>5
  <2>7. k \in 0 .. n
    BY <1>1
  <2> HIDE DEF upto
  <2>8. Filled(s, t, p, A, perm0, Program) /\ Filled(t, w, p, B, perm0, Program)
    BY <2>2, <2>3, <2>5
  <2>9. Filled(s, w, p, A \cup B, perm0, Program)
    BY <2>6, <2>8, FilledTwice
  <2>10. QED
    BY <2>3, <2>6, <2>7, <2>9 DEF w
<1>8. iter[1 .. n] \in P[n]
  <2> HIDE DEF P
  <2>1. QED
    BY <1>1, <1>6, <1>7, LoopInvariant
<1> HIDE DEF upto
<1>9. iter[D] \in {t \in GoodMem : Filled(s, t, p, Span(seg), perm0, Program)}
  BY <1>1, <1>8
<1>10. QED
  BY <1>2, <1>9 DEF perm0

\* The pages load_icode gives the stack at once.
StackTop == NPages - StackNow .. NPages - 1

LEMMA LoadStack ==
  ASSUME NEW s, Good(s), NEW p \in Procs
  PROVE  Filled(s, load_stack(s, p), p, StackTop, {"r", "w", "x"}, Leftover)
<1> DEFINE n == StackNow
           D == DOMAIN [i \in 1 .. n |-> i]
           perm0 == {"r", "w", "x"}
           page(k) == NPages - [i \in 1 .. n |-> i][k]
           op(t, k) == pgdir_alloc_page(t, p, page(k), {"r", "w", "x"})
           upto(k) == NPages - k .. NPages - 1
           Rec(it) == [u \in SUBSET D |-> IF u = {} THEN s ELSE op(it[u \ {Max(u)}], Max(u))]
           iter == CHOOSE it : it = Rec(it)
           P == [k \in 0 .. n |-> {t \in GoodMem : Filled(s, t, p, upto(k), perm0, Leftover)}]
<1>1. /\ n \in Nat /\ D = 1 .. n /\ NPages \in Nat /\ n < NPages
      /\ \A k \in 1 .. n : page(k) = NPages - k /\ page(k) \in Pages
  <2>1. StackNow \in Nat /\ StackNow < NPages /\ NPages \in Nat
    BY VmmAssumption
  <2>2. QED
    BY <2>1 DEF Pages
<1>2. load_stack(s, p) = iter[D]
  BY DEF load_stack, FoldLeft, MapThenFoldSet
<1>3. \A t \in GoodMem, k \in 1 .. n : /\ op(t, k) \in GoodMem
                                       /\ Filled(t, op(t, k), p, {page(k)}, perm0, Leftover)
  <2> SUFFICES ASSUME NEW t \in GoodMem, NEW k \in 1 .. n
               PROVE  op(t, k) \in GoodMem /\ Filled(t, op(t, k), p, {page(k)}, perm0, Leftover)
    OBVIOUS
  <2>1. PICK a : a = page(k)
    OBVIOUS
  <2>2. PICK w : w = pgdir_alloc_page(t, p, a, perm0)
    OBVIOUS
  <2>3. a \in Pages /\ op(t, k) = w /\ Good(t)
    BY <1>1, <2>1, <2>2, GoodMemIsGood
  <2>4. perm0 \in SUBSET Rights
    BY DEF Rights
  <2> HIDE DEF op, page, perm0
  <2>5. Filled(t, w, p, {a}, perm0, Leftover)
    BY <2>2, <2>3, <2>4, AllocFills
  <2>6. w \in GoodMem
    BY <2>5, GoodMemIsGood DEF Filled
  <2>7. QED
    BY <2>1, <2>3, <2>5, <2>6
<1> HIDE DEF perm0
<1> HIDE DEF op, page
<1>4. \E it : it = Rec(it)
  <2> DEFINE step == [z \in GoodMem \X (1 .. n) |-> op(z[1], z[2])]
  <2>1. step \in [GoodMem \X (1 .. n) -> GoodMem]
    BY <1>3
  <2>2. s \in GoodMem
    BY GoodMemIsGood
  <2> HIDE DEF step
  <2>3. PICK g : Loops(g, n, GoodMem, s, step)
    BY <1>1, <2>1, <2>2, LoopRecursion
  <2>4. g \in [SUBSET (1 .. n) -> GoodMem] /\ g[{}] = s
    BY <2>3 DEF Loops
  <2>5. ASSUME NEW u \in SUBSET (1 .. n), u # {}
        PROVE  g[u] = op(g[u \ {Max(u)}], Max(u))
    <3>1. Max(u) \in 1 .. n /\ g[u \ {Max(u)}] \in GoodMem
      BY <1>1, <2>4, <2>5, MaxIsGreatest
    <3>2. g[u] = step[<<g[u \ {Max(u)}], Max(u)>>]
      BY <2>3, <2>5 DEF Loops
    <3>3. QED
      BY <3>1, <3>2 DEF step
  <2>6. g = Rec(g)
    BY <2>4, <2>5, <1>1
  <2> HIDE DEF Rec
  <2>7. QED
    BY <2>6
<1>5. iter = Rec(iter)
  <2> HIDE DEF Rec
  <2>1. QED
    BY <1>4
<1> HIDE DEF iter
<1>6. iter[1 .. 0] \in P[0]
  <2>1. iter[1 .. 0] = s
    BY <1>1, <1>5
  <2>2. upto(0) = {} /\ 0 \in 0 .. n
    BY <1>1
  <2>3. Filled(s, s, p, {}, perm0, Leftover) /\ s \in GoodMem
    BY GoodMemIsGood, NotFilled
  <2> HIDE DEF upto
  <2>4. QED
    BY <2>1, <2>2, <2>3
<1>7. ASSUME NEW k \in 1 .. n, iter[1 .. (k - 1)] \in P[k - 1] PROVE iter[1 .. k] \in P[k]
  <2> DEFINE t == iter[1 .. (k - 1)]
             w == iter[1 .. k]
  <2>1. w = op(t, k)
    <3>0. k \in Nat \ {0}
      OBVIOUS
    <3>1. Max(1 .. k) = k /\ (1 .. k) \ {Max(1 .. k)} = 1 .. (k - 1) /\ 1 .. k # {}
      BY <3>0, MaxOfInterval
    <3>2. 1 .. k \in SUBSET D
      BY <1>1
    <3> HIDE DEF D
    <3>3. QED
      BY <1>5, <3>1, <3>2
  <2> HIDE DEF t, w
  <2>2. t \in GoodMem /\ Filled(s, t, p, upto(k - 1), perm0, Leftover)
    <3>1. k - 1 \in 0 .. n
      BY <1>1
    <3>2. t \in P[k - 1]
      <4> HIDE DEF P
      <4>1. QED
        BY <1>7 DEF t
    <3> HIDE DEF upto
    <3>3. QED
      BY <3>1, <3>2
  <2>3. w \in GoodMem /\ Filled(t, w, p, {page(k)}, perm0, Leftover)
    BY <1>3, <2>1, <2>2
  <2>4. upto(k) = upto(k - 1) \cup {page(k)} /\ upto(k - 1) \in SUBSET Pages
        /\ {page(k)} \in SUBSET Pages
    <3>1. n \in Nat /\ k \in 1 .. n /\ NPages \in Nat /\ n < NPages /\ page(k) = NPages - k
      BY <1>1
    <3>2. upto(k) = (NPages - (k - 1) .. NPages - 1) \cup {NPages - k}
      BY <3>1
    <3>3. QED
      BY <3>1, <3>2 DEF Pages
  <2>5. PICK A, B : A = upto(k - 1) /\ B = {page(k)}
    OBVIOUS
  <2>6. upto(k) = A \cup B /\ A \in SUBSET Pages /\ B \in SUBSET Pages
    <3> HIDE DEF upto
    <3>1. QED
      BY <2>4, <2>5
  <2>7. k \in 0 .. n
    BY <1>1
  <2> HIDE DEF upto
  <2>8. Filled(s, t, p, A, perm0, Leftover) /\ Filled(t, w, p, B, perm0, Leftover)
    BY <2>2, <2>3, <2>5
  <2>9. Filled(s, w, p, A \cup B, perm0, Leftover)
    BY <2>6, <2>8, FilledTwice
  <2>10. QED
    BY <2>3, <2>6, <2>7, <2>9 DEF w
<1>8. iter[1 .. n] \in P[n]
  <2> HIDE DEF P
  <2>1. QED
    BY <1>1, <1>6, <1>7, LoopInvariant
<1> HIDE DEF upto
<1>9. iter[D] \in {t \in GoodMem : Filled(s, t, p, StackTop, perm0, Leftover)}
  BY <1>1, <1>8 DEF upto, StackTop
<1>10. QED
  BY <1>2, <1>9 DEF perm0


-----------------------------------------------------------------------------
\* find_vma answers with a vma that covers the address, from the list or the cache,
\* and with none only if there is none.
LEMMA FindVma ==
  ASSUME NEW list \in Seq(Vma), NEW cache \in Vma \cup {NoVma}, NEW a \in Int,
         NEW v, v = find_vma(list, cache, a)
  PROVE  /\ v \in Vma \cup {NoVma}
         /\ v # NoVma => Covers(v, a) /\ (v = cache \/ On(list, v))
         /\ v = NoVma => \A i \in DOMAIN list : ~Covers(list[i], a)
<1> DEFINE hits == {i \in DOMAIN list : Covers(list[i], a)}
<1>1. v = IF Covers(cache, a) THEN cache ELSE IF hits = {} THEN NoVma ELSE list[Min(hits)]
  BY DEF find_vma
<1>2. hits # {} => Min(hits) \in hits
  <2>1. hits \subseteq Nat
    OBVIOUS
  <2> HIDE DEF hits
  <2>2. QED
    BY <2>1, MinIsLeast
<1>3. CASE Covers(cache, a)
  <2>1. v = cache
    BY <1>1, <1>3
  <2>2. cache # NoVma
    BY <1>3 DEF Covers
  <2>3. QED
    BY <1>3, <2>1, <2>2
<1>4. CASE ~Covers(cache, a) /\ hits = {}
  BY <1>1, <1>4
<1>5. CASE ~Covers(cache, a) /\ hits # {}
  <2>1. PICK i : i = Min(hits)
    OBVIOUS
  <2>2. i \in DOMAIN list /\ Covers(list[i], a) /\ v = list[i]
    BY <1>1, <1>2, <1>5, <2>1
  <2>3. list[i] \in Vma /\ v # NoVma
    BY <2>2, VmaFields
  <2>4. QED
    BY <2>2, <2>3 DEF On
<1>6. QED
  BY <1>3, <1>4, <1>5

\* An address space under construction.
Space == [m : GoodMem, list : {l \in Seq(Vma) : Sorted(l)}, cache : Vma \cup {NoVma},
          ret : {"ok", "E_INVAL", "assert"}]

\* c is b with a vma and its pages, or b with the reason why not.
Added(b, c, vma, loaded) ==
  /\ c \in Space
  /\ c.cache = b.cache \/ On(b.list, c.cache)
  /\ c.ret = "ok" => /\ b.ret = "ok" /\ c.m = loaded /\ vma.start < vma.end
                     /\ \A e : On(c.list, e) <=> e = vma \/ On(b.list, e)
                     /\ Apart(b.list, vma)
  /\ c.ret # "ok" => c.m = b.m /\ c.list = b.list

LEMMA AddVma ==
  ASSUME NEW b \in Space, NEW vma \in Vma, NEW loaded,
         vma.start < vma.end => loaded \in GoodMem
  PROVE  Added(b, add_vma(b, vma, loaded), vma, loaded)
<1> DEFINE c == mm_map(b, vma)
           hit == find_vma(b.list, b.cache, vma.start)
           d == add_vma(b, vma, loaded)
<1>1. /\ b.m \in GoodMem /\ b.list \in Seq(Vma) /\ Sorted(b.list) /\ b.cache \in Vma \cup {NoVma}
      /\ b.ret \in {"ok", "E_INVAL", "assert"}
      /\ b = [m |-> b.m, list |-> b.list, cache |-> b.cache, ret |-> b.ret]
  BY DEF Space
<1>2. vma.start \in Int /\ vma.end \in Int
  BY VmaFields, VmmAssumption DEF Pages
<1>3. /\ hit \in Vma \cup {NoVma}
      /\ hit # NoVma => hit = b.cache \/ On(b.list, hit)
  <2>1. PICK l, e, a, h : l = b.list /\ e = b.cache /\ a = vma.start /\ h = hit
    OBVIOUS
  <2>2. l \in Seq(Vma) /\ e \in Vma \cup {NoVma} /\ a \in Int /\ h = find_vma(l, e, a)
    BY <1>1, <1>2, <2>1
  <2>3. /\ h \in Vma \cup {NoVma}
        /\ h # NoVma => Covers(h, a) /\ (h = e \/ On(l, h))
        /\ h = NoVma => \A i \in DOMAIN l : ~Covers(l[i], a)
    BY <2>2, FindVma
  <2>4. QED
    BY <2>1, <2>3
<1>4. CASE b.ret # "ok"
  <2>1. d = b
    BY <1>4 DEF add_vma
  <2> HIDE DEF d
  <2>2. Added(b, d, vma, loaded)
    BY <1>4, <2>1 DEF Added
  <2>3. QED
    BY <2>2 DEF d
<1>5. CASE b.ret = "ok" /\ hit # NoVma /\ vma.end > hit.start
  <2>1. c = [b EXCEPT !.ret = "E_INVAL", !.cache = hit]
    BY <1>5 DEF mm_map
  <2> HIDE DEF hit
  <2>2. c = [m |-> b.m, list |-> b.list, cache |-> hit, ret |-> "E_INVAL"]
    BY <1>1, <2>1
  <2> HIDE DEF c
  <2>3. d = c
    BY <1>5, <2>2 DEF add_vma, c
  <2>4. c.m = b.m /\ c.list = b.list /\ c.cache = hit /\ c.ret = "E_INVAL" /\ c \in Space
    BY <1>1, <1>3, <2>2 DEF Space
  <2>5. Added(b, c, vma, loaded)
    BY <1>3, <1>5, <2>4 DEF Added
  <2>6. QED
    BY <2>3, <2>5
<1>6. CASE b.ret = "ok" /\ ~(hit # NoVma /\ vma.end > hit.start) /\ insert_vma_fails(b.list, vma)
  <2>1. c = [b EXCEPT !.ret = "assert"]
    BY <1>6 DEF mm_map
  <2>2. c = [m |-> b.m, list |-> b.list, cache |-> b.cache, ret |-> "assert"]
    BY <1>1, <2>1
  <2> HIDE DEF c
  <2>3. d = c
    BY <1>6, <2>2 DEF add_vma, c
  <2>4. c.m = b.m /\ c.list = b.list /\ c.cache = b.cache /\ c.ret = "assert" /\ c \in Space
    BY <1>1, <2>2 DEF Space
  <2>5. Added(b, c, vma, loaded)
    BY <2>4 DEF Added
  <2>6. QED
    BY <2>3, <2>5
<1>7. CASE b.ret = "ok" /\ ~(hit # NoVma /\ vma.end > hit.start) /\ ~insert_vma_fails(b.list, vma)
  <2>1. PICK new : new = insert_vma_struct(b.list, vma)
    OBVIOUS
  <2>2. c = [b EXCEPT !.list = new]
    BY <1>7, <2>1 DEF mm_map
  <2>3. c = [m |-> b.m, list |-> new, cache |-> b.cache, ret |-> "ok"]
    BY <1>1, <1>7, <2>2
  <2> HIDE DEF c
  <2>4. d = [c EXCEPT !.m = loaded]
    BY <1>7, <2>3 DEF add_vma, c
  <2>5. d = [m |-> loaded, list |-> new, cache |-> b.cache, ret |-> "ok"]
    BY <2>3, <2>4
  <2> HIDE DEF d
  <2>6. vma.start < vma.end
    BY <1>2, <1>7 DEF insert_vma_fails
  <2>7. /\ new \in Seq(Vma) /\ Sorted(new) /\ Apart(b.list, vma)
        /\ \A e : On(new, e) <=> e = vma \/ On(b.list, e)
    <3>1. PICK l : l = b.list
      OBVIOUS
    <3>2. l \in Seq(Vma) /\ new = insert_vma_struct(l, vma) /\ Sorted(l) /\ ~insert_vma_fails(l, vma)
      BY <1>1, <1>7, <2>1, <3>1
    <3>3. Inserted(l, vma, new)
      BY <3>2, InsertVma
    <3>4. QED
      BY <3>1, <3>2, <3>3 DEF Inserted
  <2>8. d.m = loaded /\ d.list = new /\ d.cache = b.cache /\ d.ret = "ok" /\ d \in Space
    BY <1>1, <2>5, <2>6, <2>7 DEF Space
  <2>9. Added(b, d, vma, loaded)
    BY <1>7, <2>6, <2>7, <2>8 DEF Added
  <2>10. QED
    BY <2>9 DEF d
<1>8. QED
  BY <1>4, <1>5, <1>6, <1>7

\* What load_icode keeps while it builds the address space of p from s: no other
\* process sees anything of it, and every mapped page lies in a vma.
Grown(s, b, p) ==
  /\ b \in Space /\ (s.oom => b.m.oom)
  /\ \A q \in Procs, x \in Pages : q # p => Same(s, b.m, q, x)
  /\ Mapped(b.m.pte[p], b.list)
  /\ b.cache # NoVma => On(b.list, b.cache)

LEMMA Grow ==
  ASSUME NEW s, NEW b, NEW p \in Procs, Grown(s, b, p), NEW vma \in Vma, NEW loaded, NEW c,
         Added(b, c, vma, loaded), NEW pages \in SUBSET Span(vma), NEW perm, NEW v,
         vma.start < vma.end => Filled(b.m, loaded, p, pages, perm, v),
         "w" \in perm => "w" \in vma.flags
  PROVE  Grown(s, c, p)
<1>1. c \in Space /\ c.list \in Seq(Vma)
  BY DEF Added, Space
<1>2. CASE c.ret # "ok"
  <2>1. c.m = b.m /\ c.list = b.list /\ (c.cache = b.cache \/ On(b.list, c.cache))
    BY <1>2 DEF Added
  <2>2. QED
    BY <1>1, <2>1 DEF Grown
<1>3. CASE c.ret = "ok"
  <2>1. /\ c.m = loaded /\ Filled(b.m, c.m, p, pages, perm, v)
        /\ \A e : On(c.list, e) <=> e = vma \/ On(b.list, e)
        /\ c.cache = b.cache \/ On(b.list, c.cache)
    BY <1>3 DEF Added
  <2>2. \A q \in Procs, x \in Pages : q # p => Same(s, c.m, q, x)
    BY <2>1 DEF Grown, Filled, Same
  <2>3. s.oom => c.m.oom
    BY <2>1 DEF Grown, Filled
  <2>4. c.cache # NoVma => On(c.list, c.cache)
    BY <2>1 DEF Grown
  <2>5. ASSUME NEW x \in Pages, c.m.pte[p][x] # NoPte
        PROVE  \E i \in DOMAIN c.list : /\ Covers(c.list[i], x)
                                        /\ "w" \in c.m.pte[p][x].perm => "w" \in c.list[i].flags
    <3>1. ASSUME NEW e, On(c.list, e), Covers(e, x), "w" \in c.m.pte[p][x].perm => "w" \in e.flags
          PROVE  \E i \in DOMAIN c.list : /\ Covers(c.list[i], x)
                                          /\ "w" \in c.m.pte[p][x].perm => "w" \in c.list[i].flags
      BY <3>1 DEF On
    <3>2. CASE Same(b.m, c.m, p, x)
      <4>1. c.m.pte[p][x] = b.m.pte[p][x]
        BY <3>2 DEF Same
      <4>2. PICK i \in DOMAIN b.list : /\ Covers(b.list[i], x)
                                       /\ "w" \in b.m.pte[p][x].perm => "w" \in b.list[i].flags
        BY <2>5, <4>1 DEF Grown, Mapped
      <4>3. On(c.list, b.list[i])
        BY <2>1 DEF On
      <4>4. QED
        BY <3>1, <4>1, <4>2, <4>3
    <3>3. CASE ~Same(b.m, c.m, p, x)
      <4>1. x \in pages /\ c.m.pte[p][x].perm = perm
        BY <2>1, <3>3 DEF Filled
      <4>2. Covers(vma, x)
        <5>1. x \in Span(vma) /\ x \in Int
          BY <4>1 DEF Pages
        <5>2. QED
          BY <5>1, VmaFields
      <4>3. QED
        BY <2>1, <3>1, <4>1, <4>2
    <3>4. QED
      BY <3>2, <3>3
  <2>6. Mapped(c.m.pte[p], c.list)
    BY <2>5 DEF Mapped
  <2>7. QED
    BY <1>1, <2>2, <2>3, <2>4, <2>6 DEF Grown
<1>4. QED
  BY <1>2, <1>3

\* What the program finds in its pages after k segments.
Holds(b, p, layout, k) ==
  b.ret = "ok" =>
    /\ \A j \in 1 .. k : On(b.list, layout[j])
    /\ ~b.m.oom => \A x \in Pages :
         Cell(b.m, p, x) = IF x \in PagesOf(layout, k) THEN Program ELSE Undef

LEMMA SegmentHolds ==
  ASSUME NEW layout \in Seq(Vma), NEW k \in 1 .. Len(layout), NEW b, NEW p \in Procs,
         Holds(b, p, layout, k - 1), NEW loaded, NEW c, NEW seg, seg = layout[k],
         Added(b, c, seg, loaded),
         seg.start < seg.end =>
           Filled(b.m, loaded, p, Span(seg), SegmentPerm(seg.flags), Program)
  PROVE  Holds(c, p, layout, k)
<1> SUFFICES ASSUME c.ret = "ok"
             PROVE  /\ \A j \in 1 .. k : On(c.list, layout[j])
                    /\ ~c.m.oom => \A x \in Pages :
                         Cell(c.m, p, x) = IF x \in PagesOf(layout, k) THEN Program ELSE Undef
  BY DEF Holds
<1>1. /\ b.ret = "ok" /\ c.m = loaded /\ Filled(b.m, c.m, p, Span(seg), SegmentPerm(seg.flags), Program)
      /\ \A e : On(c.list, e) <=> e = seg \/ On(b.list, e)
  BY DEF Added
<1>2. 1 .. k = (1 .. (k - 1)) \cup {k}
  OBVIOUS
<1>3. /\ \A j \in 1 .. k - 1 : On(b.list, layout[j])
      /\ ~b.m.oom => \A x \in Pages :
           Cell(b.m, p, x) = IF x \in PagesOf(layout, k - 1) THEN Program ELSE Undef
  BY <1>1 DEF Holds
<1>4. \A j \in 1 .. k : On(c.list, layout[j])
  BY <1>1, <1>2, <1>3
<1>5. ASSUME ~c.m.oom, NEW x \in Pages
      PROVE  Cell(c.m, p, x) = IF x \in PagesOf(layout, k) THEN Program ELSE Undef
  <2>1. x \in PagesOf(layout, k) <=> x \in PagesOf(layout, k - 1) \/ x \in Span(seg)
    BY <1>2 DEF PagesOf
  <2>2. ~b.m.oom
    BY <1>1, <1>5 DEF Filled
  <2>3. CASE x \in Span(seg)
    BY <1>1, <1>5, <2>1, <2>3 DEF Filled
  <2>4. CASE x \notin Span(seg)
    <3>1. Same(b.m, c.m, p, x)
      BY <1>1, <2>4 DEF Filled
    <3>2. QED
      BY <1>3, <2>1, <2>2, <2>4, <3>1 DEF Same
  <2>5. QED
    BY <2>3, <2>4
<1>6. QED
  BY <1>4, <1>5

\* What load_icode leaves in p: the program in its segments, what the frames held
\* before on the stack, and nothing else.
Loaded(s, b, p, layout) ==
  /\ Grown(s, b, p)
  /\ b.ret = "ok" =>
       /\ PagesOf(layout, Len(layout)) \cap StackTop = {}
       /\ b.list # <<>>
       /\ ~b.m.oom => \A x \in Pages :
            Cell(b.m, p, x) = IF x \in StackTop THEN Leftover
                              ELSE IF x \in PagesOf(layout, Len(layout)) THEN Program ELSE Undef

LEMMA StackIsVma ==
  /\ Stack \in Vma /\ StackTop \in SUBSET Span(Stack) /\ "w" \in Stack.flags
  /\ StackTop \in SUBSET Pages /\ Stack.start < Stack.end
<1>1. /\ NPages \in Nat /\ StackSize \in Nat /\ StackNow \in Nat
      /\ 1 <= StackNow /\ StackNow <= StackSize /\ StackSize < NPages
  BY VmmAssumption
<1>2. {"r", "w", "stack"} \in SUBSET Rights
  BY DEF Rights
<1>3. Stack \in Vma
  BY <1>1, <1>2 DEF Stack, Vma, Pages
<1>4. Stack.start = NPages - StackSize /\ Stack.end = NPages /\ "w" \in Stack.flags
  BY DEF Stack
<1>5. QED
  BY <1>1, <1>3, <1>4 DEF Span, StackTop, Pages

LEMMA StackLoaded ==
  ASSUME NEW s, NEW p \in Procs, NEW layout \in Seq(Vma), NEW b, NEW c,
         Grown(s, b, p), Holds(b, p, layout, Len(layout)),
         c = add_vma(b, Stack, load_stack(b.m, p))
  PROVE  Loaded(s, c, p, layout)
<1> DEFINE perm == {"r", "w", "x"}
<1>1. PICK vma, loaded : vma = Stack /\ loaded = load_stack(b.m, p)
  OBVIOUS
<1>2. vma \in Vma /\ StackTop \in SUBSET Span(vma) /\ "w" \in vma.flags /\ vma.start < vma.end
  BY <1>1, StackIsVma
<1>3. Filled(b.m, loaded, p, StackTop, perm, Leftover) /\ loaded \in GoodMem
  <2>1. PICK t : t = b.m
    OBVIOUS
  <2>2. Good(t)
    BY <2>1, GoodMemIsGood DEF Grown, Space
  <2>3. Filled(t, load_stack(t, p), p, StackTop, perm, Leftover)
    BY <2>2, LoadStack
  <2>4. QED
    BY <1>1, <2>1, <2>3, GoodMemIsGood DEF Filled
<1> HIDE DEF perm
<1>4. Added(b, c, vma, loaded)
  <2>1. b \in Space
    BY DEF Grown
  <2>2. Added(b, add_vma(b, vma, loaded), vma, loaded)
    BY <1>2, <1>3, <2>1, AddVma
  <2>3. QED
    BY <1>1, <2>2
<1>5. Grown(s, c, p)
  BY <1>2, <1>3, <1>4, Grow
<1>6. ASSUME c.ret = "ok"
      PROVE  /\ PagesOf(layout, Len(layout)) \cap StackTop = {}
             /\ c.list # <<>>
             /\ ~c.m.oom => \A x \in Pages :
                  Cell(c.m, p, x) = IF x \in StackTop THEN Leftover
                                    ELSE IF x \in PagesOf(layout, Len(layout)) THEN Program ELSE Undef
  <2>1. /\ b.ret = "ok" /\ c.m = loaded /\ On(c.list, vma) /\ Apart(b.list, vma)
    BY <1>4, <1>6 DEF Added
  <2>2. /\ \A j \in 1 .. Len(layout) : On(b.list, layout[j])
        /\ ~b.m.oom => \A x \in Pages :
             Cell(b.m, p, x) = IF x \in PagesOf(layout, Len(layout)) THEN Program ELSE Undef
    BY <2>1 DEF Holds
  <2>3. ASSUME NEW x \in PagesOf(layout, Len(layout)), x \in StackTop PROVE FALSE
    <3>1. PICK j \in 1 .. Len(layout) : x \in Span(layout[j])
      BY DEF PagesOf
    <3>2. PICK e : e = layout[j]
      OBVIOUS
    <3>3. e \in Vma /\ On(b.list, e) /\ x \in Span(e) /\ x \in Span(vma)
      BY <1>2, <2>2, <2>3, <3>1, <3>2
    <3>4. e.end <= vma.start \/ vma.end <= e.start
      BY <2>1, <3>3 DEF Apart
    <3>5. e.start \in Int /\ e.end \in Int /\ vma.start \in Int /\ vma.end \in Int
      BY <1>2, <3>3, VmaFields, VmmAssumption DEF Pages
    <3>6. QED
      BY <3>3, <3>4, <3>5 DEF Span
  <2>4. c.list # <<>>
    BY <2>1 DEF On
  <2>5. ASSUME ~c.m.oom, NEW x \in Pages
        PROVE  Cell(c.m, p, x) = IF x \in StackTop THEN Leftover
                                 ELSE IF x \in PagesOf(layout, Len(layout)) THEN Program ELSE Undef
    <3>1. ~b.m.oom
      BY <1>3, <2>1, <2>5 DEF Filled
    <3>2. CASE x \in StackTop
      BY <1>3, <2>1, <2>5, <3>2 DEF Filled
    <3>3. CASE x \notin StackTop
      <4>1. Same(b.m, c.m, p, x)
        BY <1>3, <2>1, <3>3 DEF Filled
      <4>2. QED
        BY <2>2, <3>1, <3>3, <4>1 DEF Same
    <3>4. QED
      BY <3>2, <3>3
  <2>6. QED
    BY <2>3, <2>4, <2>5
<1>7. QED
  BY <1>5, <1>6 DEF Loaded

LEMMA LoadIcode ==
  ASSUME NEW s, Good(s), NEW p \in Procs, NEW layout \in Seq(Vma),
         \A x \in Pages : s.pte[p][x] = NoPte
  PROVE  Loaded(s, load_icode(s, p, layout), p, layout)
<1> DEFINE n == Len(layout)
           D == DOMAIN layout
           empty == [m |-> s, list |-> <<>>, cache |-> NoVma, ret |-> "ok"]
           op(b, i) == add_vma(b, layout[i], load_segment(b.m, p, layout[i]))
           Rec(it) == [u \in SUBSET D |-> IF u = {} THEN empty ELSE op(it[u \ {Max(u)}], Max(u))]
           iter == CHOOSE it : it = Rec(it)
           P == [k \in 0 .. n |-> {b \in Space : Grown(s, b, p) /\ Holds(b, p, layout, k)}]
<1>1. n \in Nat /\ D = 1 .. n /\ \A i \in 1 .. n : layout[i] \in Vma
  OBVIOUS
<1>2. load_icode(s, p, layout) = add_vma(iter[D], Stack, load_stack(iter[D].m, p))
  BY DEF load_icode, FoldLeft, MapThenFoldSet
<1> DEFINE seg(k) == layout[k]
           loaded(b, k) == load_segment(b.m, p, seg(k))
<1>3. \A b \in Space, k \in 1 .. n :
        /\ op(b, k) \in Space
        /\ Added(b, op(b, k), layout[k], load_segment(b.m, p, layout[k]))
        /\ layout[k].start < layout[k].end =>
             Filled(b.m, load_segment(b.m, p, layout[k]), p, Span(layout[k]),
                    SegmentPerm(layout[k].flags), Program)
  <2> SUFFICES ASSUME NEW b \in Space, NEW k \in 1 .. n
               PROVE  /\ op(b, k) \in Space
                      /\ Added(b, op(b, k), layout[k], load_segment(b.m, p, layout[k]))
                      /\ layout[k].start < layout[k].end =>
                           Filled(b.m, load_segment(b.m, p, layout[k]), p, Span(layout[k]),
                                  SegmentPerm(layout[k].flags), Program)
    OBVIOUS
  <2>1. PICK e, t, w : e = layout[k] /\ t = b.m /\ w = load_segment(t, p, e)
    OBVIOUS
  <2>2. e \in Vma /\ Good(t)
    BY <1>1, <2>1, GoodMemIsGood DEF Space
  <2>3. e.start < e.end => Filled(t, w, p, Span(e), SegmentPerm(e.flags), Program)
    BY <2>1, <2>2, LoadSegment
  <2>4. e.start < e.end => w \in GoodMem
    BY <2>3, GoodMemIsGood DEF Filled
  <2>5. Added(b, add_vma(b, e, w), e, w)
    BY <2>2, <2>4, AddVma
  <2>6. op(b, k) = add_vma(b, e, w)
    BY <2>1
  <2> HIDE DEF op
  <2>7. op(b, k) \in Space
    BY <2>5, <2>6 DEF Added
  <2>8. QED
    BY <2>1, <2>3, <2>5, <2>6, <2>7
<1> HIDE DEF op
<1>4. empty \in Space /\ Grown(s, empty, p) /\ Holds(empty, p, layout, 0)
  <2>1. /\ empty.m = s /\ empty.list = <<>> /\ empty.cache = NoVma /\ empty.ret = "ok"
        /\ s \in GoodMem
    BY GoodMemIsGood
  <2>2. <<>> \in Seq(Vma) /\ Sorted(<<>>)
    BY DEF Sorted
  <2>3. empty \in Space
    BY <2>1, <2>2 DEF Space
  <2> HIDE DEF empty
  <2>4. Grown(s, empty, p)
    BY <2>1, <2>3 DEF Grown, Same, Mapped
  <2>5. Holds(empty, p, layout, 0)
    BY <2>1 DEF Holds, PagesOf, Cell
  <2>6. QED
    BY <2>3, <2>4, <2>5
<1> HIDE DEF empty
<1>5. \E it : it = Rec(it)
  <2> DEFINE step == [z \in Space \X (1 .. n) |-> op(z[1], z[2])]
  <2>1. step \in [Space \X (1 .. n) -> Space]
    BY <1>3
  <2> HIDE DEF step
  <2>2. PICK g : Loops(g, n, Space, empty, step)
    BY <1>1, <1>4, <2>1, LoopRecursion
  <2>3. g \in [SUBSET (1 .. n) -> Space] /\ g[{}] = empty
    BY <2>2 DEF Loops
  <2>4. ASSUME NEW u \in SUBSET (1 .. n), u # {}
        PROVE  g[u] = op(g[u \ {Max(u)}], Max(u))
    <3>1. Max(u) \in 1 .. n /\ g[u \ {Max(u)}] \in Space
      BY <1>1, <2>3, <2>4, MaxIsGreatest
    <3>2. g[u] = step[<<g[u \ {Max(u)}], Max(u)>>]
      BY <2>2, <2>4 DEF Loops
    <3>3. QED
      BY <3>1, <3>2 DEF step
  <2>5. g = Rec(g)
    BY <2>3, <2>4, <1>1
  <2> HIDE DEF Rec
  <2>6. QED
    BY <2>5
<1>6. iter = Rec(iter)
  <2> HIDE DEF Rec
  <2>1. QED
    BY <1>5
<1> HIDE DEF iter
<1>7. iter[1 .. 0] \in P[0]
  <2>1. iter[1 .. 0] = empty
    BY <1>1, <1>6
  <2>2. QED
    BY <1>1, <1>4, <2>1
<1>8. ASSUME NEW k \in 1 .. n, iter[1 .. (k - 1)] \in P[k - 1] PROVE iter[1 .. k] \in P[k]
  <2> DEFINE b == iter[1 .. (k - 1)]
             c == iter[1 .. k]
  <2>1. c = op(b, k)
    <3>0. k \in Nat \ {0}
      OBVIOUS
    <3>1. Max(1 .. k) = k /\ (1 .. k) \ {Max(1 .. k)} = 1 .. (k - 1) /\ 1 .. k # {}
      BY <3>0, MaxOfInterval
    <3>2. 1 .. k \in SUBSET D
      BY <1>1
    <3> HIDE DEF D
    <3>3. QED
      BY <1>6, <3>1, <3>2
  <2> HIDE DEF b, c
  <2>2. b \in Space /\ Grown(s, b, p) /\ Holds(b, p, layout, k - 1)
    <3>1. k - 1 \in 0 .. n
      BY <1>1
    <3>2. b \in P[k - 1]
      <4> HIDE DEF P
      <4>1. QED
        BY <1>8 DEF b
    <3>3. QED
      BY <3>1, <3>2
  <2>3. PICK e, w : e = layout[k] /\ w = load_segment(b.m, p, e)
    OBVIOUS
  <2>4. /\ e \in Vma /\ c \in Space /\ Added(b, c, e, w)
        /\ e.start < e.end => Filled(b.m, w, p, Span(e), SegmentPerm(e.flags), Program)
    BY <1>1, <1>3, <2>1, <2>2, <2>3
  <2>5. PICK pages, perm : pages = Span(e) /\ perm = SegmentPerm(e.flags)
    OBVIOUS
  <2>6. "w" \in perm => "w" \in e.flags
    <3>1. e.flags \in SUBSET Rights
      BY <2>4, VmaFields
    <3>2. QED
      BY <2>5, <3>1, SegmentPermRights
  <2>7. Grown(s, c, p)
    <3>1. e.start < e.end => Filled(b.m, w, p, pages, perm, Program)
      BY <2>4, <2>5
    <3>2. pages \in SUBSET Span(e)
      BY <2>5
    <3>3. QED
      BY <2>2, <2>4, <2>6, <3>1, <3>2, Grow
  <2>8. Holds(c, p, layout, k)
    <3>1. k \in 1 .. Len(layout) /\ e = layout[k]
      BY <2>3
    <3>2. QED
      BY <2>2, <2>4, <3>1, SegmentHolds
  <2>9. k \in 0 .. n
    BY <1>1
  <2>10. QED
    BY <2>4, <2>7, <2>8, <2>9 DEF c
<1>9. iter[1 .. n] \in P[n]
  <2> HIDE DEF P
  <2>1. QED
    BY <1>1, <1>7, <1>8, LoopInvariant
<1> DEFINE d == iter[D]
<1>10. Grown(s, d, p) /\ Holds(d, p, layout, Len(layout))
  BY <1>1, <1>9
<1> HIDE DEF d
<1>11. load_icode(s, p, layout) = add_vma(d, Stack, load_stack(d.m, p))
  BY <1>2 DEF d
<1>12. QED
  BY <1>10, <1>11, StackLoaded

-----------------------------------------------------------------------------
\* The answers of user_mem_check: does it pass, and the vma it looked at last.
Answer == [ok : BOOLEAN, last : Vma \cup {NoVma}]
Answers == [0 .. NPages -> Answer]

\* The vma that user_mem_check finds at page a, whether it refuses the access, and
\* its answer, given what it answers from other pages on.
Found(list, cache, s, a) == find_vma(list, IF a = s THEN cache ELSE NoVma, a)

Right(write) == IF write THEN "w" ELSE "r"

Refuses(vma, write, a) == \/ Right(write) \notin vma.flags
                          \/ write /\ "stack" \in vma.flags /\ a < vma.start + 1

CheckFrom(f, vma, e, write, a) ==
  CASE vma = NoVma -> [ok |-> FALSE, last |-> NoVma]
    [] vma # NoVma /\ Refuses(vma, write, a) -> [ok |-> FALSE, last |-> vma]
    [] vma # NoVma /\ ~Refuses(vma, write, a) /\ vma.end >= e -> [ok |-> TRUE, last |-> vma]
    [] OTHER -> [ok |-> f[vma.end].ok, last |-> Cached(f[vma.end].last, vma)]

Checks(f, list, cache, s, e, write) ==
  \A a \in 0 .. NPages : f[a] = CheckFrom(f, Found(list, cache, s, a), e, write, a)

LEMMA FoundVma ==
  ASSUME NEW list \in Seq(Vma), NEW cache \in Vma \cup {NoVma}, cache = NoVma \/ On(list, cache),
         NEW s, NEW a \in 0 .. NPages, NEW v, v = Found(list, cache, s, a)
  PROVE  /\ v \in Vma \cup {NoVma}
         /\ v # NoVma => /\ On(list, v) /\ v.start <= a /\ a < v.end /\ v.end \in 0 .. NPages
         /\ v = NoVma => \A i \in DOMAIN list : ~Covers(list[i], a)
<1>1. PICK c : c = IF a = s THEN cache ELSE NoVma
  OBVIOUS
<1>2. c \in Vma \cup {NoVma} /\ (c = NoVma \/ On(list, c)) /\ a \in Int
  BY <1>1, VmmAssumption
<1>3. v = find_vma(list, c, a)
  BY <1>1 DEF Found
<1>4. /\ v \in Vma \cup {NoVma}
      /\ v # NoVma => Covers(v, a) /\ (v = c \/ On(list, v))
      /\ v = NoVma => \A i \in DOMAIN list : ~Covers(list[i], a)
  BY <1>2, <1>3, FindVma
<1>5. v # NoVma => v.end \in 0 .. NPages
  BY <1>4, VmaFields, VmmAssumption
<1>6. QED
  BY <1>2, <1>4, <1>5 DEF Covers

\* An answer needs only the answers from later pages on, and is one.
LEMMA CheckLooksUp ==
  ASSUME NEW f \in Answers, NEW g \in Answers, NEW a \in 0 .. NPages,
         \A x \in 0 .. NPages : x > a => f[x] = g[x],
         NEW v \in Vma \cup {NoVma}, v # NoVma => a < v.end /\ v.end \in 0 .. NPages,
         NEW e, NEW write
  PROVE  CheckFrom(f, v, e, write, a) = CheckFrom(g, v, e, write, a)
         /\ CheckFrom(f, v, e, write, a) \in Answer
<1>1. CASE v = NoVma
  BY <1>1 DEF CheckFrom, Answer
<1>2. CASE v # NoVma
  <2>1. f[v.end] = g[v.end] /\ f[v.end] \in Answer
    BY <1>2 DEF Answers
  <2>2. f[v.end].ok \in BOOLEAN /\ Cached(f[v.end].last, v) \in Vma \cup {NoVma}
    BY <2>1 DEF Answer, Cached
  <2>3. QED
    BY <1>2, <2>1, <2>2 DEF CheckFrom, Answer
<1>3. QED
  BY <1>1, <1>2

\* user_mem_check has an answer for every buffer: its recursion goes up the pages.
LEMMA ChecksExist ==
  ASSUME NEW list \in Seq(Vma), NEW cache \in Vma \cup {NoVma}, cache = NoVma \/ On(list, cache),
         NEW s, NEW e, NEW write
  PROVE  \E f \in Answers : Checks(f, list, cache, s, e, write)
<1> DEFINE body(f, a) == CheckFrom(f, Found(list, cache, s, a), e, write, a)
           K == {n \in Nat : \E f \in Answers : \A a \in 0 .. NPages :
                               a + n > NPages => f[a] = body(f, a)}
<1>1. NPages \in Nat
  BY VmmAssumption
<1>2. ASSUME NEW f \in Answers, NEW g \in Answers, NEW a \in 0 .. NPages,
             \A x \in 0 .. NPages : x > a => f[x] = g[x]
      PROVE  body(f, a) = body(g, a) /\ body(f, a) \in Answer
  <2>1. PICK v : v = Found(list, cache, s, a)
    OBVIOUS
  <2>2. /\ v \in Vma \cup {NoVma}
        /\ v # NoVma => a < v.end /\ v.end \in 0 .. NPages
    BY <2>1, FoundVma
  <2>3. CheckFrom(f, v, e, write, a) = CheckFrom(g, v, e, write, a)
        /\ CheckFrom(f, v, e, write, a) \in Answer
    BY <1>2, <2>2, CheckLooksUp
  <2>4. QED
    BY <2>1, <2>3
<1> HIDE DEF body
<1>3. 0 \in K
  <2> DEFINE f == [a \in 0 .. NPages |-> [ok |-> FALSE, last |-> NoVma]]
  <2>1. f \in Answers
    BY DEF Answers, Answer
  <2>2. \A a \in 0 .. NPages : ~(a + 0 > NPages)
    BY <1>1
  <2>3. QED
    BY <2>1, <2>2
<1>4. ASSUME NEW n \in Nat, n \in K PROVE n + 1 \in K
  <2>1. PICK f \in Answers : \A a \in 0 .. NPages : a + n > NPages => f[a] = body(f, a)
    BY <1>4
  <2>2. CASE n > NPages
    <3>1. \A a \in 0 .. NPages : a + n > NPages
      BY <1>1, <2>2
    <3>2. QED
      BY <2>1, <3>1
  <2>3. CASE ~(n > NPages)
    <3> DEFINE b == NPages - n
               g == [f EXCEPT ![b] = body(f, b)]
    <3>1. b \in 0 .. NPages
      BY <1>1, <2>3
    <3>2. body(f, b) \in Answer
      BY <1>2, <3>1
    <3>3. g \in Answers /\ \A a \in 0 .. NPages : g[a] = IF a = b THEN body(f, b) ELSE f[a]
      BY <3>1, <3>2 DEF Answers
    <3> HIDE DEF g
    <3>4. ASSUME NEW a \in 0 .. NPages, a + (n + 1) > NPages PROVE g[a] = body(g, a)
      <4>1. a >= b /\ a \in Int /\ b \in Int
        BY <1>1, <3>1, <3>4
      <4>2. \A x \in 0 .. NPages : x > a => f[x] = g[x]
        BY <3>3, <4>1
      <4>3. body(f, a) = body(g, a)
        BY <1>2, <3>3, <4>2
      <4>4. a # b => a + n > NPages
        BY <1>1, <4>1
      <4> HIDE DEF b
      <4>5. QED
        BY <2>1, <3>3, <4>3, <4>4
    <3>5. QED
      BY <3>3, <3>4
  <2>4. QED
    BY <2>2, <2>3
<1>5. NPages + 1 \in K
  <2> HIDE DEF K
  <2>1. Nat \subseteq K
    BY <1>3, <1>4, NatSetInduction
  <2>2. QED
    BY <1>1, <2>1
<1>6. PICK f \in Answers : \A a \in 0 .. NPages : a + (NPages + 1) > NPages => f[a] = body(f, a)
  BY <1>5
<1>7. \A a \in 0 .. NPages : a + (NPages + 1) > NPages
  BY <1>1
<1>8. QED
  BY <1>6, <1>7 DEF body, Checks

\* So the answer of user_mem_check is that of the recursion.
LEMMA MemCheckRecursion ==
  ASSUME NEW list \in Seq(Vma), NEW cache \in Vma \cup {NoVma}, cache = NoVma \/ On(list, cache),
         NEW s \in Pages, NEW e, NEW write
  PROVE  \E f : /\ MemCheck(list, cache, s, e, write) = f[s]
                /\ Checks(f, list, cache, s, e, write)
<1> DEFINE Rec(f) == [a \in 0 .. NPages |->
                        CheckFrom(f, Found(list, cache, s, a), e, write, a)]
           check == CHOOSE f : f = Rec(f)
<1>1. MemCheck(list, cache, s, e, write) = check[s]
  BY DEF MemCheck, CheckFrom, Found, Refuses, Right
<1>2. PICK g \in Answers : Checks(g, list, cache, s, e, write)
  BY ChecksExist
<1>3. g = Rec(g)
  BY <1>2 DEF Answers, Checks
<1>4. check = Rec(check)
  <2> HIDE DEF Rec
  <2>1. QED
    BY <1>3
<1> HIDE DEF check
<1>5. Checks(check, list, cache, s, e, write)
  BY <1>4 DEF Checks
<1>6. QED
  BY <1>1, <1>5

\* The vma looked at last is none or one of the list.
LEMMA MemCheckLast ==
  ASSUME NEW list \in Seq(Vma), NEW cache \in Vma \cup {NoVma}, cache = NoVma \/ On(list, cache),
         NEW s \in Pages, NEW e, NEW write,
         NEW v, v = MemCheck(list, cache, s, e, write).last
  PROVE  v = NoVma \/ On(list, v)
<1>1. PICK f : /\ MemCheck(list, cache, s, e, write) = f[s]
               /\ Checks(f, list, cache, s, e, write)
  BY MemCheckRecursion
<1> DEFINE fine(a) == f[a].last = NoVma \/ On(list, f[a].last)
           K == {n \in Nat : \A a \in 0 .. NPages : a + n > NPages => fine(a)}
<1>2. NPages \in Nat
  BY VmmAssumption
<1>3. ASSUME NEW a \in 0 .. NPages, \A x \in 0 .. NPages : x > a => fine(x)
      PROVE  fine(a)
  <2>1. PICK w : w = Found(list, cache, s, a)
    OBVIOUS
  <2>2. /\ w \in Vma \cup {NoVma}
        /\ w # NoVma => On(list, w) /\ a < w.end /\ w.end \in 0 .. NPages
    BY <2>1, FoundVma
  <2>3. f[a] = CheckFrom(f, w, e, write, a)
    BY <1>1, <2>1 DEF Checks
  <2>4. w # NoVma => f[w.end].last = NoVma \/ On(list, f[w.end].last)
    BY <1>3, <2>2
  <2>5. f[a].last \in IF w = NoVma THEN {NoVma} ELSE {w, f[w.end].last}
    BY <2>2, <2>3 DEF CheckFrom, Cached
  <2>6. QED
    BY <2>2, <2>4, <2>5
<1> HIDE DEF fine
<1>4. 0 \in K
  BY <1>2
<1>5. ASSUME NEW n \in Nat, n \in K PROVE n + 1 \in K
  <2> SUFFICES ASSUME NEW a \in 0 .. NPages, a + (n + 1) > NPages PROVE fine(a)
    OBVIOUS
  <2>1. \A x \in 0 .. NPages : x > a => x + n > NPages
    BY <1>2
  <2>2. \A x \in 0 .. NPages : x > a => fine(x)
    BY <1>5, <2>1
  <2>3. QED
    BY <1>3, <2>2
<1>6. NPages + 1 \in K
  <2> HIDE DEF K
  <2>1. Nat \subseteq K
    BY <1>4, <1>5, NatSetInduction
  <2>2. QED
    BY <1>2, <2>1
<1>7. s \in 0 .. NPages /\ s + (NPages + 1) > NPages
  BY <1>2 DEF Pages
<1>8. fine(s)
  BY <1>6, <1>7
<1>9. QED
  BY <1>1, <1>8 DEF fine

\* A page the user may access.
Allowed(list, write, a) ==
  \E i \in DOMAIN list : LET vma == list[i]
                         IN /\ Covers(vma, a)
                            /\ (IF write THEN "w" ELSE "r") \in vma.flags
                            /\ ~(write /\ "stack" \in vma.flags /\ a = vma.start)

LEMMA OneVmaCovers ==
  ASSUME NEW list, Sorted(list), NEW v, On(list, v), NEW a \in 0 .. NPages,
         v.start <= a, a < v.end, NEW write \in BOOLEAN
  PROVE  /\ Allowed(list, write, a) <=> ~Refuses(v, write, a)
         /\ Refuses(v, write, a) <=> (Right(write) \notin v.flags
                                      \/ (write /\ "stack" \in v.flags /\ a = v.start))
<1>1. PICK j \in DOMAIN list : list[j] = v
  BY DEF On
<1>2. /\ list \in Seq(Vma) /\ DOMAIN list \subseteq Nat /\ a \in Int
      /\ \A i \in DOMAIN list : list[i] \in Vma /\ list[i].start \in Int /\ list[i].end \in Int
  <2>1. list \in Seq(Vma)
    BY DEF Sorted
  <2>2. \A i \in DOMAIN list : list[i] \in Vma
    BY <2>1
  <2>3. \A i \in DOMAIN list : list[i].start \in Int /\ list[i].end \in Int
    BY <2>2, VmaFields, VmmAssumption DEF Pages
  <2>4. QED
    BY <2>1, <2>2, <2>3
<1>3. ASSUME NEW i \in DOMAIN list, Covers(list[i], a) PROVE list[i] = v
  <2>1. list[i].start <= a /\ a < list[i].end
    BY <1>3 DEF Covers
  <2>2. ~(i < j)
    <3> SUFFICES ASSUME i < j PROVE FALSE
      OBVIOUS
    <3>1. list[i].end <= v.start
      BY <1>1 DEF Sorted
    <3>2. QED
      BY <1>1, <1>2, <2>1, <3>1
  <2>3. ~(j < i)
    <3> SUFFICES ASSUME j < i PROVE FALSE
      OBVIOUS
    <3>1. v.end <= list[i].start
      BY <1>1 DEF Sorted
    <3>2. QED
      BY <1>1, <1>2, <2>1, <3>1
  <2>4. i = j
    BY <1>2, <2>2, <2>3
  <2>5. QED
    BY <1>1, <2>4
<1>4. v \in Vma /\ v.start \in Int /\ v.end \in Int
  BY <1>1, <1>2
<1>5. Covers(v, a)
  BY <1>4, VmaFields DEF Covers
<1>6. a < v.start + 1 <=> a = v.start
  BY <1>2, <1>4
<1>7. Refuses(v, write, a) <=> (Right(write) \notin v.flags
                                \/ (write /\ "stack" \in v.flags /\ a = v.start))
  BY <1>6 DEF Refuses
<1>8. Allowed(list, write, a) <=> ~Refuses(v, write, a)
  BY <1>1, <1>3, <1>5, <1>7 DEF Allowed, Right
<1>9. QED
  BY <1>7, <1>8

\* user_mem_check passes exactly the buffers whose pages may all be accessed.
LEMMA MemCheckIsExact ==
  ASSUME NEW list, Sorted(list), NEW cache \in Vma \cup {NoVma}, cache = NoVma \/ On(list, cache),
         NEW s \in Pages, NEW e \in 1 .. NPages, NEW write \in BOOLEAN, s < e
  PROVE  MemCheck(list, cache, s, e, write).ok <=> \A a \in s .. e - 1 : Allowed(list, write, a)
<1>0. list \in Seq(Vma)
  BY DEF Sorted
<1>1. PICK f : /\ MemCheck(list, cache, s, e, write) = f[s]
               /\ Checks(f, list, cache, s, e, write)
  BY <1>0, MemCheckRecursion
<1> DEFINE exact(a) == f[a].ok <=> \A x \in a .. e - 1 : Allowed(list, write, x)
           K == {n \in Nat : \A a \in 0 .. NPages : a < e /\ a + n > NPages => exact(a)}
<1>2. NPages \in Nat /\ e \in Nat /\ e <= NPages
  BY VmmAssumption
<1>3. ASSUME NEW a \in 0 .. NPages, a < e, \A x \in 0 .. NPages : x > a /\ x < e => exact(x)
      PROVE  exact(a)
  <2>1. PICK v : v = Found(list, cache, s, a)
    OBVIOUS
  <2>2. /\ v \in Vma \cup {NoVma}
        /\ v # NoVma => /\ On(list, v) /\ v.start <= a /\ a < v.end /\ v.end \in 0 .. NPages
        /\ v = NoVma => \A i \in DOMAIN list : ~Covers(list[i], a)
    BY <1>0, <2>1, FoundVma
  <2>3. f[a] = CheckFrom(f, v, e, write, a)
    BY <1>1, <2>1 DEF Checks
  <2>4. a \in a .. e - 1
    BY <1>2, <1>3
  <2>5. CASE v = NoVma
    <3>1. ~f[a].ok
      BY <2>3, <2>5 DEF CheckFrom
    <3>2. ~Allowed(list, write, a)
      BY <2>2, <2>5 DEF Allowed
    <3>3. QED
      BY <2>4, <3>1, <3>2
  <2>6. CASE v # NoVma /\ Refuses(v, write, a)
    <3>1. ~f[a].ok
      BY <2>3, <2>6 DEF CheckFrom
    <3>2. ~Allowed(list, write, a)
      BY <2>2, <2>6, OneVmaCovers
    <3>3. QED
      BY <2>4, <3>1, <3>2
  <2>7. CASE v # NoVma /\ ~Refuses(v, write, a)
    <3>1. v.start \in Int /\ v.end \in Int
      BY <2>2, <2>7, VmaFields, VmmAssumption DEF Pages
    <3>2. ASSUME NEW x \in a .. e - 1, x < v.end PROVE Allowed(list, write, x)
      <4>1. x \in 0 .. NPages /\ v.start <= x /\ (x = v.start => x = a) /\ x \in Int
        BY <1>2, <2>2, <2>7, <3>1
      <4>2. ~Refuses(v, write, x)
        <5>1. /\ Refuses(v, write, x) <=> (Right(write) \notin v.flags
                                           \/ (write /\ "stack" \in v.flags /\ x = v.start))
              /\ Refuses(v, write, a) <=> (Right(write) \notin v.flags
                                           \/ (write /\ "stack" \in v.flags /\ a = v.start))
          BY <2>2, <2>7, <3>2, <4>1, OneVmaCovers
        <5>2. QED
          BY <2>7, <4>1, <5>1
      <4>3. QED
        BY <2>2, <2>7, <3>2, <4>1, <4>2, OneVmaCovers
    <3>3. CASE v.end >= e
      <4>1. f[a].ok
        BY <2>3, <2>7, <3>3 DEF CheckFrom
      <4>2. \A x \in a .. e - 1 : x < v.end
        BY <1>2, <3>1, <3>3
      <4>3. QED
        BY <3>2, <4>1, <4>2
    <3>4. CASE ~(v.end >= e)
      <4>1. f[a].ok <=> f[v.end].ok
        BY <2>3, <2>7, <3>4 DEF CheckFrom
      <4>2. v.end > a /\ v.end < e /\ v.end \in 0 .. NPages
        BY <1>2, <2>2, <2>7, <3>1, <3>4
      <4>3. f[v.end].ok <=> \A x \in v.end .. e - 1 : Allowed(list, write, x)
        BY <1>3, <4>2
      <4>4. \A x \in a .. e - 1 : x < v.end \/ x \in v.end .. e - 1
        BY <1>2, <3>1
      <4>5. \A x \in v.end .. e - 1 : x \in a .. e - 1
        BY <1>2, <3>1, <4>2
      <4>6. QED
        BY <3>2, <4>1, <4>3, <4>4, <4>5
    <3>5. QED
      BY <3>3, <3>4
  <2>8. QED
    BY <2>5, <2>6, <2>7
<1> HIDE DEF exact
<1>4. 0 \in K
  BY <1>2
<1>5. ASSUME NEW n \in Nat, n \in K PROVE n + 1 \in K
  <2> SUFFICES ASSUME NEW a \in 0 .. NPages, a < e, a + (n + 1) > NPages PROVE exact(a)
    OBVIOUS
  <2>1. \A x \in 0 .. NPages : x > a => x + n > NPages
    BY <1>2
  <2>2. \A x \in 0 .. NPages : x > a /\ x < e => exact(x)
    BY <1>5, <2>1
  <2>3. QED
    BY <1>3, <2>2
<1>6. NPages + 1 \in K
  <2> HIDE DEF K
  <2>1. Nat \subseteq K
    BY <1>4, <1>5, NatSetInduction
  <2>2. QED
    BY <1>2, <2>1
<1>7. s \in 0 .. NPages /\ s + (NPages + 1) > NPages
  BY <1>2 DEF Pages
<1>8. exact(s)
  BY <1>6, <1>7
<1>9. QED
  BY <1>1, <1>8 DEF exact

-----------------------------------------------------------------------------
LEMMA SameIsKept ==
  ASSUME NEW s, NEW t, NEW q, NEW x, Same(s, t, q, x)
  PROVE  Kept(s, t, q, x)
  BY DEF Same, Kept

\* A process whose entries only lose rights has them in the same vmas.
LEMMA MappedKept ==
  ASSUME NEW s, NEW t, NEW q, NEW list, Mapped(s.pte[q], list),
         \A x \in Pages : Kept(s, t, q, x)
  PROVE  Mapped(t.pte[q], list)
<1>1. ASSUME NEW x \in Pages, t.pte[q][x] # NoPte
      PROVE  \E i \in DOMAIN list : /\ Covers(list[i], x)
                                    /\ "w" \in t.pte[q][x].perm => "w" \in list[i].flags
  <2>1. /\ s.pte[q][x] # NoPte
        /\ "w" \in t.pte[q][x].perm => "w" \in s.pte[q][x].perm
    BY <1>1 DEF Kept
  <2>2. QED
    BY <2>1 DEF Mapped
<1>2. QED
  BY <1>1 DEF Mapped

\* Process p has no memory any more, and the others have theirs.
Emptied(s, t, p) ==
  /\ Good(t) /\ t.oom = s.oom
  /\ \A x \in Pages : t.pte[p][x] = NoPte
  /\ \A q \in Procs, x \in Pages : q # p => Same(s, t, q, x)

LEMMA ExitEmpties ==
  ASSUME NEW s, Good(s), NEW p \in Procs, NEW list \in Seq(Vma), Mapped(s.pte[p], list)
  PROVE  Emptied(s, exit_mmap(s, p, list), p)
<1>1. PICK t : t = exit_mmap(s, p, list)
  OBVIOUS
<1>2. Unmapped(s, t, p, PagesOf(list, Len(list)))
  BY <1>1, ExitMmap
<1>3. ASSUME NEW x \in Pages PROVE t.pte[p][x] = NoPte
  <2>1. CASE s.pte[p][x] = NoPte
    BY <1>2, <2>1 DEF Unmapped, Same
  <2>2. CASE s.pte[p][x] # NoPte
    <3>1. PICK i \in DOMAIN list : Covers(list[i], x)
      BY <2>2 DEF Mapped
    <3>2. list[i] \in Vma /\ i \in 1 .. Len(list) /\ x \in Int
      BY VmmAssumption DEF Pages
    <3>3. x \in Span(list[i])
      BY <3>1, <3>2, VmaFields
    <3>4. x \in PagesOf(list, Len(list))
      BY <3>2, <3>3 DEF PagesOf
    <3>5. QED
      BY <1>2, <3>4 DEF Unmapped
  <2>3. QED
    BY <2>1, <2>2
<1>4. Emptied(s, t, p)
  BY <1>2, <1>3 DEF Unmapped, Emptied
<1>5. QED
  BY <1>1, <1>4

LEMMA InvFields ==
  ASSUME VmmInv, NEW p \in Procs
  PROVE  /\ Good(m) /\ m \in Mem /\ m.oom = FALSE
         /\ mmap_list[p] \in Seq(Vma) /\ Sorted(mmap_list[p]) /\ Mapped(m.pte[p], mmap_list[p])
         /\ mmap_cache[p] \in Vma \cup {NoVma}
         /\ (mmap_cache[p] = NoVma \/ On(mmap_list[p], mmap_cache[p]))
  BY DEF VmmInv, Good, On, ToSet

\* Settle keeps the invariant if what p gets is in order and the others keep theirs.
LEMMA SettleKeeps ==
  ASSUME VmmInv, NEW p \in Procs, NEW s, NEW list, NEW cache, Settle(s, p, list, cache),
         ~s.oom => /\ Good(s) /\ Sorted(list) /\ Mapped(s.pte[p], list)
                   /\ cache \in Vma \cup {NoVma} /\ (cache = NoVma \/ On(list, cache))
                   /\ \A q \in Procs, x \in Pages : q # p => Kept(m, s, q, x)
  PROVE  VmmInv'
<1>1. CASE s.oom
  BY <1>1 DEF Settle, Panic, VmmInv
<1>2. CASE ~s.oom
  <2>1. /\ m' = s /\ mmap_list' = [mmap_list EXCEPT ![p] = list]
        /\ mmap_cache' = [mmap_cache EXCEPT ![p] = cache] /\ panic' = panic
    BY <1>2 DEF Settle
  <2>2. /\ mmap_list \in [Procs -> Seq(Vma)] /\ mmap_cache \in [Procs -> Vma \cup {NoVma}]
        /\ panic \in BOOLEAN
    BY DEF VmmInv
  <2>3. s.oom = FALSE
    BY <1>2 DEF Good, Mem
  <2>4. mmap_list' \in [Procs -> Seq(Vma)] /\ mmap_cache' \in [Procs -> Vma \cup {NoVma}]
    BY <1>2, <2>1, <2>2 DEF Sorted
  <2>5. ASSUME NEW q \in Procs
        PROVE  /\ Sorted(mmap_list'[q])
               /\ Mapped(s.pte[q], mmap_list'[q])
               /\ mmap_cache'[q] # NoVma => mmap_cache'[q] \in ToSet(mmap_list'[q])
    <3>1. CASE q = p
      <4>1. mmap_list'[q] = list /\ mmap_cache'[q] = cache
        BY <2>1, <2>2, <3>1
      <4>2. QED
        BY <1>2, <3>1, <4>1 DEF On, ToSet
    <3>2. CASE q # p
      <4>1. mmap_list'[q] = mmap_list[q] /\ mmap_cache'[q] = mmap_cache[q]
        BY <2>1, <2>2, <3>2
      <4>2. \A x \in Pages : Kept(m, s, q, x)
        BY <1>2, <3>2
      <4>3. Mapped(m.pte[q], mmap_list[q])
        BY DEF VmmInv
      <4>4. PICK l : l = mmap_list[q]
        OBVIOUS
      <4>5. PICK u : u = m
        OBVIOUS
      <4>6. Mapped(s.pte[q], l)
        BY <4>2, <4>3, <4>4, <4>5, MappedKept
      <4>7. QED
        BY <4>1, <4>4, <4>6 DEF VmmInv
    <3>3. QED
      BY <3>1, <3>2
  <2>6. QED
    BY <1>2, <2>1, <2>2, <2>3, <2>4, <2>5 DEF VmmInv
<1>3. QED
  BY <1>1, <1>2

\* What p's call may change in the memories: nothing, or all of p's own.
OthersKeep(p) == \A q \in Procs, x \in Pages : q # p => Cell(m', q, x) = Cell(m, q, x)
NothingChanges == \A q \in Procs, x \in Pages : Cell(m', q, x) = Cell(m, q, x)

LEMMA PanicKeeps ==
  ASSUME VmmInv, Panic
  PROVE  VmmInv' /\ NothingChanges
  BY DEF VmmInv, Panic, NothingChanges

LEMMA SettleOom ==
  ASSUME VmmInv, NEW p \in Procs, NEW s, s.oom, NEW list, NEW cache, Settle(s, p, list, cache)
  PROVE  VmmInv' /\ NothingChanges
<1>1. Panic
  BY DEF Settle
<1>2. QED
  BY <1>1, PanicKeeps

\* p's memory after an execve: the image, or nothing if it was refused.
NewImage(p, layout) ==
  /\ PagesOf(layout, Len(layout)) \cap StackTop = {}
  /\ \A x \in Pages : Cell(m', p, x) = IF x \in StackTop THEN Leftover
                                       ELSE IF x \in PagesOf(layout, Len(layout)) THEN Program
                                       ELSE Undef

NoMemoryLeft(p) == \A x \in Pages : Cell(m', p, x) = Undef

LEMMA ExecveKeeps ==
  ASSUME VmmInv, NEW p \in Procs, NEW layout \in Layouts, do_execve(p, layout)
  PROVE  /\ VmmInv'
         /\ NothingChanges \/ (OthersKeep(p) /\ (NewImage(p, layout) \/ NoMemoryLeft(p)))
<1>1. PICK gone, b : gone = exit_mmap(m, p, mmap_list[p]) /\ b = load_icode(gone, p, layout)
  OBVIOUS
<1>2. /\ Good(m) /\ m.oom = FALSE /\ mmap_list[p] \in Seq(Vma) /\ Sorted(mmap_list[p])
      /\ Mapped(m.pte[p], mmap_list[p])
  BY InvFields
<1>3. Emptied(m, gone, p)
  BY <1>1, <1>2, ExitEmpties
<1>4. layout \in Seq(Vma)
  BY VmmAssumption
<1>5. Loaded(gone, b, p, layout)
  <2>1. Good(gone) /\ \A x \in Pages : gone.pte[p][x] = NoPte
    BY <1>3 DEF Emptied
  <2>2. QED
    BY <1>1, <1>4, <2>1, LoadIcode
<1>6. /\ Good(b.m) /\ Sorted(b.list) /\ b.list \in Seq(Vma) /\ b.ret \in {"ok", "E_INVAL", "assert"}
      /\ b.cache \in Vma \cup {NoVma} /\ (b.cache = NoVma \/ On(b.list, b.cache))
      /\ Mapped(b.m.pte[p], b.list)
      /\ \A q \in Procs, x \in Pages : q # p => Same(gone, b.m, q, x)
  <2>1. Grown(gone, b, p)
    BY <1>5 DEF Loaded
  <2>2. QED
    BY <2>1, GoodMemIsGood DEF Grown, Space
<1>7. \A q \in Procs, x \in Pages : q # p => Same(m, b.m, q, x)
  BY <1>3, <1>6 DEF Emptied, Same
<1>8. CASE b.ret = "assert"
  <2>1. Panic
    BY <1>1, <1>8 DEF do_execve
  <2>2. QED
    BY <2>1, PanicKeeps
<1>9. CASE b.ret = "E_INVAL" /\ b.m.oom
  <2>1. Panic
    BY <1>1, <1>9 DEF do_execve
  <2>2. QED
    BY <2>1, PanicKeeps
<1>10. CASE b.ret = "E_INVAL" /\ ~b.m.oom
  <2>1. PICK s, l, t : s = b.m /\ l = b.list /\ t = exit_mmap(s, p, l)
    OBVIOUS
  <2>2. Settle(t, p, <<>>, NoVma)
    BY <1>1, <1>10, <2>1 DEF do_execve
  <2>3. Good(s) /\ l \in Seq(Vma) /\ Mapped(s.pte[p], l)
    BY <1>6, <2>1
  <2>4. Emptied(s, t, p)
    BY <2>1, <2>3, ExitEmpties
  <2>5. \A q \in Procs, x \in Pages : q # p => Same(m, t, q, x)
    BY <1>7, <2>1, <2>4 DEF Emptied, Same
  <2>6. Sorted(<<>>) /\ Mapped(t.pte[p], <<>>) /\ Good(t) /\ ~t.oom
    BY <1>10, <2>1, <2>4 DEF Emptied, Sorted, Mapped
  <2>7. VmmInv'
    BY <2>2, <2>5, <2>6, SameIsKept, SettleKeeps
  <2>8. m' = t
    BY <2>2, <2>6 DEF Settle
  <2>9. OthersKeep(p) /\ NoMemoryLeft(p)
    BY <2>4, <2>5, <2>8 DEF OthersKeep, NoMemoryLeft, Emptied, Same, Cell
  <2>10. QED
    BY <2>7, <2>9
<1>11. CASE b.ret = "ok"
  <2>1. PICK s, l, c : s = b.m /\ l = b.list /\ c = b.cache
    OBVIOUS
  <2>2. Settle(s, p, l, c)
    BY <1>1, <1>11, <2>1 DEF do_execve
  <2>3. CASE s.oom
    BY <2>2, <2>3, SettleOom
  <2>4. CASE ~s.oom
    <3>1. /\ Good(s) /\ Sorted(l) /\ Mapped(s.pte[p], l)
          /\ c \in Vma \cup {NoVma} /\ (c = NoVma \/ On(l, c))
          /\ \A q \in Procs, x \in Pages : q # p => Kept(m, s, q, x)
      BY <1>6, <1>7, <2>1, SameIsKept
    <3>2. VmmInv'
      BY <2>2, <3>1, SettleKeeps
    <3>3. m' = s
      BY <2>2, <2>4 DEF Settle
    <3>4. OthersKeep(p)
      BY <3>1, <3>3 DEF OthersKeep, Kept
    <3>5. NewImage(p, layout)
      BY <1>5, <1>11, <2>1, <2>4, <3>3 DEF Loaded, NewImage
    <3>6. QED
      BY <3>2, <3>4, <3>5
  <2>5. QED
    BY <2>3, <2>4
<1>12. QED
  BY <1>6, <1>8, <1>9, <1>10, <1>11

\* fork: the child finds what its parent has.
LEMMA ForkKeeps ==
  ASSUME VmmInv, NEW p \in Procs, NEW c \in Procs, copy_mm(p, c)
  PROVE  /\ VmmInv'
         /\ \/ NothingChanges
            \/ /\ OthersKeep(c)
               /\ \A x \in Pages : Cell(m, c, x) = Undef /\ Cell(m', c, x) = Cell(m, p, x)
<1>1. HasMm(p) /\ ~HasMm(c) /\ p # c
  BY DEF copy_mm, HasMm
<1>2. /\ Good(m) /\ m.oom = FALSE /\ Sorted(mmap_list[p]) /\ Mapped(m.pte[p], mmap_list[p])
      /\ mmap_list[p] \in Seq(Vma) /\ Mapped(m.pte[c], mmap_list[c])
  BY InvFields
<1>3. PICK list : list = mmap_list[p]
  OBVIOUS
<1>4. PICK b, t : b = dup_mmap(m, p, c, list) /\ t = b.m
  OBVIOUS
<1>5. b.list = list /\ Copied(m, t, p, c, PagesOf(list, Len(list)))
  BY <1>1, <1>2, <1>3, <1>4, DupMmap
<1>6. Settle(t, c, list, NoVma)
  BY <1>3, <1>4, <1>5 DEF copy_mm
<1>7. \A x \in Pages : m.pte[c][x] = NoPte
  <2>1. mmap_list[c] = <<>>
    BY <1>1 DEF HasMm
  <2>2. QED
    BY <1>2, <2>1 DEF Mapped
<1>8. CASE t.oom
  <2>1. VmmInv' /\ NothingChanges
    BY <1>6, <1>8, SettleOom
  <2>2. QED
    BY <2>1
<1>9. CASE ~t.oom
  <2>1. ASSUME NEW x \in Pages, m.pte[p][x] # NoPte
        PROVE  \E i \in 1 .. Len(list) : x \in Span(list[i]) /\ Covers(list[i], x)
    <3>1. PICK i \in DOMAIN list : Covers(list[i], x)
      BY <1>2, <1>3, <2>1 DEF Mapped
    <3>2. list[i] \in Vma /\ i \in 1 .. Len(list) /\ x \in Int
      BY <1>2, <1>3, VmmAssumption DEF Pages
    <3>3. QED
      BY <3>1, <3>2, VmaFields
  <2>2. ASSUME NEW x \in Pages
        PROVE  /\ Cell(t, c, x) = Cell(m, p, x)
               /\ t.pte[c][x] # NoPte => m.pte[p][x] # NoPte /\ "w" \notin t.pte[c][x].perm
    <3>1. CASE m.pte[p][x] = NoPte
      <4>1. Kept(m, t, c, x)
        BY <1>5, <1>9, <3>1 DEF Copied
      <4>2. QED
        BY <1>7, <3>1, <4>1 DEF Kept, Cell
    <3>2. CASE m.pte[p][x] # NoPte
      <4>1. x \in PagesOf(list, Len(list))
        BY <2>1, <3>2 DEF PagesOf
      <4>2. QED
        BY <1>5, <1>9, <3>2, <4>1 DEF Copied
    <3>3. QED
      BY <3>1, <3>2
  <2>3. Mapped(t.pte[c], list)
    <3> SUFFICES ASSUME NEW x \in Pages, t.pte[c][x] # NoPte
                 PROVE  \E i \in DOMAIN list : /\ Covers(list[i], x)
                                               /\ "w" \in t.pte[c][x].perm => "w" \in list[i].flags
      BY DEF Mapped
    <3>1. m.pte[p][x] # NoPte /\ "w" \notin t.pte[c][x].perm
      BY <2>2
    <3>2. PICK i \in 1 .. Len(list) : Covers(list[i], x)
      BY <2>1, <3>1
    <3>3. i \in DOMAIN list
      BY <1>2, <1>3
    <3>4. QED
      BY <3>1, <3>2, <3>3
  <2>4. \A q \in Procs, x \in Pages : q # c => Kept(m, t, q, x)
    BY <1>5 DEF Copied
  <2>5. Good(t) /\ Sorted(list)
    BY <1>2, <1>3, <1>5 DEF Copied
  <2>6. VmmInv'
    BY <1>6, <2>3, <2>4, <2>5, SettleKeeps
  <2>7. m' = t
    BY <1>6, <1>9 DEF Settle
  <2>8. OthersKeep(c)
    BY <2>4, <2>7 DEF OthersKeep, Kept
  <2>9. \A x \in Pages : Cell(m, c, x) = Undef /\ Cell(m', c, x) = Cell(m, p, x)
    BY <1>7, <2>2, <2>7 DEF Cell
  <2>10. QED
    BY <2>6, <2>8, <2>9
<1>10. QED
  BY <1>8, <1>9

LEMMA ExitKeeps ==
  ASSUME VmmInv, NEW p \in Procs, do_exit(p)
  PROVE  VmmInv' /\ (NothingChanges \/ (OthersKeep(p) /\ NoMemoryLeft(p)))
<1>1. /\ Good(m) /\ m.oom = FALSE /\ Mapped(m.pte[p], mmap_list[p]) /\ mmap_list[p] \in Seq(Vma)
  BY InvFields
<1>2. PICK t : t = exit_mmap(m, p, mmap_list[p])
  OBVIOUS
<1>3. Settle(t, p, <<>>, NoVma)
  BY <1>2 DEF do_exit
<1>4. Emptied(m, t, p)
  BY <1>1, <1>2, ExitEmpties
<1>5. /\ Good(t) /\ ~t.oom /\ Sorted(<<>>) /\ Mapped(t.pte[p], <<>>)
      /\ \A q \in Procs, x \in Pages : q # p => Same(m, t, q, x)
  BY <1>1, <1>4 DEF Emptied, Sorted, Mapped
<1>6. VmmInv'
  BY <1>3, <1>5, SameIsKept, SettleKeeps
<1>7. m' = t
  BY <1>3, <1>5 DEF Settle
<1>8. OthersKeep(p) /\ NoMemoryLeft(p)
  BY <1>4, <1>5, <1>7 DEF OthersKeep, NoMemoryLeft, Emptied, Same, Cell
<1>9. QED
  BY <1>6, <1>8

\* Only page a of process p has other contents.
OnlyPage(p, a, v) == /\ Cell(m', p, a) = v
                     /\ \A q \in Procs, x \in Pages :
                          <<q, x>> # <<p, a>> => Cell(m', q, x) = Cell(m, q, x)

LEMMA CellsDefined ==
  ASSUME NEW s, Good(s), NEW p \in Procs, NEW a \in Pages
  PROVE  /\ Cell(s, p, a) = Undef <=> s.pte[p][a] = NoPte
         /\ s.pte[p][a] # NoPte => /\ s.pte[p][a] \in Pte /\ s.pte[p][a].frame \in Frames
                                   /\ s.data[s.pte[p][a].frame] \in Data
<1>1. s \in Mem /\ s.data \in [Frames -> Data] /\ s.pte[p][a] \in Pte \cup {NoPte}
  BY MemFields DEF Good
<1>2. s.pte[p][a] # NoPte => s.pte[p][a].frame \in Frames /\ s.data[s.pte[p][a].frame] \in Data
  BY <1>1, PteFields
<1>3. Undef \notin Data
  BY VmmAssumption DEF Data
<1>4. QED
  BY <1>1, <1>2, <1>3 DEF Cell

LEMMA StoreKeeps ==
  ASSUME VmmInv, NEW p \in Procs, NEW a \in Pages, NEW v \in Values, UserStore(p, a, v)
  PROVE  VmmInv' /\ Cell(m, p, a) # Undef /\ OnlyPage(p, a, v)
<1>1. Good(m) /\ m.oom = FALSE
  BY InvFields
<1>2. m.pte[p][a] # NoPte /\ "w" \in m.pte[p][a].perm /\ v \in Data
  BY DEF UserStore, Data
<1>3. PICK s, t : s = m /\ t = [s EXCEPT !.data[s.pte[p][a].frame] = v]
  OBVIOUS
<1>4. /\ Good(t) /\ t.oom = s.oom /\ t.pte = s.pte
      /\ Cell(t, p, a) = v
      /\ \A q \in Procs, x \in Pages : <<q, x>> # <<p, a>> => Same(s, t, q, x)
  <2>1. Good(s) /\ s.pte[p][a] # NoPte /\ "w" \in s.pte[p][a].perm
    BY <1>1, <1>2, <1>3
  <2>2. Alone(s, p, a)
    BY <2>1, WritableIsAlone
  <2>3. QED
    BY <1>2, <1>3, <2>1, <2>2, WriteGood
<1>5. m' = t /\ UNCHANGED <<mmap_list, mmap_cache, panic>>
  BY <1>3 DEF UserStore
<1>6. VmmInv'
  BY <1>3, <1>4, <1>5 DEF VmmInv
<1>7. Cell(m, p, a) # Undef
  BY <1>1, <1>2, CellsDefined
<1>8. OnlyPage(p, a, v)
  BY <1>3, <1>4, <1>5 DEF OnlyPage, Same
<1>9. QED
  BY <1>6, <1>7, <1>8

\* A write fault on a mapped page leaves every memory as it is.
LEMMA BreakShare ==
  ASSUME Good(m), m.oom = FALSE, NEW p \in Procs, NEW a \in Pages, m.pte[p][a] # NoPte,
         NEW vma \in Vma, NEW s, s = break_share(p, a, vma)
  PROVE  s.oom \/ (/\ Good(s) /\ Cell(s, p, a) = Cell(m, p, a)
                   /\ s.pte[p][a] # NoPte /\ s.pte[p][a].perm = FaultPerm(vma)
                   /\ \A q \in Procs, x \in Pages : <<q, x>> # <<p, a>> => Same(m, s, q, x))
<1>1. PICK perm : perm = FaultPerm(vma)
  OBVIOUS
<1>2. PICK n : n = m
  OBVIOUS
<1>3. PICK old : old = n.pte[p][a].frame
  OBVIOUS
<1>4. PICK t : t = pgdir_alloc_page(n, p, a, perm)
  OBVIOUS
<1>5. Good(n) /\ n.oom = FALSE /\ n.pte[p][a] # NoPte /\ perm \in SUBSET Rights
  <2>1. perm \in SUBSET Rights
    BY <1>1 DEF FaultPerm, Rights
  <2>2. QED
    BY <1>2, <2>1
<1>6. old \in Frames /\ n.data[old] \in Data /\ Cell(n, p, a) = n.data[old]
  <2>1. n.pte[p][a].frame \in Frames /\ n.data[n.pte[p][a].frame] \in Data
    BY <1>5, CellsDefined
  <2>2. QED
    BY <1>3, <1>5, <2>1 DEF Cell
<1>7. Allocated(n, t, p, a, perm)
  BY <1>4, <1>5, PageAlloc
<1>8. CASE n.ref[old] > 1 /\ t.oom
  <2>1. s = t
    BY <1>1, <1>2, <1>3, <1>4, <1>8 DEF break_share
  <2>2. QED
    BY <1>8, <2>1
<1>9. CASE n.ref[old] > 1 /\ ~t.oom
  <2>1. s = [t EXCEPT !.data[t.pte[p][a].frame] = n.data[old]]
    BY <1>1, <1>2, <1>3, <1>4, <1>9 DEF break_share
  <2>2. /\ Good(t) /\ t.pte[p][a] # NoPte /\ t.pte[p][a].perm = perm /\ Alone(t, p, a)
        /\ \A q \in Procs, x \in Pages : <<q, x>> # <<p, a>> => Same(n, t, q, x)
    BY <1>7, <1>9 DEF Allocated
  <2>3. PICK v : v = n.data[old]
    OBVIOUS
  <2>4. /\ Good(s) /\ s.oom = t.oom /\ s.pte = t.pte
        /\ Cell(s, p, a) = v
        /\ \A q \in Procs, x \in Pages : <<q, x>> # <<p, a>> => Same(t, s, q, x)
    BY <1>6, <2>1, <2>2, <2>3, WriteGood
  <2>5. \A q \in Procs, x \in Pages : <<q, x>> # <<p, a>> => Same(n, s, q, x)
    BY <2>2, <2>4 DEF Same
  <2>6. QED
    BY <1>1, <1>2, <1>6, <2>2, <2>3, <2>4, <2>5
<1>10. CASE ~(n.ref[old] > 1)
  <2>1. s = page_insert(n, p, a, old, perm)
    BY <1>1, <1>2, <1>3, <1>10 DEF break_share
  <2>2. <<p, a>> \in UsersOf(n, old)
    BY <1>3, <1>5 DEF UsersOf
  <2>3. UsersOf(n, old) \ {<<p, a>>} = {}
    <3> DEFINE S == UsersOf(n, old)
    <3>1. IsFiniteSet(S) /\ Cardinality(S) \in Nat /\ n.ref[old] = Cardinality(S)
      BY <1>5, <1>6, UsersFinite DEF Good
    <3>2. PICK u : u = <<p, a>>
      OBVIOUS
    <3> HIDE DEF S
    <3>3. Cardinality(S \ {u}) = Cardinality(S) - 1
      BY <2>2, <3>1, <3>2, FS_RemoveElement DEF S
    <3>4. IsFiniteSet(S \ {u}) /\ Cardinality(S \ {u}) \in Nat
      BY <3>1, FS_Subset, FS_CardinalityType
    <3>5. Cardinality(S \ {u}) = 0
      BY <1>10, <3>1, <3>3, <3>4
    <3>6. S \ {u} = {}
      BY <3>4, <3>5, FS_EmptySet
    <3>7. QED
      BY <3>2, <3>6 DEF S
  <2>4. old \notin n.free
    BY <1>5, <1>6, <2>2 DEF Good
  <2> DEFINE e == [frame |-> old, perm |-> perm]
  <2>5. Edits(n, s, p, a, e) /\ Cell(s, p, a) = n.data[old]
    BY <1>5, <1>6, <2>1, <2>3, <2>4, PageInsert
  <2>6. e # NoPte /\ e.perm = perm
    <3>1. e \in Pte /\ e.perm = perm
      BY <1>5, <1>6 DEF Pte
    <3>2. QED
      BY <3>1, PteFields
  <2> HIDE DEF e
  <2>7. /\ Good(s) /\ s.pte[p][a] = e
        /\ \A q \in Procs, x \in Pages : <<q, x>> # <<p, a>> => Same(n, s, q, x)
    BY <2>5 DEF Edits
  <2>8. QED
    BY <1>1, <1>2, <1>6, <2>5, <2>6, <2>7
<1>11. QED
  BY <1>8, <1>9, <1>10

LEMMA FaultKeeps ==
  ASSUME VmmInv, NEW p \in Procs, NEW a \in Pages, do_pgfault(p, a)
  PROVE  /\ VmmInv'
         /\ NothingChanges \/ (Cell(m, p, a) = Undef /\ OnlyPage(p, a, Leftover))
<1>1. /\ Good(m) /\ m.oom = FALSE /\ mmap_list[p] \in Seq(Vma) /\ Sorted(mmap_list[p])
      /\ Mapped(m.pte[p], mmap_list[p]) /\ mmap_cache[p] \in Vma \cup {NoVma}
      /\ (mmap_cache[p] = NoVma \/ On(mmap_list[p], mmap_cache[p]))
  BY InvFields
<1>2. PICK list, cache : list = mmap_list[p] /\ cache = mmap_cache[p]
  OBVIOUS
<1>3. PICK vma : vma = find_vma(list, cache, a)
  OBVIOUS
<1>4. /\ vma \in Vma \cup {NoVma}
      /\ vma # NoVma => Covers(vma, a) /\ On(list, vma)
  <2>1. a \in Int
    BY VmmAssumption DEF Pages
  <2>0. list \in Seq(Vma) /\ cache \in Vma \cup {NoVma}
    BY <1>1, <1>2
  <2>2. /\ vma \in Vma \cup {NoVma}
        /\ vma # NoVma => Covers(vma, a) /\ (vma = cache \/ On(list, vma))
        /\ vma = NoVma => \A i \in DOMAIN list : ~Covers(list[i], a)
    BY <1>3, <2>0, <2>1, FindVma
  <2>3. QED
    BY <1>1, <1>2, <2>2
<1>5. CASE vma = NoVma
  <2>1. Panic
    BY <1>2, <1>3, <1>5 DEF do_pgfault
  <2>2. QED
    BY <2>1, PanicKeeps
<1>6. CASE vma # NoVma
  <2>1. PICK s : s = IF m.pte[p][a] = NoPte THEN pgdir_alloc_page(m, p, a, FaultPerm(vma))
                     ELSE break_share(p, a, vma)
    OBVIOUS
  <2>2. Settle(s, p, list, vma)
    BY <1>2, <1>3, <1>6, <2>1 DEF do_pgfault
  <2>3. CASE s.oom
    BY <2>2, <2>3, SettleOom
  <2>4. CASE ~s.oom
    <3>1. /\ Good(s) /\ s.pte[p][a] # NoPte /\ s.pte[p][a].perm = FaultPerm(vma)
          /\ Cell(s, p, a) = IF m.pte[p][a] = NoPte THEN Leftover ELSE Cell(m, p, a)
          /\ \A q \in Procs, x \in Pages : <<q, x>> # <<p, a>> => Same(m, s, q, x)
      <4>1. CASE m.pte[p][a] = NoPte
        <5>1. PICK n, perm : n = m /\ perm = FaultPerm(vma)
          OBVIOUS
        <5>2. perm \in SUBSET Rights
          BY <5>1 DEF FaultPerm, Rights
        <5>3. Good(n) /\ s = pgdir_alloc_page(n, p, a, perm)
          BY <1>1, <2>1, <4>1, <5>1
        <5>4. Allocated(n, s, p, a, perm)
          BY <5>2, <5>3, PageAlloc
        <5>5. QED
          BY <2>4, <4>1, <5>1, <5>4 DEF Allocated
      <4>2. CASE m.pte[p][a] # NoPte
        <5>1. s = break_share(p, a, vma)
          BY <2>1, <4>2
        <5>2. s.oom \/ (/\ Good(s) /\ Cell(s, p, a) = Cell(m, p, a)
                        /\ s.pte[p][a] # NoPte /\ s.pte[p][a].perm = FaultPerm(vma)
                        /\ \A q \in Procs, x \in Pages : <<q, x>> # <<p, a>> => Same(m, s, q, x))
          BY <1>1, <1>4, <1>6, <4>2, <5>1, BreakShare
        <5>3. QED
          BY <2>4, <4>2, <5>2
      <4>3. QED
        BY <4>1, <4>2
    <3>2. \A q \in Procs, x \in Pages : q # p => Kept(m, s, q, x)
      BY <3>1, SameIsKept
    <3>3. Mapped(s.pte[p], list)
      <4> SUFFICES ASSUME NEW x \in Pages, s.pte[p][x] # NoPte
                   PROVE  \E i \in DOMAIN list : /\ Covers(list[i], x)
                                                 /\ "w" \in s.pte[p][x].perm => "w" \in list[i].flags
        BY DEF Mapped
      <4>1. CASE x = a
        <5>1. PICK i \in DOMAIN list : list[i] = vma
          BY <1>4, <1>6 DEF On
        <5>2. "w" \in s.pte[p][x].perm => "w" \in vma.flags
          BY <3>1, <4>1 DEF FaultPerm
        <5>3. QED
          BY <1>4, <1>6, <4>1, <5>1, <5>2
      <4>2. CASE x # a
        <5>1. s.pte[p][x] = m.pte[p][x]
          BY <3>1, <4>2 DEF Same
        <5>2. QED
          BY <1>1, <1>2, <5>1 DEF Mapped
      <4>3. QED
        BY <4>1, <4>2
    <3>4. VmmInv'
      BY <1>1, <1>2, <1>4, <1>6, <2>2, <3>1, <3>2, <3>3, SettleKeeps
    <3>5. m' = s
      BY <2>2, <2>4 DEF Settle
    <3>6. \A q \in Procs, x \in Pages : <<q, x>> # <<p, a>> => Cell(m', q, x) = Cell(m, q, x)
      BY <3>1, <3>5 DEF Same
    <3>7. CASE m.pte[p][a] = NoPte
      <4>1. Cell(m, p, a) = Undef /\ Cell(m', p, a) = Leftover
        BY <3>1, <3>5, <3>7 DEF Cell
      <4>2. OnlyPage(p, a, Leftover)
        BY <3>6, <4>1 DEF OnlyPage
      <4>3. QED
        BY <3>4, <4>1, <4>2
    <3>8. CASE m.pte[p][a] # NoPte
      <4>1. Cell(m', p, a) = Cell(m, p, a)
        BY <3>1, <3>5, <3>8
      <4>2. NothingChanges
        BY <3>6, <4>1 DEF NothingChanges
      <4>3. QED
        BY <3>4, <4>2
    <3>9. QED
      BY <3>7, <3>8
  <2>5. QED
    BY <2>3, <2>4
<1>7. QED
  BY <1>5, <1>6

LEMMA MemCheckKeeps ==
  ASSUME VmmInv, NEW p \in Procs, user_mem_check(p)
  PROVE  VmmInv' /\ NothingChanges
<1>1. /\ mmap_list[p] \in Seq(Vma) /\ mmap_cache[p] \in Vma \cup {NoVma}
      /\ (mmap_cache[p] = NoVma \/ On(mmap_list[p], mmap_cache[p]))
  BY InvFields
<1>2. PICK list, cache : list = mmap_list[p] /\ cache = mmap_cache[p]
  OBVIOUS
<1>3. PICK vma : /\ \E s \in Pages, e \in 1 .. NPages, write \in BOOLEAN :
                      vma = MemCheck(list, cache, s, e, write).last
                 /\ mmap_cache' = [mmap_cache EXCEPT ![p] = Cached(vma, @)]
  BY <1>2 DEF user_mem_check
<1>4. vma = NoVma \/ On(list, vma)
  <2>1. PICK s \in Pages, e \in 1 .. NPages, write \in BOOLEAN :
          vma = MemCheck(list, cache, s, e, write).last
    BY <1>3
  <2>2. QED
    BY <1>1, <1>2, <2>1, MemCheckLast
<1>5. UNCHANGED <<m, mmap_list, panic>>
  BY DEF user_mem_check
<1>6. mmap_cache \in [Procs -> Vma \cup {NoVma}] /\ mmap_list \in [Procs -> Seq(Vma)]
  BY DEF VmmInv
<1>7. /\ Cached(vma, cache) \in Vma \cup {NoVma}
      /\ Cached(vma, cache) # NoVma => Cached(vma, cache) \in ToSet(list)
  <2>1. On(list, vma) => vma \in Vma
    BY <1>1, <1>2 DEF On
  <2>2. QED
    BY <1>1, <1>2, <1>4, <2>1 DEF Cached, On, ToSet
<1>8. mmap_cache' = [mmap_cache EXCEPT ![p] = Cached(vma, cache)]
  BY <1>2, <1>3
<1>9. mmap_cache' \in [Procs -> Vma \cup {NoVma}]
  BY <1>6, <1>7, <1>8
<1>10. ASSUME NEW q \in Procs
       PROVE  mmap_cache'[q] # NoVma => mmap_cache'[q] \in ToSet(mmap_list[q])
  <2>1. mmap_cache'[q] = IF q = p THEN Cached(vma, cache) ELSE mmap_cache[q]
    BY <1>6, <1>8
  <2>2. QED
    BY <1>2, <1>7, <2>1 DEF VmmInv
<1>11. VmmInv'
  BY <1>5, <1>9, <1>10 DEF VmmInv
<1>12. QED
  BY <1>5, <1>11 DEF NothingChanges
-----------------------------------------------------------------------------
LEMMA InitInv == Init => VmmInv
<1> SUFFICES ASSUME Init PROVE VmmInv
  OBVIOUS
<1>1. /\ m.free = Frames /\ m.ref = [f \in Frames |-> 0] /\ m.data = [f \in Frames |-> Leftover]
      /\ m.oom = FALSE /\ m.pte = [p \in Procs |-> [a \in Pages |-> NoPte]]
      /\ m = [free |-> m.free, ref |-> m.ref, data |-> m.data, oom |-> m.oom, pte |-> m.pte]
  BY DEF Init
<1>2. m \in Mem
  <2>1. m.ref \in [Frames -> Int] /\ m.data \in [Frames -> Data]
    BY <1>1 DEF Data
  <2>2. m.pte \in [Procs -> [Pages -> Pte \cup {NoPte}]]
    BY <1>1
  <2>3. m.free \in SUBSET Frames /\ m.oom \in BOOLEAN
    BY <1>1
  <2>4. QED
    BY <1>1, <2>1, <2>2, <2>3 DEF Mem
<1>3. \A f : UsersOf(m, f) = {}
  BY <1>1 DEF UsersOf
<1>4. Good(m)
  BY <1>1, <1>2, <1>3, FS_EmptySet DEF Good
<1>5. \A p \in Procs : /\ mmap_list[p] = <<>> /\ mmap_cache[p] = NoVma
                       /\ \A a \in Pages : m.pte[p][a] = NoPte
  BY <1>1 DEF Init
<1>6. Sorted(<<>>)
  BY DEF Sorted
<1>7. /\ mmap_list \in [Procs -> Seq(Vma)] /\ mmap_cache \in [Procs -> Vma \cup {NoVma}]
      /\ panic \in BOOLEAN
  <2>1. mmap_list \in [Procs -> Seq(Vma)]
    BY DEF Init
  <2>2. mmap_cache \in [Procs -> Vma \cup {NoVma}]
    BY DEF Init
  <2>3. panic \in BOOLEAN
    BY DEF Init
  <2>4. QED
    BY <2>1, <2>2, <2>3
<1>8. QED
  BY <1>1, <1>4, <1>5, <1>6, <1>7 DEF VmmInv, Mapped

\* What p's step may do to the memories of the processes.
Effect(p) ==
  \/ NothingChanges
  \/ OthersKeep(p) /\ ((\E layout \in Layouts : NewImage(p, layout)) \/ NoMemoryLeft(p))
  \/ \E c \in Procs : /\ OthersKeep(c)
                      /\ \A x \in Pages : /\ Cell(m, c, x) = Undef
                                          /\ Cell(m', c, x) = Cell(m, p, x)
  \/ \E a \in Pages, v \in Values : Cell(m, p, a) # Undef /\ OnlyPage(p, a, v)
  \/ \E a \in Pages : Cell(m, p, a) = Undef /\ OnlyPage(p, a, Leftover)

LEMMA StepKeeps ==
  ASSUME VmmInv, NEW p \in Procs, Step(p)
  PROVE  VmmInv' /\ Effect(p)
<1>1. CASE \E layout \in Layouts : do_execve(p, layout)
  BY <1>1, ExecveKeeps DEF Effect
<1>2. CASE \E c \in Procs : copy_mm(p, c)
  BY <1>2, ForkKeeps DEF Effect
<1>3. CASE do_exit(p)
  BY <1>3, ExitKeeps DEF Effect
<1>4. CASE \E a \in Pages, v \in Values : UserStore(p, a, v)
  BY <1>4, StoreKeeps DEF Effect
<1>5. CASE \E a \in Pages : do_pgfault(p, a)
  BY <1>5, FaultKeeps DEF Effect
<1>6. CASE user_mem_check(p)
  BY <1>6, MemCheckKeeps DEF Effect
<1>7. QED
  BY <1>1, <1>2, <1>3, <1>4, <1>5, <1>6 DEF Step

\* The inductive invariant holds in every reachable state of the user memory.
THEOREM VmmSafe == Spec => []VmmInv
<1>1. VmmInv /\ [Next]_vars => VmmInv'
  <2> SUFFICES ASSUME VmmInv, [Next]_vars PROVE VmmInv'
    OBVIOUS
  <2>1. CASE Next
    BY <2>1, StepKeeps DEF Next
  <2>2. CASE UNCHANGED vars
    BY <2>2 DEF vars, VmmInv
  <2>3. QED
    BY <2>1, <2>2
<1>2. QED
  BY <1>1, InitInv, PTL DEF Spec

\* page_insert, page_remove_pte, copy_range and the copy on write branch of
\* do_pgfault keep every frame's reference count at the number of page table
\* entries that name it, and give back no frame that is still mapped.
THEOREM RefCountsAreExact == Spec => []RefCountsExact
<1>1. VmmInv => RefCountsExact
  <2>1. \A f : Users(f) = UsersOf(m, f)
    BY DEF Users, UsersOf
  <2>2. QED
    BY <2>1 DEF VmmInv, Good, RefCountsExact
<1>2. QED
  BY <1>1, VmmSafe, PTL

\* A frame that several page table entries name, in one process or in many, is
\* writable through none of them: copy_range takes the right away from both,
\* do_pgfault returns it only to a frame's last user.
THEOREM NoSharedFrameIsWritable == Spec => []NoWritableShare
<1>1. VmmInv => NoWritableShare
  <2> SUFFICES ASSUME VmmInv, NEW f \in Frames, Cardinality(Users(f)) > 1, NEW pa \in Users(f)
               PROVE  "w" \notin m.pte[pa[1]][pa[2]].perm
    BY DEF NoWritableShare
  <2>1. Users(f) = UsersOf(m, f)
    BY DEF Users, UsersOf
  <2>2. IsFiniteSet(UsersOf(m, f)) /\ Cardinality(UsersOf(m, f)) \in Nat
    BY UsersFinite
  <2>3. Cardinality(UsersOf(m, f) \ {pa}) = Cardinality(UsersOf(m, f)) - 1
    BY <2>1, <2>2, FS_RemoveElement
  <2>4. UsersOf(m, f) \ {pa} # {}
    BY <2>1, <2>2, <2>3, FS_EmptySet
  <2>5. QED
    BY <2>1, <2>4 DEF VmmInv, Good
<1>2. QED
  BY <1>1, VmmSafe, PTL

\* insert_vma_struct and dup_mmap keep each list of vmas sorted and free of
\* overlaps, mmap_cache never outlives its vma, and no page is mapped outside the
\* vmas or writable in one that is not.
THEOREM VmasAreBound == Spec => []VmasBound
<1>1. VmmInv => VmasBound
  <2> SUFFICES ASSUME VmmInv, NEW p \in Procs
               PROVE  /\ \A i \in 1 .. Len(mmap_list[p]) - 1 :
                           mmap_list[p][i].end <= mmap_list[p][i + 1].start
                      /\ mmap_cache[p] # NoVma => mmap_cache[p] \in ToSet(mmap_list[p])
                      /\ Mapped(m.pte[p], mmap_list[p])
    BY DEF VmasBound, Mapped
  <2>1. Sorted(mmap_list[p]) /\ Mapped(m.pte[p], mmap_list[p])
        /\ (mmap_cache[p] # NoVma => mmap_cache[p] \in ToSet(mmap_list[p]))
    BY DEF VmmInv
  <2>2. ASSUME NEW i \in 1 .. Len(mmap_list[p]) - 1
        PROVE  mmap_list[p][i].end <= mmap_list[p][i + 1].start
    <3>1. PICK list \in Seq(Vma) : list = mmap_list[p]
      BY <2>1 DEF Sorted
    <3>2. i \in DOMAIN list /\ i + 1 \in DOMAIN list /\ i < i + 1
      BY <3>1
    <3>3. QED
      BY <2>1, <3>1, <3>2 DEF Sorted
  <2>3. QED
    BY <2>1, <2>2
<1>2. QED
  BY <1>1, VmmSafe, PTL

\* Whatever vma an earlier search left in mmap_cache, user_mem_check passes a
\* buffer exactly when every page of it may be accessed.
THEOREM MemChecksAreExact == Spec => []MemCheckExact
<1>1. VmmInv => MemCheckExact
  <2> SUFFICES ASSUME VmmInv, NEW p \in Procs, NEW s \in Pages, NEW e \in 1 .. NPages,
                      NEW w \in BOOLEAN, s < e
               PROVE  MemCheck(mmap_list[p], mmap_cache[p], s, e, w).ok
                        <=> \A a \in s .. e - 1 : Allowed(mmap_list[p], w, a)
    BY DEF MemCheckExact, Allowed
  <2>1. /\ Sorted(mmap_list[p]) /\ mmap_cache[p] \in Vma \cup {NoVma}
        /\ (mmap_cache[p] = NoVma \/ On(mmap_list[p], mmap_cache[p]))
    BY InvFields
  <2>2. PICK list, cache : list = mmap_list[p] /\ cache = mmap_cache[p]
    OBVIOUS
  <2>3. Sorted(list) /\ cache \in Vma \cup {NoVma} /\ (cache = NoVma \/ On(list, cache))
    BY <2>1, <2>2
  <2>4. MemCheck(list, cache, s, e, w).ok <=> \A a \in s .. e - 1 : Allowed(list, w, a)
    BY <2>3, MemCheckIsExact
  <2>5. QED
    BY <2>2, <2>4
<1>2. QED
  BY <1>1, VmmSafe, PTL
-----------------------------------------------------------------------------
\* The refinement mapping, and how p's own step changes it.
LEMMA ContentsAreCells ==
  /\ Contents = [p \in Procs |-> [a \in Pages |-> Cell(m, p, a)]]
  /\ Contents' = [p \in Procs |-> [a \in Pages |-> Cell(m', p, a)]]
  BY DEF Contents, Cell

LEMMA OwnMemoryChanges ==
  ASSUME NEW p \in Procs, OthersKeep(p)
  PROVE  Contents' = [Contents EXCEPT ![p] = [a \in Pages |-> Cell(m', p, a)]]
<1>1. ASSUME NEW q \in Procs, q # p
      PROVE  [a \in Pages |-> Cell(m', q, a)] = [a \in Pages |-> Cell(m, q, a)]
  BY <1>1 DEF OthersKeep
<1>2. QED
  BY <1>1, ContentsAreCells

LEMMA OnePageChanges ==
  ASSUME NEW p \in Procs, NEW a \in Pages, NEW v, OnlyPage(p, a, v)
  PROVE  Contents' = [Contents EXCEPT ![p][a] = v]
<1>1. OthersKeep(p)
  BY DEF OnlyPage, OthersKeep
<1>2. \A x \in Pages : Cell(m', p, x) = IF x = a THEN v ELSE Cell(m, p, x)
  BY DEF OnlyPage
<1>3. Contents \in [Procs -> [Pages -> {Cell(m, q, x) : q \in Procs, x \in Pages}]]
  BY ContentsAreCells
<1>4. Contents[p] = [x \in Pages |-> Cell(m, p, x)]
  BY ContentsAreCells
<1>5. [x \in Pages |-> Cell(m', p, x)] = [Contents[p] EXCEPT ![a] = v]
  BY <1>2, <1>4
<1>6. QED
  BY <1>1, <1>5, OwnMemoryChanges

\* The pages load_icode fills are those of the program's segments.
LEMMA ImagePages ==
  ASSUME NEW layout \in Layouts, NEW a \in Pages
  PROVE  /\ a \in Image(layout).image <=> a \in PagesOf(layout, Len(layout))
         /\ a \in Image(layout).stack <=> a \in StackTop
<1>1. layout \in Seq(Vma)
  BY VmmAssumption
<1>2. DOMAIN layout = 1 .. Len(layout)
  BY <1>1
<1>3. QED
  BY <1>2 DEF Image, PagesOf, StackTop

\* Every step of the user memory is one of the abstract one, or changes nothing.
LEMMA PrivateStep ==
  VmmInv /\ [Next]_vars => [Private!Next]_Contents
<1> SUFFICES ASSUME VmmInv, [Next]_vars PROVE [Private!Next]_Contents
  OBVIOUS
<1>1. CASE UNCHANGED vars
  BY <1>1 DEF vars, Contents
<1>2. CASE Next
  <2>1. PICK p \in Procs : Step(p)
    BY <1>2 DEF Next
  <2>2. Effect(p)
    BY <2>1, StepKeeps
  <2>3. CASE NothingChanges
    <3>1. \A q \in Procs : [a \in Pages |-> Cell(m', q, a)] = [a \in Pages |-> Cell(m, q, a)]
      BY <2>3 DEF NothingChanges
    <3>2. Contents' = Contents
      BY <3>1, ContentsAreCells
    <3>3. QED
      BY <3>2
  <2>4. ASSUME OthersKeep(p), NEW layout \in Layouts, NewImage(p, layout)
        PROVE  Private!Next
    <3>1. Contents' = [Contents EXCEPT ![p] = [a \in Pages |-> Cell(m', p, a)]]
      BY <2>4, OwnMemoryChanges
    <3>2. PICK i : i = Image(layout)
      OBVIOUS
    <3>3. ASSUME NEW a \in Pages
          PROVE  Cell(m', p, a) = CASE a \in i.image -> Program
                                    [] a \in i.stack -> Leftover
                                    [] OTHER -> Undef
      <4>1. /\ a \in i.image <=> a \in PagesOf(layout, Len(layout))
            /\ a \in i.stack <=> a \in StackTop
        BY <3>2, ImagePages
      <4>2. /\ ~(a \in i.image /\ a \in i.stack)
            /\ Cell(m', p, a) = IF a \in i.stack THEN Leftover
                                ELSE IF a \in i.image THEN Program ELSE Undef
        BY <2>4, <4>1 DEF NewImage
      <4>3. QED
        BY <4>2
    <3>4. [a \in Pages |-> Cell(m', p, a)] = [a \in Pages |-> CASE a \in i.image -> Program
                                                               [] a \in i.stack -> Leftover
                                                               [] OTHER -> Undef]
      BY <3>3
    <3>5. Private!Execve(p, i)
      BY <3>1, <3>4 DEF Private!Execve
    <3>6. QED
      BY <3>2, <3>5 DEF Private!Next
  <2>5. CASE OthersKeep(p) /\ NoMemoryLeft(p)
    <3>1. Contents' = [Contents EXCEPT ![p] = [a \in Pages |-> Cell(m', p, a)]]
      BY <2>5, OwnMemoryChanges
    <3>2. [a \in Pages |-> Cell(m', p, a)] = Private!NoMemory
      BY <2>5 DEF NoMemoryLeft, Private!NoMemory
    <3>3. Private!Exit(p)
      BY <3>1, <3>2 DEF Private!Exit
    <3>4. QED
      BY <3>3 DEF Private!Next
  <2>6. ASSUME NEW c \in Procs, OthersKeep(c),
               \A x \in Pages : Cell(m, c, x) = Undef /\ Cell(m', c, x) = Cell(m, p, x)
        PROVE  Private!Next
    <3>1. Contents' = [Contents EXCEPT ![c] = [a \in Pages |-> Cell(m', c, a)]]
      BY <2>6, OwnMemoryChanges
    <3>2. Contents[p] = [a \in Pages |-> Cell(m, p, a)] /\ Contents[c] = [a \in Pages |-> Cell(m, c, a)]
      BY ContentsAreCells
    <3>3. [a \in Pages |-> Cell(m', c, a)] = Contents[p]
      BY <2>6, <3>2
    <3>4. Contents[c] = Private!NoMemory
      BY <2>6, <3>2 DEF Private!NoMemory
    <3>5. Private!Fork(p, c)
      BY <3>1, <3>3, <3>4 DEF Private!Fork
    <3>6. QED
      BY <3>5 DEF Private!Next
  <2>7. ASSUME NEW a \in Pages, NEW v \in Values, Cell(m, p, a) # Undef, OnlyPage(p, a, v)
        PROVE  Private!Next
    <3>1. Contents' = [Contents EXCEPT ![p][a] = v]
      BY <2>7, OnePageChanges
    <3>2. Contents[p][a] # Undef
      BY <2>7, ContentsAreCells
    <3>3. Private!Store(p, a, v)
      BY <3>1, <3>2 DEF Private!Store
    <3>4. QED
      BY <3>3 DEF Private!Next
  <2>8. ASSUME NEW a \in Pages, Cell(m, p, a) = Undef, OnlyPage(p, a, Leftover)
        PROVE  Private!Next
    <3>1. Contents' = [Contents EXCEPT ![p][a] = Leftover]
      BY <2>8, OnePageChanges
    <3>2. Contents[p][a] = Undef
      BY <2>8, ContentsAreCells
    <3>3. Private!Materialise(p, a)
      BY <3>1, <3>2 DEF Private!Materialise
    <3>4. QED
      BY <3>3 DEF Private!Next
  <2>9. QED
    BY <2>2, <2>3, <2>4, <2>5, <2>6, <2>7, <2>8 DEF Effect
<1>3. QED
  BY <1>1, <1>2

\* However frames are shared, copied, faulted in and given back, each process
\* has a memory no other one's call changes: fork hands on the parent's contents,
\* a store changes one page of one process, execve and exit replace only the
\* caller's image.
THEOREM MemoryIsPrivate == Spec => OwnMemory
<1>1. Init => Private!Init
  <2> SUFFICES ASSUME Init PROVE Private!Init
    OBVIOUS
  <2>1. \A p \in Procs, a \in Pages : Cell(m, p, a) = Undef
    BY DEF Init, Cell
  <2>2. \A p \in Procs : [a \in Pages |-> Cell(m, p, a)] = Private!NoMemory
    BY <2>1 DEF Private!NoMemory
  <2>3. Contents = [p \in Procs |-> Private!NoMemory]
    BY <2>2, ContentsAreCells
  <2>4. QED
    BY <2>3 DEF Private!Init
<1>2. QED
  BY <1>1, PrivateStep, VmmSafe, PTL DEF Spec, OwnMemory, Private!Spec
=============================================================================
