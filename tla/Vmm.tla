-------------------------------- MODULE Vmm --------------------------------
(***************************************************************************)
(* The user memory of lab5_with_COW (kern/mm/vmm.c, kern/mm/pmm.c and the  *)
(* parts of kern/process/proc.c that build and drop an mm_struct): the     *)
(* sorted list of vmas with its mmap_cache, the page tables, the reference *)
(* counts of the page frames, and copy on write.                           *)
(*                                                                         *)
(* A page table is a function from user pages to entries; the two upper    *)
(* levels of the tree, which take frames of their own, are left out.  A    *)
(* frame's contents are one value; what a free frame still holds is not    *)
(* told apart (Leftover).  Frames are handed out lowest first, as          *)
(* default_pmm does (modules FreeList, FirstFit).  The swap manager is on  *)
(* (init.c:42) but no list of it is ever read: alloc_pages calls swap_out  *)
(* with check_mm_struct, which is NULL once check_swap has run, so running *)
(* out of frames ends in a page fault of the kernel -- here, in panic.     *)
(***************************************************************************)
EXTENDS Integers, Sequences, FiniteSets, FiniteSetsExt, SequencesExt

CONSTANTS Procs,     \* processes, each with at most one mm_struct
          NPages,    \* user pages are 0 .. NPages - 1; the stack is on top
          NFrames,   \* physical frames 1 .. NFrames
          Values,    \* what user programs store in a page
          Layouts,   \* programs: sequences of segments [start, end, flags]
          StackSize, \* pages of the stack's vma, of which the top
          StackNow,  \* StackNow are allocated by load_icode
          Program,   \* what execve writes to every page of an image
          NoVma, NoPte, Undef, Leftover

VARIABLES m,           \* machine memory: free frames, ref and data of each
                       \* frame, page tables, and oom: alloc_pages ran dry
          mmap_list,   \* each process's vmas, sorted; <<>> without an mm
          mmap_cache,  \* the vma find_vma answered last
          panic

vars == <<m, mmap_list, mmap_cache, panic>>

Pages == 0 .. NPages - 1
Frames == 1 .. NFrames
Rights == {"r", "w", "x", "stack"}

\* a page table entry, and a vma (the pages start .. end - 1)
Pte == [frame : Frames, perm : SUBSET Rights]
Vma == [start : Pages, end : 1 .. NPages, flags : SUBSET Rights]

ASSUME VmmAssumption ==
  /\ IsFiniteSet(Procs)
  /\ NPages \in Nat \ {0} /\ NFrames \in Nat \ {0}
  /\ StackSize \in Nat /\ StackNow \in 1 .. StackSize /\ StackSize < NPages
  /\ Layouts \subseteq Seq(Vma)
  /\ NoVma \notin Vma /\ NoPte \notin Pte
  /\ Undef \notin Values \cup {Program, Leftover}

(* ------------------------------ page tables --------------------------- *)
alloc_page(s) == IF s.free = {} THEN [s EXCEPT !.oom = TRUE]
                 ELSE [s EXCEPT !.free = @ \ {Min(s.free)}]

page_remove_pte(s, p, a) ==
  LET f == s.pte[p][a].frame
      last == s.ref[f] = 1
  IN [s EXCEPT !.ref[f] = @ - 1, !.pte[p][a] = NoPte,
               !.free = IF last THEN @ \cup {f} ELSE @,
               !.data[f] = IF last THEN Leftover ELSE @]

\* the same page inserted again counts twice
page_insert_NoDec(s, p, a, f, perm) ==
  LET more == [s EXCEPT !.ref[f] = @ + 1]
      old  == s.pte[p][a]
      kept == IF old = NoPte \/ old.frame = f THEN more ELSE page_remove_pte(more, p, a)
  IN [kept EXCEPT !.pte[p][a] = [frame |-> f, perm |-> perm]]

page_insert(s, p, a, f, perm) ==
  LET more == [s EXCEPT !.ref[f] = @ + 1]
      old  == s.pte[p][a]
      kept == CASE old = NoPte  -> more
                [] old # NoPte /\ old.frame = f -> s
                [] OTHER        -> page_remove_pte(more, p, a)
  IN [kept EXCEPT !.pte[p][a] = [frame |-> f, perm |-> perm]]

pgdir_alloc_page(s, p, a, perm) ==
  IF s.free = {} THEN alloc_page(s)
  ELSE page_insert(alloc_page(s), p, a, Min(s.free), perm)

unmap_range(s, p, pages) ==
  FoldSet(LAMBDA a, t : IF t.pte[p][a] = NoPte THEN t ELSE page_remove_pte(t, p, a),
          s, pages)

\* the parent keeps its right to write
copy_page_ParentWrites(s, from, to, a) ==
  LET pte == s.pte[from][a]
      t   == alloc_page(s)
  IN IF pte = NoPte \/ s.oom THEN s
     ELSE IF t.oom THEN t ELSE page_insert(t, to, a, pte.frame, pte.perm \ {"w"})

\* One page of copy_range with share = 1: a frame for a private copy is
\* allocated all the same and then never used, mapped or given back.
copy_page(s, from, to, a) ==
  LET pte == s.pte[from][a]
      t   == alloc_page(s)
      ro  == pte.perm \ {"w"}
  IN IF pte = NoPte \/ s.oom THEN s
     ELSE IF t.oom THEN t
     ELSE page_insert(page_insert(t, from, a, pte.frame, ro), to, a, pte.frame, ro)

Span(vma) == vma.start .. vma.end - 1

copy_range(s, from, to, vma) ==
  FoldLeft(LAMBDA t, i : copy_page(t, from, to, vma.start + i - 1), s,
           [i \in 1 .. (vma.end - vma.start) |-> i])

(* ------------------------------- the vmas ------------------------------ *)
Covers(vma, a) == vma # NoVma /\ vma.start <= a /\ a < vma.end

find_vma(list, cache, a) ==
  IF Covers(cache, a) THEN cache
  ELSE LET hits == {i \in DOMAIN list : Covers(list[i], a)}
       IN IF hits = {} THEN NoVma ELSE list[Min(hits)]

Cached(vma, cache) == IF vma = NoVma THEN cache ELSE vma

overlaps(prev, next) == prev.end > next.start

\* where insert_vma_struct puts a vma: after the last one that does not
\* start later than it
Place(list, vma) ==
  Min({i \in DOMAIN list : list[i].start > vma.start} \cup {Len(list) + 1})

insert_vma_fails(list, vma) ==
  LET i == Place(list, vma)
  IN \/ vma.start >= vma.end
     \/ i > 1 /\ overlaps(list[i - 1], vma)
     \/ i <= Len(list) /\ overlaps(vma, list[i])

insert_vma_struct(list, vma) == InsertAt(list, Place(list, vma), vma)

\* mm_map on an address space under construction.  Only the vma that holds
\* the first page is looked at; an overlap further up hits the assertion.
mm_map(b, vma) ==
  LET hit == find_vma(b.list, b.cache, vma.start)
  IN IF hit # NoVma /\ vma.end > hit.start
     THEN [b EXCEPT !.ret = "E_INVAL", !.cache = hit]
     ELSE IF insert_vma_fails(b.list, vma) THEN [b EXCEPT !.ret = "assert"]
     ELSE [b EXCEPT !.list = insert_vma_struct(b.list, vma)]

(* --------------------- building and dropping an mm --------------------- *)
SegmentPerm(flags) == (flags \ {"stack"}) \cup (IF "w" \in flags THEN {"r"} ELSE {})

\* the pages of a segment, filled with the program's bytes
load_segment(s, p, seg) ==
  LET fill(t, a) ==
        LET u == pgdir_alloc_page(t, p, a, SegmentPerm(seg.flags))
        IN IF t.oom \/ u.oom THEN u ELSE [u EXCEPT !.data[u.pte[p][a].frame] = Program]
  IN FoldLeft(LAMBDA t, i : fill(t, seg.start + i - 1), s,
              [i \in 1 .. (seg.end - seg.start) |-> i])

Stack == [start |-> NPages - StackSize, end |-> NPages, flags |-> {"r", "w", "stack"}]

\* the stack's top pages, readable, writable and executable (PTE_USER)
load_stack(s, p) ==
  FoldLeft(LAMBDA t, i : pgdir_alloc_page(t, p, NPages - i, {"r", "w", "x"}), s,
           [i \in 1 .. StackNow |-> i])

\* mm_map, and the pages of the vma filled (in loaded) if it succeeds
add_vma(b, vma, loaded) ==
  LET c == mm_map(b, vma)
  IN IF b.ret # "ok" THEN b
     ELSE IF c.ret # "ok" THEN c ELSE [c EXCEPT !.m = loaded]

\* load_icode: b carries the address space and the outcome so far
load_icode(s, p, layout) ==
  LET empty == [m |-> s, list |-> <<>>, cache |-> NoVma, ret |-> "ok"]
      segs  == FoldLeft(LAMBDA b, seg : add_vma(b, seg, load_segment(b.m, p, seg)),
                        empty, layout)
  IN add_vma(segs, Stack, load_stack(segs.m, p))

exit_mmap(s, p, list) ==
  FoldLeft(LAMBDA t, vma : unmap_range(t, p, Span(vma)), s, list)

\* dup_mmap walks the list from its end
dup_mmap(s, from, to, list) ==
  FoldLeft(LAMBDA b, vma : [m    |-> copy_range(b.m, from, to, vma),
                            list |-> insert_vma_struct(b.list, vma)],
           [m |-> s, list |-> <<>>], Reverse(list))

(* ------------------------------- actions ------------------------------- *)
Init ==
  /\ m = [free |-> Frames, ref |-> [f \in Frames |-> 0],
          data |-> [f \in Frames |-> Leftover], oom |-> FALSE,
          pte  |-> [p \in Procs |-> [a \in Pages |-> NoPte]]]
  /\ mmap_list = [p \in Procs |-> <<>>]
  /\ mmap_cache = [p \in Procs |-> NoVma]
  /\ panic = FALSE

HasMm(p) == mmap_list[p] # <<>>

Panic == panic' = TRUE /\ UNCHANGED <<m, mmap_list, mmap_cache>>

\* p's address space becomes s, list and cache -- unless the kernel died
Settle(s, p, list, cache) ==
  IF s.oom THEN Panic
  ELSE /\ m' = s
       /\ mmap_list' = [mmap_list EXCEPT ![p] = list]
       /\ mmap_cache' = [mmap_cache EXCEPT ![p] = cache]
       /\ UNCHANGED panic

\* The old image goes before the new one is known to be good; a layout that
\* is refused leaves the caller without memory and it exits.
do_execve(p, layout) ==
  LET gone == exit_mmap(m, p, mmap_list[p])
      b    == load_icode(gone, p, layout)
  IN CASE b.ret = "assert"  -> Panic
       [] b.ret = "E_INVAL" -> IF b.m.oom THEN Panic
                               ELSE Settle(exit_mmap(b.m, p, b.list), p, <<>>, NoVma)
       [] b.ret = "ok"      -> Settle(b.m, p, b.list, b.cache)

\* copy_mm for a new process c; the child's mmap_cache starts empty
copy_mm(p, c) ==
  /\ HasMm(p) /\ ~HasMm(c)
  /\ LET b == dup_mmap(m, p, c, mmap_list[p]) IN Settle(b.m, c, b.list, NoVma)

do_exit(p) ==
  /\ HasMm(p)
  /\ Settle(exit_mmap(m, p, mmap_list[p]), p, <<>>, NoVma)

\* a store the page table lets through
UserStore(p, a, v) ==
  /\ m.pte[p][a] # NoPte
  /\ "w" \in m.pte[p][a].perm
  /\ m' = [m EXCEPT !.data[m.pte[p][a].frame] = v]
  /\ UNCHANGED <<mmap_list, mmap_cache, panic>>

\* every page becomes writable at its first fault
FaultPerm_Always(vma) == {"r", "w"}

FaultPerm(vma) == IF "w" \in vma.flags THEN {"r", "w"} ELSE {}

\* the new frame is mapped but not filled
break_share_NoCopy(p, a, vma) ==
  LET old == m.pte[p][a].frame
  IN IF m.ref[old] > 1 THEN pgdir_alloc_page(m, p, a, FaultPerm(vma))
     ELSE page_insert(m, p, a, old, FaultPerm(vma))

\* a write to a page that is mapped: a copy if others use it, else the page
break_share(p, a, vma) ==
  LET old == m.pte[p][a].frame
      t   == pgdir_alloc_page(m, p, a, FaultPerm(vma))
  IN IF m.ref[old] > 1
     THEN IF t.oom THEN t
          ELSE [t EXCEPT !.data[t.pte[p][a].frame] = m.data[old]]
     ELSE page_insert(m, p, a, old, FaultPerm(vma))

\* do_pgfault never asks whether the vma allows the access; outside every
\* vma it fails and exception_handler panics.
do_pgfault(p, a) ==
  LET vma == find_vma(mmap_list[p], mmap_cache[p], a)
  IN /\ HasMm(p)
     /\ m.pte[p][a] # NoPte => ~({"r", "w"} \subseteq m.pte[p][a].perm)
     /\ IF vma = NoVma THEN Panic
        ELSE Settle(IF m.pte[p][a] = NoPte
                    THEN pgdir_alloc_page(m, p, a, FaultPerm(vma))
                    ELSE break_share(p, a, vma),
                    p, mmap_list[p], vma)

\* only the vma of the first page is looked at
MemCheck_FirstOnly(list, cache, s, e, write) ==
  LET vma == find_vma(list, cache, s)
  IN [ok |-> vma # NoVma /\ (IF write THEN "w" ELSE "r") \in vma.flags, last |-> vma]

\* user_mem_check over the pages s .. e - 1: does it pass, and which vma
\* did it look at last (only the first search can use the old mmap_cache)
MemCheck(list, cache, s, e, write) ==
  LET right == IF write THEN "w" ELSE "r"
      check[a \in 0 .. NPages] ==
        LET vma == find_vma(list, IF a = s THEN cache ELSE NoVma, a)
            bad == \/ right \notin vma.flags
                   \/ write /\ "stack" \in vma.flags /\ a < vma.start + 1
        IN CASE vma = NoVma -> [ok |-> FALSE, last |-> NoVma]
             [] vma # NoVma /\ bad -> [ok |-> FALSE, last |-> vma]
             [] vma # NoVma /\ ~bad /\ vma.end >= e -> [ok |-> TRUE, last |-> vma]
             [] OTHER -> [ok |-> check[vma.end].ok,
                          last |-> Cached(check[vma.end].last, vma)]
  IN check[s]

\* the kernel checks a user buffer, any [s, e); its accesses are the user's
user_mem_check(p) ==
  LET looked == {MemCheck(mmap_list[p], mmap_cache[p], b[1], b[2], b[3]).last :
                   b \in {x \in Pages \X (1 .. NPages) \X BOOLEAN : x[1] < x[2]}}
  IN /\ HasMm(p)
     /\ \E vma \in looked : mmap_cache' = [mmap_cache EXCEPT ![p] = Cached(vma, @)]
     /\ UNCHANGED <<m, mmap_list, panic>>

Step(p) ==
  \/ \E layout \in Layouts : do_execve(p, layout)
  \/ \E c \in Procs : copy_mm(p, c)
  \/ do_exit(p)
  \/ \E a \in Pages, v \in Values : UserStore(p, a, v)
  \/ \E a \in Pages : do_pgfault(p, a)
  \/ user_mem_check(p)

Next == ~panic /\ \E p \in Procs : Step(p)

Spec == Init /\ [][Next]_vars

(* ------------------------------ properties ----------------------------- *)
Users(f) == {pa \in Procs \X Pages : m.pte[pa[1]][pa[2]] # NoPte
                                     /\ m.pte[pa[1]][pa[2]].frame = f}

\* Every reference count is the number of page table entries that name the
\* frame, and a free frame is named by none: page_insert, page_remove_pte
\* and the copy on write handler together never give back a page in use.
RefCountsExact == \A f \in Frames : /\ m.ref[f] = Cardinality(Users(f))
                                    /\ f \in m.free => Users(f) = {}

\* No process can write a frame another one maps: copy_range takes the
\* right away from parent and child, do_pgfault gives it back only to the
\* sole owner of a frame.
NoWritableShare ==
  \A f \in Frames : Cardinality(Users(f)) > 1 =>
    \A pa \in Users(f) : "w" \notin m.pte[pa[1]][pa[2]].perm

\* The list is sorted and free of overlaps, mmap_cache is on it, and every
\* mapped page lies in a vma, writable only if the vma is.
VmasBound ==
  \A p \in Procs :
    /\ \A i \in 1 .. Len(mmap_list[p]) - 1 :
         mmap_list[p][i].end <= mmap_list[p][i + 1].start
    /\ mmap_cache[p] # NoVma => mmap_cache[p] \in ToSet(mmap_list[p])
    /\ \A a \in Pages : m.pte[p][a] # NoPte =>
         \E i \in DOMAIN mmap_list[p] :
           /\ Covers(mmap_list[p][i], a)
           /\ "w" \in m.pte[p][a].perm => "w" \in mmap_list[p][i].flags

\* user_mem_check passes a buffer exactly when each of its pages lies in a
\* vma with the right asked for, and none is the guard page of the stack.
MemCheckExact ==
  \A p \in Procs, s \in Pages, e \in 1 .. NPages, w \in BOOLEAN :
    HasMm(p) /\ s < e =>
      (MemCheck(mmap_list[p], mmap_cache[p], s, e, w).ok
         <=> \A a \in s .. e - 1 : \E i \in DOMAIN mmap_list[p] :
               LET vma == mmap_list[p][i]
               IN /\ Covers(vma, a)
                  /\ (IF w THEN "w" ELSE "r") \in vma.flags
                  /\ ~(w /\ "stack" \in vma.flags /\ a = vma.start))

Contents == [p \in Procs |-> [a \in Pages |->
               IF m.pte[p][a] = NoPte THEN Undef ELSE m.data[m.pte[p][a].frame]]]

Image(layout) == [image |-> UNION {Span(layout[i]) : i \in DOMAIN layout},
                  stack |-> NPages - StackNow .. NPages - 1]

Private == INSTANCE PrivateMem WITH
  memory <- Contents, Images <- {Image(layout) : layout \in Layouts}

\* Through sharing, faults and copies each process keeps a memory of its
\* own: fork duplicates it, a store changes one page of one process, and no
\* other process's call changes anything.
OwnMemory == Private!Spec
=============================================================================
