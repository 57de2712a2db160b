------------------------------ MODULE FreeList ------------------------------
(***************************************************************************)
(* The free list of kern/mm/default_pmm.c (lab2 to lab8) and of            *)
(* kern/mm/best_fit_pmm.c (lab2), which share everything but the search:   *)
(* a list of free blocks in the order of their addresses, from whose front *)
(* pages are cut off and into which freed pages are merged.                *)
(*                                                                         *)
(* The list is modelled with its links.  The loop that looks for the place *)
(* of a freed block does not stop when it has put the block behind the     *)
(* last one: it goes on to the block itself, which is the last one now,    *)
(* and puts it behind itself, so that its prev is the block.  list_del     *)
(* does not unlink such a block, and list_add_before makes a circle of it. *)
(*                                                                         *)
(* alloc_pages and free_pages run with interrupts off, so each call is one *)
(* step.  Callers may give back any part of what they hold, in any order,  *)
(* as default_check does.                                                  *)
(***************************************************************************)
EXTENDS Naturals, FiniteSets, FiniteSetsExt

CONSTANTS
  NPages,     \* pages of the range given to init_memmap
  MaxBroken   \* bound: calls after the one that damaged the list

ASSUME FreeListAssumption == NPages \in Nat \ {0} /\ MaxBroken \in Nat

VARIABLES
  links,        \* [next, prev]: the links of the pages and of free_list
  property,     \* of the first page of a block: its length
  PG_property,  \* the pages with the flag PG_property
  nr_free,
  held,         \* how many callers hold a page (they belong to the callers)
  state,        \* "running"; "hangs" in a loop that never ends; "panics"
  refused,      \* n if the latest call was an alloc_pages(n) that returned NULL, else 0
  appended,     \* history: a block was put behind the last one
  broken        \* history: calls since list_del or list_add_before met an entry
                \* whose prev is the entry itself, that call included; else 0

vars == <<links, property, PG_property, nr_free, held, state, refused, appended, broken>>

Pages == 1 .. NPages

free_list == 0   \* the node that heads the list
Nodes == Pages \cup {free_list}

Run(base, n) == base .. base + n - 1

ListAdd(l, at, e) ==
  LET after == l.next[at] IN
  [next |-> [l.next EXCEPT ![at] = e, ![e] = after],
   prev |-> [l.prev EXCEPT ![after] = e, ![e] = at]]

ListAddBefore(l, at, e) ==
  LET before == l.prev[at] IN
  [next |-> [l.next EXCEPT ![before] = e, ![e] = at],
   prev |-> [l.prev EXCEPT ![at] = e, ![e] = before]]

ListDel(l, e) ==
  [next |-> [l.next EXCEPT ![l.prev[e]] = l.next[e]],
   prev |-> [l.prev EXCEPT ![l.next[e]] = l.prev[e]]]

list_empty(l) == l.next[free_list] = free_list

\* Where k calls of list_next lead from the head.  A loop that has not met the
\* head again after as many calls as there are nodes never does.
Reached(l) ==
  LET le[k \in 0 .. NPages + 1] == IF k = 0 THEN free_list ELSE l.next[le[k - 1]] IN le

-----------------------------------------------------------------------------
\* init, and init_memmap for all the pages; what the links of pages hold before
\* is never read.
Init ==
  /\ links = LET none == [x \in Nodes |-> free_list]
             IN ListAdd([next |-> none, prev |-> none], free_list, 1)
  /\ property = [p \in Pages |-> IF p = 1 THEN NPages ELSE 0]
  /\ PG_property = {1}
  /\ nr_free = NPages
  /\ held = [p \in Pages |-> 0]
  /\ state = "running"
  /\ refused = 0
  /\ appended = FALSE
  /\ broken = 0

\* A call after which the list is damaged, or was before.
Damage(now) == broken' = IF now \/ broken > 0 THEN broken + 1 ELSE 0

\* The second half of alloc_pages: n pages are cut off the block, and the rest,
\* if there is one, takes its place in the list.
Take(page, n) ==
  LET prev == links.prev[page]
      rest == property[page] > n
      left == ListDel(links, page)
  IN
  /\ links' = IF rest THEN ListAdd(left, prev, page + n) ELSE left
  /\ property' = IF rest THEN [property EXCEPT ![page + n] = property[page] - n] ELSE property
  /\ PG_property' = (IF rest THEN PG_property \cup {page + n} ELSE PG_property) \ {page}
  /\ nr_free' = nr_free - n
  /\ held' = [p \in Pages |-> IF p \in Run(page, n) THEN held[p] + 1 ELSE held[p]]
  /\ refused' = 0
  /\ Damage(prev = page)
  /\ UNCHANGED <<state, appended>>

\* alloc_pages(n) returns NULL.
TakeNone(n) ==
  /\ refused' = n
  /\ Damage(FALSE)
  /\ UNCHANGED <<links, property, PG_property, nr_free, held, state, appended>>

\* A loop over the list never ends, or an assertion fails.
Stop(how) ==
  /\ state' = how
  /\ refused' = 0
  /\ Damage(FALSE)
  /\ UNCHANGED <<links, property, PG_property, nr_free, held, appended>>

\* The steps of the loop of free_pages at which it links the block.
Places(base) ==
  LET le == Reached(links)
  IN {k \in 1 .. NPages : base < le[k] \/ links.next[le[k]] = free_list}

\* The entry at which the loop links the block.
Place(base) == Reached(links)[Min(Places(base))]

\* Mutant: the block is put behind the entry that should follow it.
Link_WrongSide(base) ==
  IF list_empty(links) THEN ListAdd(links, free_list, base)
  ELSE ListAdd(links, Place(base), base)

\* The loop: before the first entry with a higher address, or behind the last
\* one and then, as there is no break, behind itself.
Link(base) ==
  IF list_empty(links) THEN ListAdd(links, free_list, base)
  ELSE IF base < Place(base) THEN ListAddBefore(links, Place(base), base)
  ELSE ListAdd(ListAdd(links, Place(base), base), base, base)

\* The rest of free_pages: link the block, merge it into the block before it,
\* then merge the result with the block behind.
GiveBack(base, n) ==
  LET linked == Link(base)
      size   == [property EXCEPT ![base] = n]
      before == linked.prev[base]
      joins  == before # free_list /\ before + size[before] = base
      p      == IF joins THEN before ELSE base   \* base = p when merged
      links1 == IF joins THEN ListDel(linked, base) ELSE linked
      size1  == IF joins THEN [size EXCEPT ![before] = @ + n] ELSE size
      after  == links1.next[p]
      grows  == after # free_list /\ p + size1[p] = after
  IN
  /\ links' = IF grows THEN ListDel(links1, after) ELSE links1
  /\ property' = IF grows THEN [size1 EXCEPT ![p] = @ + size1[after]] ELSE size1
  /\ PG_property' = (PG_property \cup {base}) \ ((IF joins THEN {base} ELSE {}) \cup
                                                 (IF grows THEN {after} ELSE {}))
  /\ nr_free' = nr_free + n
  /\ held' = [q \in Pages |-> IF q \in Run(base, n) THEN held[q] - 1 ELSE held[q]]
  /\ refused' = 0
  /\ appended' = (appended \/ (~list_empty(links) /\ Place(base) < base))
  /\ Damage(/\ ~list_empty(links) /\ base < Place(base)
            /\ links.prev[Place(base)] = Place(base))
  /\ UNCHANGED state

\* free_pages of n pages that callers hold.
FreePages(base, n) ==
  /\ base + n - 1 \in Pages
  /\ \A p \in Run(base, n) : held[p] > 0
  /\ IF Run(base, n) \cap PG_property # {} THEN Stop("panics")
     ELSE IF ~list_empty(links) /\ Places(base) = {} THEN Stop("hangs")
     ELSE GiveBack(base, n)

-----------------------------------------------------------------------------
Free == UNION {Run(a, property[a]) : a \in PG_property}

TypeOK ==
  /\ links \in [next : [Nodes -> Nodes], prev : [Nodes -> Nodes]]
  /\ property \in [Pages -> 0 .. NPages]
  /\ PG_property \subseteq Pages
  /\ nr_free \in Nat
  /\ held \in [Pages -> Nat]
  /\ state \in {"running", "hangs", "panics"}
  /\ refused \in 0 .. NPages + 1
  /\ appended \in BOOLEAN
  /\ broken \in 0 .. MaxBroken + 1

\* list_next goes through the blocks by address and back to the head.
Sorted ==
  \A a \in PG_property \cup {free_list} :
    \/ /\ links.next[a] \in PG_property
       /\ a < links.next[a]
       /\ \A b \in PG_property : ~(a < b /\ b < links.next[a])
    \/ links.next[a] = free_list /\ \A b \in PG_property : b <= a

\* No two blocks share a page, and unless a block was put behind the last one,
\* no two touch: free_pages leaves no two blocks behind that could be one.
Merged ==
  \A a, b \in PG_property : a < b =>
    IF appended THEN a + property[a] <= b ELSE a + property[a] < b

\* Every page is in one free block, or one caller holds it.
Partition == \A p \in Pages : held[p] = IF p \in Free THEN 0 ELSE 1

\* Until list_del or list_add_before meets an entry that is its own prev, the
\* list has all the free blocks, in the order of their addresses, no page is
\* lost or given out twice, every loop over the list ends, and the assertion
\* !PageProperty(p) of free_pages stops no caller.  (They need each other: a block
\* that is out of order is merged with the wrong neighbour.)
FreeListExact == broken = 0 => Sorted /\ Merged /\ Partition /\ state = "running"

\* No two callers hold a page: what basic_check asserts of p0, p1 and p2.
HeldOnce == \A p \in Pages : held[p] <= 1

Pool == INSTANCE PagePool WITH free <- Free, count <- nr_free
=============================================================================
