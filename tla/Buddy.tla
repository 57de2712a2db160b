-------------------------------- MODULE Buddy --------------------------------
(***************************************************************************)
(* buddy_pmm_manager, the page allocator of lab2 (kern/mm/buddy.c): one    *)
(* list of free blocks per order, larger blocks are split on request, and  *)
(* a freed block is merged with its buddy.                                 *)
(*                                                                         *)
(* The lists are modelled with their links, because buddy_free_pages also  *)
(* unlinks blocks that are on no list, and list_del leaves the links of a  *)
(* removed entry as they are.  The recursion of buddy_split is a climb to  *)
(* the first order with a free block and a descent that splits; pc is the  *)
(* place in buddy_alloc_pages, which runs with interrupts off.             *)
(***************************************************************************)
EXTENDS Integers, FiniteSets

CONSTANTS
  max_order,    \* order of the block that buddy_init_memmap creates (a Nat)
  Base          \* index in pages[] of its first page (a Nat)

VARIABLES
  links,        \* [next, prev]: the links of the pages and of the list heads
  property,     \* of a head page: the order of its block
  PG_property,  \* the pages with the flag PG_property
  nr_free,
  held,         \* the blocks that callers hold: [page, n], n as requested
  pc,           \* "idle", "climb", "split", "take", "panic" or "wild"
  n, order, level

vars == <<links, property, PG_property, nr_free, held, pc, n, order, level>>

Pages == Base .. Base + 2^max_order - 1

\* The lists are numbered by order; free_array[k] is the node -1 - k.
free_array(k) == -1 - k
Nodes == Pages \cup {free_array(k) : k \in 0 .. max_order}

ceil_pow2(m) == CHOOSE p \in {2^k : k \in 0 .. m} :
                  p >= m /\ \A q \in {2^k : k \in 0 .. m} : q >= m => p <= q
log2(p) == CHOOSE k \in 0 .. p : 2^k = p

list_empty(k) == links.next[free_array(k)] = free_array(k)

ListAdd(l, at, e) ==
  LET after == l.next[at] IN
  [next |-> [l.next EXCEPT ![at] = e, ![e] = after],
   prev |-> [l.prev EXCEPT ![after] = e, ![e] = at]]

ListDel(l, e) ==
  [next |-> [l.next EXCEPT ![l.prev[e]] = l.next[e]],
   prev |-> [l.prev EXCEPT ![l.next[e]] = l.prev[e]]]

\* a XOR 2^k.
Flip(a, k) == IF (a \div 2^k) % 2 = 0 THEN a + 2^k ELSE a - 2^k

get_buddy(page) == Flip(page, property[page])

\* buddy_init and buddy_init_memmap.
Init ==
  /\ links = LET self == [x \in Nodes |-> x]
             IN ListAdd([next |-> self, prev |-> self], free_array(max_order), Base)
  /\ property = [p \in Pages |-> IF p = Base THEN max_order ELSE 0]
  /\ PG_property = {Base}
  /\ nr_free = 2^max_order
  /\ held = {}
  /\ pc = "idle"
  /\ n = 0 /\ order = 0 /\ level = 0

\* buddy_alloc_pages(m) returns NULL.
AllocNull(m) ==
  /\ pc = "idle"
  /\ m > nr_free
  /\ UNCHANGED vars

\* buddy_alloc_pages(m), up to its call of buddy_split.
AllocStart(m) ==
  /\ pc = "idle"
  /\ m <= nr_free
  /\ n' = m
  /\ order' = log2(ceil_pow2(m))
  /\ level' = order' + 1
  /\ pc' = IF list_empty(order') THEN "climb" ELSE "take"
  /\ UNCHANGED <<links, property, PG_property, nr_free, held>>

\* buddy_split(level): its assertion, and the recursive call if there is no
\* block of this order.
Climb ==
  /\ pc = "climb"
  /\ IF level > max_order
       THEN pc' = "panic" /\ UNCHANGED level
       ELSE IF list_empty(level) THEN level' = level + 1 /\ UNCHANGED pc
                                 ELSE pc' = "split" /\ UNCHANGED level
  /\ UNCHANGED <<links, property, PG_property, nr_free, held, n, order>>

\* The first block of list k can be split: it is a page, and both halves are
\* in the managed range.
Splittable(k) ==
  LET left == links.next[free_array(k)]
  IN left \in Pages /\ property[left] >= 1 /\ left + 2^(property[left] - 1) \in Pages

\* Mutant: the distance to the right half is the order, not the size.
Split_OrderAsSize ==
  LET left == links.next[free_array(level)]
      half == property[left] - 1
      right == left + half
  IN
  /\ pc = "split"
  /\ Splittable(level)
  /\ property' = [property EXCEPT ![left] = half, ![right] = half]
  /\ PG_property' = PG_property \cup {right}
  /\ links' = ListAdd(ListAdd(ListDel(links, left), free_array(level - 1), left),
                      left, right)
  /\ level' = level - 1
  /\ pc' = IF level - 1 = order THEN "take" ELSE "split"
  /\ UNCHANGED <<nr_free, held, n, order>>

\* The rest of buddy_split(level).
Split ==
  LET left == links.next[free_array(level)]
      half == property[left] - 1
      right == left + 2^half
  IN
  /\ pc = "split"
  /\ Splittable(level)
  /\ property' = [property EXCEPT ![left] = half, ![right] = half]
  /\ PG_property' = PG_property \cup {right}
  /\ links' = ListAdd(ListAdd(ListDel(links, left), free_array(level - 1), left),
                      left, right)
  /\ level' = level - 1
  /\ pc' = IF level - 1 = order THEN "take" ELSE "split"
  /\ UNCHANGED <<nr_free, held, n, order>>

\* The end of buddy_alloc_pages.
Take ==
  LET ret == links.next[free_array(order)] IN
  /\ pc = "take"
  /\ ret \in Pages
  /\ links' = ListDel(links, ret)
  /\ PG_property' = PG_property \ {ret}
  /\ held' = held \cup {[page |-> ret, n |-> n]}
  /\ nr_free' = nr_free - 2^order
  /\ pc' = "idle"
  /\ n' = 0 /\ order' = 0 /\ level' = 0
  /\ UNCHANGED property

\* The lists are damaged: buddy_split or buddy_alloc_pages takes a list head
\* for a page, or leaves the managed range.  What follows is undefined.
GoWild ==
  /\ \/ pc = "split" /\ ~Splittable(level)
     \/ pc = "take" /\ links.next[free_array(order)] \notin Pages
  /\ pc' = "wild"
  /\ UNCHANGED <<links, property, PG_property, nr_free, held, n, order, level>>

\* buddy_free_pages(b.page, b.n).  The loop that merges the block with its buddy
\* clears the flag its condition tests, so its body is executed at most once; a
\* is the lower one of the two blocks and c the higher one.
FreePages(b) ==
  LET base == b.page
      buddy == get_buddy(base)
      a == IF base < buddy THEN base ELSE buddy
      c == IF base < buddy THEN buddy ELSE base
      linked == ListAdd(links, free_array(property[base]), base)
      merge == property[base] < max_order /\ buddy \in PG_property
  IN
  /\ pc = "idle"
  /\ b \in held
  /\ IF 2^property[base] # ceil_pow2(b.n)
       THEN pc' = "panic" /\ UNCHANGED <<links, property, PG_property, nr_free, held>>
       ELSE /\ links' = IF merge THEN ListDel(ListDel(linked, a), c) ELSE linked
            /\ property' = IF merge THEN [property EXCEPT ![a] = @ + 1, ![c] = 0] ELSE property
            /\ PG_property' = IF merge THEN (PG_property \cup {a}) \ {c} ELSE PG_property
            /\ nr_free' = nr_free + 2^property[base]
            /\ held' = held \ {b}
            /\ UNCHANGED pc
  /\ UNCHANGED <<n, order, level>>

\* panic() does not return, and neither does a run that went wild.
Panic == pc \in {"panic", "wild"} /\ UNCHANGED vars

Alloc ==
  \/ \E m \in 1 .. 2^max_order : AllocNull(m) \/ AllocStart(m)
  \/ Climb \/ Split \/ Take

Next ==
  \/ Alloc \/ GoWild
  \/ \E b \in held : FreePages(b)
  \/ Panic

Spec == Init /\ [][Next]_vars

-----------------------------------------------------------------------------
Block(page, k) == page .. page + 2^k - 1

\* Two callers never hold the same page (the blocks that basic_check
\* allocates differ from each other).
HeldDisjoint ==
  \A b, c \in held : b # c =>
    Block(b.page, log2(ceil_pow2(b.n))) \cap Block(c.page, log2(ceil_pow2(c.n))) = {}
=============================================================================
