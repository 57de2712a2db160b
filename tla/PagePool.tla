------------------------------ MODULE PagePool ------------------------------
(***************************************************************************)
(* What a pmm_manager (kern/mm/pmm.h) promises to alloc_pages and          *)
(* free_pages: a caller gets n contiguous pages nobody else has, it is     *)
(* refused only when no n contiguous pages are free, and nr_free_pages     *)
(* tells how many are.                                                     *)
(***************************************************************************)
EXTENDS Naturals, FiniteSets

CONSTANT NPages

VARIABLES
  free,         \* the free pages
  count,        \* what nr_free_pages returns
  refused       \* n if the latest call was an alloc_pages(n) that returned NULL, else 0

vars == <<free, count, refused>>

Pages == 1 .. NPages

Run(base, n) == base .. base + n - 1

Init ==
  /\ free = Pages
  /\ count = NPages
  /\ refused = 0

Alloc(n) ==
  /\ \E base \in free : Run(base, n) \subseteq free /\ free' = free \ Run(base, n)
  /\ count' = Cardinality(free')
  /\ refused' = 0

Refuse(n) ==
  /\ \A base \in free : ~(Run(base, n) \subseteq free)
  /\ refused' = n
  /\ UNCHANGED <<free, count>>

Free(base, n) ==
  /\ Run(base, n) \subseteq Pages \ free
  /\ free' = free \cup Run(base, n)
  /\ count' = Cardinality(free')
  /\ refused' = 0

Next ==
  \/ \E n \in 1 .. NPages + 1 : Alloc(n) \/ Refuse(n)
  \/ \E base \in Pages, n \in 1 .. NPages : Free(base, n)

Spec == Init /\ [][Next]_vars
=============================================================================
