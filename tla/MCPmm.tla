------------------------------- MODULE MCPmm -------------------------------
(***************************************************************************)
(* Model checking of the kernel's memory allocators: Pmm and its           *)
(* refinement of PagePool; the third manager, buddy, for callers that      *)
(* allocate and give nothing back (MCBuddy has the frees); and the heap    *)
(* on top of the page pool.  One of them moves in each behaviour.          *)
(***************************************************************************)
EXTENDS Pmm

CONSTANTS max_order, Base,
          HeapPages, PAGE_SIZE, SLOB_UNIT, BigblockSize, Sizes

\* The buddies manage 2^max_order pages from page Base on.
ASSUME BuddyAssumption == max_order \in Nat /\ Base \in Nat

VARIABLES b_links, b_property, b_flags, b_nr_free, b_held, b_pc, b_n, b_order, b_level

b_vars == <<b_links, b_property, b_flags, b_nr_free, b_held, b_pc, b_n, b_order, b_level>>

VARIABLES k_slob, k_bigblocks, k_use, k_live, k_panicked

k_vars == <<k_slob, k_bigblocks, k_use, k_live, k_panicked>>

VARIABLE part   \* what moves: "pages" or "heap"

Heap == INSTANCE Kmalloc WITH
  NPages <- HeapPages, slob <- k_slob, bigblocks <- k_bigblocks, use <- k_use,
  live <- k_live, panicked <- k_panicked

Buddies == INSTANCE Buddy WITH
  links <- b_links, property <- b_property, PG_property <- b_flags,
  nr_free <- b_nr_free, held <- b_held, pc <- b_pc, n <- b_n,
  order <- b_order, level <- b_level

MCInit ==
  /\ Buddies!Init
  /\ Heap!Init
  /\ \/ PmmInit /\ part = "pages"
     \/ pmm_manager = "buddy_pmm_manager" /\ Init /\ part = "pages"
     \/ pmm_manager = "default_pmm_manager" /\ Init /\ part = "heap"

MCNext ==
  \/ part = "pages" /\ Next /\ UNCHANGED <<b_vars, k_vars, part>>
  \/ /\ part = "pages"
     /\ pmm_manager = "buddy_pmm_manager"
     /\ Buddies!Alloc \/ Buddies!Panic
     /\ UNCHANGED <<pmm_vars, k_vars, part>>
  \/ part = "heap" /\ Heap!Next /\ UNCHANGED <<pmm_vars, b_vars, part>>

MCSpec == MCInit /\ [][MCNext]_<<pmm_vars, b_vars, k_vars, part>>

\* No code reads the links and the length of a page to which no link leads from
\* free_list, so TLC need not tell states apart by them.
Known ==
  LET K[k \in 0 .. NPages] ==
        IF k = 0 THEN {free_list}
        ELSE K[k - 1] \cup UNION {{links.next[x], links.prev[x]} : x \in K[k - 1]}
  IN K[NPages]

Seen ==
  <<{<<x, links.next[x], links.prev[x]>> : x \in Known},
    {<<p, property[p]>> : p \in Known \ {free_list}},
    PG_property, nr_free, held, state, refused, appended, broken, pmm_manager,
    b_vars, k_vars, part>>

\* Two callers of buddy_alloc_pages never hold the same page, whatever sizes
\* they asked for in whatever order: buddy_split loses and repeats no page.
BuddyDisjoint == Buddies!HeldDisjoint

\* The ring of free blocks and the large blocks of the kernel heap are exact
\* after every sequence of kmalloc and kfree.
SlobExact == Heap!SlobExact
=============================================================================
