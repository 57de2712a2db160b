--------------------------------- MODULE Pmm ---------------------------------
(***************************************************************************)
(* The physical memory manager: kern/mm/pmm.c calls the list allocators    *)
(* through the pointer pmm_manager, which init_pmm_manager sets once at    *)
(* boot.  lab2 has both list managers (and builds with buddy, see Buddy);  *)
(* the later labs have the first only.                                     *)
(***************************************************************************)
EXTENDS FirstFit, BestFit

VARIABLE pmm_manager

pmm_vars == <<vars, pmm_manager>>

\* init_pmm_manager and page_init.
PmmInit ==
  /\ pmm_manager \in {"default_pmm_manager", "best_fit_pmm_manager"}
  /\ Init

\* Calls go on, for a bounded time if the list is damaged.
Running == state = "running" /\ broken <= MaxBroken

\* alloc_pages(n).
alloc_pages(n) ==
  /\ Running
  /\ \/ pmm_manager = "default_pmm_manager" /\ AllocPages(n)
     \/ pmm_manager = "best_fit_pmm_manager" /\ BestAllocPages(n)
  /\ UNCHANGED pmm_manager

\* free_pages(base, n).
free_pages(base, n) ==
  /\ Running
  /\ \/ pmm_manager = "default_pmm_manager" /\ FreePages(base, n)
     \/ pmm_manager = "best_fit_pmm_manager" /\ BestFreePages(base, n)
  /\ UNCHANGED pmm_manager

\* With interrupts off nothing ends a loop, and panic() does not return.
Stopped == ~Running /\ UNCHANGED pmm_vars

Next ==
  \/ \E n \in 1 .. NPages + 1 : alloc_pages(n)
  \/ \E base \in Pages, n \in 1 .. NPages : free_pages(base, n)
  \/ Stopped

Spec == PmmInit /\ [][Next]_pmm_vars

\* Until a call damages the list, both managers implement the page pool, whatever
\* was allocated and freed before: a caller gets contiguous pages nobody else has,
\* and as long as no block was put behind the last one it is refused only if no free
\* run is long enough.  For best fit this includes that its bound min_size hides no
\* block that is large enough.
ImplementsPool ==
  /\ Pool!Init
  /\ [][broken' = 0 => \/ Pool!Next
                       \/ appended /\ refused' # 0 /\ UNCHANGED <<Free, nr_free>>]_(Pool!vars)
=============================================================================
