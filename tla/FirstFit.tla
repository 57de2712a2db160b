------------------------------ MODULE FirstFit ------------------------------
(***************************************************************************)
(* default_pmm_manager (kern/mm/default_pmm.c): the first block of the     *)
(* free list that is large enough serves the request.                      *)
(***************************************************************************)
EXTENDS FreeList

\* default_alloc_pages.
AllocPages(n) ==
  LET le == Reached(links)
      stops == {k \in 1 .. NPages + 1 : le[k] = free_list \/ property[le[k]] >= n}
      page == le[Min(stops)]
  IN IF n > nr_free THEN TakeNone(n)
     ELSE IF stops = {} THEN Stop("hangs")
     ELSE IF page = free_list THEN TakeNone(n)
     ELSE Take(page, n)
=============================================================================
