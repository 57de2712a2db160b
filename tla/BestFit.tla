------------------------------ MODULE BestFit ------------------------------
(***************************************************************************)
(* best_fit_pmm_manager (lab2, kern/mm/best_fit_pmm.c): the smallest block *)
(* that is large enough serves the request, the first of them if there are *)
(* several.  best_fit_free_pages is line by line the code of               *)
(* default_free_pages.                                                     *)
(***************************************************************************)
EXTENDS FreeList

\* Mutant: the bound min_size starts at nr_free, not at nr_free + 1.
Best_TooSmall(n, listed) ==
  LET fits == {a \in listed : property[a] >= n /\ property[a] < nr_free}
  IN {a \in fits : \A b \in fits : property[a] <= property[b]}

\* The smallest of the listed blocks that are large enough; min_size starts at
\* nr_free + 1.
Best(n, listed) ==
  LET fits == {a \in listed : property[a] >= n /\ property[a] < nr_free + 1}
  IN {a \in fits : \A b \in fits : property[a] <= property[b]}

\* best_fit_alloc_pages: the loop goes through the whole list, and only a smaller
\* block replaces the one found so far.
BestAllocPages(n) ==
  LET le == Reached(links)
      ends == {k \in 1 .. NPages + 1 : le[k] = free_list}
      best == Best(n, {le[k] : k \in 1 .. Min(ends) - 1})
      page == le[Min({k \in 1 .. NPages : le[k] \in best})]
  IN IF n > nr_free THEN TakeNone(n)
     ELSE IF ends = {} THEN Stop("hangs")
     ELSE IF best = {} THEN TakeNone(n)
     ELSE Take(page, n)

\* best_fit_free_pages.
BestFreePages(base, n) == FreePages(base, n)
=============================================================================
