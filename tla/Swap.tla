-------------------------------- MODULE Swap --------------------------------
(***************************************************************************)
(* Page replacement (lab3/kern/mm/swap.c, swap_fifo.c, swap_clock.c, the   *)
(* fault path of vmm.c and pmm.c) for the one mm_struct it works on,       *)
(* check_mm_struct.  A page fault takes a frame, first writing the victim  *)
(* of the replacement policy to the swap disk when none is free.           *)
(*                                                                         *)
(* The policy's list is kept as the code keeps it, as next and prev        *)
(* pointers with list_add and list_del, because the clock hand curr_ptr    *)
(* may rest on a node that list_del has taken out.  swap_lru.c differs     *)
(* from swap_fifo.c only in tick_event, which nothing calls, so its runs   *)
(* are those of "fifo".  The disk never fails (driver/ide.c), so the path  *)
(* of swap_out for a failing write is not modelled.                        *)
(***************************************************************************)
EXTENDS Integers, Sequences, FiniteSets, FiniteSetsExt, SequencesExt

CONSTANTS NPages,     \* user pages are 1 .. NPages
          NFrames,    \* frames are 1 .. NFrames
          SwapSlots,  \* max_swap_offset
          Values,     \* what the program stores in a page
          NoPte, Undef, Leftover

ASSUME SwapAssumption == /\ NPages \in Nat \ {0} /\ NFrames \in Nat \ {0}
                         /\ SwapSlots \in Nat /\ NPages + 1 < SwapSlots
                         /\ NoPte \notin [kind : {"frame", "slot"}, at : Nat]
                         /\ Undef \notin Values \cup {Leftover}

VARIABLES sm,    \* the policy the kernel is built with
          m,     \* frames, page table and disk
          pra,   \* pra_list_head, page links, visited bits, curr_ptr
          come   \* history: the resident pages, longest resident first

vars == <<sm, m, pra, come>>

Pages == 1 .. NPages
Frames == 1 .. NFrames
head == 0
Nodes == Frames \cup {head}

(* ------------------------- the list and the policies ------------------- *)
list_add(l, at, e) ==
  LET n == l.next[at]
  IN [l EXCEPT !.next = [@ EXCEPT ![at] = e, ![e] = n],
               !.prev = [@ EXCEPT ![n] = e, ![e] = at]]

\* the neighbour before is not told
list_del_OneWay(l, e) == [l EXCEPT !.prev[l.next[e]] = l.prev[e]]

\* e keeps its own pointers
list_del(l, e) == [l EXCEPT !.next[l.prev[e]] = l.next[e],
                            !.prev[l.next[e]] = l.prev[e]]

map_swappable(l, f) ==
  IF sm = "clock" THEN [list_add(l, l.prev[head], f) EXCEPT !.visited[f] = 1]
  ELSE list_add(l, head, f)

\* the newest page goes
fifo_victim_Newest(l) == [page |-> l.next[head], list |-> list_del(l, l.next[head])]

fifo_victim(l) == [page |-> l.prev[head], list |-> list_del(l, l.prev[head])]

\* one turn of the clock's loop: skip the head, then stop at a page with
\* visited = 0 or clear the bit and go on
Turn(l) ==
  LET at == IF l.curr = head THEN l.next[head] ELSE l.curr
  IN IF l.visited[at] # 1 THEN [l EXCEPT !.curr = at]
     ELSE [l EXCEPT !.visited[at] = 0, !.curr = l.next[at]]

Stopped(l) == l.curr # head /\ l.visited[l.curr] # 1

\* The hand is left on the node it unlinks.  Two rounds are enough: the
\* first one clears every bit.
clock_victim(l) ==
  LET sweep[k \in 0 .. 2 * NFrames + 2] ==
        IF k = 0 THEN l
        ELSE IF Stopped(sweep[k - 1]) THEN sweep[k - 1] ELSE Turn(sweep[k - 1])
      at == sweep[2 * NFrames + 2]
  IN [page |-> at.curr, list |-> list_del(at, at.curr)]

victim(l) == IF sm = "clock" THEN clock_victim(l) ELSE fifo_victim(l)

(* ---------------------------- swapping pages --------------------------- *)
Slot(v) == v + 1        \* pra_vaddr / PGSIZE + 1

Resident(s, v) == s.pte[v] # NoPte /\ s.pte[v].kind = "frame"

\* swap_out of one page; s carries machine and list
swap_out(s) ==
  LET out == victim(s.pra)
      f   == out.page
      v   == s.m.pra_vaddr[f]
  IN [pra |-> out.list,
      m   |-> [s.m EXCEPT !.disk[Slot(v)] = s.m.data[f],
                          !.pte[v] = [kind |-> "slot", at |-> Slot(v)],
                          !.free = @ \cup {f}, !.data[f] = Leftover]]

\* alloc_pages with one page asked for: it swaps out until a frame is free
alloc_page(s) == IF s.m.free = {} THEN swap_out(s) ELSE s

\* page_insert, map_swappable and pra_vaddr for a frame just allocated
install(s, v, f, contents) ==
  [pra |-> map_swappable(s.pra, f),
   m   |-> [s.m EXCEPT !.free = @ \ {f}, !.data[f] = contents,
                       !.pte[v] = [kind |-> "frame", at |-> f],
                       !.pra_vaddr[f] = v]]

\* a swap entry is taken for a page that was never there
swap_in_NoRead(s, v) ==
  LET t == alloc_page(s) IN install(t, v, Min(t.m.free), Leftover)

swap_in(s, v) ==
  LET t == alloc_page(s) IN install(t, v, Min(t.m.free), t.m.disk[t.m.pte[v].at])

pgdir_alloc_page(s, v) ==
  LET t == alloc_page(s) IN install(t, v, Min(t.m.free), t.m.data[Min(t.m.free)])

(* ------------------------------- actions ------------------------------- *)
Init ==
  /\ sm \in {"fifo", "clock"}
  /\ m = [free |-> Frames, data |-> [f \in Frames |-> Leftover],
          pra_vaddr |-> [f \in Frames |-> 0],
          pte |-> [v \in Pages |-> NoPte],
          disk |-> [k \in 1 .. SwapSlots - 1 |-> Leftover]]
  /\ pra = [next |-> [n \in Nodes |-> n], prev |-> [n \in Nodes |-> n],
            visited |-> [f \in Frames |-> 0], curr |-> head]
  /\ come = <<>>

\* do_pgfault inside the vma: a fresh page or one from the disk
do_pgfault(v) ==
  LET s == [m |-> m, pra |-> pra]
      t == IF m.pte[v] = NoPte THEN pgdir_alloc_page(s, v) ELSE swap_in(s, v)
      out == {i \in DOMAIN come : ~Resident(t.m, come[i])}
  IN /\ ~Resident(m, v)
     /\ m' = t.m /\ pra' = t.pra
     \* without the page that left, if one did
     /\ come' = Append(IF out = {} THEN come ELSE RemoveAt(come, Min(out)), v)
     /\ UNCHANGED sm

\* the program stores to a page in memory; no visited bit is set
Store(v, x) ==
  /\ Resident(m, v)
  /\ m' = [m EXCEPT !.data[m.pte[v].at] = x]
  /\ UNCHANGED <<sm, pra, come>>

Next == \E v \in Pages : do_pgfault(v) \/ \E x \in Values : Store(v, x)

Spec == Init /\ [][Next]_vars

(* ------------------------------ properties ----------------------------- *)
\* Going forward from the head meets the resident frames in the order they
\* came (for fifo from the newest), backwards in the other, and nothing
\* else; each knows the page it holds, and the clock hand rests on one of
\* them or on the head, although each eviction leaves it on an unlinked
\* node: the fault in progress links that very frame again.
Walk(next) == LET go[i \in 0 .. Len(come) + 1] ==
                    IF i = 0 THEN head ELSE next[go[i - 1]]
              IN [i \in 1 .. Len(come) + 1 |-> go[i]]

ListExact ==
  LET order == [i \in DOMAIN come |-> m.pte[come[i]].at]
      there == IF sm = "clock" THEN order ELSE Reverse(order)
  IN /\ ToSet(come) = {v \in Pages : Resident(m, v)}
     /\ Walk(pra.next) = there \o <<head>>
     /\ Walk(pra.prev) = Reverse(there) \o <<head>>
     /\ \A v \in ToSet(come) : m.pra_vaddr[m.pte[v].at] = v
     /\ pra.curr \in ToSet(there) \cup {head}

\* The page that leaves memory is always the one longest there.  For fifo
\* this is its contract; for clock it says that visited bits set at
\* map_swappable alone give no page a second chance.
OldestGoes ==
  [][\A v \in Pages : Resident(m, v) /\ ~Resident(m, v)' => v = Head(come)]_vars

Contents == [p \in {"mm"} |-> [v \in Pages |->
               CASE m.pte[v] = NoPte -> Undef
                 [] Resident(m, v)   -> m.data[m.pte[v].at]
                 [] OTHER            -> m.disk[m.pte[v].at]]]

Memory == INSTANCE PrivateMem WITH
  memory <- Contents, Procs <- {"mm"}, Images <- {}, Program <- Leftover

\* Writing pages out and reading them back is invisible to the program: its
\* pages change only when it stores to them or touches them first.
SurvivesSwap == Memory!Spec
=============================================================================
