------------------------------- MODULE Kmalloc -------------------------------
(***************************************************************************)
(* The kernel heap (kern/mm/kmalloc.c): small blocks come from SLOB, a     *)
(* ring of free blocks with next pointers inside them that grows by a page *)
(* when no block fits and never shrinks; large ones are pages of their     *)
(* own, each with a bigblock record that is a small block itself.          *)
(*                                                                         *)
(* Addresses count units of SLOB_UNIT bytes; arena is 0 and page p begins  *)
(* at p * U, so arena, a variable of the kernel, lies below every page and *)
(* next to none.  units and next are the two fields of a slob_t; where     *)
(* there is no block (next: no free block) they are 0 and NIL.  Pages come *)
(* from a page pool that works (PagePool, which Pmm implements only until  *)
(* its list is damaged) and has other customers.  A request for one page   *)
(* when there is none ends in swap_out(NULL) and a fault of the kernel     *)
(* (see Vmm), one for more pages returns NULL.  kmalloc and kfree run to   *)
(* their end without a switch.  Nobody asks for 0 bytes or for an          *)
(* alignment.                                                              *)
(***************************************************************************)
EXTENDS Integers, Sequences, FiniteSets, FiniteSetsExt

CONSTANTS NPages,     \* pages are 1 .. NPages
          PAGE_SIZE, SLOB_UNIT,  \* in bytes; PAGE_SIZE is a multiple of
                                 \* SLOB_UNIT, and more than two of them
          BigblockSize,          \* sizeof(bigblock_t), a small size
          Sizes       \* what is asked for, none 0

VARIABLES slob,       \* units, next and slobfree
          bigblocks,  \* the list of bigblock_t, each at a unit of the ring's pages
          use,        \* of every page: "free", "slob", "big" or "other"
          live,       \* history: the blocks handed out, with the size asked for
          panicked    \* the kernel has stopped

vars == <<slob, bigblocks, use, live, panicked>>

U == PAGE_SIZE \div SLOB_UNIT
arena == 0
NIL == -1
Pages == 1 .. NPages
Addrs == {arena} \cup U .. (NPages + 1) * U - 1
SLOB_UNITS(size) == (size + SLOB_UNIT - 1) \div SLOB_UNIT

\* the blocks of the ring, from one on until it is met again
Ring(s, from) ==
  LET nth[k \in 0 .. Cardinality(Addrs)] == IF k = 0 THEN from ELSE s.next[nth[k - 1]]
      len == CHOOSE k \in 1 .. Cardinality(Addrs) :
               nth[k] = from /\ \A j \in 1 .. k - 1 : nth[j] # from
  IN [k \in 0 .. len |-> nth[k]]

Gone(s, a) == [s EXCEPT !.units[a] = 0, !.next[a] = NIL]

\* the block behind b is not looked at
slob_free_NoJoin(s, b, size) ==
  LET t    == IF size = 0 THEN s ELSE [s EXCEPT !.units[b] = SLOB_UNITS(size)]
      ring == Ring(s, s.slobfree)
      cur  == ring[Min({k \in DOMAIN ring :
                LET c == ring[k]  n == s.next[ring[k]]
                IN \/ c < b /\ b < n
                   \/ c >= n /\ (b > c \/ b < n)})]
      behind == [t EXCEPT !.next[b] = t.next[cur]]
      before == IF cur + behind.units[cur] = b
                THEN Gone([behind EXCEPT !.units[cur] = @ + behind.units[b],
                                         !.next[cur] = behind.next[b]], b)
                ELSE [behind EXCEPT !.next[cur] = b]
  IN [before EXCEPT !.slobfree = cur]

\* Block b goes back between its neighbours in the ring, which the search
\* starts to look for at slobfree, and is joined with those it touches.
slob_free(s, b, size) ==
  LET t    == IF size = 0 THEN s ELSE [s EXCEPT !.units[b] = SLOB_UNITS(size)]
      ring == Ring(s, s.slobfree)
      cur  == ring[Min({k \in DOMAIN ring :
                LET c == ring[k]  n == s.next[ring[k]]
                IN \/ c < b /\ b < n
                   \/ c >= n /\ (b > c \/ b < n)})]
      next == t.next[cur]
      behind == IF b + t.units[b] = next
                THEN Gone([t EXCEPT !.units[b] = @ + t.units[next],
                                    !.next[b] = t.next[next]], next)
                ELSE [t EXCEPT !.next[b] = next]
      before == IF cur + behind.units[cur] = b
                THEN Gone([behind EXCEPT !.units[cur] = @ + behind.units[b],
                                         !.next[cur] = behind.next[b]], b)
                ELSE [behind EXCEPT !.next[cur] = b]
  IN [before EXCEPT !.slobfree = cur]

\* the places of the blocks that are large enough, in the order of the search
Fits(s, size) ==
  LET ring == Ring(s, s.slobfree)
  IN {k \in DOMAIN ring \ {0} : s.units[ring[k]] >= SLOB_UNITS(size)}

\* slob_alloc takes the first of them, or the front part of it
slob_take(s, size) ==
  LET ring == Ring(s, s.slobfree)
      k    == Min(Fits(s, size))
      cur  == ring[k]
      prev == ring[k - 1]
      need == SLOB_UNITS(size)
      rest == cur + need
      cut  == IF s.units[cur] = need THEN [s EXCEPT !.next[prev] = s.next[cur]]
              ELSE [s EXCEPT !.next[prev] = rest, !.next[rest] = s.next[cur],
                             !.units[rest] = s.units[cur] - need, !.units[cur] = need]
  IN [at |-> cur, slob |-> [cut EXCEPT !.next[cur] = NIL, !.slobfree = prev]]

FreeRuns(u, n) == {p \in Pages : p + n - 1 <= NPages
                                 /\ \A q \in p .. p + n - 1 : u[q] = "free"}

\* The ring with room for size bytes: as it is, or with a page more, which
\* may be any free one.
Roomy(size) ==
  IF Fits(slob, size) # {} THEN {[slob |-> slob, use |-> use]}
  ELSE {[slob |-> slob_free(slob, p * U, PAGE_SIZE), use |-> [use EXCEPT ![p] = "slob"]] :
          p \in FreeRuns(use, 1)}

find_order(size) ==
  LET order[n \in 0 .. size] == IF n > PAGE_SIZE THEN 1 + order[n \div 2] ELSE 0
  IN order[size]

Init ==
  /\ slob = [units |-> [a \in Addrs |-> IF a = arena THEN 1 ELSE 0],
             next  |-> [a \in Addrs |-> IF a = arena THEN arena ELSE NIL],
             slobfree |-> arena]
  /\ bigblocks = <<>>
  /\ use = [p \in Pages |-> "free"]
  /\ live = {}
  /\ panicked = FALSE

Stop == panicked' = TRUE /\ UNCHANGED <<slob, bigblocks, use, live>>

IsSmall(size) == size < PAGE_SIZE - SLOB_UNIT

\* Just below IsSmall's limit the block with its header is too large for the
\* assertion of slob_alloc.
kmalloc_small(size) ==
  /\ IsSmall(size)
  /\ IF size + 2 * SLOB_UNIT >= PAGE_SIZE \/ Roomy(size + SLOB_UNIT) = {}
     THEN Stop
     ELSE \E r \in Roomy(size + SLOB_UNIT) :
            LET m == slob_take(r.slob, size + SLOB_UNIT)
            IN /\ slob' = m.slob
               /\ use' = r.use
               /\ live' = live \cup {[block |-> m.at + 1, size |-> size]}
               /\ UNCHANGED <<bigblocks, panicked>>

kmalloc_large(size) ==
  /\ ~IsSmall(size)
  /\ \/ Roomy(BigblockSize) = {} /\ Stop
     \/ \E r \in Roomy(BigblockSize) :
          LET bb    == slob_take(r.slob, BigblockSize)
              order == find_order(size)
              n     == 2^order
              runs  == FreeRuns(r.use, n)
          IN \/ runs = {} /\ n = 1 /\ Stop
             \/ /\ runs = {} /\ n > 1
                /\ slob' = slob_free(bb.slob, bb.at, BigblockSize)
                /\ use' = r.use
                /\ UNCHANGED <<bigblocks, live, panicked>>
             \/ \E p \in runs :
                  /\ slob' = bb.slob
                  /\ use' = [q \in Pages |-> IF q \in p .. p + n - 1 THEN "big" ELSE r.use[q]]
                  /\ bigblocks' = <<[at |-> bb.at, pages |-> p * U, order |-> order]>>
                                  \o bigblocks
                  /\ live' = live \cup {[block |-> p * U, size |-> size]}
                  /\ UNCHANGED panicked

\* A block at the start of a page may still be a small one.
kfree(b) ==
  LET i == {k \in DOMAIN bigblocks : b.block % U = 0 /\ bigblocks[k].pages = b.block}
  IN /\ live' = live \ {b}
     /\ IF i = {}
        THEN slob' = slob_free(slob, b.block - 1, 0) /\ UNCHANGED <<bigblocks, use>>
        ELSE LET bb == bigblocks[Min(i)]
                 p  == bb.pages \div U
             IN /\ slob' = slob_free(slob, bb.at, BigblockSize)
                /\ bigblocks' = SelectSeq(bigblocks, LAMBDA x : x # bb)
                /\ use' = [q \in Pages |-> IF q \in p .. p + 2^bb.order - 1
                                           THEN "free" ELSE use[q]]
     /\ UNCHANGED panicked

\* the other customers of the page pool
OtherPages == /\ \E p \in Pages : \/ use[p] = "free" /\ use' = [use EXCEPT ![p] = "other"]
                                  \/ use[p] = "other" /\ use' = [use EXCEPT ![p] = "free"]
              /\ UNCHANGED <<slob, bigblocks, live, panicked>>

\* panic() does not return.
Panic == panicked /\ UNCHANGED vars

Next == \/ /\ ~panicked
           /\ \/ \E size \in Sizes : kmalloc_small(size) \/ kmalloc_large(size)
              \/ \E b \in live : kfree(b)
              \/ OtherPages
        \/ Panic

Spec == Init /\ [][Next]_vars

(* ------------------------------ properties ----------------------------- *)
OnRing  == {Ring(slob, arena)[k] : k \in DOMAIN Ring(slob, arena)} \ {arena}
Small   == {b \in live : IsSmall(b.size)}
Headers == {b.block - 1 : b \in Small} \cup {bigblocks[k].at : k \in DOMAIN bigblocks}
Span(a) == a .. a + slob.units[a] - 1
BigPages(k) == LET p == bigblocks[k].pages \div U IN p .. p + 2^bigblocks[k].order - 1
SlobUnits == UNION {p * U .. (p + 1) * U - 1 : p \in {q \in Pages : use[q] = "slob"}}

\* Whatever is freed in whatever order, the ring goes once through the free
\* blocks by address, no two of which touch; each unit of its pages lies in
\* one free block or one block in use, however they run over page borders;
\* a header still says how long its block is when kfree reads it; and each
\* large block owns its pages, which reach its size but for the last bytes
\* that find_order shifts out (2 * PAGE_SIZE + 1 bytes get two pages).
SlobExact ==
  /\ \A a \in OnRing \cup {arena} :
       slob.next[a] # arena => a + slob.units[a] < slob.next[a]
  /\ slob.slobfree \in OnRing \cup {arena}
  /\ UNION {Span(a) : a \in OnRing \cup Headers} = SlobUnits
  /\ MapThenSumSet(LAMBDA a : slob.units[a], OnRing \cup Headers) = Cardinality(SlobUnits)
  /\ \A b \in Small : slob.units[b.block - 1] = SLOB_UNITS(b.size + SLOB_UNIT)
  /\ \A b \in live \ Small : \E k \in DOMAIN bigblocks :
       /\ bigblocks[k].pages = b.block
       /\ b.size < 2^bigblocks[k].order * (PAGE_SIZE + 1)
  /\ UNION {BigPages(k) : k \in DOMAIN bigblocks} = {p \in Pages : use[p] = "big"}
  /\ \A j, k \in DOMAIN bigblocks : j # k => BigPages(j) \cap BigPages(k) = {}
=============================================================================
