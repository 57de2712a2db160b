------------------------------ MODULE PmmProofs ------------------------------
(***************************************************************************)
(* Proofs about the list allocators of physical memory, first fit and best *)
(* fit, for every number of pages and every sequence of alloc_pages and    *)
(* free_pages; and about the buddy allocator, for every max_order and      *)
(* every sequence of requests without frees.                               *)
(***************************************************************************)
EXTENDS MCPmm, Lemmas

\* The links of the list whose entries, with the head, are R: next goes round by
\* address, and who is not its own prev has the entry before it there.
Chain(l, R) ==
  /\ l \in [next : [Nodes -> Nodes], prev : [Nodes -> Nodes]]
  /\ R \subseteq Nodes /\ free_list \in R
  /\ RingOf(l.next, R)
  /\ \A a \in R \ {free_list} :
       l.prev[a] # a => l.prev[a] \in R /\ l.next[l.prev[a]] = a

\* No entry is its own prev.
LinkedBack(l, R) == \A a \in R \ {free_list} : l.prev[a] # a

LEMMA NodesAre ==
  /\ NPages \in Nat /\ NPages > 0 /\ Nodes = 0 .. NPages /\ free_list = 0
  /\ Pages = 1 .. NPages /\ free_list \notin Pages /\ Nodes \subseteq Nat
  /\ IsFiniteSet(Pages) /\ Cardinality(Pages) = NPages
  /\ IsFiniteSet(Nodes) /\ Cardinality(Nodes) = NPages + 1
<1>1. NPages \in Nat /\ NPages > 0
  BY FreeListAssumption
<1>2. Nodes = 0 .. NPages /\ free_list = 0 /\ Pages = 1 .. NPages
  BY <1>1 DEF Nodes, Pages, free_list
<1>3. Cardinality(Pages) = NPages /\ IsFiniteSet(Pages)
  BY <1>1, <1>2, FS_Interval
<1>4. Cardinality(Nodes) = NPages + 1 /\ IsFiniteSet(Nodes)
  BY <1>1, <1>2, FS_Interval
<1>5. QED
  BY <1>1, <1>2, <1>3, <1>4

\* Where list_next leads, step by step.
LEMMA ReachedSteps ==
  ASSUME NEW l, l.next \in [Nodes -> Nodes]
  PROVE  /\ Reached(l) \in [0 .. NPages + 1 -> Nodes]
         /\ Reached(l)[0] = free_list
         /\ \A k \in 1 .. NPages + 1 : Reached(l)[k] = l.next[Reached(l)[k - 1]]
<1> DEFINE N == NPages + 1
           E(f, k) == IF k = 0 THEN free_list ELSE l.next[f[k - 1]]
           H(f) == f = [k \in 0 .. N |-> E(f, k)]
           le == CHOOSE f : H(f)
<1>1. N \in Nat /\ free_list \in Nodes
  BY NodesAre
<1>2. \E f : H(f)
  <2> HIDE DEF N
  <2>1. PICK g \in [0 .. N -> Nodes] : Iterates(g, N, free_list, l.next)
    BY <1>1, IterationExists
  <2>2. \A k \in 0 .. N : g[k] = E(g, k)
    BY <2>1 DEF Iterates
  <2> HIDE DEF E
  <2>3. H(g)
    BY <2>1, <2>2
  <2>4. QED
    BY <2>3
<1>3. H(le)
  <2> HIDE DEF H
  <2>1. QED
    BY <1>2, Zenon
<1>4. Reached(l) = le
  BY DEF Reached
<1> HIDE DEF le, N
<1>5. DOMAIN le = 0 .. N /\ \A k \in 0 .. N : le[k] = E(le, k)
  <2>1. le = [k \in 0 .. N |-> E(le, k)]
    BY <1>3
  <2> HIDE DEF E, H
  <2> DEFINE G(k) == E(le, k)
  <2>2. le = [k \in 0 .. N |-> G(k)]
    BY <2>1
  <2> HIDE DEF G
  <2>3. DOMAIN le = 0 .. N /\ \A k \in 0 .. N : le[k] = G(k)
    BY <2>2
  <2>4. QED
    BY <2>3 DEF G
<1>6. \A k \in 0 .. N : le[k] \in Nodes
  <2> DEFINE K == {k \in Nat : k <= N => le[k] \in Nodes}
  <2>1. 0 \in K
    BY <1>1, <1>5
  <2>2. ASSUME NEW k \in Nat, k \in K  PROVE k + 1 \in K
    <3>1. SUFFICES ASSUME k + 1 <= N  PROVE le[k + 1] \in Nodes
      OBVIOUS
    <3>2. le[k] \in Nodes /\ k + 1 \in 0 .. N /\ k + 1 # 0 /\ (k + 1) - 1 = k
      BY <1>1, <2>2, <3>1
    <3>3. le[k + 1] = l.next[le[k]]
      BY <1>5, <3>2
    <3>4. QED
      BY <3>2, <3>3
  <2>3. Nat \subseteq K
    <3> HIDE DEF K
    <3>1. QED
      BY <2>1, <2>2, NatSetInduction
  <2>4. QED
    BY <1>1, <2>3
<1>7. le \in [0 .. N -> Nodes]
  <2> HIDE DEF H
  <2>1. le = [k \in 0 .. N |-> le[k]]
    <3>1. le = [k \in 0 .. N |-> E(le, k)]
      BY <1>3 DEF H
    <3>2. QED
      BY <3>1, <1>5
  <2>2. QED
    BY <1>6, <2>1
<1>8. le[0] = free_list /\ \A k \in 1 .. N : le[k] = l.next[le[k - 1]]
  BY <1>1, <1>5
<1>9. QED
  BY <1>4, <1>7, <1>8 DEF N

\* On a chain the head is met again after all the entries.
LEMMA ReachedAll ==
  ASSUME NEW l, NEW R, Chain(l, R)
  PROVE  \E len \in 1 .. NPages + 1 :
           /\ BackAfter(len, Reached(l), R, free_list)
           /\ \A k \in 0 .. NPages + 1 : Reached(l)[k] \in R
<1> DEFINE N == NPages + 1
           le == Reached(l)
           nx == l.next
<1>1. /\ l.next \in [Nodes -> Nodes] /\ R \subseteq Nodes /\ free_list \in R
      /\ RingOf(nx, R)
  BY DEF Chain
<1>2. /\ le \in [0 .. N -> Nodes] /\ le[0] = free_list
      /\ \A k \in 1 .. N : le[k] = nx[le[k - 1]]
  BY <1>1, ReachedSteps
<1>3. N \in Nat /\ NPages \in Nat /\ R \in SUBSET (0 .. NPages) /\ free_list = 0 /\ Cardinality(R) <= N
  <2>1. Cardinality(R) <= Cardinality(Nodes)
    BY <1>1, NodesAre, FS_Subset
  <2>2. QED
    BY <1>1, <2>1, NodesAre
<1> HIDE DEF le, nx, N
<1>4. \A k \in 0 .. N : le[k] \in R
  <2> DEFINE K == {k \in Nat : k <= N => le[k] \in R}
  <2>1. 0 \in K
    BY <1>1, <1>2
  <2>2. ASSUME NEW k \in Nat, k \in K  PROVE k + 1 \in K
    <3>1. SUFFICES ASSUME k + 1 <= N  PROVE le[k + 1] \in R
      OBVIOUS
    <3>2. le[k] \in R /\ k + 1 \in 1 .. N /\ (k + 1) - 1 = k
      BY <1>3, <2>2, <3>1
    <3>3. le[k + 1] = nx[le[k]]
      BY <1>2, <3>2
    <3>4. QED
      BY <1>1, <3>2, <3>3 DEF RingOf
  <2>3. Nat \subseteq K
    <3> HIDE DEF K
    <3>1. QED
      BY <2>1, <2>2, NatSetInduction
  <2>4. QED
    BY <1>3, <2>3
<1>5. Walks(le, N, nx, R, free_list)
  <2>1. le = [k \in 0 .. N |-> le[k]]
    BY <1>2
  <2>2. le \in [0 .. N -> R]
    BY <1>4, <2>1
  <2>3. QED
    BY <1>2, <2>2 DEF Walks
<1>6. \E len \in 1 .. N : BackAfter(len, le, R, free_list)
  <2>1. 0 \in R
    BY <1>1, <1>3
  <2>2. QED
    BY <1>1, <1>3, <1>5, <2>1, WalkComesBack
<1>7. QED
  BY <1>4, <1>6 DEF N, le
-----------------------------------------------------------------------------
\* From list l to list m: base is linked in behind cur, or is its own prev.
Inserted(m, l, base, cur) ==
  /\ m.next = [l.next EXCEPT ![cur] = base, ![base] = l.next[cur]]
  /\ m.prev \in [Nodes -> Nodes] /\ m = [next |-> m.next, prev |-> m.prev]
  /\ m.prev[base] \in {base, cur}
  /\ \A x \in Pages \ {base} : m.prev[x] = IF x = l.next[cur] THEN base ELSE l.prev[x]

LEMMA InsertKeepsChain ==
  ASSUME NEW l, NEW R, Chain(l, R), NEW base \in Pages, base \notin R,
         NEW cur \in R, cur < base, \A a \in R : a < base => a <= cur,
         NEW m, Inserted(m, l, base, cur)
  PROVE  /\ Chain(m, R \cup {base})
         /\ LinkedBack(l, R) /\ m.prev[base] = cur => LinkedBack(m, R \cup {base})
         /\ m.next[base] = l.next[cur] /\ m.next[cur] = base
         /\ l.next[cur] # free_list => m.prev[l.next[cur]] = base
         /\ l.next[cur] \in R /\ l.next[cur] # base
<1>1. /\ l.next \in [Nodes -> Nodes] /\ l.prev \in [Nodes -> Nodes]
      /\ R \subseteq Nodes /\ free_list \in R /\ RingOf(l.next, R)
      /\ \A a \in R \ {free_list} :
           l.prev[a] # a => l.prev[a] \in R /\ l.next[l.prev[a]] = a
  BY DEF Chain
<1>2. /\ base \in Nodes /\ cur \in Nodes /\ R \in SUBSET Nat /\ 0 \in R /\ base # cur /\ base \in Nat
      /\ base # free_list
  <2>1. R \in SUBSET Nat /\ base \in 1 .. NPages /\ free_list = 0
    BY <1>1, NodesAre
  <2>2. base \in Nat /\ base # 0
    BY <2>1
  <2>3. base # cur
    BY <2>1, <2>2
  <2>4. base \in Nodes /\ cur \in Nodes
    BY <1>1 DEF Nodes
  <2>5. QED
    BY <1>1, <2>1, <2>2, <2>3, <2>4
<1>3. /\ m.next \in [Nodes -> Nodes] /\ m.next[base] = l.next[cur] /\ m.next[cur] = base
      /\ \A x \in Nodes \ {base, cur} : m.next[x] = l.next[x]
  BY <1>1, <1>2 DEF Inserted
<1>4. l.next[cur] \in R
  BY <1>1 DEF RingOf
<1>5. RingOf(m.next, R \cup {base})
  <2> DEFINE nx == l.next
             my == m.next
  <2>1. \A a \in R \ {cur} : my[a] = nx[a]
    BY <1>1, <1>2, <1>3
  <2>2. RingOf(nx, R) /\ my[base] = nx[cur] /\ my[cur] = base
    BY <1>1, <1>3
  <2> HIDE DEF nx, my
  <2>3. RingOf(my, R \cup {base})
    BY <1>2, <2>1, <2>2, LinkKeepsRing
  <2>4. QED
    BY <2>3 DEF my
<1>6. ASSUME NEW a \in (R \cup {base}) \ {free_list}, m.prev[a] # a
      PROVE  m.prev[a] \in R \cup {base} /\ m.next[m.prev[a]] = a
  <2>1. CASE a = base
    BY <1>3, <1>6, <2>1 DEF Inserted
  <2>2. CASE a # base /\ a = l.next[cur]
    <3>1. a \in Pages \ {base}
      BY <1>1, <2>2 DEF Nodes
    <3>2. m.prev[a] = base
      BY <2>2, <3>1 DEF Inserted
    <3>3. QED
      BY <1>3, <2>2, <3>2
  <2>3. CASE a # base /\ a # l.next[cur]
    <3>1. a \in Pages \ {base} /\ a \in R \ {free_list}
      BY <1>1, <2>3 DEF Nodes
    <3>2. m.prev[a] = l.prev[a]
      BY <2>3, <3>1 DEF Inserted
    <3>3. l.prev[a] \in R /\ l.next[l.prev[a]] = a
      BY <1>1, <1>6, <3>1, <3>2
    <3>4. l.prev[a] # cur /\ l.prev[a] # base /\ l.prev[a] \in Nodes
      BY <1>1, <2>3, <3>3
    <3>5. QED
      BY <1>3, <3>2, <3>3, <3>4
  <2>4. QED
    BY <2>1, <2>2, <2>3
<1>7. Chain(m, R \cup {base})
  <2>1. m \in [next : [Nodes -> Nodes], prev : [Nodes -> Nodes]]
    BY <1>3 DEF Inserted
  <2>2. QED
    BY <1>1, <1>2, <1>5, <1>6, <2>1 DEF Chain
<1>8. ASSUME LinkedBack(l, R), m.prev[base] = cur  PROVE LinkedBack(m, R \cup {base})
  <2>1. ASSUME NEW a \in (R \cup {base}) \ {free_list}  PROVE m.prev[a] # a
    <3>1. CASE a = base
      BY <1>2, <1>8, <3>1
    <3>2. CASE a # base
      <4>1. a \in Pages \ {base} /\ a \in R \ {free_list}
        BY <1>1, <3>2 DEF Nodes
      <4>2. m.prev[a] = IF a = l.next[cur] THEN base ELSE l.prev[a]
        BY <4>1 DEF Inserted
      <4>3. l.prev[a] # a
        BY <1>8, <4>1 DEF LinkedBack
      <4>4. QED
        BY <3>2, <4>2, <4>3
    <3>3. QED
      BY <3>1, <3>2
  <2>2. QED
    BY <2>1 DEF LinkedBack
<1>9. l.next[cur] # free_list => m.prev[l.next[cur]] = base
  <2>1. l.next[cur] # free_list => l.next[cur] \in Pages \ {base}
    BY <1>1, <1>4 DEF Nodes
  <2>2. QED
    BY <2>1 DEF Inserted
<1>10. QED
  BY <1>3, <1>4, <1>7, <1>8, <1>9

\* list_del of an entry that is not its own prev.
LEMMA DeleteKeepsChain ==
  ASSUME NEW l, NEW R, Chain(l, R), NEW a \in R \ {free_list}, l.prev[a] # a,
         NEW m, m = ListDel(l, a)
  PROVE  /\ Chain(m, R \ {a})
         /\ LinkedBack(l, R) => LinkedBack(m, R \ {a})
         /\ l.prev[a] \in R \ {a} /\ l.next[l.prev[a]] = a
         /\ m.next[l.prev[a]] = l.next[a]
         /\ l.next[a] # free_list => m.prev[l.next[a]] = l.prev[a]
         /\ l.next[a] \in R \ {a}
         /\ \A b \in R : l.next[b] = a => b = l.prev[a]
<1> DEFINE c == l.prev[a]
           b == l.next[a]
<1>1. /\ l.next \in [Nodes -> Nodes] /\ l.prev \in [Nodes -> Nodes]
      /\ R \subseteq Nodes /\ free_list \in R /\ RingOf(l.next, R)
      /\ \A x \in R \ {free_list} :
           l.prev[x] # x => l.prev[x] \in R /\ l.next[l.prev[x]] = x
  BY DEF Chain
<1>2. R \in SUBSET Nat /\ 0 \in R /\ 0 = free_list
  BY <1>1, NodesAre
<1>3. c \in R /\ c # a /\ l.next[c] = a /\ b \in R /\ c \in Nodes /\ b \in Nodes /\ a \in Nodes
  BY <1>1 DEF RingOf
<1>4. b # a
  BY <1>1, <1>2, <1>3 DEF RingOf
<1>5. /\ m = [next |-> [l.next EXCEPT ![c] = b], prev |-> [l.prev EXCEPT ![b] = c]]
      /\ m.next \in [Nodes -> Nodes] /\ m.prev \in [Nodes -> Nodes]
      /\ m.next[c] = b /\ \A x \in Nodes \ {c} : m.next[x] = l.next[x]
      /\ m.prev[b] = c /\ \A x \in Nodes \ {b} : m.prev[x] = l.prev[x]
  <2>1. m = [next |-> [l.next EXCEPT ![c] = b], prev |-> [l.prev EXCEPT ![b] = c]]
    BY DEF ListDel
  <2> HIDE DEF b, c
  <2>2. QED
    BY <1>1, <1>3, <2>1
<1>6. \A x, y \in R : l.next[x] = l.next[y] => x = y
  <2> DEFINE nx == l.next
  <2>1. RingOf(nx, R)
    BY <1>1
  <2> HIDE DEF nx
  <2>2. \A x, y \in R : nx[x] = nx[y] => x = y
    BY <1>2, <2>1, RingInjective
  <2>3. QED
    BY <2>2 DEF nx
<1> HIDE DEF b, c
<1>7. RingOf(m.next, R \ {a})
  <2> DEFINE nx == l.next
             my == m.next
  <2>1. my[c] = nx[a] /\ RingOf(nx, R) /\ a = nx[c] /\ a # 0
    BY <1>1, <1>2, <1>3, <1>5 DEF b
  <2>2. \A x \in R \ {c, a} : my[x] = nx[x]
    BY <1>1, <1>5
  <2> HIDE DEF nx, my
  <2>3. RingOf(my, R \ {a})
    BY <1>2, <1>3, <2>1, <2>2, UnlinkKeepsRing
  <2>4. QED
    BY <2>3 DEF my
<1>8. ASSUME NEW x \in (R \ {a}) \ {free_list}, m.prev[x] # x
      PROVE  m.prev[x] \in R \ {a} /\ m.next[m.prev[x]] = x
  <2>1. CASE x = b
    BY <1>3, <1>5, <2>1
  <2>2. CASE x # b
    <3>1. m.prev[x] = l.prev[x] /\ x \in R \ {free_list}
      BY <1>1, <1>5, <2>2
    <3>2. l.prev[x] \in R /\ l.next[l.prev[x]] = x
      BY <1>1, <1>8, <3>1
    <3>3. l.prev[x] # a /\ l.prev[x] # c
      BY <1>3, <1>8, <2>2, <3>2 DEF b
    <3>4. QED
      BY <1>1, <1>5, <3>1, <3>2, <3>3
  <2>3. QED
    BY <2>1, <2>2
<1>9. Chain(m, R \ {a})
  BY <1>1, <1>5, <1>7, <1>8 DEF Chain
<1>10. ASSUME LinkedBack(l, R)  PROVE LinkedBack(m, R \ {a})
  <2>1. ASSUME NEW x \in (R \ {a}) \ {free_list}  PROVE m.prev[x] # x
    <3>1. CASE x = b
      <4>1. c # b
        <5>1. SUFFICES ASSUME c = b PROVE FALSE
          OBVIOUS
        <5>2. b # free_list /\ l.next[b] = a /\ l.next[a] = b
          BY <1>3, <2>1, <3>1, <5>1 DEF b
        <5>3. /\ \/ a < l.next[a]
                 \/ l.next[a] = 0
              /\ \/ b < l.next[b]
                 \/ l.next[b] = 0
          BY <1>1, <1>3 DEF RingOf
        <5>4. a \in Nat /\ b \in Nat
          BY <1>2, <1>3
        <5>5. QED
          BY <1>2, <5>2, <5>3, <5>4
      <4>2. QED
        BY <1>5, <3>1, <4>1
    <3>2. CASE x # b
      BY <1>1, <1>5, <1>10, <3>2 DEF LinkedBack
    <3>3. QED
      BY <3>1, <3>2
  <2>2. QED
    BY <2>1 DEF LinkedBack
<1>11. \A x \in R : l.next[x] = a => x = c
  BY <1>3, <1>6
<1>12. QED
  BY <1>3, <1>4, <1>5, <1>9, <1>10, <1>11 DEF b, c
-----------------------------------------------------------------------------
\* Where the loop of free_pages links a block.
LEMMA PlaceFound ==
  ASSUME NEW R, Chain(links, R), NEW base \in Pages, base \notin R, ~list_empty(links)
  PROVE  /\ Places(base) # {}
         /\ Place(base) \in R \ {free_list}
         /\ \/ /\ base < Place(base)
               /\ \E cur \in R : links.next[cur] = Place(base) /\ cur < base
            \/ Place(base) < base /\ links.next[Place(base)] = free_list
<1> DEFINE le == Reached(links)
           P == Places(base)
           k == Min(P)
<1>1. PICK len \in 1 .. NPages + 1 : /\ BackAfter(len, le, R, free_list)
                                     /\ \A j \in 0 .. NPages + 1 : le[j] \in R
  BY ReachedAll
<1>2. /\ links.next \in [Nodes -> Nodes] /\ R \subseteq Nodes /\ free_list \in R
      /\ RingOf(links.next, R)
  BY DEF Chain
<1>3. le[0] = free_list /\ \A j \in 1 .. NPages + 1 : le[j] = links.next[le[j - 1]]
  BY <1>2, ReachedSteps
<1>4. /\ NPages \in Nat /\ free_list = 0 /\ R \subseteq Nat /\ base \in Nat /\ base > 0
  <2>1. base \in 1 .. NPages /\ NPages \in Nat
    BY NodesAre
  <2>2. QED
    BY <1>2, <2>1, NodesAre
<1>5. P = {j \in 1 .. NPages : base < le[j] \/ links.next[le[j]] = free_list}
  BY DEF Places
<1> HIDE DEF le, P
<1>6. le[1] # free_list /\ len > 1
  <2>1. le[1] = links.next[free_list]
    BY <1>3, <1>4
  <2>2. le[1] # free_list
    BY <2>1 DEF list_empty
  <2>3. le[len] = free_list
    BY <1>1 DEF BackAfter
  <2>4. len # 1
    BY <2>2, <2>3
  <2>5. QED
    BY <1>1, <1>4, <2>2, <2>4
<1>7. len - 1 \in P
  <2>1. len - 1 \in 1 .. NPages /\ len \in 1 .. NPages + 1
    BY <1>1, <1>4, <1>6
  <2>2. links.next[le[len - 1]] = free_list
    BY <1>1, <1>3, <2>1 DEF BackAfter
  <2>3. QED
    BY <1>5, <2>1, <2>2
<1>8. P \subseteq Nat /\ P # {}
  BY <1>5, <1>7
<1>9. k \in P /\ \A j \in P : k <= j
  BY <1>8, MinIsLeast
<1> HIDE DEF k
<1>10. k \in 1 .. NPages /\ k <= len - 1 /\ k - 1 \in 0 .. NPages
  BY <1>5, <1>7, <1>9, <1>4
<1>11. le[k] # free_list /\ le[k] \in R
  BY <1>1, <1>10, <1>4 DEF BackAfter
<1>12. Place(base) = le[k]
  BY DEF Place, k, le, P
<1>13. CASE base < le[k]
  <2>1. links.next[le[k - 1]] = le[k] /\ le[k - 1] \in R
    BY <1>1, <1>3, <1>10, <1>4
  <2>2. le[k - 1] < base
    <3>1. CASE k = 1
      BY <1>3, <1>4, <3>1
    <3>2. CASE k # 1
      <4>1. k - 1 \in 1 .. NPages /\ k - 1 < k
        BY <1>4, <1>10, <3>2
      <4>2. k - 1 \notin P
        BY <1>9, <4>1, <1>10
      <4>3. ~(base < le[k - 1])
        BY <1>5, <4>1, <4>2
      <4>4. le[k - 1] # base /\ le[k - 1] \in Nat
        BY <1>4, <2>1
      <4>5. QED
        BY <1>4, <4>3, <4>4
    <3>3. QED
      BY <3>1, <3>2
  <2>3. QED
    BY <1>8, <1>11, <1>12, <1>13, <2>1, <2>2 DEF P
<1>14. CASE ~(base < le[k])
  <2>1. links.next[le[k]] = free_list
    BY <1>5, <1>9, <1>14
  <2>2. le[k] < base
    <3>1. le[k] # base /\ le[k] \in Nat
      BY <1>4, <1>11
    <3>2. QED
      BY <1>4, <1>14, <3>1
  <2>3. QED
    BY <1>8, <1>11, <1>12, <2>1, <2>2 DEF P
<1>15. QED
  BY <1>13, <1>14

\* The loop links a block between its neighbours, unless list_add_before meets an
\* entry that is its own prev; behind the last block it is its own prev.
LEMMA LinkInserts ==
  ASSUME NEW R, Chain(links, R), NEW base \in Pages, base \notin R,
         ~(/\ ~list_empty(links) /\ base < Place(base)
           /\ links.prev[Place(base)] = Place(base))
  PROVE  \E cur \in R :
           /\ cur < base /\ \A a \in R : a < base => a <= cur
           /\ Inserted(Link(base), links, base, cur)
           /\ IF ~list_empty(links) /\ Place(base) < base
                THEN Link(base).prev[base] = base /\ links.next[cur] = free_list
                ELSE Link(base).prev[base] = cur
<1>1. /\ links \in [next : [Nodes -> Nodes], prev : [Nodes -> Nodes]]
      /\ links.next \in [Nodes -> Nodes] /\ links.prev \in [Nodes -> Nodes]
      /\ R \subseteq Nodes /\ free_list \in R /\ RingOf(links.next, R)
      /\ \A a \in R \ {free_list} :
           links.prev[a] # a => links.prev[a] \in R /\ links.next[links.prev[a]] = a
  BY DEF Chain
<1>2. /\ NPages \in Nat /\ free_list = 0 /\ R \subseteq Nat /\ base \in Nat /\ base > 0
      /\ base \in Nodes /\ base # free_list
  <2>1. base \in 1 .. NPages /\ NPages \in Nat
    BY NodesAre
  <2>2. QED
    BY <1>1, <2>1, NodesAre DEF Nodes
<1>3. CASE list_empty(links)
  <2>1. links.next[free_list] = free_list
    BY <1>3 DEF list_empty
  <2>2. \A a \in R : a <= 0
    BY <1>1, <1>2, <2>1 DEF RingOf
  <2>3. Link(base) = ListAdd(links, free_list, base)
    BY <1>3 DEF Link
  <2>4. Link(base) = [next |-> [links.next EXCEPT ![free_list] = base, ![base] = free_list],
                      prev |-> [links.prev EXCEPT ![free_list] = base, ![base] = free_list]]
    BY <2>1, <2>3 DEF ListAdd
  <2>5. Inserted(Link(base), links, base, free_list) /\ Link(base).prev[base] = free_list
    <3>1. Link(base).next = [links.next EXCEPT ![free_list] = base, ![base] = free_list]
      BY <2>4
    <3>2. Link(base).prev = [links.prev EXCEPT ![free_list] = base, ![base] = free_list]
      BY <2>4
    <3>3. /\ Link(base).prev \in [Nodes -> Nodes] /\ Link(base).prev[base] = free_list
          /\ \A x \in Nodes \ {base, free_list} : Link(base).prev[x] = links.prev[x]
      BY <1>1, <1>2, <3>2
    <3>4. \A x \in Pages \ {base} : Link(base).prev[x] = links.prev[x] /\ x # free_list
      BY <3>3, NodesAre DEF Nodes
    <3>5. Link(base) = [next |-> Link(base).next, prev |-> Link(base).prev]
      BY <2>4
    <3>6. QED
      BY <2>1, <3>1, <3>3, <3>4, <3>5 DEF Inserted
  <2>6. free_list \in R /\ free_list < base /\ \A a \in R : a < base => a <= free_list
    BY <1>1, <1>2, <2>2
  <2>7. QED
    BY <1>3, <2>5, <2>6
<1>4. CASE ~list_empty(links) /\ base < Place(base)
  <2> DEFINE at == Place(base)
  <2>2. at \in R \ {free_list} /\ at \in Nat
    BY <1>2, <1>4, PlaceFound
  <2>1. PICK cur \in R : links.next[cur] = at /\ cur < base
    <3>1. ~(at < base)
      BY <1>2, <1>4, <2>2
    <3>2. QED
      BY <1>4, <3>1, PlaceFound
  <2>3. links.prev[at] = cur
    <3> DEFINE nx == links.next
    <3>1. links.prev[at] # at
      BY <1>4
    <3>2. links.prev[at] \in R /\ nx[links.prev[at]] = nx[cur]
      BY <1>1, <2>1, <2>2, <3>1
    <3>3. RingOf(nx, R) /\ R \in SUBSET Nat
      BY <1>1, <1>2
    <3> HIDE DEF nx
    <3>4. \A x, y \in R : nx[x] = nx[y] => x = y
      BY <3>3, RingInjective
    <3>5. QED
      BY <3>2, <3>4
  <2>4. \A a \in R : a < base => a <= cur
    <3>1. at # 0 /\ at \in Nat /\ cur \in Nat
      BY <1>2, <2>2
    <3>2. \A a \in R : ~(cur < a /\ a < at)
      BY <1>1, <2>1, <3>1 DEF RingOf
    <3>3. QED
      BY <1>2, <1>4, <3>1, <3>2
  <2>5. Link(base) = ListAddBefore(links, at, base)
    BY <1>4 DEF Link
  <2>6. Link(base) = [next |-> [links.next EXCEPT ![cur] = base, ![base] = at],
                      prev |-> [links.prev EXCEPT ![at] = base, ![base] = cur]]
    BY <2>3, <2>5 DEF ListAddBefore
  <2>7. base # at /\ cur \in Nodes /\ at \in Nodes
    BY <1>1, <1>2, <1>4, <2>2
  <2> HIDE DEF at
  <2>8. Inserted(Link(base), links, base, cur) /\ Link(base).prev[base] = cur
    <3>1. Link(base).next = [links.next EXCEPT ![cur] = base, ![base] = at]
      BY <2>6
    <3>2. Link(base).prev = [links.prev EXCEPT ![at] = base, ![base] = cur]
      BY <2>6
    <3>3. \A x \in Pages \ {base} : Link(base).prev[x] = IF x = at THEN base ELSE links.prev[x]
      BY <1>1, <3>2, <2>7 DEF Nodes
    <3>4. Link(base).prev \in [Nodes -> Nodes] /\ Link(base).prev[base] = cur
      BY <1>1, <1>2, <2>7, <3>2
    <3>5. QED
      BY <2>1, <2>6, <3>1, <3>3, <3>4 DEF Inserted
  <2>9. ~(Place(base) < base)
    <3>1. at \in Nat
      BY <1>2, <2>2
    <3>2. QED
      BY <1>2, <1>4, <3>1 DEF at
  <2>10. QED
    BY <2>1, <2>4, <2>8, <2>9
<1>5. CASE ~list_empty(links) /\ ~(base < Place(base))
  <2> DEFINE at == Place(base)
             once == ListAdd(links, at, base)
  <2>1. at \in R \ {free_list} /\ at < base /\ links.next[at] = free_list
    BY <1>5, PlaceFound
  <2>2. \A a \in R : a < base => a <= at
    <3>1. at \in Nat /\ ~(at < links.next[at])
      <4>1. at \in Nat /\ links.next[at] = 0
        BY <1>2, <2>1
      <4> HIDE DEF at
      <4>2. QED
        BY <4>1
    <3>2. QED
      BY <1>1, <2>1, <3>1 DEF RingOf
  <2>3. Link(base) = ListAdd(once, base, base)
    BY <1>5 DEF Link
  <2>4. at \in Nodes /\ at # base /\ at # free_list /\ at \in Nat
    BY <1>1, <1>2, <2>1
  <2>5. once = [next |-> [links.next EXCEPT ![at] = base, ![base] = free_list],
                prev |-> [links.prev EXCEPT ![free_list] = base, ![base] = at]]
    BY <2>1 DEF ListAdd
  <2> HIDE DEF at, once
  <2>6. once.next[base] = free_list
    BY <1>1, <1>2, <2>4, <2>5
  <2>7. Link(base) = [next |-> [once.next EXCEPT ![base] = base, ![base] = free_list],
                      prev |-> [once.prev EXCEPT ![free_list] = base, ![base] = base]]
    BY <2>3, <2>6 DEF ListAdd
  <2>8. Link(base).next = [links.next EXCEPT ![at] = base, ![base] = free_list]
    <3>1. once.next = [links.next EXCEPT ![at] = base, ![base] = free_list]
      BY <2>5
    <3>2. Link(base).next = [once.next EXCEPT ![base] = base, ![base] = free_list]
      BY <2>7
    <3>3. QED
      BY <1>1, <1>2, <2>4, <3>1, <3>2
  <2>9. /\ Link(base).prev \in [Nodes -> Nodes] /\ Link(base).prev[base] = base
        /\ \A x \in Pages \ {base} : Link(base).prev[x] = links.prev[x]
    <3>1. once.prev = [links.prev EXCEPT ![free_list] = base, ![base] = at]
      BY <2>5
    <3>2. Link(base).prev = [once.prev EXCEPT ![free_list] = base, ![base] = base]
      BY <2>7
    <3>3. once.prev \in [Nodes -> Nodes] /\ \A x \in Pages \ {base} : once.prev[x] = links.prev[x]
      <4>1. \A x \in Nodes \ {base, free_list} : once.prev[x] = links.prev[x]
        BY <1>1, <1>2, <2>4, <3>1
      <4>2. once.prev \in [Nodes -> Nodes]
        BY <1>1, <1>2, <2>4, <3>1
      <4>3. QED
        BY <4>1, <4>2, NodesAre DEF Nodes
    <3>4. /\ Link(base).prev \in [Nodes -> Nodes] /\ Link(base).prev[base] = base
          /\ \A x \in Nodes \ {base, free_list} : Link(base).prev[x] = once.prev[x]
      BY <1>1, <1>2, <3>2, <3>3
    <3>5. QED
      BY <3>3, <3>4, NodesAre DEF Nodes
  <2>10. Inserted(Link(base), links, base, at)
    <3>1. \A x \in Pages \ {base} : x # links.next[at]
      BY <2>1, NodesAre DEF at
    <3>2. Link(base) = [next |-> Link(base).next, prev |-> Link(base).prev]
      BY <2>7
    <3>3. links.next[at] = free_list
      BY <2>1 DEF at
    <3>4. QED
      BY <2>8, <2>9, <3>1, <3>2, <3>3 DEF Inserted
  <2>11. QED
    BY <1>5, <2>1, <2>2, <2>9, <2>10 DEF at
<1>6. QED
  BY <1>3, <1>4, <1>5
-----------------------------------------------------------------------------
\* The blocks with first pages P and lengths size: inside the range, no page in two.
Blocks(P, size) ==
  /\ P \subseteq Pages /\ size \in [Pages -> Nat]
  /\ \A a \in P : size[a] > 0 /\ a + size[a] <= NPages + 1
  /\ \A a, b \in P : a < b => a + size[a] <= b

Cover(P, size) == UNION {Run(a, size[a]) : a \in P}

\* No block but those of E reaches the next one.
Tight(P, size, E) == \A a \in P \ E : a + size[a] \notin P

\* Which pages blocks cover.
LEMMA CoverMember ==
  ASSUME NEW P, NEW size, Blocks(P, size), NEW x
  PROVE  x \in Cover(P, size) <=> x \in Nat /\ \E a \in P : a <= x /\ x < a + size[a]
<1>1. ASSUME NEW a \in P
      PROVE  x \in Run(a, size[a]) <=> x \in Nat /\ a <= x /\ x < a + size[a]
  <2>1. a \in Nat /\ size[a] \in Nat
    <3>1. a \in 1 .. NPages /\ size[a] \in Nat
      BY NodesAre DEF Blocks
    <3>2. QED
      BY <3>1
  <2>2. QED
    BY <2>1 DEF Run
<1>2. x \in Cover(P, size) <=> \E a \in P : x \in Run(a, size[a])
  BY DEF Cover
<1>3. QED
  BY <1>1, <1>2

\* A block, in numbers.
LEMMA BlockNumbers ==
  ASSUME NEW P, NEW size, Blocks(P, size), NEW a \in P
  PROVE  /\ a \in Pages /\ a \in Nat /\ a > 0 /\ size[a] \in Nat /\ size[a] > 0
         /\ a + size[a] <= NPages + 1 /\ NPages \in Nat
         /\ a \in Cover(P, size) /\ Run(a, size[a]) \subseteq Cover(P, size)
         /\ \A b \in P : b \in Nat /\ size[b] \in Nat /\ (a < b => a + size[a] <= b)
<1>1. /\ a \in Pages /\ a \in Nat /\ a > 0 /\ size[a] \in Nat /\ size[a] > 0
      /\ a + size[a] <= NPages + 1 /\ NPages \in Nat
  <2>1. a \in 1 .. NPages /\ NPages \in Nat /\ a \in Pages
    BY NodesAre DEF Blocks
  <2>2. QED
    BY <2>1 DEF Blocks
<1>2. a \in Run(a, size[a])
  BY <1>1 DEF Run
<1>3. Run(a, size[a]) \subseteq Cover(P, size)
  BY DEF Cover
<1>4. \A b \in P : b \in Nat /\ size[b] \in Nat /\ (a < b => a + size[a] <= b)
  <2>1. \A b \in P : b \in 1 .. NPages /\ size[b] \in Nat
    BY NodesAre DEF Blocks
  <2>2. QED
    BY <2>1 DEF Blocks
<1>5. QED
  BY <1>1, <1>2, <1>3, <1>4

\* A run of n pages is finite and has n of them.
LEMMA RunSize ==
  ASSUME NEW b \in Nat, NEW n \in Nat
  PROVE  IsFiniteSet(Run(b, n)) /\ Cardinality(Run(b, n)) = n
<1>1. b \in Int /\ b + n - 1 \in Int
  OBVIOUS
<1>2. QED
  BY <1>1, FS_Interval DEF Run

\* Blocks cover pages of the range only, and finitely many.
LEMMA CoverInRange ==
  ASSUME NEW P, NEW size, Blocks(P, size)
  PROVE  /\ Cover(P, size) \subseteq Pages /\ IsFiniteSet(Cover(P, size))
         /\ Cardinality(Cover(P, size)) \in Nat
         /\ \A a \in P : size[a] <= Cardinality(Cover(P, size))
<1>1. ASSUME NEW x \in Cover(P, size)  PROVE x \in Pages
  <2>1. PICK a \in P : x \in Nat /\ a <= x /\ x < a + size[a]
    BY CoverMember
  <2>2. x \in 1 .. NPages
    BY <2>1, BlockNumbers
  <2>3. QED
    BY <2>2, NodesAre
<1>2. IsFiniteSet(Cover(P, size)) /\ Cardinality(Cover(P, size)) \in Nat
  BY <1>1, NodesAre, FS_Subset, FS_CardinalityType
<1>3. ASSUME NEW a \in P  PROVE size[a] <= Cardinality(Cover(P, size))
  <2>1. a \in Nat /\ size[a] \in Nat /\ Run(a, size[a]) \subseteq Cover(P, size)
    BY BlockNumbers
  <2>2. Cardinality(Run(a, size[a])) = size[a]
    BY <2>1, RunSize
  <2>3. Cardinality(Run(a, size[a])) <= Cardinality(Cover(P, size))
    BY <1>2, <2>1, FS_Subset
  <2>4. QED
    BY <2>2, <2>3
<1>4. QED
  BY <1>1, <1>2, <1>3

\* A freed run becomes a block.
AddedSize(size, base, n) == [size EXCEPT ![base] = n]

CoverOf(P, s, X) == Cover(P, s) = X

\* The blocks P with lengths size, and pages base to base + n - 1 as one more.
BlockIsAdded(P, size, base, n, s) ==
  /\ Blocks(P \cup {base}, s) /\ base \notin P
  /\ Cover(P \cup {base}, s) = Cover(P, size) \cup Run(base, n)
  /\ s[base] = n
  /\ \A a \in P : s[a] = size[a]
  /\ Tight(P, size, {}) =>
       \A c : c < base /\ (\A a \in P : a < base => c \in P /\ a <= c)
                => Tight(P \cup {base}, s, {base, c})

LEMMA BlockAdded ==
  ASSUME NEW P, NEW size, Blocks(P, size), NEW base \in Pages, NEW n \in Nat, n > 0,
         base + n <= NPages + 1, Run(base, n) \cap Cover(P, size) = {}
  PROVE  BlockIsAdded(P, size, base, n, AddedSize(size, base, n))
<1> DEFINE s == AddedSize(size, base, n)
<1>0. s = [size EXCEPT ![base] = n]
  BY DEF AddedSize
<1> HIDE DEF s
<1>1. base \in Nat /\ base > 0 /\ NPages \in Nat
  <2>1. base \in 1 .. NPages /\ NPages \in Nat
    BY NodesAre
  <2>2. QED
    BY <2>1
<1>2. \A x : x \in Run(base, n) <=> x \in Nat /\ base <= x /\ x < base + n
  BY <1>1 DEF Run
<1>3. base \notin P
  <2>1. base \in Run(base, n)
    BY <1>1, <1>2
  <2>2. QED
    BY <2>1, BlockNumbers
<1>4. P \subseteq Pages /\ size \in [Pages -> Nat]
  BY DEF Blocks
<1>5. s \in [Pages -> Nat] /\ s[base] = n /\ \A a \in P : s[a] = size[a]
  BY <1>0, <1>3, <1>4
<1>6. ASSUME NEW a \in P
      PROVE  \/ a < base /\ a + size[a] <= base
             \/ base < a /\ base + n <= a
  <2>1. a \in Nat /\ size[a] \in Nat /\ size[a] > 0 /\ a # base
    BY <1>3, BlockNumbers
  <2>2. CASE a < base
    <3>1. ~(base < a + size[a])
      <4>1. SUFFICES ASSUME base < a + size[a]  PROVE FALSE
        OBVIOUS
      <4>2. base \in Cover(P, size) /\ base \in Run(base, n)
        BY <1>1, <1>2, <2>1, <2>2, <4>1, CoverMember
      <4>3. QED
        BY <4>2
    <3>2. QED
      BY <1>1, <2>1, <2>2, <3>1
  <2>3. CASE base < a
    <3>1. ~(a < base + n)
      <4>1. SUFFICES ASSUME a < base + n  PROVE FALSE
        OBVIOUS
      <4>2. a \in Cover(P, size) /\ a \in Run(base, n)
        BY <1>1, <1>2, <2>1, <2>3, <4>1, BlockNumbers
      <4>3. QED
        BY <4>2
    <3>2. QED
      BY <1>1, <2>1, <2>3, <3>1
  <2>4. QED
    BY <1>1, <2>1, <2>2, <2>3
<1>7. Blocks(P \cup {base}, s)
  <2>1. \A a \in P \cup {base} : s[a] > 0 /\ a + s[a] <= NPages + 1
    BY <1>5, BlockNumbers
  <2>2. ASSUME NEW a \in P \cup {base}, NEW b \in P \cup {base}, a < b
        PROVE  a + s[a] <= b
    <3>1. CASE a \in P /\ b \in P
      BY <1>5, <2>2, <3>1, BlockNumbers
    <3>2. CASE a = base /\ b \in P
      <4>1. b \in Nat /\ size[b] \in Nat
        BY <3>2, BlockNumbers
      <4>2. QED
        BY <1>1, <1>5, <1>6, <2>2, <3>2, <4>1
    <3>3. CASE a \in P /\ b = base
      <4>1. a \in Nat /\ size[a] \in Nat
        BY <3>3, BlockNumbers
      <4>2. QED
        BY <1>1, <1>5, <1>6, <2>2, <3>3, <4>1
    <3>4. CASE a = base /\ b = base
      BY <1>1, <2>2, <3>4
    <3>5. QED
      BY <3>1, <3>2, <3>3, <3>4
  <2>3. QED
    BY <1>4, <1>5, <2>1, <2>2 DEF Blocks
<1>8. Cover(P \cup {base}, s) = Cover(P, size) \cup Run(base, n)
  <2>1. {Run(a, s[a]) : a \in P \cup {base}} = {Run(a, size[a]) : a \in P} \cup {Run(base, n)}
    BY <1>5
  <2>2. QED
    BY <2>1 DEF Cover
<1>9. ASSUME Tight(P, size, {}), NEW c, c < base, \A a \in P : a < base => c \in P /\ a <= c
      PROVE  Tight(P \cup {base}, s, {base, c})
  <2>1. ASSUME NEW a \in (P \cup {base}) \ {base, c}  PROVE a + s[a] \notin P \cup {base}
    <3>1. a \in P /\ s[a] = size[a] /\ a \in Nat /\ size[a] \in Nat /\ size[a] > 0
      BY <1>5, BlockNumbers
    <3>2. a + size[a] \notin P
      BY <1>9, <3>1 DEF Tight
    <3>3. a + size[a] # base
      <4>1. SUFFICES ASSUME a + size[a] = base  PROVE FALSE
        OBVIOUS
      <4>2. a < base
        BY <3>1, <4>1
      <4>3. a <= c /\ a # c /\ c \in P
        BY <1>9, <2>1, <3>1, <4>2
      <4>4. c \in Nat /\ size[c] \in Nat /\ size[c] > 0 /\ (a < c => a + size[a] <= c)
        BY <3>1, <4>3, BlockNumbers
      <4>5. a < c
        BY <3>1, <4>3, <4>4
      <4>6. QED
        BY <1>1, <1>9, <3>1, <4>1, <4>4, <4>5
    <3>4. QED
      BY <3>1, <3>2, <3>3
  <2>2. QED
    BY <2>1 DEF Tight
<1>10. QED
  BY <1>3, <1>5, <1>7, <1>8, <1>9 DEF s, BlockIsAdded

\* A block takes in the one behind it.
JoinedSize(size, a, b) == [size EXCEPT ![a] = size[a] + size[b]]

LEMMA BlocksJoined ==
  ASSUME NEW P, NEW size, Blocks(P, size), NEW a \in P, NEW b \in P, a + size[a] = b
  PROVE  /\ Blocks(P \ {b}, JoinedSize(size, a, b)) /\ a < b /\ a \in P \ {b}
         /\ CoverOf(P \ {b}, JoinedSize(size, a, b), Cover(P, size))
         /\ JoinedSize(size, a, b)[a] = size[a] + size[b] /\ \A c \in P \ {a} : JoinedSize(size, a, b)[c] = size[c]
         /\ Tight(P, size, {b, a}) => Tight(P \ {b}, JoinedSize(size, a, b), {a})
         /\ Tight(P, size, {a}) => Tight(P \ {b}, JoinedSize(size, a, b), {})
<1> DEFINE s == JoinedSize(size, a, b)
<1>0. s = [size EXCEPT ![a] = size[a] + size[b]]
  BY DEF JoinedSize
<1> HIDE DEF s
<1>1. /\ a \in Nat /\ a > 0 /\ size[a] \in Nat /\ size[a] > 0 /\ a \in Pages
      /\ b \in Nat /\ size[b] \in Nat /\ size[b] > 0 /\ b + size[b] <= NPages + 1
      /\ \A c \in P : /\ c \in Nat /\ size[c] \in Nat /\ size[c] > 0
                      /\ (a < c => a + size[a] <= c) /\ (b < c => b + size[b] <= c)
                      /\ (c < a => c + size[c] <= a) /\ (c < b => c + size[c] <= b)
  BY BlockNumbers
<1>2. a < b /\ a # b
  BY <1>1
<1>3. P \subseteq Pages /\ size \in [Pages -> Nat]
  BY DEF Blocks
<1>4. s \in [Pages -> Nat] /\ s[a] = size[a] + size[b] /\ \A c \in P \ {a} : s[c] = size[c]
  <2>1. size[a] + size[b] \in Nat
    BY <1>1
  <2>2. QED
    BY <1>0, <1>1, <1>3, <2>1
<1>5. a + s[a] = b + size[b]
  BY <1>1, <1>4
<1>6. Blocks(P \ {b}, s)
  <2>1. \A c \in P \ {b} : s[c] > 0 /\ c + s[c] <= NPages + 1
    <3>1. ASSUME NEW c \in P \ {b}  PROVE s[c] > 0 /\ c + s[c] <= NPages + 1
      <4>1. CASE c = a
        BY <1>1, <1>4, <1>5, <4>1
      <4>2. CASE c # a
        BY <1>4, <4>2, BlockNumbers
      <4>3. QED
        BY <4>1, <4>2
    <3>2. QED
      BY <3>1
  <2>2. ASSUME NEW c \in P \ {b}, NEW d \in P \ {b}, c < d
        PROVE  c + s[c] <= d
    <3>1. CASE c = a
      <4>1. d \in Nat /\ b <= d /\ d # b
        BY <1>1, <2>2, <3>1
      <4>2. b < d
        BY <1>1, <4>1
      <4>3. QED
        BY <1>1, <1>5, <3>1, <4>2
    <3>2. CASE c # a
      BY <1>4, <2>2, <3>2, BlockNumbers
    <3>3. QED
      BY <3>1, <3>2
  <2>3. QED
    BY <1>3, <1>4, <2>1, <2>2 DEF Blocks
<1>7. Cover(P \ {b}, s) = Cover(P, size)
  <2>1. ASSUME NEW x  PROVE x \in Cover(P \ {b}, s) <=> x \in Cover(P, size)
    <3>1. x \in Cover(P, size) <=> x \in Nat /\ \E c \in P : c <= x /\ x < c + size[c]
      BY CoverMember
    <3>2. x \in Cover(P \ {b}, s) <=> x \in Nat /\ \E c \in P \ {b} : c <= x /\ x < c + s[c]
      BY <1>6, CoverMember
    <3>3. ASSUME x \in Nat, NEW c \in P, c <= x, x < c + size[c]
          PROVE  \E d \in P \ {b} : d <= x /\ x < d + s[d]
      <4>1. CASE c = b \/ c = a
        <5>1. a <= x /\ x < a + s[a]
          BY <1>1, <1>2, <1>5, <3>3, <4>1
        <5>2. QED
          BY <1>2, <5>1
      <4>2. CASE c # b /\ c # a
        BY <1>4, <3>3, <4>2
      <4>3. QED
        BY <4>1, <4>2
    <3>4. ASSUME x \in Nat, NEW c \in P \ {b}, c <= x, x < c + s[c]
          PROVE  \E d \in P : d <= x /\ x < d + size[d]
      <4>1. CASE c = a
        BY <1>1, <1>5, <3>4, <4>1
      <4>2. CASE c # a
        BY <1>4, <3>4, <4>2
      <4>3. QED
        BY <4>1, <4>2
    <3>5. QED
      BY <3>1, <3>2, <3>3, <3>4
  <2>2. QED
    BY <2>1
<1>8. ASSUME Tight(P, size, {b, a})  PROVE Tight(P \ {b}, s, {a})
  <2>1. ASSUME NEW c \in (P \ {b}) \ {a}  PROVE c + s[c] \notin P \ {b}
    BY <1>4, <1>8 DEF Tight
  <2>2. QED
    BY <2>1 DEF Tight
<1>9. ASSUME Tight(P, size, {a})  PROVE Tight(P \ {b}, s, {})
  <2>1. ASSUME NEW c \in (P \ {b}) \ {}  PROVE c + s[c] \notin P \ {b}
    <3>1. CASE c = a
      <4>1. b + size[b] \notin P
        BY <1>2, <1>9 DEF Tight
      <4>2. QED
        BY <1>5, <3>1, <4>1
    <3>2. CASE c # a
      BY <1>4, <1>9, <3>2 DEF Tight
    <3>3. QED
      BY <3>1, <3>2
  <2>2. QED
    BY <2>1 DEF Tight
<1>10. QED
  BY <1>2, <1>4, <1>6, <1>7, <1>8, <1>9 DEF s, CoverOf

\* Pages are cut off the front of a block.
Rest(P, size, a, n) == IF size[a] > n THEN (P \cup {a + n}) \ {a} ELSE P \ {a}
RestSize(size, a, n) == IF size[a] > n THEN [size EXCEPT ![a + n] = size[a] - n] ELSE size

LEMMA BlockCut ==
  ASSUME NEW P, NEW size, Blocks(P, size), NEW a \in P, NEW n \in Nat, n > 0, size[a] >= n
  PROVE  /\ Blocks(Rest(P, size, a, n), RestSize(size, a, n))
         /\ Cover(Rest(P, size, a, n), RestSize(size, a, n)) = Cover(P, size) \ Run(a, n)
         /\ Run(a, n) \subseteq Cover(P, size)
         /\ size[a] > n => a + n \in Pages /\ a + n \notin P
         /\ Tight(P, size, {}) => Tight(Rest(P, size, a, n), RestSize(size, a, n), {})
<1> DEFINE Q == Rest(P, size, a, n)
           s == RestSize(size, a, n)
<1>0. s = IF size[a] > n THEN [size EXCEPT ![a + n] = size[a] - n] ELSE size
  BY DEF RestSize
<1> HIDE DEF s
<1>1. /\ a \in Nat /\ a > 0 /\ size[a] \in Nat /\ size[a] > 0 /\ a \in Pages
      /\ a + size[a] <= NPages + 1 /\ NPages \in Nat
      /\ \A c \in P : /\ c \in Nat /\ size[c] \in Nat /\ size[c] > 0
                      /\ (a < c => a + size[a] <= c) /\ (c < a => c + size[c] <= a)
                      /\ c + size[c] <= NPages + 1
  BY BlockNumbers
<1>2. P \subseteq Pages /\ size \in [Pages -> Nat]
  BY DEF Blocks
<1>3. ASSUME size[a] > n  PROVE a + n \in Pages /\ a + n \notin P
  <2>1. a + n \in 1 .. NPages
    BY <1>1, <1>3
  <2>2. a + n \notin P
    <3>1. SUFFICES ASSUME a + n \in P  PROVE FALSE
      OBVIOUS
    <3>2. a < a + n
      BY <1>1
    <3>3. a + size[a] <= a + n
      BY <1>1, <3>1, <3>2
    <3>4. QED
      BY <1>1, <1>3, <3>3
  <2>3. QED
    BY <2>1, <2>2, NodesAre
<1>5. /\ s \in [Pages -> Nat] /\ \A c \in P : s[c] = size[c]
      /\ size[a] > n => s[a + n] = size[a] - n
  <2>1. CASE size[a] > n
    <3>1. size[a] - n \in Nat
      BY <1>1, <2>1
    <3>2. QED
      BY <1>0, <1>2, <1>3, <2>1, <3>1
  <2>2. CASE ~(size[a] > n)
    BY <1>0, <1>2, <2>2
  <2>3. QED
    BY <2>1, <2>2
<1>6. ASSUME NEW c \in Q
      PROVE  \/ c \in P /\ c # a /\ s[c] = size[c]
             \/ size[a] > n /\ c = a + n /\ c + s[c] = a + size[a] /\ s[c] > 0
  <2>1. CASE c \in P
    <3>1. c # a
      BY <1>1, <1>6, <2>1 DEF Rest
    <3>2. QED
      BY <1>5, <2>1, <3>1
  <2>2. CASE c \notin P
    <3>1. size[a] > n /\ c = a + n
      BY <1>6, <2>2 DEF Rest
    <3>2. QED
      BY <1>1, <1>5, <3>1
  <2>3. QED
    BY <2>1, <2>2
<1>7. /\ \A c \in P \ {a} : c \in Q
      /\ size[a] > n => a + n \in Q
      /\ a \notin Q /\ Q \subseteq Pages
  BY <1>1, <1>2, <1>3 DEF Rest
<1> HIDE DEF Q
<1>8. Blocks(Q, s)
  <2>1. ASSUME NEW c \in Q  PROVE s[c] > 0 /\ c + s[c] <= NPages + 1
    BY <1>1, <1>6
  <2>2. ASSUME NEW c \in Q, NEW d \in Q, c < d  PROVE c + s[c] <= d
    <3>1. CASE c \in P /\ c # a /\ s[c] = size[c]
      <4>1. CASE d \in P
        BY <2>2, <3>1, <4>1, BlockNumbers
      <4>2. CASE size[a] > n /\ d = a + n
        <5>1. c \in Nat /\ c < a + n
          BY <1>1, <2>2, <3>1, <4>2
        <5>2. ~(a < c)
          <6>1. SUFFICES ASSUME a < c  PROVE FALSE
            OBVIOUS
          <6>2. a + size[a] <= c
            BY <1>1, <3>1, <6>1
          <6>3. QED
            BY <1>1, <4>2, <5>1, <6>2
        <5>3. c < a
          BY <1>1, <3>1, <5>1, <5>2
        <5>4. c + size[c] <= a /\ size[c] \in Nat
          BY <1>1, <3>1, <5>3
        <5>5. QED
          BY <1>1, <3>1, <4>2, <5>1, <5>4
      <4>3. QED
        BY <1>6, <4>1, <4>2
    <3>2. CASE size[a] > n /\ c = a + n /\ c + s[c] = a + size[a] /\ s[c] > 0
      <4>1. d # a + n
        BY <1>1, <2>2, <3>2
      <4>2. d \in P /\ d \in Nat
        BY <1>1, <1>6, <4>1
      <4>3. a < d
        BY <1>1, <2>2, <3>2, <4>2
      <4>4. QED
        BY <1>1, <3>2, <4>2, <4>3
    <3>3. QED
      BY <1>6, <3>1, <3>2
  <2>3. QED
    BY <1>5, <1>7, <2>1, <2>2 DEF Blocks
<1>9. \A x : x \in Run(a, n) <=> x \in Nat /\ a <= x /\ x < a + n
  BY <1>1 DEF Run
<1>10. Run(a, n) \subseteq Cover(P, size)
  <2>1. ASSUME NEW x \in Run(a, n)  PROVE x \in Cover(P, size)
    <3>1. x \in Nat /\ a <= x /\ x < a + size[a]
      BY <1>1, <1>9
    <3>2. QED
      BY <3>1, CoverMember
  <2>2. QED
    BY <2>1
<1>11. Cover(Q, s) = Cover(P, size) \ Run(a, n)
  <2>1. ASSUME NEW x  PROVE x \in Cover(Q, s) <=> x \in Cover(P, size) \ Run(a, n)
    <3>1. x \in Cover(P, size) <=> x \in Nat /\ \E c \in P : c <= x /\ x < c + size[c]
      BY CoverMember
    <3>2. x \in Cover(Q, s) <=> x \in Nat /\ \E c \in Q : c <= x /\ x < c + s[c]
      BY <1>8, CoverMember
    <3>3. ASSUME x \in Nat, NEW c \in P, c <= x, x < c + size[c], x \notin Run(a, n)
          PROVE  \E d \in Q : d <= x /\ x < d + s[d]
      <4>1. CASE c # a
        BY <1>5, <1>7, <3>3, <4>1
      <4>2. CASE c = a
        <5>1. a + n <= x /\ x < a + size[a]
          BY <1>1, <1>9, <3>3, <4>2
        <5>2. size[a] > n /\ a + n \in Q
          BY <1>1, <1>7, <3>3, <5>1
        <5>3. x < (a + n) + s[a + n]
          BY <1>1, <1>5, <3>3, <5>1, <5>2
        <5>4. QED
          BY <5>1, <5>2, <5>3
      <4>3. QED
        BY <4>1, <4>2
    <3>4. ASSUME x \in Nat, NEW c \in Q, c <= x, x < c + s[c]
          PROVE  /\ \E d \in P : d <= x /\ x < d + size[d]
                 /\ x \notin Run(a, n)
      <4>1. CASE c \in P /\ c # a /\ s[c] = size[c]
        <5>1. ~(a <= x /\ x < a + n)
          <6>1. SUFFICES ASSUME a <= x, x < a + n  PROVE FALSE
            OBVIOUS
          <6>2. x < c + size[c] /\ c \in Nat /\ size[c] \in Nat
            BY <1>1, <3>4, <4>1
          <6>3. CASE a < c
            BY <1>1, <3>4, <4>1, <6>1, <6>3
          <6>4. CASE c < a
            BY <1>1, <3>4, <4>1, <6>1, <6>2, <6>4
          <6>5. QED
            BY <1>1, <4>1, <6>2, <6>3, <6>4
        <5>2. QED
          BY <1>9, <3>4, <4>1, <5>1
      <4>2. CASE size[a] > n /\ c = a + n /\ c + s[c] = a + size[a] /\ s[c] > 0
        <5>1. a <= x /\ x < a + size[a] /\ ~(x < a + n)
          BY <1>1, <3>4, <4>2
        <5>2. QED
          BY <1>9, <5>1
      <4>3. QED
        BY <1>6, <4>1, <4>2
    <3>5. QED
      BY <3>1, <3>2, <3>3, <3>4
  <2>2. QED
    BY <2>1
<1>12. ASSUME Tight(P, size, {})  PROVE Tight(Q, s, {})
  <2>1. \A c \in P : c + size[c] \notin P
    BY <1>12 DEF Tight
  <2>2. ASSUME NEW c \in Q \ {}  PROVE c + s[c] \notin Q
    <3>1. PICK d \in P : c + s[c] = d + size[d]
      BY <1>6
    <3>2. d + size[d] \notin P
      BY <2>1
    <3>3. d + size[d] # a + n \/ ~(size[a] > n)
      <4>1. SUFFICES ASSUME d + size[d] = a + n, size[a] > n  PROVE FALSE
        OBVIOUS
      <4>2. d \in Nat /\ size[d] \in Nat
        BY <1>1
      <4>3. CASE d = a
        BY <1>1, <4>1, <4>3
      <4>4. CASE d < a
        BY <1>1, <4>1, <4>2, <4>4
      <4>5. CASE a < d
        <5>1. a + size[a] <= d
          BY <1>1, <4>5
        <5>2. QED
          BY <1>1, <4>1, <4>2, <5>1
      <4>6. QED
        BY <1>1, <4>2, <4>3, <4>4, <4>5
    <3>4. QED
      BY <1>6, <3>1, <3>2, <3>3
  <2>3. QED
    BY <2>2 DEF Tight
<1>13. QED
  BY <1>3, <1>8, <1>10, <1>11, <1>12 DEF Q, s
-----------------------------------------------------------------------------
Listed == PG_property \cup {free_list}

\* What holds until list_del or list_add_before meets an entry that is its own prev.
Intact ==
  /\ state = "running"
  /\ Chain(links, Listed)
  /\ Blocks(PG_property, property)
  /\ Partition
  /\ nr_free = Cardinality(Free)
  /\ ~appended => LinkedBack(links, Listed) /\ Tight(PG_property, property, {})

\* The inductive invariant: besides what the run checks, that no block reaches
\* beyond the range, that nr_free counts the free pages, and that only a block put
\* behind the last one is its own prev.
PmmInv ==
  /\ TypeOK
  /\ \A p \in Pages : p + property[p] <= NPages + 1
  /\ broken = 0 => Intact
  /\ ~appended => broken = 0

AllLinks == [next : [Nodes -> Nodes], prev : [Nodes -> Nodes]]

LEMMA LinksTyped ==
  ASSUME NEW l \in AllLinks
  PROVE  /\ \A at, e \in Nodes : /\ ListAdd(l, at, e) \in AllLinks
                                 /\ ListAddBefore(l, at, e) \in AllLinks
         /\ \A e \in Nodes : ListDel(l, e) \in AllLinks
<1>1. l.next \in [Nodes -> Nodes] /\ l.prev \in [Nodes -> Nodes]
  BY DEF AllLinks
<1>2. ASSUME NEW at \in Nodes, NEW e \in Nodes  PROVE ListAdd(l, at, e) \in AllLinks
  <2>1. [l.next EXCEPT ![at] = e, ![e] = l.next[at]] \in [Nodes -> Nodes]
    BY <1>1
  <2>2. [l.prev EXCEPT ![l.next[at]] = e, ![e] = at] \in [Nodes -> Nodes]
    BY <1>1
  <2>3. QED
    BY <2>1, <2>2 DEF ListAdd, AllLinks
<1>3. ASSUME NEW at \in Nodes, NEW e \in Nodes  PROVE ListAddBefore(l, at, e) \in AllLinks
  <2>1. [l.next EXCEPT ![l.prev[at]] = e, ![e] = at] \in [Nodes -> Nodes]
    BY <1>1
  <2>2. [l.prev EXCEPT ![at] = e, ![e] = l.prev[at]] \in [Nodes -> Nodes]
    BY <1>1
  <2>3. QED
    BY <2>1, <2>2 DEF ListAddBefore, AllLinks
<1>4. ASSUME NEW e \in Nodes  PROVE ListDel(l, e) \in AllLinks
  <2>1. [l.next EXCEPT ![l.prev[e]] = l.next[e]] \in [Nodes -> Nodes]
    BY <1>1
  <2>2. [l.prev EXCEPT ![l.next[e]] = l.prev[e]] \in [Nodes -> Nodes]
    BY <1>1
  <2>3. QED
    BY <2>1, <2>2 DEF ListDel, AllLinks
<1>5. QED
  BY <1>2, <1>3, <1>4

\* Where nothing is damaged, free pages and held pages are each other's rest.
LEMMA HeldIsRest ==
  ASSUME Intact
  PROVE  /\ Free = Cover(PG_property, property) /\ Free \subseteq Pages
         /\ \A p \in Pages : held[p] = IF p \in Free THEN 0 ELSE 1
         /\ IsFiniteSet(Free) /\ nr_free = Cardinality(Free)
         /\ \A a \in PG_property : property[a] <= nr_free /\ a \in Free
<1>1. Free = Cover(PG_property, property)
  BY DEF Free, Cover
<1>2. Blocks(PG_property, property) /\ nr_free = Cardinality(Free)
  BY DEF Intact
<1>3. /\ Cover(PG_property, property) \subseteq Pages /\ IsFiniteSet(Cover(PG_property, property))
      /\ \A a \in PG_property : property[a] <= Cardinality(Cover(PG_property, property))
  BY <1>2, CoverInRange
<1>4. \A a \in PG_property : a \in Cover(PG_property, property)
  BY <1>2, BlockNumbers
<1>5. QED
  BY <1>1, <1>2, <1>3, <1>4 DEF Intact, Partition

-----------------------------------------------------------------------------
\* The second half of alloc_pages.
LEMMA TakeKeeps ==
  ASSUME PmmInv, Running, NEW page \in Pages, NEW n \in 1 .. NPages + 1, n <= nr_free,
         broken = 0 => page \in PG_property /\ property[page] >= n,
         Take(page, n)
  PROVE  /\ PmmInv'
         /\ broken' = 0 => /\ broken = 0 /\ page \in Free /\ Run(page, n) \subseteq Free
                           /\ Free' = Free \ Run(page, n) /\ refused' = 0
<1> DEFINE prev == links.prev[page]
           rest == property[page] > n
           left == ListDel(links, page)
<1>1. /\ links' = IF rest THEN ListAdd(left, prev, page + n) ELSE left
      /\ property' = IF rest THEN [property EXCEPT ![page + n] = property[page] - n] ELSE property
      /\ PG_property' = (IF rest THEN PG_property \cup {page + n} ELSE PG_property) \ {page}
      /\ nr_free' = nr_free - n
      /\ held' = [p \in Pages |-> IF p \in Run(page, n) THEN held[p] + 1 ELSE held[p]]
      /\ refused' = 0 /\ state' = state /\ appended' = appended
      /\ broken' = IF prev = page \/ broken > 0 THEN broken + 1 ELSE 0
  BY DEF Take, Damage
<1>2. /\ NPages \in Nat /\ n \in Nat /\ n > 0 /\ page \in Nat /\ page \in Nodes /\ page > 0
      /\ page <= NPages /\ MaxBroken \in Nat
  <2>1. page \in 1 .. NPages /\ page \in Nodes /\ NPages \in Nat
    BY NodesAre DEF Nodes
  <2>2. QED
    BY <2>1, FreeListAssumption
<1>3. /\ links \in AllLinks /\ property \in [Pages -> 0 .. NPages] /\ PG_property \subseteq Pages
      /\ nr_free \in Nat /\ held \in [Pages -> Nat] /\ state = "running"
      /\ refused \in 0 .. NPages + 1 /\ appended \in BOOLEAN
      /\ broken \in Nat /\ broken <= MaxBroken
      /\ page + property[page] <= NPages + 1
      /\ \A p \in Pages : p + property[p] <= NPages + 1
  BY <1>2 DEF PmmInv, TypeOK, Running, AllLinks
<1>4. property[page] \in Nat /\ property[page] <= NPages
  BY <1>2, <1>3
<1>5. rest => page + n \in Pages
  <2>1. rest => page + n \in 1 .. NPages
    BY <1>2, <1>3, <1>4
  <2>2. QED
    BY <2>1, NodesAre
<1>6. TypeOK' /\ \A p \in Pages : p + property'[p] <= NPages + 1
  <2>1. links' \in AllLinks
    <3>1. left \in AllLinks
      BY <1>2, <1>3, LinksTyped
    <3>2. prev \in Nodes
      BY <1>2, <1>3 DEF AllLinks
    <3>3. rest => page + n \in Nodes
      BY <1>5 DEF Nodes
    <3> HIDE DEF left, prev, rest
    <3>4. QED
      BY <1>1, <3>1, <3>2, <3>3, LinksTyped
  <2>2. property' \in [Pages -> 0 .. NPages] /\ \A p \in Pages : p + property'[p] <= NPages + 1
    <3>1. CASE rest
      <4>1. property[page] - n \in 0 .. NPages /\ (page + n) + (property[page] - n) <= NPages + 1
        BY <1>2, <1>3, <1>4, <3>1
      <4>2. property' = [property EXCEPT ![page + n] = property[page] - n]
        BY <1>1, <3>1
      <4>3. QED
        BY <1>3, <1>5, <3>1, <4>1, <4>2
    <3>2. CASE ~rest
      BY <1>1, <1>3, <3>2
    <3>3. QED
      BY <3>1, <3>2
  <2>3. PG_property' \subseteq Pages
    BY <1>1, <1>3, <1>5
  <2>4. nr_free' \in Nat
    BY <1>1, <1>2, <1>3
  <2>5. held' \in [Pages -> Nat]
    BY <1>1, <1>3
  <2>6. broken' \in 0 .. MaxBroken + 1
    BY <1>1, <1>2, <1>3
  <2>7. QED
    BY <1>1, <1>2, <1>3, <2>1, <2>2, <2>3, <2>4, <2>5, <2>6 DEF TypeOK, AllLinks
<1>7. CASE broken # 0 \/ prev = page
  <2>1. broken' # 0
    BY <1>1, <1>3, <1>7
  <2>2. ~appended' => FALSE
    <3>1. SUFFICES ASSUME ~appended'  PROVE FALSE
      OBVIOUS
    <3>2. ~appended /\ broken = 0 /\ Intact
      BY <1>1, <3>1 DEF PmmInv
    <3>3. page \in Listed \ {free_list}
      BY <1>2, <3>2, NodesAre DEF Listed
    <3>4. prev # page
      BY <3>2, <3>3 DEF Intact, LinkedBack
    <3>5. QED
      BY <1>7, <3>2, <3>4
  <2>3. QED
    BY <1>6, <2>1, <2>2 DEF PmmInv
<1>8. CASE broken = 0 /\ prev # page
  <2>1. Intact /\ page \in PG_property /\ property[page] >= n /\ broken' = 0
    BY <1>1, <1>8 DEF PmmInv
  <2>2. Chain(links, Listed) /\ Blocks(PG_property, property)
    BY <2>1 DEF Intact
  <2>3. page \in Listed \ {free_list} /\ Listed \subseteq Nodes /\ free_list \in Listed
    BY <1>2, <1>3, <2>1, NodesAre DEF Listed, Nodes
  <2> DEFINE L1 == Listed \ {page}
             P1 == Rest(PG_property, property, page, n)
  <2>4. /\ Chain(left, L1)
        /\ LinkedBack(links, Listed) => LinkedBack(left, L1)
        /\ prev \in L1 /\ links.next[prev] = page /\ left.next[prev] = links.next[page]
    BY <1>8, <2>2, <2>3, DeleteKeepsChain
  <2>5. PG_property' = P1
    BY <1>1 DEF Rest
  <2> HIDE DEF left, prev, L1
  <2>6. /\ Blocks(P1, property') /\ Cover(P1, property') = Cover(PG_property, property) \ Run(page, n)
        /\ Run(page, n) \subseteq Cover(PG_property, property)
        /\ rest => page + n \in Pages /\ page + n \notin PG_property
        /\ Tight(PG_property, property, {}) => Tight(P1, property', {})
    <3> DEFINE size == property
    <3>1. property' = RestSize(property, page, n)
      BY <1>1 DEF RestSize
    <3>2. Blocks(PG_property, size) /\ size[page] >= n /\ page \in PG_property
          /\ n \in Nat /\ n > 0
      BY <1>2, <2>1, <2>2
    <3> HIDE DEF size
    <3>3. /\ Blocks(Rest(PG_property, size, page, n), RestSize(size, page, n))
          /\ Cover(Rest(PG_property, size, page, n), RestSize(size, page, n))
             = Cover(PG_property, size) \ Run(page, n)
          /\ Run(page, n) \subseteq Cover(PG_property, size)
          /\ size[page] > n => page + n \in Pages /\ page + n \notin PG_property
          /\ Tight(PG_property, size, {})
             => Tight(Rest(PG_property, size, page, n), RestSize(size, page, n), {})
      BY <3>2, BlockCut
    <3>4. QED
      BY <3>1, <3>3 DEF size
  <2>7. Chain(links', Listed') /\ (LinkedBack(links, Listed) => LinkedBack(links', Listed'))
    <3>1. CASE rest
      <4> DEFINE e == page + n
                 m == links'
      <4>1. e \in Pages /\ e \notin L1
        BY <1>5, <2>6, <3>1, NodesAre DEF Listed, L1
      <4>2. prev < e
        <5>1. RingOf(links.next, Listed) /\ prev \in Listed /\ Listed \subseteq Nat
          BY <2>2, <2>3, <2>4, NodesAre DEF Chain, L1
        <5>2. prev < page
          BY <1>2, <2>4, <5>1, NodesAre DEF RingOf
        <5>3. QED
          BY <1>2, <5>1, <5>2
      <4>3. \A a \in L1 : a < e => a <= prev
        <5>1. SUFFICES ASSUME NEW a \in L1, a < e  PROVE a <= prev
          OBVIOUS
        <5>2. RingOf(links.next, Listed) /\ prev \in Listed /\ Listed \subseteq Nat /\ a \in Listed
           /\ a # page
          BY <2>2, <2>3, <2>4, NodesAre DEF Chain, L1
        <5>3. ~(page < a)
          <6>1. SUFFICES ASSUME page < a  PROVE FALSE
            OBVIOUS
          <6>2. a \in PG_property
            BY <1>2, <5>2, <6>1, NodesAre DEF Listed
          <6>3. page + property[page] <= a
            BY <2>1, <2>2, <6>1, <6>2, BlockNumbers
          <6>4. QED
            BY <1>2, <1>4, <3>1, <5>1, <5>2, <6>3
        <5>4. ~(prev < a /\ a < page)
          BY <1>2, <2>4, <5>2, NodesAre DEF RingOf
        <5>5. QED
          BY <1>2, <5>2, <5>3, <5>4
      <4>4. Inserted(m, left, e, prev) /\ m.prev[e] = prev
        <5>1. m = [next |-> [left.next EXCEPT ![prev] = e, ![e] = left.next[prev]],
                   prev |-> [left.prev EXCEPT ![left.next[prev]] = e, ![e] = prev]]
          BY <1>1, <3>1 DEF ListAdd, left, prev
        <5>2. left.prev \in [Nodes -> Nodes] /\ left.next \in [Nodes -> Nodes]
          BY <2>4 DEF Chain
        <5>3. prev \in Nodes /\ e \in Nodes
          BY <2>4, <4>1, <2>3 DEF Nodes, L1
        <5> HIDE DEF e, m
        <5>4. m.next = [left.next EXCEPT ![prev] = e, ![e] = left.next[prev]]
          BY <5>1
        <5>5. m.prev = [left.prev EXCEPT ![left.next[prev]] = e, ![e] = prev]
          BY <5>1
        <5>6. m.prev \in [Nodes -> Nodes] /\ m.prev[e] = prev
          BY <5>2, <5>3, <5>5
        <5>7. \A x \in Nodes \ {e} : m.prev[x] = IF x = left.next[prev] THEN e ELSE left.prev[x]
          BY <5>2, <5>3, <5>5
        <5>8. QED
          BY <5>1, <5>4, <5>6, <5>7 DEF Inserted, Nodes
      <4>5. Listed' = L1 \cup {e}
        BY <1>1, <1>2, <3>1, NodesAre DEF Listed, L1
      <4> HIDE DEF e, m
      <4>6. Chain(m, L1 \cup {e}) /\ (LinkedBack(left, L1) => LinkedBack(m, L1 \cup {e}))
        BY <2>4, <4>1, <4>2, <4>3, <4>4, InsertKeepsChain
      <4>7. QED
        BY <2>4, <4>5, <4>6 DEF m
    <3>2. CASE ~rest
      <4>1. links' = left /\ Listed' = L1
        BY <1>1, <1>2, <3>2, NodesAre DEF Listed, L1, left
      <4>2. QED
        BY <2>4, <4>1
    <3>3. QED
      BY <3>1, <3>2
  <2>8. Free = Cover(PG_property, property) /\ Free' = Cover(P1, property') /\ Free' = Free \ Run(page, n)
    <3>1. Free' = Cover(PG_property', property')
      BY DEF Free, Cover
    <3>2. QED
      BY <2>5, <2>6, <3>1 DEF Free, Cover
  <2>9. nr_free' = Cardinality(Free')
    <3>1. Cardinality(Free') = Cardinality(Free) - Cardinality(Run(page, n))
      <4>1. Run(page, n) \subseteq Free /\ IsFiniteSet(Free)
        BY <2>1, <2>6, <2>8, HeldIsRest
      <4>2. Free \cap Run(page, n) = Run(page, n)
        BY <4>1
      <4>3. Cardinality(Free \ Run(page, n)) = Cardinality(Free) - Cardinality(Free \cap Run(page, n))
        BY <4>1, FS_Difference
      <4>4. QED
        BY <2>8, <4>2, <4>3
    <3>2. Cardinality(Run(page, n)) = n
      BY <1>2, RunSize
    <3>3. nr_free = Cardinality(Free)
      BY <2>1 DEF Intact
    <3>4. QED
      BY <1>1, <3>1, <3>2, <3>3
  <2>10. Partition'
    <3>1. \A p \in Pages : held[p] = IF p \in Free THEN 0 ELSE 1
      BY <2>1, HeldIsRest
    <3>2. Run(page, n) \subseteq Free
      BY <2>6, <2>8
    <3>3. ASSUME NEW p \in Pages  PROVE held'[p] = IF p \in Free' THEN 0 ELSE 1
      <4>1. held'[p] = IF p \in Run(page, n) THEN held[p] + 1 ELSE held[p]
        BY <1>1
      <4>2. QED
        BY <2>8, <3>1, <3>2, <4>1
    <3>4. QED
      BY <3>3 DEF Partition, Pages
  <2>11. Intact'
    <3>1. ~appended' => LinkedBack(links', Listed') /\ Tight(PG_property', property', {})
      BY <1>1, <2>1, <2>5, <2>6, <2>7 DEF Intact
    <3>2. QED
      BY <1>1, <1>3, <2>5, <2>6, <2>7, <2>9, <2>10, <3>1 DEF Intact
  <2>12. Run(page, n) \subseteq Free /\ page \in Free
    BY <2>1, <2>6, <2>8, HeldIsRest
  <2>13. QED
    BY <1>1, <1>6, <1>8, <2>1, <2>8, <2>11, <2>12 DEF PmmInv
<1>9. QED
  BY <1>7, <1>8, <1>3
-----------------------------------------------------------------------------
\* A block is merged into the one before it, whose prev is known.
BlockIsMerged(l, P, size, a, b, m, s) ==
  /\ Chain(m, (P \ {b}) \cup {free_list})
  /\ Blocks(P \ {b}, s)
  /\ Cover(P \ {b}, s) = Cover(P, size)
  /\ a \in P \ {b}
  /\ LinkedBack(l, P \cup {free_list}) => LinkedBack(m, (P \ {b}) \cup {free_list})
  /\ Tight(P, size, {b, a}) => Tight(P \ {b}, s, {a})
  /\ Tight(P, size, {a}) => Tight(P \ {b}, s, {})
  /\ m.next[a] = l.next[b]
  /\ l.next[b] # free_list => m.prev[l.next[b]] = a
  /\ l.next[b] \in (P \ {b}) \cup {free_list}

LEMMA BlockMerged ==
  ASSUME NEW l, NEW P, NEW size, Chain(l, P \cup {free_list}), Blocks(P, size),
         NEW a \in P, NEW b \in P, a + size[a] = b, l.prev[b] = a
  PROVE  BlockIsMerged(l, P, size, a, b, ListDel(l, b), JoinedSize(size, a, b))
<1> DEFINE R == P \cup {free_list}
           s == JoinedSize(size, a, b)
           m == ListDel(l, b)
<1>1. P \subseteq Pages /\ free_list \notin P
  BY NodesAre DEF Blocks
<1>3. a < b /\ a \in Nat /\ b \in Nat
  BY BlockNumbers
<1>4. R \ {b} = (P \ {b}) \cup {free_list} /\ b \in R \ {free_list}
  BY <1>1
<1> HIDE DEF s, m
<1>5. /\ Blocks(P \ {b}, s) /\ a \in P \ {b} /\ Cover(P \ {b}, s) = Cover(P, size)
      /\ Tight(P, size, {b, a}) => Tight(P \ {b}, s, {a})
      /\ Tight(P, size, {a}) => Tight(P \ {b}, s, {})
  <2>1. /\ Blocks(P \ {b}, JoinedSize(size, a, b)) /\ a \in P \ {b}
    BY BlocksJoined
  <2>3. Cover(P \ {b}, JoinedSize(size, a, b)) = Cover(P, size)
    <3>1. CoverOf(P \ {b}, JoinedSize(size, a, b), Cover(P, size))
      BY BlocksJoined
    <3>2. QED
      BY <3>1 DEF CoverOf
  <2>4.      /\ Tight(P, size, {b, a}) => Tight(P \ {b}, JoinedSize(size, a, b), {a})
    BY BlocksJoined
  <2>5.      /\ Tight(P, size, {a}) => Tight(P \ {b}, JoinedSize(size, a, b), {})
    BY BlocksJoined
  <2>2. QED
    BY <2>1, <2>3, <2>4, <2>5 DEF s
<1>6. /\ Chain(m, R \ {b})
      /\ LinkedBack(l, R) => LinkedBack(m, R \ {b})
      /\ m.next[l.prev[b]] = l.next[b]
      /\ l.next[b] # free_list => m.prev[l.next[b]] = l.prev[b]
      /\ l.next[b] \in R \ {b}
  <2>1. Chain(l, R) /\ l.prev[b] # b /\ m = ListDel(l, b)
    BY <1>3 DEF m
  <2> HIDE DEF R
  <2>2. QED
    BY <1>4, <2>1, DeleteKeepsChain
<1>7. QED
  BY <1>4, <1>5, <1>6 DEF s, m, BlockIsMerged
-----------------------------------------------------------------------------
\* What free_pages does to the links, lengths and flags.
LEMMA GiveTyped ==
  ASSUME PmmInv, Running, NEW base \in Pages, NEW n \in 1 .. NPages, base + n - 1 \in Pages,
         \A p \in Run(base, n) : held[p] > 0,
         list_empty(links) \/ Places(base) # {},
         GiveBack(base, n)
  PROVE  TypeOK' /\ \A p \in Pages : p + property'[p] <= NPages + 1
<1> DEFINE linked == Link(base)
           size   == [property EXCEPT ![base] = n]
           before == linked.prev[base]
           joins  == before # free_list /\ before + size[before] = base
           p      == IF joins THEN before ELSE base
           links1 == IF joins THEN ListDel(linked, base) ELSE linked
           size1  == IF joins THEN [size EXCEPT ![before] = @ + n] ELSE size
           after  == links1.next[p]
           grows  == after # free_list /\ p + size1[p] = after
<1>1. /\ links' = IF grows THEN ListDel(links1, after) ELSE links1
      /\ property' = IF grows THEN [size1 EXCEPT ![p] = @ + size1[after]] ELSE size1
      /\ PG_property' = (PG_property \cup {base}) \ ((IF joins THEN {base} ELSE {}) \cup
                                                     (IF grows THEN {after} ELSE {}))
      /\ nr_free' = nr_free + n
      /\ held' = [q \in Pages |-> IF q \in Run(base, n) THEN held[q] - 1 ELSE held[q]]
      /\ refused' = 0 /\ state' = state
      /\ appended' = (appended \/ (~list_empty(links) /\ Place(base) < base))
      /\ \/ broken' = broken + 1
         \/ broken' = 0
  BY DEF GiveBack, Damage
<1>2. /\ links \in AllLinks /\ property \in [Pages -> 0 .. NPages] /\ PG_property \subseteq Pages
      /\ nr_free \in Nat /\ held \in [Pages -> Nat] /\ state = "running"
      /\ broken \in Nat /\ broken <= MaxBroken /\ MaxBroken \in Nat /\ appended \in BOOLEAN
      /\ \A x \in Pages : x + property[x] <= NPages + 1
  BY FreeListAssumption DEF PmmInv, TypeOK, Running, AllLinks
<1>3. /\ NPages \in Nat /\ n \in Nat /\ n > 0 /\ base \in Nat /\ base \in Nodes /\ base > 0
      /\ base + n <= NPages + 1 /\ n <= NPages
  <2>1. base \in 1 .. NPages /\ base \in Nodes /\ NPages \in Nat /\ base + n - 1 \in 1 .. NPages
    BY NodesAre DEF Nodes
  <2>2. QED
    BY <2>1
<1>4. linked \in AllLinks
  <2>1. CASE list_empty(links)
    BY <1>2, <1>3, <2>1, LinksTyped, NodesAre DEF Link, Nodes
  <2>2. CASE ~list_empty(links)
    <3>1. links.next \in [Nodes -> Nodes]
      BY <1>2 DEF AllLinks
    <3>2. Reached(links) \in [0 .. NPages + 1 -> Nodes]
      BY <3>1, ReachedSteps
    <3>3. Places(base) \subseteq Nat /\ Places(base) # {} /\ Places(base) \subseteq 1 .. NPages
      BY <2>2 DEF Places
    <3>4. Min(Places(base)) \in Places(base)
      BY <3>3, MinIsLeast
    <3>5. Min(Places(base)) \in 0 .. NPages + 1
      BY <1>3, <3>3, <3>4
    <3>6. Place(base) \in Nodes
      BY <3>2, <3>5 DEF Place
    <3> DEFINE at == Place(base)
    <3>7. linked = IF base < at THEN ListAddBefore(links, at, base)
                                ELSE ListAdd(ListAdd(links, at, base), base, base)
      BY <2>2 DEF Link
    <3> HIDE DEF at, linked
    <3>8. at \in Nodes
      BY <3>6 DEF at
    <3>9. ListAdd(links, at, base) \in AllLinks /\ ListAddBefore(links, at, base) \in AllLinks
      BY <1>2, <1>3, <3>8, LinksTyped
    <3>10. ListAdd(ListAdd(links, at, base), base, base) \in AllLinks
      BY <1>3, <3>9, LinksTyped
    <3>11. QED
      BY <3>7, <3>9, <3>10
  <2>3. QED
    BY <2>1, <2>2
<1>5. size \in [Pages -> 0 .. NPages] /\ \A x \in Pages : x + size[x] <= NPages + 1
  BY <1>2, <1>3
<1> HIDE DEF linked, size
<1>6. before \in Nodes /\ (joins => before \in Pages)
  BY <1>3, <1>4 DEF AllLinks, Nodes
<1>7. /\ size1 \in [Pages -> 0 .. NPages] /\ \A x \in Pages : x + size1[x] <= NPages + 1
      /\ links1 \in AllLinks /\ p \in Pages
  <2>1. CASE joins
    <3>1. before \in Pages /\ before \in Nat /\ before > 0 /\ size[before] \in Nat
      <4>1. before \in Pages /\ before \in 1 .. NPages
        BY <1>6, <2>1, NodesAre
      <4>2. QED
        BY <1>5, <4>1
    <3>2. size[before] + n \in 0 .. NPages /\ before + (size[before] + n) <= NPages + 1
      BY <1>3, <2>1, <3>1
    <3>3. size1 = [size EXCEPT ![before] = size[before] + n] /\ p = before
          /\ links1 = ListDel(linked, base)
      BY <2>1
    <3> HIDE DEF before, joins, links1, size1, p
    <3>4. links1 \in AllLinks
      BY <1>3, <1>4, <3>3, LinksTyped
    <3>5. QED
      BY <1>5, <3>1, <3>2, <3>3, <3>4
  <2>2. CASE ~joins
    BY <1>4, <1>5, <2>2
  <2>3. QED
    BY <2>1, <2>2
<1> HIDE DEF before, joins, links1, size1, p
<1>8. after \in Nodes /\ (grows => after \in Pages)
  BY <1>7 DEF AllLinks, Nodes
<1>9. property' \in [Pages -> 0 .. NPages] /\ \A x \in Pages : x + property'[x] <= NPages + 1
  <2>1. CASE grows
    <3>1. after \in Nat /\ p \in Nat /\ p > 0 /\ size1[p] \in Nat /\ size1[after] \in Nat
      <4>1. after \in 1 .. NPages /\ p \in 1 .. NPages /\ after \in Pages
        BY <1>7, <1>8, <2>1, NodesAre
      <4>2. QED
        BY <1>7, <4>1
    <3>2. after + size1[after] <= NPages + 1
      BY <1>7, <1>8, <2>1
    <3>3. size1[p] + size1[after] \in 0 .. NPages /\ p + (size1[p] + size1[after]) <= NPages + 1
      BY <1>3, <2>1, <3>1, <3>2
    <3>4. property' = [size1 EXCEPT ![p] = size1[p] + size1[after]]
      BY <1>1, <2>1
    <3> HIDE DEF after, grows
    <3>5. QED
      BY <1>7, <3>3, <3>4
  <2>2. CASE ~grows
    BY <1>1, <1>7, <2>2
  <2>3. QED
    BY <2>1, <2>2
<1>10. links' \in AllLinks
  <2> HIDE DEF after
  <2>1. QED
    BY <1>1, <1>7, <1>8, LinksTyped
<1>11. held' \in [Pages -> Nat]
  <2>1. \A q \in Pages : (IF q \in Run(base, n) THEN held[q] - 1 ELSE held[q]) \in Nat
    BY <1>2
  <2>2. QED
    BY <1>1, <2>1
<1>12. PG_property' \subseteq Pages
  BY <1>1, <1>2
<1>13. nr_free' \in Nat /\ broken' \in 0 .. MaxBroken + 1 /\ appended' \in BOOLEAN
  BY <1>1, <1>2, <1>3
<1>14. QED
  BY <1>1, <1>2, <1>3, <1>9, <1>10, <1>11, <1>12, <1>13 DEF TypeOK, AllLinks
-----------------------------------------------------------------------------
\* A freed run is nobody's block yet.
LEMMA GivenIsHeld ==
  ASSUME Intact, NEW base \in Pages, NEW n \in 1 .. NPages,
         \A p \in Run(base, n) : held[p] > 0, base + n - 1 \in Pages
  PROVE  /\ Run(base, n) \cap Free = {} /\ Run(base, n) \cap PG_property = {}
         /\ Run(base, n) \subseteq Pages /\ base \notin Listed /\ base + n <= NPages + 1
<1>1. base \in 1 .. NPages /\ base + n - 1 \in 1 .. NPages /\ NPages \in Nat /\ n \in 1 .. NPages
  BY NodesAre
<1>2. \A x : x \in Run(base, n) <=> x \in Nat /\ base <= x /\ x <= base + n - 1
  BY <1>1 DEF Run
<1>3. Run(base, n) \subseteq Pages
  <2>1. \A x \in Run(base, n) : x \in 1 .. NPages
    BY <1>1, <1>2
  <2>2. QED
    BY <2>1, NodesAre
<1>4. Run(base, n) \cap Free = {}
  <2>1. \A p \in Pages : held[p] = IF p \in Free THEN 0 ELSE 1
    BY HeldIsRest
  <2>2. QED
    BY <1>3, <2>1
<1>5. Run(base, n) \cap PG_property = {}
  BY <1>4, HeldIsRest
<1>6. base \in Run(base, n)
  BY <1>1, <1>2
<1>7. base \notin Listed
  BY <1>5, <1>6, NodesAre DEF Listed
<1>8. QED
  BY <1>1, <1>3, <1>4, <1>5, <1>7

\* The blocks and the list while free_pages merges: a the block that has the freed
\* pages, q the entry behind it.
Merging(l, P, size, a, q) ==
  /\ Chain(l, P \cup {free_list}) /\ Blocks(P, size)
  /\ a \in P /\ q = l.next[a] /\ q \in P \cup {free_list}
  /\ q # free_list => l.prev[q] = a

\* If the block behind is not where the block ends, no other is.
LEMMA NextIsClose ==
  ASSUME NEW l, NEW P, NEW size, NEW a, NEW q, Merging(l, P, size, a, q),
         Tight(P, size, {a}), ~(q # free_list /\ a + size[a] = q)
  PROVE  Tight(P, size, {})
<1>1. /\ Chain(l, P \cup {free_list}) /\ Blocks(P, size) /\ a \in P /\ q = l.next[a]
      /\ q \in P \cup {free_list}
  BY DEF Merging
<1>2. /\ a \in Nat /\ a > 0 /\ size[a] \in Nat /\ size[a] > 0
      /\ \A b \in P : b \in Nat /\ b > 0 /\ (a < b => a + size[a] <= b)
  BY <1>1, BlockNumbers
<1>3. RingOf(l.next, P \cup {free_list}) /\ free_list = 0
  BY <1>1, NodesAre DEF Chain
<1>4. a + size[a] \notin P
  <2>1. SUFFICES ASSUME a + size[a] \in P  PROVE FALSE
    OBVIOUS
  <2> DEFINE b == a + size[a]
  <2>2. b \in P /\ a < b /\ b \in Nat
    BY <1>2, <2>1
  <2>3. q # 0
    <3>1. SUFFICES ASSUME q = 0  PROVE FALSE
      OBVIOUS
    <3>2. b <= a
      <4> DEFINE R == P \cup {free_list}
                 nx == l.next
      <4>0. RingOf(nx, R) /\ a \in R /\ nx[a] = 0
        BY <1>1, <1>3, <3>1
      <4> HIDE DEF R, nx
      <4>1. \A x \in R : x <= a
        BY <1>2, <4>0 DEF RingOf
      <4>2. QED
        BY <2>2, <4>1 DEF R
    <3>3. QED
      BY <1>2, <2>2, <3>2
  <2>4. q \in P /\ a < q /\ ~(b < q)
    <3>1. q \in P
      BY <1>1, <1>3, <2>3
    <3>2. a < q /\ \A x \in P \cup {free_list} : ~(a < x /\ x < q)
      BY <1>1, <1>2, <1>3, <2>3 DEF RingOf
    <3>3. QED
      BY <2>2, <3>1, <3>2
  <2>5. b <= q /\ q \in Nat
    BY <1>2, <2>4
  <2>6. b = q
    BY <2>2, <2>4, <2>5
  <2>7. QED
    BY <1>3, <2>3, <2>6
<1>5. QED
  BY <1>4 DEF Tight

-----------------------------------------------------------------------------
\* Linked, and merged into the block before it.
\* The hypotheses of the next lemma name the values free_pages computes on its way.
Steps(base, n, linked, size, before, joins, p, links1, size1, P1) ==
  /\ linked = Link(base)
  /\ size = AddedSize(property, base, n)
  /\ before = linked.prev[base]
  /\ joins = (before # free_list /\ before + size[before] = base)
  /\ p = IF joins THEN before ELSE base
  /\ links1 = IF joins THEN ListDel(linked, base) ELSE linked
  /\ size1 = IF joins THEN JoinedSize(size, before, base) ELSE size
  /\ P1 = (PG_property \cup {base}) \ (IF joins THEN {base} ELSE {})

JoinIsRight(base, n, size, p, links1, size1, P1) ==
  /\ Merging(links1, P1, size1, p, links1.next[p])
  /\ Cover(P1, size1) = Free \cup Run(base, n)
  /\ size[base] = n
  /\ ~appended /\ ~(~list_empty(links) /\ Place(base) < base)
       => LinkedBack(links1, P1 \cup {free_list}) /\ Tight(P1, size1, {p})

LEMMA GiveJoins ==
  ASSUME Intact, NEW base \in Pages, NEW n \in 1 .. NPages, base + n - 1 \in Pages,
         \A p \in Run(base, n) : held[p] > 0,
         ~(/\ ~list_empty(links) /\ base < Place(base)
           /\ links.prev[Place(base)] = Place(base)),
         NEW linked, NEW size, NEW before, NEW joins, NEW p, NEW links1, NEW size1, NEW P1,
         Steps(base, n, linked, size, before, joins, p, links1, size1, P1)
  PROVE  JoinIsRight(base, n, size, p, links1, size1, P1)
<1> DEFINE P0 == PG_property \cup {base}
           R0 == P0 \cup {free_list}
<1>0. /\ linked = Link(base)
      /\ size = AddedSize(property, base, n)
      /\ before = linked.prev[base]
      /\ joins = (before # free_list /\ before + size[before] = base)
      /\ p = IF joins THEN before ELSE base
      /\ links1 = IF joins THEN ListDel(linked, base) ELSE linked
      /\ size1 = IF joins THEN JoinedSize(size, before, base) ELSE size
      /\ P1 = (PG_property \cup {base}) \ (IF joins THEN {base} ELSE {})
  BY DEF Steps
<1>1. /\ Chain(links, Listed) /\ Blocks(PG_property, property)
      /\ ~appended => LinkedBack(links, Listed) /\ Tight(PG_property, property, {})
  BY DEF Intact
<1>2. /\ base \in 1 .. NPages /\ base \in Nat /\ n \in Nat /\ n > 0 /\ NPages \in Nat
      /\ free_list = 0 /\ base # free_list
  BY NodesAre
<1>3. /\ Run(base, n) \cap Free = {} /\ base \notin Listed /\ base + n <= NPages + 1
      /\ Free = Cover(PG_property, property)
  BY GivenIsHeld, HeldIsRest
<1>4. /\ Blocks(P0, size) /\ Cover(P0, size) = Free \cup Run(base, n)
      /\ size[base] = n /\ \A a \in PG_property : size[a] = property[a]
      /\ Tight(PG_property, property, {}) =>
           \A c : c < base /\ (\A a \in PG_property : a < base => c \in PG_property /\ a <= c)
                    => Tight(P0, size, {base, c})
  <2> DEFINE sz == property
  <2>1. /\ Run(base, n) \cap Cover(PG_property, sz) = {} /\ Blocks(PG_property, sz)
        /\ n \in Nat /\ n > 0 /\ base + n <= NPages + 1
    BY <1>1, <1>2, <1>3
  <2> HIDE DEF sz
  <2>2. BlockIsAdded(PG_property, sz, base, n, AddedSize(sz, base, n))
    BY <2>1, BlockAdded
  <2>3. QED
    BY <1>0, <1>3, <2>2 DEF sz, BlockIsAdded
<1>5. PICK cur \in Listed :
           /\ cur < base /\ \A a \in Listed : a < base => a <= cur
           /\ Inserted(linked, links, base, cur)
           /\ IF ~list_empty(links) /\ Place(base) < base
                THEN linked.prev[base] = base /\ links.next[cur] = free_list
                ELSE linked.prev[base] = cur
  <2>1. Chain(links, Listed) /\ base \notin Listed
    BY <1>1, <1>3
  <2>2. QED
    BY <1>0, <2>1, LinkInserts
<1>6. /\ Chain(linked, R0)
      /\ LinkedBack(links, Listed) /\ linked.prev[base] = cur => LinkedBack(linked, R0)
      /\ linked.next[base] = links.next[cur] /\ linked.next[cur] = base
      /\ links.next[cur] # free_list => linked.prev[links.next[cur]] = base
      /\ links.next[cur] \in Listed /\ links.next[cur] # base
  <2> DEFINE R == Listed
  <2>1. Chain(links, R) /\ base \notin R /\ cur \in R /\ cur < base /\ \A a \in R : a < base => a <= cur
    BY <1>1, <1>3, <1>5
  <2>2. Inserted(linked, links, base, cur)
    BY <1>5
  <2>3. R0 = R \cup {base}
    BY DEF Listed
  <2> HIDE DEF R, R0
  <2>4. /\ Chain(linked, R \cup {base})
        /\ LinkedBack(links, R) /\ linked.prev[base] = cur => LinkedBack(linked, R \cup {base})
        /\ linked.next[base] = links.next[cur] /\ linked.next[cur] = base
        /\ links.next[cur] # free_list => linked.prev[links.next[cur]] = base
        /\ links.next[cur] \in R /\ links.next[cur] # base
    BY <2>1, <2>2, InsertKeepsChain
  <2>5. QED
    BY <2>3, <2>4 DEF R
<1>7. cur \in Nat
  <2>1. Listed \subseteq Nat
    BY <1>1, NodesAre DEF Chain
  <2>2. QED
    BY <2>1
<1>8. ASSUME ~appended, ~(~list_empty(links) /\ Place(base) < base)
      PROVE  /\ LinkedBack(linked, R0) /\ Tight(P0, size, {base, cur})
             /\ cur \in PG_property => cur + size[cur] \notin PG_property
             /\ before = cur
  <2>1. LinkedBack(links, Listed) /\ Tight(PG_property, property, {}) /\ linked.prev[base] = cur
    BY <1>1, <1>5, <1>8
  <2>2. ASSUME NEW a \in PG_property, a < base  PROVE cur \in PG_property /\ a <= cur
    <3>1. a \in Listed /\ a <= cur
      BY <1>5, <2>2 DEF Listed
    <3>2. a \in Nat /\ a > 0
      BY <1>1, BlockNumbers
    <3>3. QED
      BY <1>2, <1>7, <3>1, <3>2 DEF Listed
  <2>3. Tight(P0, size, {base, cur})
    BY <1>4, <1>5, <2>1, <2>2
  <2>4. cur \in PG_property => cur + size[cur] \notin PG_property
    BY <1>4, <2>1 DEF Tight
  <2>5. QED
    BY <1>0, <1>6, <2>1, <2>3, <2>4
<1> HIDE DEF P0, R0
<1>9. CASE joins
  <2>1. before # free_list /\ before + size[before] = base
    BY <1>0, <1>9
  <2>2. before = cur
    <3>1. before \in {base, cur}
      BY <1>0, <1>5
    <3>2. before # base
      BY <1>2, <1>4, <2>1
    <3>3. QED
      BY <3>1, <3>2
  <2>3. before \in P0 /\ base \in P0 /\ linked.prev[base] = before /\ before \in PG_property
    BY <1>0, <1>5, <2>1, <2>2 DEF P0, Listed
  <2>4. Chain(linked, P0 \cup {free_list}) /\ Blocks(P0, size)
    BY <1>4, <1>6 DEF R0
  <2>5. BlockIsMerged(linked, P0, size, before, base, ListDel(linked, base),
                      JoinedSize(size, before, base))
    BY <2>1, <2>3, <2>4, BlockMerged
  <2>6. /\ P1 = P0 \ {base} /\ p = before /\ links1 = ListDel(linked, base)
        /\ size1 = JoinedSize(size, before, base)
    BY <1>0, <1>9 DEF P0
  <2>7. Merging(links1, P1, size1, p, links1.next[p])
    BY <2>5, <2>6 DEF Merging, BlockIsMerged
  <2>8. ~appended /\ ~(~list_empty(links) /\ Place(base) < base)
              => LinkedBack(links1, P1 \cup {free_list}) /\ Tight(P1, size1, {p})
    BY <1>8, <2>2, <2>5, <2>6 DEF R0, BlockIsMerged
  <2>9. QED
    BY <1>0, <1>4, <2>5, <2>6, <2>7, <2>8 DEF BlockIsMerged, JoinIsRight
<1>10. CASE ~joins
  <2>1. P1 = P0 /\ p = base /\ links1 = linked /\ size1 = size
    BY <1>0, <1>10 DEF P0
  <2>2. Merging(links1, P1, size1, p, links1.next[p])
    <3>1. linked.next[base] \in P0 \cup {free_list}
      BY <1>6 DEF P0, Listed
    <3>2. QED
      BY <1>4, <1>6, <2>1, <3>1 DEF Merging, P0, R0
  <2>3. ASSUME ~appended, ~(~list_empty(links) /\ Place(base) < base)
        PROVE  LinkedBack(links1, P1 \cup {free_list}) /\ Tight(P1, size1, {p})
    <3>1. ASSUME NEW a \in P0 \ {base}  PROVE a + size[a] \notin P0
      <4>1. CASE a = cur
        <5>1. cur \in PG_property /\ cur + size[cur] \notin PG_property /\ before = cur
          BY <1>8, <2>3, <3>1, <4>1 DEF P0
        <5>2. cur # free_list
          BY <1>1, <5>1, NodesAre DEF Blocks
        <5>3. cur + size[cur] # base
          BY <1>0, <1>10, <5>1, <5>2
        <5>4. QED
          BY <4>1, <5>1, <5>3 DEF P0
      <4>2. CASE a # cur
        <5>1. Tight(P0, size, {base, cur}) /\ a \in P0 \ {base, cur}
          BY <1>8, <2>3, <3>1, <4>2
        <5>2. QED
          BY <5>1 DEF Tight
      <4>3. QED
        BY <4>1, <4>2
    <3>2. Tight(P0, size, {base})
      BY <3>1 DEF Tight
    <3>3. LinkedBack(linked, R0)
      BY <1>8, <2>3
    <3>4. QED
      BY <2>1, <3>2, <3>3 DEF R0
  <2>4. QED
    BY <1>0, <1>4, <2>1, <2>2, <2>3 DEF JoinIsRight
<1>11. QED
  BY <1>9, <1>10
-----------------------------------------------------------------------------
\* free_pages links, merges low and merges high.
LEMMA GiveKeeps ==
  ASSUME PmmInv, Running, NEW base \in Pages, NEW n \in 1 .. NPages, base + n - 1 \in Pages,
         \A p \in Run(base, n) : held[p] > 0,
         list_empty(links) \/ Places(base) # {},
         GiveBack(base, n)
  PROVE  /\ PmmInv'
         /\ broken' = 0 => /\ broken = 0 /\ Run(base, n) \cap Free = {} /\ Run(base, n) \subseteq Pages
                           /\ Free' = Free \cup Run(base, n) /\ refused' = 0
<1> DEFINE linked == Link(base)
           size   == AddedSize(property, base, n)
           before == linked.prev[base]
           joins  == (before # free_list /\ before + size[before] = base)
           p      == IF joins THEN before ELSE base
           links1 == IF joins THEN ListDel(linked, base) ELSE linked
           size1  == IF joins THEN JoinedSize(size, before, base) ELSE size
           after  == links1.next[p]
           grows  == after # free_list /\ p + size1[p] = after
           P1     == (PG_property \cup {base}) \ (IF joins THEN {base} ELSE {})
           damages == /\ ~list_empty(links) /\ base < Place(base)
                      /\ links.prev[Place(base)] = Place(base)
           appends == ~list_empty(links) /\ Place(base) < base
<1>1. /\ nr_free' = nr_free + n
      /\ held' = [q \in Pages |-> IF q \in Run(base, n) THEN held[q] - 1 ELSE held[q]]
      /\ refused' = 0 /\ state' = state
      /\ appended' = (appended \/ appends)
      /\ broken' = IF damages \/ broken > 0 THEN broken + 1 ELSE 0
  BY DEF GiveBack, Damage
<1>2. TypeOK' /\ \A x \in Pages : x + property'[x] <= NPages + 1
  BY GiveTyped
<1>3. /\ state = "running" /\ broken \in Nat /\ (broken = 0 => Intact) /\ (~appended => broken = 0)
      /\ appended \in BOOLEAN
  BY DEF PmmInv, TypeOK, Running
<1>4. CASE broken # 0 \/ damages
  <2>1. broken' # 0
    BY <1>1, <1>3, <1>4
  <2>2. appended'
    <3>1. SUFFICES ASSUME ~appended'  PROVE FALSE
      BY <1>1, <1>3
    <3>2. ~appended /\ Intact /\ damages
      BY <1>1, <1>3, <1>4, <3>1
    <3>3. Chain(links, Listed) /\ LinkedBack(links, Listed)
      BY <3>2 DEF Intact
    <3>4. base \notin Listed
      BY <3>2, GivenIsHeld
    <3>5. Place(base) \in Listed \ {free_list}
      BY <3>2, <3>3, <3>4, PlaceFound
    <3>6. QED
      BY <3>2, <3>3, <3>5 DEF LinkedBack
  <2>3. QED
    BY <1>2, <2>1, <2>2 DEF PmmInv
<1>5. CASE broken = 0 /\ ~damages
  <2>1. Intact /\ broken' = 0
    BY <1>1, <1>3, <1>5
  <2> HIDE DEF damages
  <2>2. /\ Merging(links1, P1, size1, p, after)
        /\ Cover(P1, size1) = Free \cup Run(base, n)
        /\ size[base] = n
        /\ ~appended /\ ~appends
              => LinkedBack(links1, P1 \cup {free_list}) /\ Tight(P1, size1, {p})
    <3>1. ~(/\ ~list_empty(links) /\ base < Place(base)
            /\ links.prev[Place(base)] = Place(base))
      BY <1>5 DEF damages
    <3>2. Steps(base, n, linked, size, before, joins, p, links1, size1, P1)
      BY DEF Steps
    <3> HIDE DEF linked, size, before, joins, p, links1, size1, P1
    <3>3. JoinIsRight(base, n, size, p, links1, size1, P1)
      BY <2>1, <3>1, <3>2, GiveJoins
    <3>4. QED
      BY <3>3 DEF JoinIsRight
  <2>3. /\ links' = IF grows THEN ListDel(links1, after) ELSE links1
        /\ property' = IF grows THEN JoinedSize(size1, p, after) ELSE size1
        /\ PG_property' = IF grows THEN P1 \ {after} ELSE P1
    <3> DEFINE joined == [size EXCEPT ![before] = @ + n]
               size2  == IF joins THEN joined ELSE size
    <3>1. size[base] = n
      BY <2>2
    <3>2. joins => JoinedSize(size, before, base) = joined
      <4> HIDE DEF size, before
      <4>1. QED
        BY <3>1 DEF JoinedSize
    <3>3. size2 = size1
      <4> HIDE DEF joined, joins, size, before
      <4>1. QED
        BY <3>2
    <3>4. /\ links' = IF after # free_list /\ p + size2[p] = after
                        THEN ListDel(links1, after) ELSE links1
          /\ property' = IF after # free_list /\ p + size2[p] = after
                           THEN [size2 EXCEPT ![p] = @ + size2[after]] ELSE size2
          /\ PG_property' = (PG_property \cup {base}) \
               ((IF joins THEN {base} ELSE {}) \cup
                (IF after # free_list /\ p + size2[p] = after THEN {after} ELSE {}))
      BY DEF GiveBack, AddedSize
    <3> HIDE DEF size2, size1, links1, after, p, joins
    <3>5. /\ links' = IF grows THEN ListDel(links1, after) ELSE links1
          /\ property' = IF grows THEN [size1 EXCEPT ![p] = @ + size1[after]] ELSE size1
          /\ PG_property' = (PG_property \cup {base}) \
               ((IF joins THEN {base} ELSE {}) \cup (IF grows THEN {after} ELSE {}))
      BY <3>3, <3>4
    <3>6. QED
      BY <3>5 DEF JoinedSize
  <2> HIDE DEF linked, size, before, joins, p, links1, size1, after, P1
  <2>4. /\ Chain(links1, P1 \cup {free_list}) /\ Blocks(P1, size1) /\ p \in P1
        /\ after = links1.next[p] /\ after \in P1 \cup {free_list}
        /\ after # free_list => links1.prev[after] = p
    BY <2>2 DEF Merging
  <2>5. /\ Chain(links', PG_property' \cup {free_list}) /\ Blocks(PG_property', property')
        /\ Cover(PG_property', property') = Free \cup Run(base, n)
        /\ ~appended' => LinkedBack(links', PG_property' \cup {free_list})
                         /\ Tight(PG_property', property', {})
    <3>1. CASE grows
      <4>1. after \in P1 /\ p + size1[p] = after /\ links1.prev[after] = p
        BY <2>4, <3>1
      <4>2. BlockIsMerged(links1, P1, size1, p, after, ListDel(links1, after), JoinedSize(size1, p, after))
        BY <2>4, <4>1, BlockMerged
      <4>3. links' = ListDel(links1, after) /\ property' = JoinedSize(size1, p, after)
            /\ PG_property' = P1 \ {after}
        BY <2>3, <3>1
      <4>4. /\ Chain(links', PG_property' \cup {free_list}) /\ Blocks(PG_property', property')
            /\ Cover(PG_property', property') = Cover(P1, size1)
        BY <4>2, <4>3 DEF BlockIsMerged
      <4>5. ~appended' => LinkedBack(links', PG_property' \cup {free_list})
                         /\ Tight(PG_property', property', {})
        BY <1>1, <2>2, <4>2, <4>3 DEF BlockIsMerged
      <4>6. QED
        BY <2>2, <4>4, <4>5
    <3>2. CASE ~grows
      <4>1. links' = links1 /\ property' = size1 /\ PG_property' = P1
        BY <2>3, <3>2
      <4>2. Tight(P1, size1, {p}) => Tight(P1, size1, {})
        BY <2>2, <3>2, NextIsClose
      <4>3. QED
        BY <1>1, <2>2, <2>4, <4>1, <4>2
    <3>3. QED
      BY <3>1, <3>2
  <2>6. Free' = Free \cup Run(base, n)
    <3>1. Free' = Cover(PG_property', property')
      BY DEF Free, Cover
    <3>2. QED
      BY <2>5, <3>1
  <2>7. Run(base, n) \cap Free = {} /\ Run(base, n) \subseteq Pages
    BY <2>1, GivenIsHeld
  <2>8. nr_free' = Cardinality(Free')
    <3>1. IsFiniteSet(Free) /\ nr_free = Cardinality(Free)
      BY <2>1, HeldIsRest
    <3>2. base \in Nat /\ n \in Nat
      <4>1. base \in 1 .. NPages /\ NPages \in Nat
        BY NodesAre
      <4>2. QED
        BY <4>1
    <3>3. IsFiniteSet(Run(base, n)) /\ Cardinality(Run(base, n)) = n
      BY <3>2, RunSize
    <3>4. Cardinality(Free \cap Run(base, n)) = 0
      <4>1. Free \cap Run(base, n) = {}
        BY <2>7
      <4>2. QED
        BY <4>1, FS_EmptySet
    <3>5. Cardinality(Free \cup Run(base, n))
            = Cardinality(Free) + Cardinality(Run(base, n)) - Cardinality(Free \cap Run(base, n))
      BY <3>1, <3>3, FS_Union
    <3>6. Cardinality(Free) \in Nat
      BY <3>1, FS_CardinalityType
    <3>7. QED
      BY <1>1, <2>6, <3>1, <3>2, <3>3, <3>4, <3>5, <3>6
  <2>9. Partition'
    <3>1. \A q \in Pages : held[q] = IF q \in Free THEN 0 ELSE 1
      BY <2>1, HeldIsRest
    <3>2. ASSUME NEW q \in Pages  PROVE held'[q] = IF q \in Free' THEN 0 ELSE 1
      <4>1. held'[q] = IF q \in Run(base, n) THEN held[q] - 1 ELSE held[q]
        BY <1>1
      <4>2. QED
        BY <2>6, <2>7, <3>1, <4>1
    <3>3. QED
      BY <3>2 DEF Partition, Pages
  <2>10. Intact'
    BY <1>1, <1>3, <2>5, <2>8, <2>9 DEF Intact, Listed, Pages, free_list
  <2>11. QED
    BY <1>1, <1>2, <1>5, <2>1, <2>6, <2>7, <2>10 DEF PmmInv
<1>6. QED
  BY <1>4, <1>5
-----------------------------------------------------------------------------
\* free_pages, whatever it does: with a list that is intact it gives the pages back.
LEMMA StopKeeps ==
  ASSUME PmmInv, Running, broken # 0, NEW how \in {"hangs", "panics"}, Stop(how)
  PROVE  PmmInv' /\ broken' # 0
<1>1. /\ state' = how /\ refused' = 0 /\ broken' = broken + 1 /\ appended' = appended
      /\ UNCHANGED <<links, property, PG_property, nr_free, held>>
  <2>1. broken \in Nat
    BY DEF PmmInv, TypeOK
  <2>2. QED
    BY <2>1 DEF Stop, Damage
<1>2. broken \in Nat /\ broken <= MaxBroken /\ MaxBroken \in Nat /\ NPages \in Nat
  BY FreeListAssumption DEF PmmInv, TypeOK, Running
<1>3. TypeOK'
  BY <1>1, <1>2 DEF PmmInv, TypeOK, Nodes, Pages, free_list
<1>4. QED
  BY <1>1, <1>2, <1>3 DEF PmmInv, Pages

LEMMA FreeKeeps ==
  ASSUME PmmInv, Running, NEW base \in Pages, NEW n \in 1 .. NPages, FreePages(base, n)
  PROVE  /\ PmmInv'
         /\ broken' = 0 => /\ broken = 0 /\ Run(base, n) \cap Free = {} /\ Run(base, n) \subseteq Pages
                           /\ Free' = Free \cup Run(base, n) /\ refused' = 0
<1>1. base + n - 1 \in Pages /\ \A p \in Run(base, n) : held[p] > 0
  BY DEF FreePages
<1>2. broken = 0 => Intact
  BY DEF PmmInv
<1>3. Intact => Run(base, n) \cap PG_property = {} /\ base \notin Listed
  BY <1>1, GivenIsHeld
<1>4. CASE Run(base, n) \cap PG_property # {}
  <2>1. broken # 0
    BY <1>2, <1>3, <1>4
  <2>2. Stop("panics")
    BY <1>4 DEF FreePages
  <2>3. QED
    BY <2>1, <2>2, StopKeeps
<1>5. CASE Run(base, n) \cap PG_property = {} /\ ~list_empty(links) /\ Places(base) = {}
  <2>1. broken # 0
    <3>1. SUFFICES ASSUME broken = 0  PROVE FALSE
      OBVIOUS
    <3>2. Chain(links, Listed) /\ base \notin Listed
      BY <1>2, <1>3, <3>1 DEF Intact
    <3>3. QED
      BY <1>5, <3>2, PlaceFound
  <2>2. Stop("hangs")
    BY <1>5 DEF FreePages
  <2>3. QED
    BY <2>1, <2>2, StopKeeps
<1>6. CASE Run(base, n) \cap PG_property = {} /\ (list_empty(links) \/ Places(base) # {})
  <2>1. GiveBack(base, n)
    BY <1>6 DEF FreePages
  <2>2. QED
    BY <1>1, <1>6, <2>1, GiveKeeps
<1>7. QED
  BY <1>4, <1>5, <1>6
-----------------------------------------------------------------------------
\* alloc_pages returns NULL.
LEMMA NoneKeeps ==
  ASSUME PmmInv, Running, NEW n \in 1 .. NPages + 1, TakeNone(n)
  PROVE  /\ PmmInv'
         /\ broken' = 0 => broken = 0 /\ Free' = Free /\ nr_free' = nr_free /\ refused' = n
<1>1. /\ refused' = n /\ broken' = IF broken > 0 THEN broken + 1 ELSE 0
      /\ UNCHANGED <<links, property, PG_property, nr_free, held, state, appended>>
  BY DEF TakeNone, Damage
<1>2. /\ broken \in Nat /\ broken <= MaxBroken /\ MaxBroken \in Nat /\ NPages \in Nat
      /\ n \in 0 .. NPages + 1
  BY FreeListAssumption DEF PmmInv, TypeOK, Running
<1>3. TypeOK'
  <2>1. broken' \in 0 .. MaxBroken + 1 /\ refused' \in 0 .. NPages + 1
    BY <1>1, <1>2
  <2>2. QED
    BY <1>1, <2>1 DEF PmmInv, TypeOK, Nodes, Pages, free_list
<1>4. Free' = Free
  BY <1>1 DEF Free
<1>5. Intact => Intact'
  BY <1>1, <1>4 DEF Intact, Listed, Partition, Pages, free_list
<1>6. QED
  BY <1>1, <1>2, <1>3, <1>4, <1>5 DEF PmmInv, Pages

\* As long as no block was put behind the last one, no block large enough is no run
\* long enough.
LEMMA NoBlockNoRun ==
  ASSUME NEW P, NEW size, Blocks(P, size), Tight(P, size, {}), NEW n \in Nat, n > 0,
         \A a \in P : size[a] < n
  PROVE  \A b \in Cover(P, size) : ~(Run(b, n) \subseteq Cover(P, size))
<1>1. SUFFICES ASSUME NEW b \in Cover(P, size), Run(b, n) \subseteq Cover(P, size)
               PROVE  FALSE
  OBVIOUS
<1>2. b \in Nat /\ \E a \in P : a <= b /\ b < a + size[a]
  BY CoverMember
<1>3. PICK a \in P : a <= b /\ b < a + size[a]
  BY <1>2
<1> DEFINE e == a + size[a]
<1>4. a \in Nat /\ size[a] \in Nat /\ e \in Nat
  BY BlockNumbers
<1>5. e \in Run(b, n)
  <2>1. b <= e /\ e <= b + n - 1
    BY <1>2, <1>3, <1>4
  <2> HIDE DEF e
  <2>2. QED
    BY <1>2, <1>4, <2>1 DEF Run
<1>6. e \in Cover(P, size)
  BY <1>1, <1>5
<1> HIDE DEF e
<1>7. PICK c \in P : c <= e /\ e < c + size[c]
  BY <1>6, CoverMember
<1>8. c \in Nat /\ size[c] \in Nat /\ (a < c => a + size[a] <= c) /\ (c < a => c + size[c] <= a)
  BY BlockNumbers
<1>9. c = e
  <2>1. CASE c < a
    BY <1>4, <1>7, <1>8, <2>1 DEF e
  <2>2. CASE c = a
    BY <1>4, <1>7, <2>2 DEF e
  <2>3. CASE a < c
    BY <1>4, <1>7, <1>8, <2>3 DEF e
  <2>4. QED
    BY <1>4, <1>8, <2>1, <2>2, <2>3
<1>10. QED
  BY <1>9 DEF Tight, e

\* What both searches come to: a listed block that is large enough, or none is.
Outcomes(n) ==
  \/ \E page \in Pages : /\ broken = 0 => page \in PG_property /\ property[page] >= n
                         /\ n <= nr_free /\ Take(page, n)
  \/ TakeNone(n) /\ (broken = 0 => \A a \in PG_property : property[a] < n)
  \/ broken # 0 /\ Stop("hangs")

\* Where list_next leads in a list that may be damaged.
LEMMA ReachedTyped ==
  ASSUME PmmInv
  PROVE  /\ \A k \in 0 .. NPages + 1 : Reached(links)[k] \in Nodes
         /\ broken = 0 => Intact /\ Chain(links, Listed)
<1>1. links.next \in [Nodes -> Nodes]
  BY DEF PmmInv, TypeOK
<1>2. Reached(links) \in [0 .. NPages + 1 -> Nodes]
  BY <1>1, ReachedSteps
<1>3. QED
  BY <1>2 DEF PmmInv, Intact

\* In a list that is intact every block is met before the head.
LEMMA AllMet ==
  ASSUME PmmInv, broken = 0
  PROVE  \E len \in 1 .. NPages + 1 :
           /\ Reached(links)[len] = free_list
           /\ \A j \in 1 .. len - 1 : Reached(links)[j] \in PG_property
           /\ \A a \in PG_property : \E j \in 1 .. len - 1 : Reached(links)[j] = a
<1> DEFINE le == Reached(links)
<1>1. Chain(links, Listed) /\ Intact
  BY ReachedTyped
<1>2. PICK len \in 1 .. NPages + 1 : /\ BackAfter(len, le, Listed, free_list)
                                     /\ \A k \in 0 .. NPages + 1 : le[k] \in Listed
  BY <1>1, ReachedAll
<1>3. le[0] = free_list
  BY <1>1, ReachedSteps DEF Chain
<1>4. NPages \in Nat /\ PG_property \subseteq Pages /\ free_list \notin PG_property
  BY NodesAre DEF PmmInv, TypeOK
<1> HIDE DEF le
<1>5. \A j \in 1 .. len - 1 : le[j] \in PG_property
  BY <1>2, <1>4 DEF BackAfter, Listed
<1>6. ASSUME NEW a \in PG_property  PROVE \E j \in 1 .. len - 1 : le[j] = a
  <2>1. a \in {le[k] : k \in 0 .. len}
    BY <1>2 DEF BackAfter, Listed
  <2>2. PICK k \in 0 .. len : le[k] = a
    BY <2>1
  <2>3. k # 0 /\ k # len
    BY <1>2, <1>3, <1>4, <2>2 DEF BackAfter
  <2>4. k \in 1 .. len - 1
    BY <1>4, <2>3
  <2>5. QED
    BY <2>2, <2>4
<1>7. le[len] = free_list
  BY <1>2 DEF BackAfter
<1>8. QED
  BY <1>5, <1>6, <1>7 DEF le

\* More pages than there are: no block is large enough.
LEMMA TooMany ==
  ASSUME PmmInv, NEW n \in 1 .. NPages + 1, n > nr_free, TakeNone(n)
  PROVE  Outcomes(n)
<1>1. SUFFICES ASSUME broken = 0, NEW a \in PG_property  PROVE property[a] < n
  BY DEF Outcomes
<1>2. property[a] <= nr_free /\ nr_free \in Nat /\ property[a] \in Nat /\ n \in Nat
  <2>1. Intact
    BY <1>1, ReachedTyped
  <2>2. property[a] <= nr_free
    BY <2>1, HeldIsRest
  <2>3. nr_free \in Nat /\ NPages \in Nat /\ property[a] \in Nat
    BY FreeListAssumption DEF PmmInv, TypeOK
  <2>4. QED
    BY <2>2, <2>3
<1>3. QED
  BY <1>2

\* First fit.
LEMMA FirstFitFinds ==
  ASSUME PmmInv, NEW n \in 1 .. NPages + 1, AllocPages(n)
  PROVE  Outcomes(n)
<1> DEFINE le == Reached(links)
           stops == {k \in 1 .. NPages + 1 : le[k] = free_list \/ property[le[k]] >= n}
           k == Min(stops)
<1>1. /\ NPages \in Nat /\ PG_property \subseteq Pages /\ nr_free \in Nat /\ n \in Nat
      /\ property \in [Pages -> 0 .. NPages]
  BY FreeListAssumption DEF PmmInv, TypeOK
<1>2. \A j \in 0 .. NPages + 1 : le[j] \in Nodes
  BY ReachedTyped
<1>3. CASE n > nr_free
  <2>1. TakeNone(n)
    BY <1>3 DEF AllocPages
  <2>2. QED
    BY <1>3, <2>1, TooMany
<1>4. CASE ~(n > nr_free) /\ stops = {}
  <2>1. Stop("hangs")
    BY <1>4 DEF AllocPages
  <2>2. broken # 0
    <3>1. SUFFICES ASSUME broken = 0  PROVE FALSE
      OBVIOUS
    <3>2. \E len \in 1 .. NPages + 1 : le[len] = free_list
      BY <3>1, AllMet
    <3>3. QED
      BY <1>4, <3>2
  <2>3. QED
    BY <2>1, <2>2 DEF Outcomes
<1>5. CASE ~(n > nr_free) /\ stops # {}
  <2>1. stops \subseteq Nat
    BY <1>1
  <2>2. k \in stops /\ \A j \in stops : k <= j
    <3> HIDE DEF stops
    <3>1. QED
      BY <1>5, <2>1, MinIsLeast
  <2>3. k \in 1 .. NPages + 1 /\ (le[k] = free_list \/ property[le[k]] >= n) /\ le[k] \in Nodes
    <3>1. k \in 0 .. NPages + 1
      BY <1>1, <2>2
    <3>2. QED
      BY <1>2, <2>2, <3>1
  <2>4. IF le[k] = free_list THEN TakeNone(n) ELSE Take(le[k], n)
    BY <1>5 DEF AllocPages
  <2> HIDE DEF k
  <2>5. CASE le[k] = free_list
    <3>1. ASSUME broken = 0, NEW a \in PG_property  PROVE property[a] < n
      <4>1. PICK len \in 1 .. NPages + 1 :
               /\ le[len] = free_list
               /\ \A j \in 1 .. len - 1 : le[j] \in PG_property
               /\ \A b \in PG_property : \E j \in 1 .. len - 1 : le[j] = b
        BY <3>1, AllMet
      <4>2. PICK j \in 1 .. len - 1 : le[j] = a
        BY <4>1
      <4>3. ~(k \in 1 .. len - 1)
        BY <1>1, <2>5, <4>1, NodesAre
      <4>4. j < k /\ j \in 1 .. NPages + 1
        BY <1>1, <2>3, <4>3
      <4>5. j \notin stops
        BY <1>1, <2>2, <2>3, <4>4
      <4>6. ~(property[a] >= n) /\ property[a] \in Nat
        BY <1>1, <4>2, <4>4, <4>5
      <4>7. QED
        BY <1>1, <4>6
    <3>2. QED
      BY <2>4, <2>5, <3>1 DEF Outcomes
  <2>6. CASE le[k] # free_list
    <3>1. le[k] \in Pages /\ property[le[k]] >= n /\ n <= nr_free /\ Take(le[k], n)
      BY <1>1, <1>5, <2>3, <2>4, <2>6 DEF Nodes
    <3>2. ASSUME broken = 0  PROVE le[k] \in PG_property
      <4>1. Chain(links, Listed)
        BY <3>2, ReachedTyped
      <4>2. \A j \in 0 .. NPages + 1 : le[j] \in Listed
        BY <4>1, ReachedAll
      <4>3. le[k] \in Listed
        BY <1>1, <2>3, <4>2
      <4>4. QED
        BY <2>6, <4>3 DEF Listed
    <3>3. QED
      BY <3>1, <3>2 DEF Outcomes
  <2>7. QED
    BY <2>5, <2>6
<1>6. QED
  BY <1>3, <1>4, <1>5
-----------------------------------------------------------------------------
\* Best fit: the bound min_size hides no block.
LEMMA BestFitFinds ==
  ASSUME PmmInv, NEW n \in 1 .. NPages + 1, BestAllocPages(n)
  PROVE  Outcomes(n)
<1> DEFINE le == Reached(links)
           ends == {k \in 1 .. NPages + 1 : le[k] = free_list}
           listed == {le[k] : k \in 1 .. Min(ends) - 1}
           fits == {a \in listed : property[a] >= n /\ property[a] < nr_free + 1}
           best == Best(n, listed)
           found == {k \in 1 .. NPages : le[k] \in best}
           page == le[Min(found)]
<1>1. /\ NPages \in Nat /\ PG_property \subseteq Pages /\ nr_free \in Nat /\ n \in Nat
      /\ property \in [Pages -> 0 .. NPages]
  BY FreeListAssumption DEF PmmInv, TypeOK
<1>2. \A j \in 0 .. NPages + 1 : le[j] \in Nodes
  BY ReachedTyped
<1>3. CASE n > nr_free
  <2>1. TakeNone(n)
    BY <1>3 DEF BestAllocPages
  <2>2. QED
    BY <1>3, <2>1, TooMany
<1>4. CASE ~(n > nr_free) /\ ends = {}
  <2>1. Stop("hangs")
    BY <1>4 DEF BestAllocPages
  <2>2. broken # 0
    <3>1. SUFFICES ASSUME broken = 0  PROVE FALSE
      OBVIOUS
    <3>2. \E len \in 1 .. NPages + 1 : le[len] = free_list
      BY <3>1, AllMet
    <3>3. QED
      BY <1>4, <3>2
  <2>3. QED
    BY <2>1, <2>2 DEF Outcomes
<1>5. CASE ~(n > nr_free) /\ ends # {}
  <2>1. Min(ends) \in ends /\ \A j \in ends : Min(ends) <= j
    <3>1. ends \subseteq Nat
      BY <1>1
    <3> HIDE DEF ends
    <3>2. QED
      BY <1>5, <3>1, MinIsLeast
  <2>2. IF best = {} THEN TakeNone(n) ELSE Take(page, n)
    BY <1>5 DEF BestAllocPages
  <2> DEFINE end == Min(ends)
  <2> HIDE DEF le
  <2>3. end \in 1 .. NPages + 1 /\ le[end] = free_list
        /\ \A j \in 1 .. end - 1 : le[j] # free_list /\ le[j] \in Pages
    <3>1. end \in 1 .. NPages + 1 /\ le[end] = free_list
      BY <2>1
    <3>2. ASSUME NEW j \in 1 .. end - 1  PROVE le[j] # free_list /\ le[j] \in Nodes
      <4>1. j \in 1 .. NPages + 1 /\ j \in 0 .. NPages + 1 /\ j < end /\ j \in Nat
        BY <1>1, <3>1, <3>2
      <4>2. QED
        BY <1>2, <2>1, <3>1, <4>1
    <3>3. QED
      BY <3>1, <3>2 DEF Nodes
  <2>4. listed = {le[k] : k \in 1 .. end - 1}
    OBVIOUS
  <2> HIDE DEF end
  <2>5. \A a \in listed : a \in Pages /\ property[a] \in Nat
    BY <1>1, <2>3, <2>4
  <2>6. broken = 0 => listed = PG_property
    <3>1. SUFFICES ASSUME broken = 0  PROVE listed = PG_property
      OBVIOUS
    <3>2. PICK len \in 1 .. NPages + 1 :
               /\ le[len] = free_list
               /\ \A j \in 1 .. len - 1 : le[j] \in PG_property
               /\ \A b \in PG_property : \E j \in 1 .. len - 1 : le[j] = b
      BY <3>1, AllMet DEF le
    <3>3. len = end
      <4>1. end <= len
        BY <2>1, <3>2 DEF end
      <4>2. ~(end < len)
        <5>1. SUFFICES ASSUME end < len  PROVE FALSE
          OBVIOUS
        <5>2. end \in 1 .. len - 1
          BY <1>1, <2>3, <3>2, <5>1
        <5>3. QED
          BY <1>1, <2>3, <3>2, <5>2, NodesAre
      <4>3. QED
        BY <1>1, <2>3, <3>2, <4>1, <4>2
    <3>4. QED
      BY <2>4, <3>2, <3>3
  <2>7. best = {a \in fits : \A b \in fits : property[a] <= property[b]}
    BY DEF Best
  <2> HIDE DEF listed, best
  <2>8. CASE best = {}
    <3>1. fits = {}
      <4>1. SUFFICES ASSUME fits # {}  PROVE FALSE
        OBVIOUS
      <4> DEFINE lengths == {property[a] : a \in fits}
      <4>2. lengths \subseteq Nat /\ lengths # {}
        BY <2>5, <4>1
      <4>3. PICK m \in lengths : \A x \in lengths : m <= x
        BY <4>2, LeastElement
      <4>4. PICK a \in fits : property[a] = m
        BY <4>3
      <4>5. \A b \in fits : property[a] <= property[b]
        BY <4>3, <4>4
      <4>6. QED
        BY <2>7, <2>8, <4>4, <4>5
    <3>2. ASSUME broken = 0, NEW a \in PG_property  PROVE property[a] < n
      <4>1. Intact /\ a \in listed
        BY <2>6, <3>2, ReachedTyped
      <4>2. property[a] <= nr_free /\ property[a] \in Nat
        BY <2>5, <4>1, HeldIsRest
      <4>3. QED
        BY <1>1, <3>1, <4>1, <4>2
    <3>3. QED
      BY <2>2, <2>8, <3>2 DEF Outcomes
  <2>9. CASE best # {}
    <3>1. found # {} /\ found \subseteq Nat
      <4>1. PICK a \in best : a \in listed
        BY <2>7, <2>9
      <4>2. PICK k \in 1 .. end - 1 : le[k] = a
        BY <2>4, <4>1
      <4>3. k \in 1 .. NPages
        BY <1>1, <2>3, <4>2
      <4>4. QED
        BY <1>1, <4>1, <4>2, <4>3
    <3>2. Min(found) \in found
      <4> HIDE DEF found
      <4>1. QED
        BY <3>1, MinIsLeast
    <3>3. page \in best
      BY <3>2
    <3> HIDE DEF page
    <3>4. page \in listed /\ property[page] >= n
      BY <2>7, <3>3
    <3>5. page \in Pages /\ n <= nr_free /\ Take(page, n)
      BY <1>1, <1>5, <2>2, <2>5, <2>9, <3>4
    <3>6. QED
      BY <2>6, <3>4, <3>5 DEF Outcomes
  <2>10. QED
    BY <2>8, <2>9
<1>6. QED
  BY <1>3, <1>4, <1>5

-----------------------------------------------------------------------------
\* A step of the allocator, seen from the pool.
PoolOrRefused ==
  \/ Pool!Next
  \/ appended /\ refused' # 0 /\ UNCHANGED <<Free, nr_free>>

LEMMA AllocKeeps ==
  ASSUME PmmInv, NEW n \in 1 .. NPages + 1, alloc_pages(n)
  PROVE  PmmInv' /\ (broken' = 0 => PoolOrRefused)
<1>1. Running /\ Outcomes(n)
  BY FirstFitFinds, BestFitFinds DEF alloc_pages
<1>2. n \in Nat /\ n > 0 /\ NPages \in Nat
  BY FreeListAssumption
<1>3. \A b : Pool!Run(b, n) = Run(b, n)
  BY DEF Pool!Run, Run
<1>3a. \A S : Pool!Cardinality(S) = Cardinality(S)
  BY Zenon DEF Pool!Cardinality, Cardinality
<1>4. CASE \E page \in Pages : /\ broken = 0 => page \in PG_property /\ property[page] >= n
                               /\ n <= nr_free /\ Take(page, n)
  <2>1. PICK page \in Pages : /\ broken = 0 => page \in PG_property /\ property[page] >= n
                              /\ n <= nr_free /\ Take(page, n)
    BY <1>4
  <2>2. /\ PmmInv'
        /\ broken' = 0 => /\ broken = 0 /\ page \in Free /\ Run(page, n) \subseteq Free
                          /\ Free' = Free \ Run(page, n) /\ refused' = 0
    BY <1>1, <2>1, TakeKeeps
  <2>3. ASSUME broken' = 0  PROVE Pool!Alloc(n)
    <3>1. nr_free' = Cardinality(Free')
      BY <2>2, <2>3 DEF PmmInv, Intact
    <3>2. page \in Free /\ Run(page, n) \subseteq Free /\ Free' = Free \ Run(page, n) /\ refused' = 0
      BY <2>2, <2>3
    <3>3. \E base \in Free : Pool!Run(base, n) \subseteq Free /\ Free' = Free \ Pool!Run(base, n)
      BY <1>3, <3>2
    <3>4. nr_free' = Pool!Cardinality(Free')
      BY <1>3a, <3>1
    <3>5. QED
      BY <3>2, <3>3, <3>4 DEF Pool!Alloc
  <2>4. QED
    BY <2>2, <2>3 DEF PoolOrRefused, Pool!Next
<1>5. CASE TakeNone(n) /\ (broken = 0 => \A a \in PG_property : property[a] < n)
  <2>1. /\ PmmInv'
        /\ broken' = 0 => broken = 0 /\ Free' = Free /\ nr_free' = nr_free /\ refused' = n
    BY <1>1, <1>5, NoneKeeps
  <2>2. ASSUME broken' = 0, ~appended  PROVE Pool!Refuse(n)
    <3>1. /\ Intact /\ Blocks(PG_property, property) /\ Tight(PG_property, property, {})
          /\ \A a \in PG_property : property[a] < n
      BY <1>5, <2>1, <2>2 DEF PmmInv, Intact
    <3>2. Free = Cover(PG_property, property)
      BY <3>1, HeldIsRest
    <3>3. \A b \in Free : ~(Run(b, n) \subseteq Free)
      BY <1>2, <3>1, <3>2, NoBlockNoRun
    <3>4. QED
      BY <1>3, <2>1, <2>2, <3>3 DEF Pool!Refuse
  <2>3. broken' = 0 /\ appended => appended /\ refused' # 0 /\ UNCHANGED <<Free, nr_free>>
    BY <1>2, <2>1
  <2>4. QED
    BY <2>1, <2>2, <2>3 DEF PoolOrRefused, Pool!Next
<1>6. CASE broken # 0 /\ Stop("hangs")
  BY <1>1, <1>6, StopKeeps
<1>7. QED
  BY <1>1, <1>4, <1>5, <1>6 DEF Outcomes

LEMMA GivesToPool ==
  ASSUME PmmInv, NEW base \in Pages, NEW n \in 1 .. NPages, free_pages(base, n)
  PROVE  PmmInv' /\ (broken' = 0 => PoolOrRefused)
<1>1. Running /\ FreePages(base, n)
  BY DEF free_pages, BestFreePages
<1>2. /\ PmmInv'
      /\ broken' = 0 => /\ broken = 0 /\ Run(base, n) \cap Free = {} /\ Run(base, n) \subseteq Pages
                        /\ Free' = Free \cup Run(base, n) /\ refused' = 0
  BY <1>1, FreeKeeps
<1>3. Pool!Run(base, n) = Run(base, n) /\ Pool!Pages = Pages
  BY DEF Pool!Run, Run, Pool!Pages, Pages
<1>4. \A S : Pool!Cardinality(S) = Cardinality(S)
  BY Zenon DEF Pool!Cardinality, Cardinality
<1>5. ASSUME broken' = 0  PROVE Pool!Free(base, n)
  <2>1. nr_free' = Cardinality(Free')
    BY <1>2, <1>5 DEF PmmInv, Intact
  <2>2. nr_free' = Pool!Cardinality(Free')
    BY <1>4, <2>1
  <2>3. QED
    BY <1>2, <1>3, <1>5, <2>2 DEF Pool!Free
<1>6. QED
  BY <1>2, <1>3, <1>5 DEF PoolOrRefused, Pool!Next

LEMMA PmmStep ==
  PmmInv /\ [Next]_pmm_vars
    => PmmInv' /\ ((broken' = 0 => PoolOrRefused) \/ UNCHANGED <<Free, nr_free, refused>>)
<1> SUFFICES ASSUME PmmInv, [Next]_pmm_vars
             PROVE  PmmInv' /\ ((broken' = 0 => PoolOrRefused)
                                 \/ UNCHANGED <<Free, nr_free, refused>>)
  OBVIOUS
<1>1. CASE UNCHANGED pmm_vars
  BY <1>1 DEF pmm_vars, vars, PmmInv, TypeOK, Intact, Listed, Partition, Free, Pages, Nodes, free_list
<1>2. ASSUME NEW n \in 1 .. NPages + 1, alloc_pages(n)
      PROVE  PmmInv' /\ (broken' = 0 => PoolOrRefused)
  BY <1>2, AllocKeeps
<1>3. ASSUME NEW base \in Pages, NEW n \in 1 .. NPages, free_pages(base, n)
      PROVE  PmmInv' /\ (broken' = 0 => PoolOrRefused)
  BY <1>3, GivesToPool
<1>4. QED
  BY <1>1, <1>2, <1>3 DEF Next, Stopped
-----------------------------------------------------------------------------
\* After init_memmap there is one block of all pages.
LEMMA InitList ==
  ASSUME Init
  PROVE  PmmInv /\ Free = Pages /\ nr_free = NPages /\ refused = 0
<1>1. /\ NPages \in Nat /\ NPages > 0 /\ Nodes = 0 .. NPages /\ free_list = 0
      /\ Pages = 1 .. NPages /\ Cardinality(Pages) = NPages /\ MaxBroken \in Nat
      /\ 1 \in Pages /\ 1 \in Nodes /\ 0 \in Nodes
  <2>1. /\ NPages \in Nat /\ NPages > 0 /\ Nodes = 0 .. NPages /\ free_list = 0
        /\ Pages = 1 .. NPages /\ Cardinality(Pages) = NPages
    BY NodesAre
  <2>2. QED
    BY <2>1, FreeListAssumption
<1>2. /\ property = [p \in Pages |-> IF p = 1 THEN NPages ELSE 0] /\ PG_property = {1}
      /\ nr_free = NPages /\ held = [p \in Pages |-> 0] /\ state = "running"
      /\ refused = 0 /\ appended = FALSE /\ broken = 0
  BY DEF Init
<1>3. /\ links.next \in [Nodes -> Nodes] /\ links.prev \in [Nodes -> Nodes]
      /\ links = [next |-> links.next, prev |-> links.prev]
      /\ links.next[0] = 1 /\ links.next[1] = 0 /\ links.prev[1] = 0
  <2> DEFINE none == [x \in Nodes |-> free_list]
  <2>1. links = ListAdd([next |-> none, prev |-> none], free_list, 1)
    BY DEF Init
  <2>2. none \in [Nodes -> Nodes] /\ none[0] = 0
    BY <1>1
  <2> HIDE DEF none
  <2>3. links = [next |-> [none EXCEPT ![0] = 1, ![1] = none[0]],
                 prev |-> [none EXCEPT ![none[0]] = 1, ![1] = 0]]
    BY <1>1, <2>1 DEF ListAdd
  <2>4. QED
    BY <1>1, <2>2, <2>3
<1>4. \A x : x \in Run(1, NPages) <=> x \in Pages
  BY <1>1 DEF Run
<1>5. Free = Pages
  <2>1. Free = UNION {Run(a, property[a]) : a \in {1}} /\ property[1] = NPages
    BY <1>1, <1>2 DEF Free
  <2>2. Free = Run(1, NPages)
    BY <2>1
  <2>3. QED
    BY <1>4, <2>2
<1>6. Chain(links, Listed) /\ LinkedBack(links, Listed)
  <2>1. Listed = {0, 1}
    BY <1>1, <1>2 DEF Listed
  <2>2. RingOf(links.next, {0, 1})
    <3> DEFINE nx == links.next
    <3>1. nx[0] = 1 /\ nx[1] = 0
      BY <1>3
    <3> HIDE DEF nx
    <3>2. RingOf(nx, {0, 1})
      BY <3>1 DEF RingOf
    <3>3. QED
      BY <3>2 DEF nx
  <2>3. links \in [next : [Nodes -> Nodes], prev : [Nodes -> Nodes]]
    BY <1>3
  <2>4. QED
    BY <1>1, <1>3, <2>1, <2>2, <2>3 DEF Chain, LinkedBack
<1>7. Blocks(PG_property, property) /\ Tight(PG_property, property, {})
  <2>1. property \in [Pages -> Nat] /\ property[1] = NPages
    BY <1>1, <1>2
  <2>2. 1 + NPages # 1 /\ 1 + NPages <= NPages + 1
    BY <1>1
  <2>3. QED
    BY <1>1, <1>2, <2>1, <2>2 DEF Blocks, Tight
<1>8. Intact
  BY <1>1, <1>2, <1>5, <1>6, <1>7 DEF Intact, Partition
<1>9. TypeOK /\ \A p \in Pages : p + property[p] <= NPages + 1
  <2>1. property \in [Pages -> 0 .. NPages] /\ \A p \in Pages : p + property[p] <= NPages + 1
    BY <1>1, <1>2
  <2>2. links \in [next : [Nodes -> Nodes], prev : [Nodes -> Nodes]]
    BY <1>3
  <2>3. held \in [Pages -> Nat] /\ 0 \in 0 .. MaxBroken + 1 /\ 0 \in 0 .. NPages + 1
    BY <1>1, <1>2
  <2>4. QED
    BY <1>1, <1>2, <2>1, <2>2, <2>3 DEF TypeOK
<1>10. QED
  BY <1>2, <1>5, <1>8, <1>9 DEF PmmInv

\* What an intact list comes to, in the words of the run.
LEMMA IntactIsExact ==
  ASSUME PmmInv, broken = 0
  PROVE  Sorted /\ Merged /\ Partition
<1>1. /\ Chain(links, Listed) /\ Blocks(PG_property, property) /\ Partition
      /\ ~appended => Tight(PG_property, property, {})
  BY DEF PmmInv, Intact
<1>2. Listed \subseteq Nat /\ free_list = 0 /\ \A b \in PG_property : b \in Nat /\ b > 0
  BY <1>1, NodesAre, BlockNumbers DEF Chain
<1>3. Sorted
  <2> DEFINE nx == links.next
  <2>1. RingOf(nx, Listed)
    BY <1>1 DEF Chain
  <2>2. SUFFICES ASSUME NEW a \in Listed
                 PROVE \/ /\ nx[a] \in PG_property
                          /\ a < nx[a]
                          /\ \A b \in PG_property : ~(a < b /\ b < nx[a])
                       \/ nx[a] = free_list /\ \A b \in PG_property : b <= a
    BY DEF Sorted, Listed
  <2> HIDE DEF nx
  <2>3. /\ nx[a] \in Listed
        /\ \/ a < nx[a] /\ \A b \in Listed : ~(a < b /\ b < nx[a])
           \/ nx[a] = 0 /\ \A b \in Listed : b <= a
    BY <2>1 DEF RingOf
  <2>4. PG_property \subseteq Listed
    BY DEF Listed
  <2>5. a < nx[a] => nx[a] \in PG_property
    BY <1>2, <2>3 DEF Listed
  <2>6. QED
    BY <1>2, <2>3, <2>4, <2>5
<1>4. Merged
  <2>1. SUFFICES ASSUME NEW a \in PG_property, NEW b \in PG_property, a < b
                 PROVE  /\ a + property[a] <= b
                        /\ ~appended => a + property[a] < b
    BY DEF Merged
  <2>2. /\ a \in Nat /\ property[a] \in Nat /\ b \in Nat
        /\ (a < b => a + property[a] <= b)
    BY <1>1, BlockNumbers
  <2>3. ~appended => a + property[a] # b
    BY <1>1 DEF Tight
  <2>4. QED
    BY <2>1, <2>2, <2>3
<1>5. QED
  BY <1>1, <1>3, <1>4

\* Every reachable state is one of the inductive invariant.
THEOREM PmmSafe == Spec => []PmmInv
<1>1. PmmInit => PmmInv
  BY InitList DEF PmmInit
<1>2. PmmInv /\ [Next]_pmm_vars => PmmInv'
  BY PmmStep
<1>3. QED
  BY <1>1, <1>2, PTL DEF Spec

\* The variables of the page allocator keep their types, with a damaged list too:
\* nr_free never wraps and no link leads out of the range.
THEOREM PmmTypeCorrect == Spec => []TypeOK
<1>1. PmmInv => TypeOK
  BY DEF PmmInv
<1>2. QED
  BY <1>1, PmmSafe, PTL

\* Until list_del or list_add_before meets an entry that is its own prev, the list
\* has all the free blocks by address, merged unless a block was put behind the last
\* one, every page is held once or in one free block, no loop over the list runs for
\* ever, and no assertion of free_pages fails.
THEOREM FreeListIsExact == Spec => []FreeListExact
<1>1. PmmInv => FreeListExact
  BY IntactIsExact DEF FreeListExact, PmmInv, Intact
<1>2. QED
  BY <1>1, PmmSafe, PTL

\* Until then first fit and best fit implement the page pool: a caller gets free
\* pages in a row, nr_free is the number of the free pages, and as long as no block
\* was put behind the last one a caller is refused only if no run is long enough.
THEOREM PmmImplementsPool == Spec => ImplementsPool
<1>1. PmmInit => Pool!Init
  <2> SUFFICES ASSUME PmmInit PROVE Pool!Init
    OBVIOUS
  <2>1. Free = Pages /\ nr_free = NPages /\ refused = 0
    BY InitList DEF PmmInit
  <2>2. QED
    BY <2>1 DEF Pool!Init, Pool!Pages, Pages
<1>2. PmmInv /\ [Next]_pmm_vars
        => [broken' = 0 => \/ Pool!Next
                           \/ appended /\ refused' # 0 /\ UNCHANGED <<Free, nr_free>>]_(Pool!vars)
  BY PmmStep DEF PoolOrRefused, Pool!vars
<1>3. QED
  BY <1>1, <1>2, PmmSafe, PTL DEF Spec, ImplementsPool
-----------------------------------------------------------------------------
\* The order of the block that buddy_alloc_pages hands out for m pages.
OrderFor(m) == Buddies!log2(Buddies!ceil_pow2(m))

\* What is on some list of free_array, with the heads of the lists.
OnLists == b_flags \cup {Buddies!free_array(k) : k \in 0 .. max_order}

\* The list that a node belongs to.
ListOf(p) == [x \in Buddies!Nodes |-> IF x \in Buddies!Pages THEN p[x] ELSE -1 - x]

\* The links of the nodes X are those of circular lists, each of one order.
Linked(l, X, f) ==
  /\ l \in [next : [Buddies!Nodes -> Buddies!Nodes], prev : [Buddies!Nodes -> Buddies!Nodes]]
  /\ X \subseteq Buddies!Nodes
  /\ \A x \in X : /\ l.next[x] \in X /\ l.prev[l.next[x]] = x
                  /\ l.prev[x] \in X /\ l.next[l.prev[x]] = x
                  /\ f[l.next[x]] = f[x]

FreeBlock(p) == Buddies!Block(p, b_property[p])
HeldBlock(b) == Buddies!Block(b.page, OrderFor(b.n))

\* The inductive invariant.
BuddyInv ==
  /\ b_property \in [Buddies!Pages -> 0 .. max_order]
  /\ b_flags \subseteq Buddies!Pages
  /\ Linked(b_links, OnLists, ListOf(b_property))
  /\ \A p \in b_flags : FreeBlock(p) \subseteq Buddies!Pages
  /\ \A p, q \in b_flags : p # q => FreeBlock(p) \cap FreeBlock(q) = {}
  /\ \A p \in b_flags, b \in b_held : FreeBlock(p) \cap HeldBlock(b) = {}
  /\ BuddyDisjoint
  /\ b_pc \in {"climb", "split", "take"} =>
       b_order \in 0 .. max_order /\ b_order = OrderFor(b_n)
  /\ b_pc \in {"climb", "split"} => b_level \in Nat /\ b_order < b_level
  /\ b_pc = "split" => b_level <= max_order /\ ~Buddies!list_empty(b_level)
  /\ b_pc = "take" => ~Buddies!list_empty(b_order)

\* What GoWild (module Buddy) waits for does not happen.
ListsSound ==
  /\ b_pc = "split" => Buddies!Splittable(b_level)
  /\ b_pc = "take" => b_links.next[Buddies!free_array(b_order)] \in Buddies!Pages
-----------------------------------------------------------------------------
\* The numbers of the pages and of the lists.
LEMMA BuddyNodes ==
  /\ Buddies!Pages \subseteq Nat
  /\ \A k : k \in 0 .. max_order =>
       /\ Buddies!free_array(k) = -1 - k
       /\ Buddies!free_array(k) \in Buddies!Nodes
       /\ Buddies!free_array(k) \notin Buddies!Pages
       /\ \A p : ListOf(p)[Buddies!free_array(k)] = k
  /\ \A x \in Buddies!Pages : x \in Buddies!Nodes /\ \A p : ListOf(p)[x] = p[x]
<1>1. Buddies!Pages \subseteq Nat
  BY BuddyAssumption, PowerIsCount DEF Buddies!Pages
<1>2. \A x \in Buddies!Pages : x \in Buddies!Nodes /\ \A p : ListOf(p)[x] = p[x]
  BY DEF Buddies!Nodes, ListOf
<1>3. ASSUME NEW k \in 0 .. max_order
      PROVE  /\ Buddies!free_array(k) = -1 - k
             /\ Buddies!free_array(k) \in Buddies!Nodes
             /\ Buddies!free_array(k) \notin Buddies!Pages
             /\ \A p : ListOf(p)[Buddies!free_array(k)] = k
  <2>1. Buddies!free_array(k) = -1 - k /\ -1 - k \notin Nat /\ -1 - (-1 - k) = k
    BY BuddyAssumption DEF Buddies!free_array
  <2>2. Buddies!free_array(k) \in Buddies!Nodes
    BY DEF Buddies!Nodes
  <2>3. QED
    BY <1>1, <2>1, <2>2 DEF ListOf
<1>4. QED
  BY <1>1, <1>2, <1>3

\* buddy_alloc_pages (buddy.c): a request that the count admits has an order of a
\* list, because 2^max_order is large enough for it.
LEMMA OrderInRange ==
  ASSUME NEW m \in 1 .. 2^max_order
  PROVE  OrderFor(m) \in 0 .. max_order
<1> DEFINE P == {2^k : k \in 0 .. m}
           G == {k \in 0 .. m : 2^k >= m}
<1>1. max_order \in Nat /\ 2^max_order \in Nat /\ m \in Nat
  BY BuddyAssumption, PowerIsCount
<1>2. \A k \in 0 .. m : k \in Nat /\ 2^k \in Nat
  <2>1. ASSUME NEW k \in 0 .. m  PROVE k \in Nat
    BY <1>1
  <2>2. QED
    BY <2>1, PowerIsCount
<1>3. m \in G
  BY <1>1, <1>2, PowerExceeds
<1>4. PICK g \in G : \A k \in G : g <= k
  <2>1. G \in SUBSET Nat
    BY <1>2
  <2>2. QED
    BY <1>3, <2>1, LeastElement
<1>5. 2^g \in P /\ 2^g >= m /\ \A q \in P : q >= m => 2^g <= q
  <2>1. \A j, k \in 0 .. m : j <= k => 2^j <= 2^k
    <3>1. ASSUME NEW j \in 0 .. m, NEW k \in 0 .. m, j < k  PROVE 2^j < 2^k
      BY <1>2, <3>1, PowerGrows
    <3>2. QED
      BY <1>2, <3>1
  <2>2. QED
    BY <1>4, <2>1
<1> DEFINE c == Buddies!ceil_pow2(m)
<1>6. c \in P /\ c >= m /\ \A q \in P : q >= m => c <= q
  BY <1>5, Zenon DEF Buddies!ceil_pow2
<1>7. PICK k \in 0 .. m : c = 2^k
  BY <1>6
<1>8. k \in Nat /\ c \in Nat /\ k \in 0 .. c
  BY <1>2, <1>7, PowerExceeds
<1> DEFINE o == OrderFor(m)
<1>9. o \in 0 .. c /\ 2^o = c
  <2> HIDE DEF c
  <2>1. \E j \in 0 .. c : 2^j = c
    BY <1>7, <1>8
  <2>2. (CHOOSE j \in 0 .. c : 2^j = c) \in 0 .. c /\ 2^(CHOOSE j \in 0 .. c : 2^j = c) = c
    BY <2>1, Zenon
  <2>3. o = CHOOSE j \in 0 .. c : 2^j = c
    BY DEF OrderFor, Buddies!log2, c
  <2>4. QED
    BY <2>2, <2>3
<1>10. c <= 2^max_order
  <2>1. CASE max_order <= m
    BY <1>1, <1>6, <2>1
  <2>2. CASE m < max_order
    BY <1>1, <1>2, <1>7, <2>2, PowerGrows
  <2>3. QED
    BY <1>1, <2>1, <2>2
<1>11. o \in Nat
  BY <1>8, <1>9
<1>12. ~(max_order < o)
  <2>1. SUFFICES ASSUME max_order < o  PROVE FALSE
    OBVIOUS
  <2>2. 2^max_order < 2^o
    BY <1>1, <1>11, <2>1, PowerGrows
  <2>3. QED
    BY <1>1, <1>8, <1>9, <1>10, <2>2
<1> HIDE DEF o
<1>13. QED
  BY <1>1, <1>11, <1>12 DEF o

\* list_del keeps the lists of the other entries.
LEMMA DelKeepsLinks ==
  ASSUME NEW l, NEW X, NEW f, Linked(l, X, f), NEW e \in X
  PROVE  Linked(Buddies!ListDel(l, e), X \ {e}, f)
<1> DEFINE N == Buddies!Nodes
           a == l.prev[e]
           b == l.next[e]
           d == Buddies!ListDel(l, e)
<1>1. /\ l.next \in [N -> N] /\ l.prev \in [N -> N] /\ X \subseteq N /\ a \in X /\ b \in X
      /\ \A x \in X : /\ l.next[x] \in X /\ l.prev[l.next[x]] = x
                      /\ l.prev[x] \in X /\ l.next[l.prev[x]] = x
                      /\ f[l.next[x]] = f[x]
  BY DEF Linked
<1>2. /\ d = [next |-> [l.next EXCEPT ![a] = b], prev |-> [l.prev EXCEPT ![b] = a]]
      /\ d.next = [l.next EXCEPT ![a] = b] /\ d.prev = [l.prev EXCEPT ![b] = a]
  BY DEF Buddies!ListDel
<1>3. d \in [next : [N -> N], prev : [N -> N]] /\ X \ {e} \subseteq N
  BY <1>1, <1>2
<1>4. ASSUME NEW x \in X \ {e}
      PROVE  /\ d.next[x] \in X \ {e} /\ d.prev[d.next[x]] = x
             /\ d.prev[x] \in X \ {e} /\ d.next[d.prev[x]] = x
             /\ f[d.next[x]] = f[x]
  <2>1. x \in N /\ x # e
    BY <1>1
  <2>2. /\ d.next[x] = IF x = a THEN b ELSE l.next[x]
        /\ d.prev[x] = IF x = b THEN a ELSE l.prev[x]
    BY <1>1, <1>2, <2>1
  <2>3. /\ d.next[x] \in X \ {e} /\ d.prev[d.next[x]] = x /\ f[d.next[x]] = f[x]
    <3>1. CASE x = a
      <4>1. l.next[x] = e /\ d.next[x] = b /\ b \in X
        BY <1>1, <2>2, <3>1
      <4>2. b # e
        BY <1>1, <2>1, <3>1
      <4>3. d.prev[b] = a
        BY <1>1, <1>2
      <4>4. f[b] = f[e] /\ f[e] = f[x]
        BY <1>1, <4>1
      <4>5. QED
        BY <3>1, <4>1, <4>2, <4>3, <4>4
    <3>2. CASE x # a
      <4>1. d.next[x] = l.next[x] /\ l.next[x] \in X /\ l.next[x] \in N
        BY <1>1, <2>2, <3>2
      <4>2. l.next[x] # e
        BY <1>1, <3>2
      <4>3. l.next[x] # b
        BY <1>1, <2>1
      <4>4. d.prev[l.next[x]] = l.prev[l.next[x]]
        BY <1>1, <1>2, <4>1, <4>3
      <4>5. QED
        BY <1>1, <4>1, <4>2, <4>4
    <3>3. QED
      BY <3>1, <3>2
  <2>4. d.prev[x] \in X \ {e} /\ d.next[d.prev[x]] = x
    <3>1. CASE x = b
      <4>1. d.prev[x] = a /\ a \in X /\ d.next[a] = b
        BY <1>1, <1>2, <2>2, <3>1
      <4>2. a # e
        BY <1>1, <2>1, <3>1
      <4>3. QED
        BY <3>1, <4>1, <4>2
    <3>2. CASE x # b
      <4>1. d.prev[x] = l.prev[x] /\ l.prev[x] \in X /\ l.prev[x] \in N
        BY <1>1, <2>2, <3>2
      <4>2. l.prev[x] # e /\ l.prev[x] # a
        BY <1>1, <2>1, <3>2
      <4>3. d.next[l.prev[x]] = l.next[l.prev[x]]
        BY <1>1, <1>2, <4>1, <4>2
      <4>4. QED
        BY <1>1, <4>1, <4>2, <4>3
    <3>3. QED
      BY <3>1, <3>2
  <2>5. QED
    BY <2>3, <2>4
<1> HIDE DEF d, N
<1>5. QED
  BY <1>3, <1>4 DEF Linked, d, N

\* list_add puts an entry that is on no list behind one of its order.
LEMMA AddKeepsLinks ==
  ASSUME NEW l, NEW X, NEW f, Linked(l, X, f),
         NEW at \in X, NEW e \in Buddies!Nodes, e \notin X, f[e] = f[at]
  PROVE  Linked(Buddies!ListAdd(l, at, e), X \cup {e}, f)
<1> DEFINE N == Buddies!Nodes
           b == l.next[at]
           d == Buddies!ListAdd(l, at, e)
<1>1. /\ l.next \in [N -> N] /\ l.prev \in [N -> N] /\ X \subseteq N /\ b \in X
      /\ \A x \in X : /\ l.next[x] \in X /\ l.prev[l.next[x]] = x
                      /\ l.prev[x] \in X /\ l.next[l.prev[x]] = x
                      /\ f[l.next[x]] = f[x]
  BY DEF Linked
<1>2. /\ d.next = [l.next EXCEPT ![at] = e, ![e] = b]
      /\ d.prev = [l.prev EXCEPT ![b] = e, ![e] = at]
      /\ d = [next |-> d.next, prev |-> d.prev]
  BY DEF Buddies!ListAdd
<1>3. at \in N /\ e \in N /\ b \in N /\ at # e /\ b # e
  BY <1>1
<1>4. d \in [next : [N -> N], prev : [N -> N]] /\ X \cup {e} \subseteq N
  <2>1. d.next \in [N -> N] /\ d.prev \in [N -> N]
    BY <1>1, <1>2, <1>3
  <2>2. QED
    BY <1>1, <1>2, <1>3, <2>1
<1>5. /\ d.next[at] = e /\ d.next[e] = b /\ d.prev[b] = e /\ d.prev[e] = at
      /\ \A x \in N : x # at /\ x # e => d.next[x] = l.next[x]
      /\ \A x \in N : x # b /\ x # e => d.prev[x] = l.prev[x]
  BY <1>1, <1>2, <1>3
<1>6. f[e] = f[at] /\ f[b] = f[at]
  BY <1>1
<1>7. ASSUME NEW x \in X \cup {e}
      PROVE  /\ d.next[x] \in X \cup {e} /\ d.prev[d.next[x]] = x
             /\ d.prev[x] \in X \cup {e} /\ d.next[d.prev[x]] = x
             /\ f[d.next[x]] = f[x]
  <2>1. CASE x = e
    BY <1>1, <1>5, <1>6, <2>1
  <2>2. CASE x \in X
    <3>1. x \in N /\ x # e
      BY <1>1, <2>2
    <3>2. d.next[x] \in X \cup {e} /\ d.prev[d.next[x]] = x /\ f[d.next[x]] = f[x]
      <4>1. CASE x = at
        BY <1>5, <1>6, <4>1
      <4>2. CASE x # at
        <5>1. d.next[x] = l.next[x] /\ l.next[x] \in X /\ l.next[x] \in N
          BY <1>1, <1>5, <2>2, <3>1, <4>2
        <5>2. l.next[x] # b /\ l.next[x] # e
          BY <1>1, <2>2, <4>2, <5>1
        <5>3. QED
          BY <1>1, <1>5, <2>2, <5>1, <5>2
      <4>3. QED
        BY <4>1, <4>2
    <3>3. d.prev[x] \in X \cup {e} /\ d.next[d.prev[x]] = x
      <4>1. CASE x = b
        BY <1>5, <4>1
      <4>2. CASE x # b
        <5>1. d.prev[x] = l.prev[x] /\ l.prev[x] \in X /\ l.prev[x] \in N
          BY <1>1, <1>5, <2>2, <3>1, <4>2
        <5>2. l.prev[x] # at /\ l.prev[x] # e
          BY <1>1, <2>2, <4>2, <5>1
        <5>3. QED
          BY <1>1, <1>5, <2>2, <5>1, <5>2
      <4>3. QED
        BY <4>1, <4>2
    <3>4. QED
      BY <3>2, <3>3
  <2>3. QED
    BY <2>1, <2>2
<1> HIDE DEF d, N
<1>8. QED
  BY <1>4, <1>7 DEF Linked, d, N

\* A block is not empty, and its halves are two blocks.
LEMMA BlockHalves ==
  ASSUME NEW p \in Nat, NEW k \in Nat
  PROVE  /\ p \in Buddies!Block(p, k)
         /\ 2^k \in Nat /\ 2^k > 0
         /\ Buddies!Block(p, k) \cap Buddies!Block(p + 2^k, k) = {}
         /\ Buddies!Block(p, k) \cup Buddies!Block(p + 2^k, k) = Buddies!Block(p, k + 1)
<1>1. 2^k \in Nat /\ k < 2^k /\ 2^(k + 1) = 2^k + 2^k
  BY PowerIsCount, PowerExceeds, PowerDoubles
<1> DEFINE s == 2^k
<1>2. s \in Nat /\ s > 0 /\ 2^(k + 1) = s + s
  BY <1>1
<1>3. /\ Buddies!Block(p, k) = p .. p + s - 1
      /\ Buddies!Block(p + s, k) = p + s .. p + s + s - 1
      /\ Buddies!Block(p, k + 1) = p .. p + (s + s) - 1
  BY <1>2 DEF Buddies!Block
<1> HIDE DEF s
<1>4. /\ p \in Buddies!Block(p, k) /\ Buddies!Block(p, k) \cap Buddies!Block(p + s, k) = {}
      /\ Buddies!Block(p, k) \cup Buddies!Block(p + s, k) = Buddies!Block(p, k + 1)
  BY <1>2, <1>3
<1>5. QED
  BY <1>2, <1>4 DEF s

\* buddy_init, buddy_init_memmap: one block on the last list.
LEMMA BuddyInit == Buddies!Init => BuddyInv
<1> SUFFICES ASSUME Buddies!Init  PROVE BuddyInv
  OBVIOUS
<1> DEFINE self == [x \in Buddies!Nodes |-> x]
           l == [next |-> self, prev |-> self]
           H == {Buddies!free_array(k) : k \in 0 .. max_order}
           f == ListOf(b_property)
           last == Buddies!free_array(max_order)
<1>1. /\ b_links = Buddies!ListAdd(l, last, Base)
      /\ b_property = [p \in Buddies!Pages |-> IF p = Base THEN max_order ELSE 0]
      /\ b_flags = {Base} /\ b_held = {} /\ b_pc = "idle"
  BY DEF Buddies!Init
<1>2. max_order \in 0 .. max_order /\ Base \in Buddies!Pages
  <2>1. 2^max_order \in Nat /\ max_order < 2^max_order
    BY BuddyAssumption, PowerIsCount, PowerExceeds
  <2>2. QED
    BY BuddyAssumption, <2>1 DEF Buddies!Pages
<1>3. b_property \in [Buddies!Pages -> 0 .. max_order] /\ b_property[Base] = max_order
  BY BuddyAssumption, <1>1, <1>2
<1>4. H \subseteq Buddies!Nodes /\ last \in H /\ Base \notin H
  BY <1>2, BuddyNodes
<1>5. Linked(l, H, f)
  <2>1. \A x \in H : x \in Buddies!Nodes /\ l.next[x] = x /\ l.prev[x] = x
    BY <1>4
  <2>2. l \in [next : [Buddies!Nodes -> Buddies!Nodes], prev : [Buddies!Nodes -> Buddies!Nodes]]
    OBVIOUS
  <2> HIDE DEF l, H
  <2>3. QED
    BY <1>4, <2>1, <2>2 DEF Linked
<1>6. Base \in Buddies!Nodes /\ f[Base] = f[last]
  BY <1>2, <1>3, BuddyNodes
<1>7. Linked(b_links, H \cup {Base}, f)
  <2> HIDE DEF l, H, f, last
  <2>1. Linked(Buddies!ListAdd(l, last, Base), H \cup {Base}, f)
    BY <1>4, <1>5, <1>6, AddKeepsLinks
  <2>2. QED
    BY <1>1, <2>1
<1>8. OnLists = H \cup {Base}
  BY <1>1 DEF OnLists
<1>9. BuddyDisjoint
  BY <1>1 DEF BuddyDisjoint, Buddies!HeldDisjoint
<1>10. /\ b_flags \subseteq Buddies!Pages
       /\ \A p \in b_flags : FreeBlock(p) \subseteq Buddies!Pages
       /\ \A p, q \in b_flags : p # q => FreeBlock(p) \cap FreeBlock(q) = {}
       /\ \A p \in b_flags, b \in b_held : FreeBlock(p) \cap HeldBlock(b) = {}
  BY <1>1, <1>2, <1>3 DEF FreeBlock, Buddies!Block, Buddies!Pages
<1>11. QED
  BY <1>1, <1>3, <1>7, <1>8, <1>9, <1>10 DEF BuddyInv

\* buddy_alloc_pages (buddy.c), the end: the page taken off list order heads a
\* block of that order, which was a free one.
LEMMA TakeKeepsBuddies ==
  ASSUME BuddyInv, Buddies!Take
  PROVE  BuddyInv'
<1> DEFINE head == Buddies!free_array(b_order)
           ret == b_links.next[head]
           f == ListOf(b_property)
           new == [page |-> ret, n |-> b_n]
<1>1. /\ b_pc = "take" /\ ret \in Buddies!Pages
      /\ b_links' = Buddies!ListDel(b_links, ret)
      /\ b_flags' = b_flags \ {ret} /\ b_held' = b_held \cup {new}
      /\ b_pc' = "idle" /\ b_property' = b_property
  BY DEF Buddies!Take
<1>2. b_order \in 0 .. max_order /\ b_order = OrderFor(b_n) /\ head \in OnLists
  BY <1>1 DEF BuddyInv, OnLists
<1>3. ret \in OnLists /\ f[ret] = f[head]
  BY <1>2 DEF BuddyInv, Linked
<1>4. ret \in b_flags /\ b_property[ret] = b_order
  <2>1. ret \in b_flags
    BY <1>1, <1>3, BuddyNodes DEF OnLists
  <2>2. f[ret] = b_property[ret] /\ f[head] = b_order
    BY <1>1, <1>2, BuddyNodes
  <2>3. QED
    BY <1>3, <2>1, <2>2
<1>5. HeldBlock(new) = FreeBlock(ret)
  BY <1>2, <1>4 DEF HeldBlock, FreeBlock
<1>6. Linked(b_links', OnLists \ {ret}, f)
  <2>1. Linked(b_links, OnLists, f)
    BY DEF BuddyInv
  <2> HIDE DEF f, ret
  <2>2. Linked(Buddies!ListDel(b_links, ret), OnLists \ {ret}, f)
    BY <1>3, <2>1, DelKeepsLinks
  <2>3. QED
    BY <1>1, <2>2
<1>7. OnLists' = OnLists \ {ret} /\ f' = f
  <2>1. ret \notin {Buddies!free_array(k) : k \in 0 .. max_order}
    BY <1>1, BuddyNodes
  <2>2. OnLists' = b_flags' \cup {Buddies!free_array(k) : k \in 0 .. max_order}
    BY DEF OnLists
  <2>3. f' = f
    BY <1>1 DEF ListOf
  <2>4. QED
    BY <1>1, <2>1, <2>2, <2>3 DEF OnLists
<1>8. Linked(b_links, OnLists, ListOf(b_property))'
  BY <1>6, <1>7 DEF Linked, Buddies!Nodes, Buddies!Pages
<1>9. \A p : FreeBlock(p)' = FreeBlock(p)
  BY <1>1 DEF FreeBlock
<1>10. \A p \in b_flags', b \in b_held' : FreeBlock(p) \cap HeldBlock(b) = {}
  BY <1>1, <1>4, <1>5 DEF BuddyInv
<1>11. BuddyDisjoint'
  <2>1. \A b \in b_held : HeldBlock(b) \cap HeldBlock(new) = {}
    BY <1>4, <1>5 DEF BuddyInv
  <2>2. \A b, c \in b_held : b # c => HeldBlock(b) \cap HeldBlock(c) = {}
    BY DEF BuddyInv, BuddyDisjoint, Buddies!HeldDisjoint, HeldBlock, OrderFor
  <2> HIDE DEF new
  <2>3. \A b, c \in b_held' : b # c => HeldBlock(b) \cap HeldBlock(c) = {}
    BY <1>1, <2>1, <2>2
  <2>4. QED
    BY <2>3 DEF BuddyDisjoint, Buddies!HeldDisjoint, HeldBlock, OrderFor
<1>12. /\ (b_property \in [Buddies!Pages -> 0 .. max_order])'
       /\ (b_flags \subseteq Buddies!Pages)'
       /\ (\A p \in b_flags : FreeBlock(p) \subseteq Buddies!Pages)'
       /\ (\A p, q \in b_flags : p # q => FreeBlock(p) \cap FreeBlock(q) = {})'
       /\ (\A p \in b_flags, b \in b_held : FreeBlock(p) \cap HeldBlock(b) = {})'
  BY <1>1, <1>9, <1>10 DEF BuddyInv, Buddies!Pages
<1>13. QED
  BY <1>1, <1>8, <1>11, <1>12 DEF BuddyInv

\* buddy_split (buddy.c): the first block of list level becomes two neighbours on
\* the list below, which share its pages.
LEMMA SplitKeepsBuddies ==
  ASSUME BuddyInv, Buddies!Split
  PROVE  BuddyInv'
<1> DEFINE k == b_level - 1
           head == Buddies!free_array(b_level)
           below == Buddies!free_array(k)
           left == b_links.next[head]
           right == left + 2^k
           f == ListOf(b_property)
           g == ListOf(b_property')
           d == Buddies!ListDel(b_links, left)
           l == Buddies!ListAdd(d, below, left)
           X == OnLists \ {left}
<1>1. /\ b_pc = "split" /\ left \in Buddies!Pages /\ b_pc' \in {"take", "split"}
      /\ left + 2^(b_property[left] - 1) \in Buddies!Pages
      /\ b_level' = k /\ b_held' = b_held /\ b_n' = b_n /\ b_order' = b_order
      /\ b_pc' = IF k = b_order THEN "take" ELSE "split"
  BY DEF Buddies!Split, Buddies!Splittable
<1>2. /\ b_level \in 0 .. max_order /\ b_order \in 0 .. max_order /\ b_order < b_level
      /\ k \in 0 .. max_order /\ k \in Nat /\ b_order <= k /\ k + 1 = b_level
  BY <1>1, BuddyAssumption DEF BuddyInv
<1>3. left \in b_flags /\ b_property[left] = b_level
  <2>1. head \in OnLists
    BY <1>2 DEF OnLists
  <2>2. left \in OnLists /\ f[left] = f[head]
    BY <2>1 DEF BuddyInv, Linked
  <2>3. left \in b_flags
    BY <1>1, <2>2, BuddyNodes DEF OnLists
  <2>4. f[left] = b_property[left] /\ f[head] = b_level
    BY <1>1, <1>2, BuddyNodes
  <2>5. QED
    BY <2>2, <2>3, <2>4
<1>4. /\ right \in Buddies!Pages
      /\ b_property' = [b_property EXCEPT ![left] = k, ![right] = k]
      /\ b_flags' = b_flags \cup {right}
      /\ b_links' = Buddies!ListAdd(l, left, right)
  BY <1>1, <1>3 DEF Buddies!Split
<1>5. left \in Nat /\ right \in Nat
  BY <1>1, <1>4, BuddyNodes
<1>6. /\ left \in Buddies!Block(left, k) /\ right \in Buddies!Block(right, k)
      /\ 2^k \in Nat /\ 2^k > 0 /\ left # right
      /\ Buddies!Block(left, k) \cap Buddies!Block(right, k) = {}
      /\ Buddies!Block(left, k) \cup Buddies!Block(right, k) = FreeBlock(left)
  <2>1. /\ left \in Buddies!Block(left, k) /\ 2^k \in Nat /\ 2^k > 0
        /\ Buddies!Block(left, k) \cap Buddies!Block(right, k) = {}
        /\ Buddies!Block(left, k) \cup Buddies!Block(right, k) = Buddies!Block(left, k + 1)
    BY <1>2, <1>5, BlockHalves
  <2>2. right \in Buddies!Block(right, k)
    BY <1>2, <1>5, BlockHalves
  <2>3. FreeBlock(left) = Buddies!Block(left, k + 1)
    BY <1>2, <1>3 DEF FreeBlock
  <2>4. QED
    BY <1>5, <2>1, <2>2, <2>3
<1>7. right \notin b_flags
  <2>1. SUFFICES ASSUME right \in b_flags  PROVE FALSE
    OBVIOUS
  <2>2. right \in FreeBlock(right)
    <3>1. b_property[right] \in Nat
      BY <1>4, BuddyAssumption DEF BuddyInv
    <3> HIDE DEF right
    <3>2. QED
      BY <1>5, <3>1, BlockHalves DEF FreeBlock
  <2>3. right \in FreeBlock(left)
    BY <1>6
  <2>4. QED
    BY <1>3, <1>6, <2>1, <2>2, <2>3 DEF BuddyInv
<1>8. /\ b_property' \in [Buddies!Pages -> 0 .. max_order]
      /\ b_property'[left] = k /\ b_property'[right] = k
      /\ \A p \in Buddies!Pages : p # left /\ p # right => b_property'[p] = b_property[p]
  BY <1>1, <1>2, <1>4, <1>6 DEF BuddyInv
<1>9. Linked(b_links', X \cup {left} \cup {right}, g)
  <2>1. Linked(b_links, OnLists, f)
    BY DEF BuddyInv
  <2>2. left \in OnLists /\ below \in X /\ left \in Buddies!Nodes /\ right \in Buddies!Nodes
        /\ right \notin OnLists
    <3> HIDE DEF left, right, k
    <3>1. left \in Buddies!Nodes /\ right \in Buddies!Nodes /\ left \in OnLists
      BY <1>1, <1>3, <1>4, BuddyNodes DEF OnLists
    <3>2. below \in OnLists /\ below # left
      BY <1>1, <1>2, BuddyNodes DEF OnLists
    <3>3. right \notin OnLists
      BY <1>4, <1>7, BuddyNodes DEF OnLists
    <3>4. QED
      BY <3>1, <3>2, <3>3
  <2>3. \A x \in X : f[x] = g[x]
    <3>1. ASSUME NEW x \in b_flags, x # left  PROVE f[x] = g[x]
      <4>1. x \in Buddies!Pages /\ x # right
        BY <1>7, <3>1 DEF BuddyInv
      <4>2. b_property'[x] = b_property[x]
        BY <1>8, <3>1, <4>1
      <4>3. QED
        BY <4>1, <4>2, BuddyNodes
    <3>2. ASSUME NEW i \in 0 .. max_order
          PROVE  f[Buddies!free_array(i)] = g[Buddies!free_array(i)]
      BY BuddyNodes
    <3>3. QED
      BY <3>1, <3>2 DEF OnLists
  <2>4. g[left] = k /\ g[right] = k /\ g[below] = k
    <3> HIDE DEF left, right, k
    <3>1. g[left] = b_property'[left] /\ g[right] = b_property'[right]
      BY <1>1, <1>4, BuddyNodes
    <3>2. g[below] = k
      BY <1>2, BuddyNodes
    <3>3. QED
      BY <1>8, <3>1, <3>2
  <2> HIDE DEF f, g, left, right, below, k, d, l, X
  <2>5. Linked(d, X, f)
    BY <2>1, <2>2, DelKeepsLinks DEF d, X
  <2>6. Linked(d, X, g)
    BY <2>3, <2>5 DEF Linked
  <2>7. left \notin X /\ right \notin X \cup {left}
    BY <1>6, <2>2 DEF X
  <2>8. Linked(l, X \cup {left}, g)
    BY <2>2, <2>4, <2>6, <2>7, AddKeepsLinks DEF l
  <2>9. Linked(Buddies!ListAdd(l, left, right), X \cup {left} \cup {right}, g)
    BY <2>2, <2>4, <2>7, <2>8, AddKeepsLinks
  <2>10. QED
    BY <1>4, <2>9
<1>10. Linked(b_links, OnLists, ListOf(b_property))'
  <2>1. OnLists' = X \cup {left} \cup {right}
    <3>1. OnLists' = b_flags' \cup {Buddies!free_array(i) : i \in 0 .. max_order}
      BY DEF OnLists
    <3>2. OnLists' = OnLists \cup {right} /\ left \in OnLists
      BY <1>3, <1>4, <3>1 DEF OnLists
    <3>3. QED
      BY <3>2
  <2>2. Linked(b_links', OnLists', ListOf(b_property'))
    BY <1>9, <2>1
  <2>3. QED
    BY <2>2 DEF Linked, ListOf, Buddies!Nodes, Buddies!Pages
<1> DEFINE FB(p) == Buddies!Block(p, b_property'[p])
<1>11. \A p \in b_flags : p # left => FB(p) = FreeBlock(p)
  <2>1. ASSUME NEW p \in b_flags, p # left  PROVE b_property'[p] = b_property[p]
    BY <1>7, <1>8, <2>1 DEF BuddyInv
  <2>2. QED
    BY <2>1 DEF FreeBlock
<1>12. /\ FB(left) \subseteq FreeBlock(left) /\ FB(right) \subseteq FreeBlock(left)
       /\ FB(left) \cap FB(right) = {}
       /\ \A p \in b_flags : p # left => FB(p) = FreeBlock(p)
  <2>1. FB(left) = Buddies!Block(left, k) /\ FB(right) = Buddies!Block(right, k)
    BY <1>8
  <2>2. QED
    BY <1>6, <1>11, <2>1
<1>13. /\ \A p, q \in b_flags : p # q => FreeBlock(p) \cap FreeBlock(q) = {}
       /\ \A p \in b_flags, b \in b_held : FreeBlock(p) \cap HeldBlock(b) = {}
  BY DEF BuddyInv
<1> HIDE DEF FB, left, right, k
<1>14. \A p, q \in b_flags \cup {right} : p # q => FB(p) \cap FB(q) = {}
  <2>1. ASSUME NEW p \in b_flags, p # left
        PROVE  FB(p) \cap FB(left) = {} /\ FB(p) \cap FB(right) = {}
    <3>1. FB(p) = FreeBlock(p) /\ FreeBlock(p) \cap FreeBlock(left) = {}
      BY <1>3, <1>12, <1>13, <2>1
    <3>2. QED
      BY <1>12, <3>1
  <2>2. ASSUME NEW p \in b_flags, NEW q \in b_flags, p # left, q # left, p # q
        PROVE  FB(p) \cap FB(q) = {}
    BY <1>12, <1>13, <2>2
  <2>3. QED
    BY <1>12, <2>1, <2>2
<1>15. \A p \in b_flags \cup {right}, b \in b_held : FB(p) \cap HeldBlock(b) = {}
  <2>1. ASSUME NEW p \in b_flags \cup {right}, NEW b \in b_held
        PROVE  \E q \in b_flags : FB(p) \subseteq FreeBlock(q)
    BY <1>3, <1>12
  <2>2. QED
    BY <1>13, <2>1
<1>16. /\ (\A p, q \in b_flags : p # q => FreeBlock(p) \cap FreeBlock(q) = {})'
       /\ (\A p \in b_flags, b \in b_held : FreeBlock(p) \cap HeldBlock(b) = {})'
  <2>1. \A b : HeldBlock(b)' = HeldBlock(b)
    BY DEF HeldBlock, OrderFor
  <2>2. \A p : FreeBlock(p)' = FB(p)
    BY DEF FreeBlock, FB, Buddies!Block
  <2>3. QED
    BY <1>1, <1>4, <1>14, <1>15, <2>1, <2>2
<1>17. /\ (\A p \in b_flags : FreeBlock(p) \subseteq Buddies!Pages)'
  <2>1. \A p \in b_flags : FreeBlock(p) \subseteq Buddies!Pages
    BY DEF BuddyInv
  <2>2. \A p \in b_flags \cup {right} : FB(p) \subseteq Buddies!Pages
    <3>1. ASSUME NEW p \in b_flags \cup {right}
          PROVE  \E q \in b_flags : FB(p) \subseteq FreeBlock(q)
      BY <1>3, <1>12
    <3>2. QED
      BY <2>1, <3>1
  <2>3. \A p : FreeBlock(p)' = FB(p)
    BY DEF FreeBlock, FB, Buddies!Block
  <2>4. QED
    BY <1>4, <2>2, <2>3 DEF Buddies!Pages
<1>18. /\ (b_property \in [Buddies!Pages -> 0 .. max_order])'
       /\ (b_flags \subseteq Buddies!Pages)'
       /\ BuddyDisjoint'
  BY <1>1, <1>4, <1>8 DEF BuddyInv, BuddyDisjoint, Buddies!HeldDisjoint, Buddies!Pages
<1>19. b_links'.next[below] # below
  <2>1. below \in Buddies!Nodes /\ left \in Buddies!Nodes /\ below # left /\ below # right
    BY <1>1, <1>2, <1>4, BuddyNodes
  <2>2. b_links.next \in [Buddies!Nodes -> Buddies!Nodes]
    BY DEF BuddyInv, Linked
  <2> HIDE DEF below
  <2>3. d.next \in [Buddies!Nodes -> Buddies!Nodes]
    BY <1>3, <2>1, <2>2 DEF Buddies!ListDel, BuddyInv, Linked, OnLists
  <2>4. l.next[below] = left /\ l.next \in [Buddies!Nodes -> Buddies!Nodes]
    <3> HIDE DEF d
    <3>1. l.next = [d.next EXCEPT ![below] = left, ![left] = d.next[below]]
      BY DEF Buddies!ListAdd
    <3>2. QED
      BY <2>1, <2>3, <3>1
  <2>5. b_links'.next[below] = left
    <3> HIDE DEF l
    <3>1. b_links'.next = [l.next EXCEPT ![left] = right, ![right] = l.next[left]]
      BY <1>4 DEF Buddies!ListAdd
    <3>2. QED
      BY <2>1, <2>4, <3>1
  <2>6. QED
    BY <2>1, <2>5
<1>20. /\ (b_pc \in {"climb", "split", "take"} =>
             b_order \in 0 .. max_order /\ b_order = OrderFor(b_n))'
       /\ (b_pc \in {"climb", "split"} => b_level \in Nat /\ b_order < b_level)'
       /\ (b_pc = "split" => b_level <= max_order /\ ~Buddies!list_empty(b_level))'
       /\ (b_pc = "take" => ~Buddies!list_empty(b_order))'
  <2>1. b_order = OrderFor(b_n)
    BY <1>1 DEF BuddyInv
  <2>2. (OrderFor(b_n))' = OrderFor(b_n)
    BY <1>1 DEF OrderFor
  <2>3. k \in Nat /\ (k # b_order => b_order < k) /\ k <= max_order
    BY <1>2, BuddyAssumption
  <2>4. QED
    <3>1. ~Buddies!list_empty(b_level)'
      BY <1>1, <1>19 DEF Buddies!list_empty, Buddies!free_array
    <3>2. b_pc' = "take" => b_order' = b_level'
      BY <1>1
    <3>3. b_pc' = "take" => ~Buddies!list_empty(b_order)'
      BY <3>1, <3>2 DEF Buddies!list_empty, Buddies!free_array
    <3>4. QED
      BY <1>1, <1>2, <2>1, <2>2, <2>3, <3>1, <3>3
<1>21. QED
  BY <1>10, <1>16, <1>17, <1>18, <1>20 DEF BuddyInv

\* Every step keeps the invariant: up to its split buddy_alloc_pages only looks.
LEMMA BuddyStep == BuddyInv /\ [MCNext]_<<pmm_vars, b_vars, k_vars, part>> => BuddyInv'
<1> SUFFICES ASSUME BuddyInv, [MCNext]_<<pmm_vars, b_vars, k_vars, part>>
             PROVE  BuddyInv'
  OBVIOUS
<1>1. CASE UNCHANGED b_vars
  <2>1. /\ b_links' = b_links /\ b_property' = b_property /\ b_flags' = b_flags
        /\ b_held' = b_held /\ b_pc' = b_pc /\ b_n' = b_n /\ b_order' = b_order
        /\ b_level' = b_level
    BY <1>1 DEF b_vars
  <2>2. QED
    BY <2>1 DEF BuddyInv, OnLists, ListOf, Linked, FreeBlock, HeldBlock, BuddyDisjoint,
                Buddies!HeldDisjoint, Buddies!list_empty
<1>2. ASSUME NEW m \in 1 .. 2^max_order, Buddies!AllocNull(m)  PROVE BuddyInv'
  BY <1>1, <1>2 DEF Buddies!AllocNull, Buddies!vars, b_vars
<1>3. ASSUME NEW m \in 1 .. 2^max_order, Buddies!AllocStart(m)  PROVE BuddyInv'
  <2>1. /\ b_links' = b_links /\ b_property' = b_property /\ b_flags' = b_flags
        /\ b_held' = b_held /\ b_n' = m /\ b_order' = OrderFor(m)
        /\ b_level' = b_order' + 1 /\ b_pc' \in {"climb", "take"}
        /\ b_pc' = "take" => ~Buddies!list_empty(b_order')
    BY <1>3 DEF Buddies!AllocStart, OrderFor
  <2>2. b_order' \in 0 .. max_order /\ b_order' \in Nat
    BY <2>1, OrderInRange, BuddyAssumption
  <2>3. /\ b_level' \in Nat /\ b_order' < b_level'
        /\ (b_pc = "take" => ~Buddies!list_empty(b_order))'
    BY <2>1, <2>2 DEF Buddies!list_empty
  <2>4. (OrderFor(b_n))' = OrderFor(m)
    BY <2>1 DEF OrderFor
  <2>5. /\ (b_property \in [Buddies!Pages -> 0 .. max_order])'
        /\ (b_flags \subseteq Buddies!Pages)'
        /\ (\A p \in b_flags : FreeBlock(p) \subseteq Buddies!Pages)'
        /\ Linked(b_links, OnLists, ListOf(b_property))'
        /\ (\A p, q \in b_flags : p # q => FreeBlock(p) \cap FreeBlock(q) = {})'
        /\ (\A p \in b_flags, b \in b_held : FreeBlock(p) \cap HeldBlock(b) = {})'
        /\ BuddyDisjoint'
    BY <2>1 DEF BuddyInv, OnLists, ListOf, Linked, FreeBlock, HeldBlock, BuddyDisjoint,
                Buddies!HeldDisjoint, Buddies!list_empty
  <2>6. QED
    BY <2>1, <2>2, <2>3, <2>4, <2>5 DEF BuddyInv
<1>4. CASE Buddies!Climb
  <2>1. /\ b_pc = "climb" /\ b_links' = b_links /\ b_property' = b_property
        /\ b_flags' = b_flags /\ b_held' = b_held /\ b_n' = b_n /\ b_order' = b_order
        /\ \/ b_pc' = "panic" /\ b_level' = b_level
           \/ b_pc' = "climb" /\ b_level' = b_level + 1
           \/ /\ b_pc' = "split" /\ b_level' = b_level /\ ~(b_level > max_order)
              /\ ~Buddies!list_empty(b_level)
    BY <1>4 DEF Buddies!Climb
  <2>2. /\ b_level \in Nat /\ b_order < b_level
        /\ b_order \in 0 .. max_order /\ b_order = OrderFor(b_n)
    BY <2>1 DEF BuddyInv
  <2>3. /\ b_pc' \in {"climb", "split"} => b_level' \in Nat /\ b_order < b_level'
        /\ b_pc' = "split" => b_level' <= max_order /\ ~Buddies!list_empty(b_level)'
    BY <2>1, <2>2, BuddyAssumption DEF Buddies!list_empty
  <2>4. (OrderFor(b_n))' = OrderFor(b_n)
    BY <2>1 DEF OrderFor
  <2>5. /\ (b_property \in [Buddies!Pages -> 0 .. max_order])'
        /\ (b_flags \subseteq Buddies!Pages)'
        /\ (\A p \in b_flags : FreeBlock(p) \subseteq Buddies!Pages)'
        /\ Linked(b_links, OnLists, ListOf(b_property))'
        /\ (\A p, q \in b_flags : p # q => FreeBlock(p) \cap FreeBlock(q) = {})'
        /\ (\A p \in b_flags, b \in b_held : FreeBlock(p) \cap HeldBlock(b) = {})'
        /\ BuddyDisjoint'
    BY <2>1 DEF BuddyInv, OnLists, ListOf, Linked, FreeBlock, HeldBlock, BuddyDisjoint,
                Buddies!HeldDisjoint, Buddies!list_empty
  <2>6. QED
    BY <2>1, <2>2, <2>3, <2>4, <2>5 DEF BuddyInv
<1>5. CASE Buddies!Panic
  BY <1>1, <1>5 DEF Buddies!Panic, Buddies!vars, b_vars
<1>6. QED
  BY <1>1, <1>2, <1>3, <1>4, <1>5, SplitKeepsBuddies, TakeKeepsBuddies
  DEF MCNext, Buddies!Alloc, b_vars

\* Before each step of buddy_alloc_pages the lists are circular and sorted by order,
\* and no page is in two blocks, free or handed out.
THEOREM BuddiesSafe == MCSpec => []BuddyInv
<1>1. MCInit => BuddyInv
  BY BuddyInit DEF MCInit
<1>2. QED
  BY <1>1, BuddyStep, PTL DEF MCSpec

\* The blocks that buddy_alloc_pages (buddy.c) hands out to callers that give none
\* back never overlap, for every max_order and every sequence of requests.
THEOREM BuddyBlocksAreDisjoint == MCSpec => []BuddyDisjoint
<1>1. BuddyInv => BuddyDisjoint
  BY DEF BuddyInv
<1>2. QED
  BY <1>1, BuddiesSafe, PTL

\* Without frees the lists of the buddy allocator are never damaged: buddy_split
\* (buddy.c) does not take a list head for a page and its halves stay in range.
THEOREM BuddyListsAreSound == MCSpec => []ListsSound
<1>1. BuddyInv => ListsSound
  <2> SUFFICES ASSUME BuddyInv  PROVE ListsSound
    OBVIOUS
  <2>1. ASSUME NEW k \in 0 .. max_order, ~Buddies!list_empty(k)
        PROVE  /\ b_links.next[Buddies!free_array(k)] \in b_flags
               /\ b_property[b_links.next[Buddies!free_array(k)]] = k
    <3> DEFINE head == Buddies!free_array(k)
               x == b_links.next[head]
               f == ListOf(b_property)
    <3>1. x \in OnLists /\ f[x] = f[head] /\ f[head] = k /\ x # head
      BY <2>1, BuddyNodes DEF BuddyInv, Linked, OnLists, Buddies!list_empty
    <3>2. x \in b_flags
      <4>1. ASSUME NEW j \in 0 .. max_order, x = Buddies!free_array(j)  PROVE FALSE
        <5>1. f[x] = j
          BY <4>1, BuddyNodes
        <5>2. QED
          BY <3>1, <4>1, <5>1
      <4>2. QED
        BY <3>1, <4>1 DEF OnLists
    <3>3. f[x] = b_property[x]
      BY <3>2, BuddyNodes DEF BuddyInv
    <3>4. QED
      BY <3>1, <3>2, <3>3
  <2>2. CASE b_pc = "split"
    <3> DEFINE left == b_links.next[Buddies!free_array(b_level)]
    <3>1. b_level \in 0 .. max_order /\ b_level - 1 \in Nat /\ ~Buddies!list_empty(b_level)
      BY <2>2, BuddyAssumption DEF BuddyInv
    <3>2. left \in b_flags /\ b_property[left] = b_level
      BY <2>1, <3>1
    <3>3. left \in Buddies!Pages /\ left \in Nat /\ FreeBlock(left) \subseteq Buddies!Pages
      BY <3>2, BuddyNodes DEF BuddyInv
    <3> DEFINE half == b_level - 1
               right == left + 2^half
    <3>4. right \in FreeBlock(left)
      <4>1. half \in Nat
        BY <3>1
      <4>2. 2^half \in Nat /\ half + 1 = b_level
        <5>1. half \in Nat /\ half + 1 = b_level
          BY <3>1, BuddyAssumption DEF BuddyInv
        <5> HIDE DEF half
        <5>2. QED
          BY <5>1, PowerIsCount
      <4> HIDE DEF half, left
      <4>3. right \in Buddies!Block(right, half)
        <5>1. right \in Nat
          BY <3>3, <4>2
        <5> HIDE DEF right
        <5>2. QED
          BY <4>1, <5>1, BlockHalves
      <4>4. Buddies!Block(right, half) \subseteq Buddies!Block(left, half + 1)
        <5>1. Buddies!Block(left, half) \cup Buddies!Block(left + 2^half, half)
                = Buddies!Block(left, half + 1)
          BY <3>3, <4>1, BlockHalves
        <5>2. QED
          BY <5>1 DEF right
      <4>5. QED
        BY <3>2, <4>2, <4>3, <4>4 DEF FreeBlock
    <3>5. QED
      BY <2>2, <3>1, <3>2, <3>3, <3>4, BuddyAssumption DEF ListsSound, Buddies!Splittable
  <2>3. CASE b_pc = "take"
    BY <2>1, <2>3 DEF BuddyInv, ListsSound
  <2>4. QED
    BY <2>2, <2>3 DEF ListsSound
<1>2. QED
  BY <1>1, BuddiesSafe, PTL
=============================================================================
