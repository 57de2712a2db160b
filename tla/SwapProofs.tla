------------------------------ MODULE SwapProofs ------------------------------
(***************************************************************************)
(* Proofs about page replacement under FIFO and clock, for every number of *)
(* pages and frames and every history of faults and stores.                *)
(***************************************************************************)
EXTENDS Swap, Lemmas

Data == Values \cup {Leftover}
Slots == 1 .. SwapSlots - 1
Pte == [kind : {"frame", "slot"}, at : Nat]

\* The values m and pra may have.
Machine == [free : SUBSET Frames, data : [Frames -> Data], pra_vaddr : [Frames -> 0 .. NPages],
            pte : [Pages -> Pte \cup {NoPte}], disk : [Slots -> Data]]

List == [next : [Nodes -> Nodes], prev : [Nodes -> Nodes], visited : [Frames -> {0, 1}],
         curr : Nodes]

\* Frames, page table and disk fit together: a frame in use knows its page, whose
\* entry names that frame, a page on the disk is in the slot of its own, and a
\* free frame has nothing of anyone.
Fits(s) ==
  /\ s \in Machine
  /\ \A f \in Frames : IF f \in s.free THEN s.data[f] = Leftover
                       ELSE /\ s.pra_vaddr[f] \in Pages
                            /\ s.pte[s.pra_vaddr[f]] = [kind |-> "frame", at |-> f]
  /\ \A v \in Pages : s.pte[v] # NoPte =>
       IF s.pte[v].kind = "frame"
       THEN /\ s.pte[v].at \in Frames \ s.free
            /\ s.pra_vaddr[s.pte[v].at] = v
       ELSE s.pte[v].at = Slot(v)

\* c is the list of the resident pages.
Resides(s, c) ==
  /\ c \in Seq(Pages)
  /\ \A i, j \in DOMAIN c : c[i] = c[j] => i = j
  /\ \A v \in Pages : Resident(s, v) <=> \E i \in DOMAIN c : c[i] = v

\* Their frames, the longest resident first.
Order(s, c) == [i \in DOMAIN c |-> s.pte[c[i]].at]

\* The pointers that lead from the oldest page to the newest and back: fifo links
\* a page behind the head, clock before it.
Newer(l) == IF sm = "clock" THEN l.next ELSE l.prev
Older(l) == IF sm = "clock" THEN l.prev ELSE l.next

\* The node at place i of a ring, the head at both its ends, and the pointers of
\* a ring that has the frames q.
At(q, i) == IF i \in DOMAIN q THEN q[i] ELSE head

Ring(next, prev, q) ==
  \A i \in 0 .. Len(q) : next[At(q, i)] = At(q, i + 1) /\ prev[At(q, i + 1)] = At(q, i)

\* Where the clock hand rests between faults: on the head before the first
\* eviction, when every bit is set; then on the newest page, and only its is.
Hand(l, q) ==
  \/ l.curr = head /\ (sm = "clock" => \A i \in DOMAIN q : l.visited[q[i]] = 1)
  \/ /\ sm = "clock" /\ q # <<>> /\ l.curr = q[Len(q)]
     /\ \A i \in DOMAIN q : l.visited[q[i]] = IF i = Len(q) THEN 1 ELSE 0

\* The inductive invariant.
SwapInv ==
  /\ sm \in {"fifo", "clock"}
  /\ Fits(m) /\ Resides(m, come)
  /\ pra \in List
  /\ Ring(Newer(pra), Older(pra), Order(m, come))
  /\ Hand(pra, Order(m, come))
  /\ pra.curr # head => m.free = {}
-----------------------------------------------------------------------------
\* Places on a ring, at its ends and after a frame was added or taken away.
LEMMA Places ==
  ASSUME NEW q \in Seq(Frames)
  PROVE  /\ Len(q) \in Nat /\ DOMAIN q = 1 .. Len(q)
         /\ \A i \in DOMAIN q : q[i] \in Frames /\ q[i] # head /\ At(q, i) = q[i]
         /\ At(q, 0) = head /\ At(q, Len(q) + 1) = head
         /\ \A i \in Int : At(q, i) \in Nodes
<1>1. Len(q) \in Nat /\ DOMAIN q = 1 .. Len(q) /\ \A i \in DOMAIN q : q[i] \in Frames
  BY LenProperties, ElementOfSeq
<1>2. head \notin Frames
  BY DEF head, Frames
<1>3. QED
  BY <1>1, <1>2 DEF At, Nodes

LEMMA PlacesAppended ==
  ASSUME NEW q \in Seq(Frames), NEW f \in Frames
  PROVE  /\ Append(q, f) \in Seq(Frames) /\ Len(Append(q, f)) = Len(q) + 1
         /\ \A i \in 0 .. Len(q) : At(Append(q, f), i) = At(q, i)
         /\ At(Append(q, f), Len(q) + 1) = f /\ At(Append(q, f), Len(q) + 2) = head
<1>1. Len(q) \in Nat /\ DOMAIN q = 1 .. Len(q)
  BY Places
<1>2. /\ Append(q, f) \in Seq(Frames) /\ Len(Append(q, f)) = Len(q) + 1
      /\ \A i \in 1 .. Len(q) : Append(q, f)[i] = q[i]
      /\ Append(q, f)[Len(q) + 1] = f
  BY AppendProperties
<1>3. DOMAIN Append(q, f) = 1 .. Len(q) + 1
  BY <1>2, LenProperties
<1>4. QED
  BY <1>1, <1>2, <1>3 DEF At

LEMMA PlacesBehind ==
  ASSUME NEW q \in Seq(Frames), q # <<>>
  PROVE  /\ Tail(q) \in Seq(Frames) /\ Len(Tail(q)) = Len(q) - 1 /\ Len(q) \in Nat \ {0}
         /\ \A i \in DOMAIN Tail(q) : i + 1 \in DOMAIN q /\ Tail(q)[i] = q[i + 1]
         /\ At(Tail(q), 0) = head
         /\ \A i \in 1 .. Len(q) : At(Tail(q), i) = At(q, i + 1)
<1>1. Len(q) \in Nat \ {0} /\ DOMAIN q = 1 .. Len(q)
  BY Places, EmptySeq
<1>2. /\ Tail(q) \in Seq(Frames) /\ Len(Tail(q)) = Len(q) - 1
      /\ \A i \in 1 .. Len(Tail(q)) : Tail(q)[i] = q[i + 1]
  BY HeadTailProperties
<1>3. DOMAIN Tail(q) = 1 .. Len(q) - 1
  BY <1>2, LenProperties
<1>4. QED
  BY <1>1, <1>2, <1>3 DEF At

Injective(q) == \A i, j \in DOMAIN q : q[i] = q[j] => i = j

\* list_add before or behind the head, seen from the oldest page: the new frame
\* comes last.
LEMMA RingAdd ==
  ASSUME NEW q \in Seq(Frames), Injective(q), NEW next \in [Nodes -> Nodes],
         NEW prev \in [Nodes -> Nodes], Ring(next, prev, q),
         NEW f \in Frames, \A i \in DOMAIN q : q[i] # f,
         NEW last, last = prev[head],
         NEW next2, next2 = [next EXCEPT ![last] = f, ![f] = head],
         NEW prev2, prev2 = [prev EXCEPT ![head] = f, ![f] = last]
  PROVE  Ring(next2, prev2, Append(q, f))
<1>1. /\ Len(q) \in Nat /\ DOMAIN q = 1 .. Len(q)
      /\ \A i \in DOMAIN q : q[i] \in Frames /\ q[i] # head /\ At(q, i) = q[i]
      /\ At(q, 0) = head /\ At(q, Len(q) + 1) = head
      /\ \A i \in Int : At(q, i) \in Nodes
  BY Places
<1>2. last = At(q, Len(q)) /\ last \in Nodes /\ head \in Nodes /\ f \in Nodes /\ f # head
  BY <1>1 DEF Ring, Nodes, head, Frames
<1>3. f # last
  BY <1>1, <1>2
<1> DEFINE r == Append(q, f)
<1>4. /\ Len(r) = Len(q) + 1
      /\ \A i \in 0 .. Len(q) : At(r, i) = At(q, i)
      /\ At(r, Len(q) + 1) = f /\ At(r, Len(q) + 2) = head
  BY PlacesAppended
<1> HIDE DEF r
<1> SUFFICES ASSUME NEW i \in 0 .. Len(q) + 1
             PROVE  next2[At(r, i)] = At(r, i + 1) /\ prev2[At(r, i + 1)] = At(r, i)
  BY <1>4 DEF Ring, r
<1>5. CASE i = Len(q) + 1
  <2>1. At(r, i) = f /\ At(r, i + 1) = head
    BY <1>1, <1>4, <1>5
  <2>2. QED
    BY <1>2, <1>3, <2>1
<1>6. CASE i = Len(q)
  <2>1. At(r, i) = last /\ At(r, i + 1) = f
    BY <1>1, <1>2, <1>4, <1>6
  <2>2. QED
    BY <1>2, <1>3, <2>1
<1>7. CASE i < Len(q)
  <2>0. i \in 0 .. Len(q) /\ i + 1 \in 1 .. Len(q) /\ (i # 0 => i \in 1 .. Len(q))
    BY <1>1, <1>7
  <2>1. At(r, i) = At(q, i) /\ At(r, i + 1) = At(q, i + 1)
    BY <1>1, <1>4, <2>0
  <2>2. next[At(q, i)] = At(q, i + 1) /\ prev[At(q, i + 1)] = At(q, i)
    BY <2>0 DEF Ring
  <2>3. At(q, i + 1) # head /\ At(q, i + 1) # f
    BY <1>1, <1>7
  <2>4. At(q, i) # last /\ At(q, i) # f
    <3>1. CASE i = 0
      BY <1>1, <1>2, <1>7, <3>1
    <3>2. CASE i # 0
      <4>1. i \in DOMAIN q /\ Len(q) \in DOMAIN q /\ i # Len(q)
        <5>1. PICK n \in Nat : n = Len(q)
          BY <1>1
        <5>2. i \in 1 .. n /\ n \in 1 .. n /\ i # n
          BY <1>7, <2>0, <3>2, <5>1
        <5>3. QED
          BY <1>1, <5>1, <5>2
      <4>2. QED
        BY <1>1, <1>2, <4>1 DEF Injective
    <3>3. QED
      BY <3>1, <3>2
  <2>5. At(q, i) \in Nodes /\ At(q, i + 1) \in Nodes
    BY <1>1
  <2>6. QED
    BY <1>2, <2>1, <2>2, <2>3, <2>4, <2>5
<1>8. i = Len(q) + 1 \/ i = Len(q) \/ i < Len(q)
  <2>1. PICK n \in Nat : n = Len(q)
    BY <1>1
  <2>2. i \in 0 .. n + 1
    BY <2>1
  <2>3. i = n + 1 \/ i = n \/ i < n
    BY <2>2
  <2>4. QED
    BY <2>1, <2>3
<1>9. QED
  BY <1>5, <1>6, <1>7, <1>8

\* list_del of the oldest page.
LEMMA RingDel ==
  ASSUME NEW q \in Seq(Frames), Injective(q), q # <<>>, NEW next \in [Nodes -> Nodes],
         NEW prev \in [Nodes -> Nodes], Ring(next, prev, q),
         NEW next2, next2 = [next EXCEPT ![prev[q[1]]] = next[q[1]]],
         NEW prev2, prev2 = [prev EXCEPT ![next[q[1]]] = prev[q[1]]]
  PROVE  Ring(next2, prev2, Tail(q))
<1>1. /\ Len(q) \in Nat /\ DOMAIN q = 1 .. Len(q)
      /\ \A i \in DOMAIN q : q[i] \in Frames /\ q[i] # head /\ At(q, i) = q[i]
      /\ At(q, 0) = head /\ At(q, Len(q) + 1) = head
      /\ \A i \in Int : At(q, i) \in Nodes
  BY Places
<1> DEFINE r == Tail(q)
<1>2. /\ Len(r) = Len(q) - 1 /\ Len(q) \in Nat \ {0}
      /\ At(r, 0) = head
      /\ \A i \in 1 .. Len(q) : At(r, i) = At(q, i + 1)
  BY PlacesBehind
<1> HIDE DEF r
<1>3. At(q, 1) = q[1] /\ head \in Nodes
  BY <1>1, <1>2 DEF Nodes
<1>4. next[q[1]] = At(q, 2) /\ prev[q[1]] = head
  <2>1. 0 \in 0 .. Len(q) /\ 1 \in 0 .. Len(q)
    BY <1>2
  <2>2. next[At(q, 1)] = At(q, 1 + 1) /\ prev[At(q, 0 + 1)] = At(q, 0)
    BY <2>1 DEF Ring
  <2>3. QED
    BY <1>1, <1>3, <2>2
<1>5. next2 = [next EXCEPT ![head] = At(q, 2)] /\ prev2 = [prev EXCEPT ![At(q, 2)] = head]
  BY <1>4
<1>6. At(q, 2) \in Nodes
  BY <1>1
<1> SUFFICES ASSUME NEW i \in 0 .. Len(q) - 1
             PROVE  next2[At(r, i)] = At(r, i + 1) /\ prev2[At(r, i + 1)] = At(r, i)
  BY <1>2 DEF Ring, r
<1>7. CASE i = 0
  <2>1. At(r, 0) = head /\ At(r, 1) = At(q, 2)
    BY <1>2
  <2>2. QED
    BY <1>3, <1>5, <1>6, <1>7, <2>1
<1>8. CASE i # 0
  <2>1. At(r, i) = At(q, i + 1) /\ At(r, i + 1) = At(q, i + 2)
    BY <1>1, <1>2, <1>8
  <2>2. next[At(q, i + 1)] = At(q, i + 2) /\ prev[At(q, i + 2)] = At(q, i + 1)
    <3>1. i + 1 \in 0 .. Len(q)
      BY <1>2
    <3>2. next[At(q, i + 1)] = At(q, i + 1 + 1) /\ prev[At(q, i + 1 + 1)] = At(q, i + 1)
      BY <3>1 DEF Ring
    <3>3. i + 1 + 1 = i + 2
      OBVIOUS
    <3>4. QED
      BY <3>2, <3>3
  <2>3. i + 1 \in DOMAIN q /\ 2 \in DOMAIN q
    BY <1>1, <1>8
  <2>4. At(q, i + 1) # head
    BY <1>1, <2>3
  <2>5. At(q, i + 2) # At(q, 2)
    <3>1. CASE i + 2 \in DOMAIN q
      <4>1. i + 2 # 2 /\ At(q, i + 2) = q[i + 2] /\ At(q, 2) = q[2]
        BY <1>1, <1>8, <2>3, <3>1
      <4>2. QED
        BY <2>3, <3>1, <4>1 DEF Injective
    <3>2. CASE i + 2 \notin DOMAIN q
      <4>1. At(q, i + 2) = head
        BY <3>2 DEF At
      <4>2. QED
        BY <1>1, <2>3, <4>1
    <3>3. QED
      BY <3>1, <3>2
  <2>6. At(q, i + 1) \in Nodes /\ At(q, i + 2) \in Nodes
    BY <1>1
  <2>7. QED
    BY <1>5, <1>6, <2>1, <2>2, <2>4, <2>5, <2>6
<1>9. QED
  BY <1>7, <1>8
-----------------------------------------------------------------------------
LEMMA ListFields ==
  ASSUME NEW l \in List
  PROVE  /\ l.next \in [Nodes -> Nodes] /\ l.prev \in [Nodes -> Nodes]
         /\ l.visited \in [Frames -> {0, 1}] /\ l.curr \in Nodes
  BY DEF List

\* list_del of the oldest page leaves the ring of the others.
LEMMA DelOldest ==
  ASSUME sm \in {"fifo", "clock"}, NEW l \in List, NEW q \in Seq(Frames), Injective(q), q # <<>>,
         Ring(Newer(l), Older(l), q), NEW t, t = list_del(l, q[1])
  PROVE  /\ t \in List /\ Ring(Newer(t), Older(t), Tail(q))
         /\ t.visited = l.visited /\ t.curr = l.curr
<1>1. q[1] \in Frames /\ q[1] \in Nodes
  BY Places, EmptySeq DEF Nodes
<1>2. /\ l.next \in [Nodes -> Nodes] /\ l.prev \in [Nodes -> Nodes]
      /\ l.visited \in [Frames -> {0, 1}] /\ l.curr \in Nodes
  BY ListFields
<1> DEFINE e == q[1]
<1>3. /\ t.next = [l.next EXCEPT ![l.prev[e]] = l.next[e]]
      /\ t.prev = [l.prev EXCEPT ![l.next[e]] = l.prev[e]]
      /\ t.visited = l.visited /\ t.curr = l.curr
      /\ t = [next |-> t.next, prev |-> t.prev, visited |-> t.visited, curr |-> t.curr]
  <2> HIDE DEF e
  <2>1. l = [next |-> l.next, prev |-> l.prev, visited |-> l.visited, curr |-> l.curr]
    BY DEF List
  <2>2. t = [l EXCEPT !.next = [l.next EXCEPT ![l.prev[e]] = l.next[e]],
                      !.prev = [l.prev EXCEPT ![l.next[e]] = l.prev[e]]]
    BY DEF list_del, e
  <2>3. PICK nx, pv : /\ nx = [l.next EXCEPT ![l.prev[e]] = l.next[e]]
                      /\ pv = [l.prev EXCEPT ![l.next[e]] = l.prev[e]]
    OBVIOUS
  <2>4. t = [next |-> nx, prev |-> pv, visited |-> l.visited, curr |-> l.curr]
    BY <2>1, <2>2, <2>3
  <2>5. QED
    BY <2>3, <2>4
<1>4. t.next \in [Nodes -> Nodes] /\ t.prev \in [Nodes -> Nodes]
  BY <1>1, <1>2, <1>3
<1>5. t \in List
  BY <1>2, <1>3, <1>4 DEF List
<1>6. PICK next, prev, next2, prev2 : /\ next = Newer(l) /\ prev = Older(l)
                                      /\ next2 = Newer(t) /\ prev2 = Older(t)
  OBVIOUS
<1>7. /\ next \in [Nodes -> Nodes] /\ prev \in [Nodes -> Nodes] /\ Ring(next, prev, q)
      /\ next2 = [next EXCEPT ![prev[q[1]]] = next[q[1]]]
      /\ prev2 = [prev EXCEPT ![next[q[1]]] = prev[q[1]]]
  BY <1>2, <1>3, <1>6 DEF Newer, Older
<1>8. Ring(next2, prev2, Tail(q))
  BY <1>7, RingDel
<1>9. QED
  BY <1>3, <1>5, <1>6, <1>8

\* How far the hand has come on its way over the pages q, oldest first: it has
\* cleared the bits of the first j, and after one more turn stands on the oldest.
Swept(l, x, q, j) ==
  /\ x.next = l.next /\ x.prev = l.prev
  /\ \A i \in DOMAIN q : x.visited[q[i]] = IF i <= j THEN 0 ELSE 1
  /\ IF j = Len(q) + 1 THEN x.curr = q[1]
     ELSE x.curr = At(q, j + 1) \/ (j = 0 /\ x.curr = head)

LEMMA TurnInList ==
  ASSUME NEW x \in List
  PROVE  /\ Turn(x) \in List
         /\ Turn(x).next = x.next /\ Turn(x).prev = x.prev
<1> DEFINE at == IF x.curr = head THEN x.next[head] ELSE x.curr
<1>1. /\ x.next \in [Nodes -> Nodes] /\ x.prev \in [Nodes -> Nodes]
      /\ x.visited \in [Frames -> {0, 1}] /\ x.curr \in Nodes
  BY ListFields
<1>2. at \in Nodes
  BY <1>1 DEF Nodes
<1> HIDE DEF at
<1>3. x.next[at] \in Nodes /\ [x.visited EXCEPT ![at] = 0] \in [Frames -> {0, 1}]
  BY <1>1, <1>2
<1>4. Turn(x) = IF x.visited[at] # 1 THEN [x EXCEPT !.curr = at]
                ELSE [x EXCEPT !.visited[at] = 0, !.curr = x.next[at]]
  BY DEF Turn, at
<1>5. QED
  BY <1>2, <1>3, <1>4 DEF List

LEMMA TurnGoesOn ==
  ASSUME NEW l, NEW x \in List, NEW q \in Seq(Frames), Injective(q), q # <<>>,
         Ring(l.next, l.prev, q), NEW j \in 0 .. Len(q), Swept(l, x, q, j)
  PROVE  ~Stopped(x) /\ Swept(l, Turn(x), q, j + 1)
<1>1. PICK n \in Nat \ {0} : n = Len(q)
  BY Places, EmptySeq
<1>2. /\ DOMAIN q = 1 .. n
      /\ \A i \in DOMAIN q : q[i] \in Frames /\ q[i] # head /\ At(q, i) = q[i]
      /\ At(q, 0) = head /\ At(q, n + 1) = head
  BY <1>1, Places
<1>3. \A i \in 0 .. n : x.next[At(q, i)] = At(q, i + 1)
  BY <1>1 DEF Ring, Swept
<1>4. x.visited \in [Frames -> {0, 1}]
  BY ListFields
<1>5. x.next = l.next /\ x.prev = l.prev
      /\ (\A i \in DOMAIN q : x.visited[q[i]] = IF i <= j THEN 0 ELSE 1)
  BY DEF Swept
<1>6. x.curr = At(q, j + 1) \/ (j = 0 /\ x.curr = head)
  BY <1>1 DEF Swept
<1>7. x.next[head] = q[1]
  <2>1. x.next[At(q, 0)] = At(q, 0 + 1)
    BY <1>3
  <2>2. QED
    BY <1>2, <2>1
<1>8. CASE j < n
  <2>1. j + 1 \in DOMAIN q /\ At(q, j + 1) = q[j + 1] /\ q[j + 1] \in Frames /\ q[j + 1] # head
    BY <1>1, <1>2, <1>8
  <2>2. x.visited[q[j + 1]] = 1
    BY <1>5, <2>1
  <2>3. ~Stopped(x)
    BY <1>6, <2>1, <2>2 DEF Stopped
  <2>4. PICK at : at = IF x.curr = head THEN x.next[head] ELSE x.curr
    OBVIOUS
  <2>5. at = q[j + 1]
    BY <1>6, <1>7, <2>1, <2>4
  <2>6. Turn(x) = [x EXCEPT !.visited[at] = 0, !.curr = x.next[at]]
    BY <2>2, <2>4, <2>5 DEF Turn
  <2>7. /\ Turn(x).visited = [x.visited EXCEPT ![at] = 0] /\ Turn(x).curr = x.next[at]
        /\ Turn(x).next = x.next /\ Turn(x).prev = x.prev
    BY <2>6 DEF List
  <2>8. Turn(x).curr = At(q, j + 2)
    <3>1. j + 1 \in 0 .. n /\ (j + 1) + 1 = j + 2
      BY <1>1, <1>8
    <3>2. QED
      BY <1>3, <2>1, <2>5, <2>7, <3>1
  <2>9. ASSUME NEW i \in DOMAIN q
        PROVE  Turn(x).visited[q[i]] = IF i <= j + 1 THEN 0 ELSE 1
    <3>1. q[i] = q[j + 1] <=> i = j + 1
      BY <2>1 DEF Injective
    <3>2. Turn(x).visited[q[i]] = IF q[i] = q[j + 1] THEN 0 ELSE x.visited[q[i]]
      BY <1>2, <1>4, <2>5, <2>7
    <3>3. i \in 1 .. n /\ j \in 0 .. n
      BY <1>1, <1>2
    <3>4. QED
      BY <1>5, <3>1, <3>2, <3>3
  <2>10. j + 1 # n + 1 /\ (j + 1) + 1 = j + 2
    BY <1>1, <1>8
  <2>11. QED
    BY <1>1, <1>5, <2>3, <2>7, <2>8, <2>9, <2>10 DEF Swept
<1>9. CASE j = n
  <2>1. x.curr = head
    BY <1>1, <1>2, <1>6, <1>9
  <2>2. x.visited[q[1]] = 0
    BY <1>1, <1>2, <1>5, <1>9
  <2>3. Turn(x) = [x EXCEPT !.curr = q[1]]
    BY <1>7, <2>1, <2>2 DEF Turn
  <2>4. /\ Turn(x).visited = x.visited /\ Turn(x).curr = q[1]
        /\ Turn(x).next = x.next /\ Turn(x).prev = x.prev
    BY <2>3 DEF List
  <2>5. \A i \in DOMAIN q : i <= j /\ i <= j + 1
    BY <1>1, <1>2, <1>9
  <2>6. QED
    BY <1>1, <1>5, <1>9, <2>1, <2>4, <2>5 DEF Swept, Stopped
<1>10. QED
  BY <1>1, <1>8, <1>9

LEMMA HandStops ==
  ASSUME NEW l, NEW x, NEW q \in Seq(Frames), q # <<>>, Swept(l, x, q, Len(q) + 1)
  PROVE  Stopped(x)
<1>1. PICK n \in Nat \ {0} : n = Len(q)
  BY Places, EmptySeq
<1>2. 1 \in DOMAIN q /\ q[1] # head /\ 1 <= n + 1
  BY <1>1, Places
<1>3. QED
  BY <1>1, <1>2 DEF Swept, Stopped

\* No list holds more frames than there are.
LEMMA NoMoreThanFrames ==
  ASSUME NEW q \in Seq(Frames), Injective(q)
  PROVE  Len(q) <= NFrames
<1>1. PICK n \in Nat : n = Len(q) /\ DOMAIN q = 1 .. n /\ \A i \in 1 .. n : q[i] \in Frames
  BY Places
<1>2. NFrames \in Nat \ {0}
  BY SwapAssumption
<1>3. /\ IsFiniteSet(1 .. n) /\ Cardinality(1 .. n) = n
      /\ IsFiniteSet(Frames) /\ Cardinality(Frames) = NFrames
  <2>1. 1 \in Int /\ n \in Int /\ NFrames \in Int
    BY <1>2
  <2>2. /\ IsFiniteSet(1 .. n) /\ Cardinality(1 .. n) = IF 1 > n THEN 0 ELSE n - 1 + 1
        /\ IsFiniteSet(1 .. NFrames)
        /\ Cardinality(1 .. NFrames) = IF 1 > NFrames THEN 0 ELSE NFrames - 1 + 1
    BY <2>1, FS_Interval
  <2>3. QED
    BY <1>2, <2>2 DEF Frames
<1>4. ASSUME n > NFrames PROVE FALSE
  <2> DEFINE f == [i \in 1 .. n |-> q[i]]
  <2>1. f \in [1 .. n -> Frames]
    BY <1>1
  <2>2. PICK i, j \in 1 .. n : i # j /\ f[i] = f[j]
    <3>1. Cardinality(Frames) < Cardinality(1 .. n)
      BY <1>2, <1>3, <1>4
    <3> HIDE DEF f
    <3>2. QED
      BY <1>3, <2>1, <3>1, FS_PigeonHole
  <2>3. QED
    BY <1>1, <2>2 DEF Injective
<1>5. QED
  BY <1>1, <1>2, <1>4

\* The clock's loop ends on the oldest page with every bit cleared.
LEMMA SweepEnds ==
  ASSUME NEW l \in List, NEW q \in Seq(Frames), Injective(q), q # <<>>,
         Ring(l.next, l.prev, q), NEW j0 \in 0 .. Len(q), Swept(l, l, q, j0),
         NEW N \in Nat, N >= Len(q) + 1, NEW g,
         \A k \in 0 .. N : g[k] = IF k = 0 THEN l
                                  ELSE IF Stopped(g[k - 1]) THEN g[k - 1] ELSE Turn(g[k - 1])
  PROVE  g[N] \in List /\ Swept(l, g[N], q, Len(q) + 1)
<1>1. PICK n \in Nat \ {0} : n = Len(q)
  BY Places, EmptySeq
<1> DEFINE Far(x, k) == \E j \in 0 .. n + 1 : (j >= k \/ j = n + 1) /\ Swept(l, x, q, j)
           K == {k \in Nat : k <= N => g[k] \in List /\ Far(g[k], k)}
<1>2. 0 \in K
  <2>1. g[0] = l /\ j0 \in 0 .. n + 1 /\ j0 >= 0
    BY <1>1
  <2>2. Far(l, 0)
    BY <2>1
  <2> HIDE DEF Far
  <2>3. QED
    BY <2>1, <2>2
<1>3. ASSUME NEW k \in Nat, k \in K PROVE k + 1 \in K
  <2> SUFFICES ASSUME k + 1 <= N PROVE g[k + 1] \in List /\ Far(g[k + 1], k + 1)
    OBVIOUS
  <2>1. PICK x : x = g[k]
    OBVIOUS
  <2>2. x \in List /\ Far(x, k)
    BY <1>3, <2>1
  <2>3. g[k + 1] = IF Stopped(x) THEN x ELSE Turn(x)
    <3>1. k + 1 \in 0 .. N /\ k + 1 # 0 /\ (k + 1) - 1 = k
      OBVIOUS
    <3>2. QED
      BY <2>1, <3>1
  <2>4. PICK j \in 0 .. n + 1 : (j >= k \/ j = n + 1) /\ Swept(l, x, q, j)
    BY <2>2
  <2>5. CASE j = n + 1
    <3>1. g[k + 1] = x
      BY <1>1, <2>3, <2>4, <2>5, HandStops
    <3>2. Far(x, k + 1)
      BY <2>4, <2>5
    <3> HIDE DEF Far
    <3>3. QED
      BY <2>2, <3>1, <3>2
  <2>6. CASE j # n + 1
    <3>1. j \in 0 .. Len(q) /\ j + 1 \in 0 .. n + 1 /\ j + 1 >= k + 1
      BY <1>1, <2>4, <2>6
    <3>2. g[k + 1] = Turn(x) /\ Swept(l, Turn(x), q, j + 1)
      BY <2>2, <2>3, <2>4, <3>1, TurnGoesOn
    <3>3. Turn(x) \in List
      BY <2>2, TurnInList
    <3>4. Far(Turn(x), k + 1)
      BY <3>1, <3>2
    <3> HIDE DEF Far
    <3>5. QED
      BY <3>2, <3>3, <3>4
  <2> HIDE DEF Far
  <2>7. QED
    BY <2>5, <2>6
<1>4. N \in K
  <2> HIDE DEF K
  <2>1. QED
    BY <1>2, <1>3, NatSetInduction
<1>5. g[N] \in List /\ Far(g[N], N)
  BY <1>4
<1>6. PICK j \in 0 .. n + 1 : (j >= N \/ j = n + 1) /\ Swept(l, g[N], q, j)
  BY <1>5
<1>7. j = n + 1
  BY <1>1, <1>6
<1>8. QED
  BY <1>1, <1>5, <1>6, <1>7

LEMMA ClockVictim ==
  ASSUME NEW l \in List, NEW q \in Seq(Frames), Injective(q), q # <<>>,
         Ring(l.next, l.prev, q), NEW j0 \in 0 .. Len(q), Swept(l, l, q, j0)
  PROVE  \E x \in List : /\ Swept(l, x, q, Len(q) + 1)
                         /\ clock_victim(l) = [page |-> x.curr, list |-> list_del(x, x.curr)]
<1> DEFINE N == 2 * NFrames + 2
           step == [x \in List |-> IF Stopped(x) THEN x ELSE Turn(x)]
           Runs(g) == g = [k \in 0 .. N |->
                            IF k = 0 THEN l
                            ELSE IF Stopped(g[k - 1]) THEN g[k - 1] ELSE Turn(g[k - 1])]
           sweep == CHOOSE g : Runs(g)
<1>1. N \in Nat /\ N >= Len(q) + 1
  BY SwapAssumption, NoMoreThanFrames, Places
<1>2. \E g : Runs(g)
  <2>1. step \in [List -> List]
    BY TurnInList
  <2>2. PICK g \in [0 .. N -> List] : Iterates(g, N, l, step)
    <3> HIDE DEF step, N
    <3>1. QED
      BY <1>1, <2>1, IterationExists
  <2>3. ASSUME NEW k \in 0 .. N, k # 0
        PROVE  step[g[k - 1]] = IF Stopped(g[k - 1]) THEN g[k - 1] ELSE Turn(g[k - 1])
    <3>1. k - 1 \in 0 .. N /\ g[k - 1] \in List
      BY <1>1, <2>2, <2>3
    <3>2. QED
      BY <3>1
  <2> HIDE DEF step, N
  <2>4. Runs(g)
    BY <2>2, <2>3 DEF Iterates
  <2>5. QED
    BY <2>4
<1>3. Runs(sweep)
  <2> HIDE DEF Runs
  <2>1. QED
    BY <1>2
<1>4. clock_victim(l) = [page |-> sweep[N].curr, list |-> list_del(sweep[N], sweep[N].curr)]
  BY DEF clock_victim
<1> HIDE DEF sweep, N
<1>5. \A k \in 0 .. N : sweep[k] = IF k = 0 THEN l
                                   ELSE IF Stopped(sweep[k - 1]) THEN sweep[k - 1]
                                   ELSE Turn(sweep[k - 1])
  BY <1>3
<1>6. sweep[N] \in List /\ Swept(l, sweep[N], q, Len(q) + 1)
  BY <1>1, <1>5, SweepEnds
<1>7. QED
  BY <1>4, <1>6

\* Who leaves, under either policy, and what it leaves behind.
LEMMA Victim ==
  ASSUME sm \in {"fifo", "clock"}, NEW l \in List, NEW q \in Seq(Frames), Injective(q), q # <<>>,
         Ring(Newer(l), Older(l), q), Hand(l, q), NEW out, out = victim(l)
  PROVE  /\ out.page = q[1]
         /\ out.list \in List /\ Ring(Newer(out.list), Older(out.list), Tail(q))
         /\ IF sm = "clock"
            THEN out.list.curr = q[1] /\ \A i \in DOMAIN q : out.list.visited[q[i]] = 0
            ELSE out.list.curr = head
<1>1. PICK n \in Nat \ {0} : n = Len(q)
  BY Places, EmptySeq
<1>2. /\ DOMAIN q = 1 .. n
      /\ \A i \in DOMAIN q : q[i] \in Frames /\ q[i] # head /\ At(q, i) = q[i]
      /\ At(q, 0) = head /\ At(q, n + 1) = head
  BY <1>1, Places
<1>3. CASE sm = "fifo"
  <2>1. l.prev[At(q, 0)] = At(q, 0 + 1)
    BY <1>1, <1>3 DEF Ring, Newer
  <2>2. l.prev[head] = q[1]
    BY <1>2, <2>1
  <2>3. out.page = q[1] /\ out.list = list_del(l, q[1])
    BY <1>3, <2>2 DEF victim, fifo_victim
  <2>4. l.curr = head
    BY <1>3 DEF Hand
  <2>5. QED
    BY <1>3, <2>3, <2>4, DelOldest
<1>4. CASE sm = "clock"
  <2>1. Ring(l.next, l.prev, q)
    BY <1>4 DEF Newer, Older
  <2>2. \E j \in 0 .. Len(q) : Swept(l, l, q, j)
    <3>1. CASE l.curr = head /\ \A i \in DOMAIN q : l.visited[q[i]] = 1
      <4>1. \A i \in DOMAIN q : ~(i <= 0)
        BY <1>2
      <4>2. Swept(l, l, q, 0)
        BY <1>1, <3>1, <4>1 DEF Swept
      <4>3. QED
        BY <1>1, <4>2
    <3>2. CASE /\ l.curr = q[Len(q)]
               /\ \A i \in DOMAIN q : l.visited[q[i]] = IF i = Len(q) THEN 1 ELSE 0
      <4>1. n - 1 \in 0 .. Len(q) /\ n - 1 # Len(q) + 1 /\ (n - 1) + 1 = n
        BY <1>1
      <4>2. l.curr = At(q, n)
        BY <1>1, <1>2, <3>2
      <4>3. ASSUME NEW i \in DOMAIN q PROVE l.visited[q[i]] = IF i <= n - 1 THEN 0 ELSE 1
        <5>1. i \in 1 .. n /\ (i = n <=> ~(i <= n - 1))
          BY <1>1, <1>2
        <5>2. QED
          BY <1>1, <3>2, <5>1
      <4>4. Swept(l, l, q, n - 1)
        BY <4>1, <4>2, <4>3 DEF Swept
      <4>5. QED
        BY <4>1, <4>4
    <3>3. QED
      BY <1>4, <3>1, <3>2 DEF Hand
  <2>3. PICK x \in List : /\ Swept(l, x, q, Len(q) + 1)
                          /\ clock_victim(l) = [page |-> x.curr, list |-> list_del(x, x.curr)]
    BY <2>1, <2>2, ClockVictim
  <2>4. /\ x.next = l.next /\ x.prev = l.prev /\ x.curr = q[1]
        /\ \A i \in DOMAIN q : x.visited[q[i]] = 0
    <3>1. \A i \in DOMAIN q : i <= Len(q) + 1
      BY <1>1, <1>2
    <3>2. QED
      BY <2>3, <3>1 DEF Swept
  <2>5. out.page = q[1] /\ out.list = list_del(x, q[1])
    BY <1>4, <2>3, <2>4 DEF victim
  <2>6. Ring(Newer(x), Older(x), q)
    BY <1>4, <2>1, <2>4 DEF Newer, Older
  <2>7. QED
    BY <1>4, <2>4, <2>5, <2>6, DelOldest
<1>5. QED
  BY <1>3, <1>4
-----------------------------------------------------------------------------
\* The frames of the resident pages: all the frames in use, each once.
LEMMA OrderFits ==
  ASSUME NEW s, Fits(s), NEW c, Resides(s, c), NEW q, q = Order(s, c)
  PROVE  /\ q \in Seq(Frames) /\ Injective(q)
         /\ Len(q) \in Nat /\ Len(q) = Len(c) /\ DOMAIN c = 1 .. Len(q) /\ DOMAIN q = 1 .. Len(q)
         /\ \A i \in DOMAIN q : /\ q[i] \in Frames \ s.free /\ s.pra_vaddr[q[i]] = c[i]
                                /\ s.pte[c[i]] = [kind |-> "frame", at |-> q[i]]
         /\ \A f \in Frames \ s.free : \E i \in DOMAIN q : q[i] = f
<1>1. PICK n \in Nat : n = Len(c) /\ DOMAIN c = 1 .. n /\ \A i \in DOMAIN c : c[i] \in Pages
  BY LenProperties, ElementOfSeq DEF Resides
<1>2. q = [i \in 1 .. n |-> s.pte[c[i]].at]
  BY <1>1 DEF Order
<1>3. \A i \in 1 .. n : q[i] = s.pte[c[i]].at
  BY <1>2
<1>4. s.pte \in [Pages -> Pte \cup {NoPte}]
  BY DEF Fits, Machine
<1>5. ASSUME NEW i \in 1 .. n
      PROVE  /\ q[i] \in Frames \ s.free /\ s.pra_vaddr[q[i]] = c[i]
             /\ s.pte[c[i]] = [kind |-> "frame", at |-> q[i]]
  <2>1. Resident(s, c[i]) /\ c[i] \in Pages
    BY <1>1 DEF Resides
  <2>2. s.pte[c[i]] # NoPte /\ s.pte[c[i]].kind = "frame"
    BY <2>1 DEF Resident
  <2>3. s.pte[c[i]] = [kind |-> "frame", at |-> s.pte[c[i]].at]
    BY <1>4, <2>1, <2>2 DEF Pte
  <2>4. QED
    BY <1>3, <2>1, <2>2, <2>3 DEF Fits
<1>6. q \in [1 .. n -> Frames]
  BY <1>2, <1>3, <1>5
<1>7. q \in Seq(Frames) /\ Len(q) = n /\ DOMAIN q = 1 .. n
  <2>1. q \in Seq(Frames)
    BY <1>6, SeqDef
  <2>2. QED
    BY <1>6, <2>1, LenProperties
<1>8. Injective(q)
  <2> SUFFICES ASSUME NEW i \in 1 .. n, NEW j \in 1 .. n, q[i] = q[j] PROVE i = j
    BY <1>7 DEF Injective
  <2>1. c[i] = c[j]
    BY <1>5
  <2>2. QED
    BY <1>1, <2>1 DEF Resides
<1>9. ASSUME NEW f \in Frames \ s.free PROVE \E i \in 1 .. n : q[i] = f
  <2>1. PICK v \in Pages : v = s.pra_vaddr[f] /\ s.pte[v] = [kind |-> "frame", at |-> f]
    BY DEF Fits
  <2>2. Resident(s, v)
    BY <2>1, SwapAssumption DEF Resident, Frames
  <2>3. PICK i \in DOMAIN c : c[i] = v
    BY <2>2 DEF Resides
  <2>4. QED
    BY <1>1, <1>3, <2>1, <2>3
<1>10. QED
  BY <1>1, <1>5, <1>7, <1>8, <1>9

\* Machine and list between faults, with the resident pages c.
Good(s, c) ==
  /\ Fits(s.m) /\ Resides(s.m, c)
  /\ s.pra \in List
  /\ Ring(Newer(s.pra), Older(s.pra), Order(s.m, c))
  /\ Hand(s.pra, Order(s.m, c))
  /\ s.pra.curr # head => s.m.free = {}

\* The same with a frame free for the fault in progress: after an eviction the
\* clock hand is on that frame, which is on no list, and every bit is cleared.
Ready(s, c) ==
  /\ Fits(s.m) /\ Resides(s.m, c)
  /\ s.pra \in List
  /\ Ring(Newer(s.pra), Older(s.pra), Order(s.m, c))
  /\ s.m.free # {}
  /\ \/ /\ s.pra.curr = head
        /\ sm = "clock" => \A i \in DOMAIN c : s.pra.visited[s.m.pte[c[i]].at] = 1
     \/ /\ sm = "clock" /\ s.m.free = {s.pra.curr}
        /\ \A i \in DOMAIN c : s.pra.visited[s.m.pte[c[i]].at] = 0

\* Page v has gone from its frame to the slot of its own.
WrittenOut(s, v, t) ==
  /\ t.pte = [s.pte EXCEPT ![v] = [kind |-> "slot", at |-> Slot(v)]]
  /\ t.disk = [s.disk EXCEPT ![Slot(v)] = s.data[s.pte[v].at]]
  /\ t.data = [s.data EXCEPT ![s.pte[v].at] = Leftover]

\* swap_out with every frame in use writes out the oldest page.
LEMMA Evicts ==
  ASSUME sm \in {"fifo", "clock"}, NEW s, NEW c, Good(s, c), s.m.free = {},
         NEW t, t = swap_out(s)
  PROVE  /\ c # <<>> /\ c[1] \in Pages /\ Resident(s.m, c[1])
         /\ Ready(t, Tail(c)) /\ WrittenOut(s.m, c[1], t.m)
<1>1. PICK q : q = Order(s.m, c)
  OBVIOUS
<1>2. /\ Fits(s.m) /\ Resides(s.m, c) /\ s.pra \in List
      /\ Ring(Newer(s.pra), Older(s.pra), q) /\ Hand(s.pra, q)
  BY <1>1 DEF Good
<1>3. /\ q \in Seq(Frames) /\ Injective(q)
      /\ Len(q) \in Nat /\ Len(q) = Len(c) /\ DOMAIN c = 1 .. Len(q) /\ DOMAIN q = 1 .. Len(q)
      /\ \A i \in DOMAIN q : /\ q[i] \in Frames \ s.m.free /\ s.m.pra_vaddr[q[i]] = c[i]
                             /\ s.m.pte[c[i]] = [kind |-> "frame", at |-> q[i]]
      /\ \A f \in Frames \ s.m.free : \E i \in DOMAIN q : q[i] = f
  BY <1>1, <1>2, OrderFits
<1>4. /\ s.m.pte \in [Pages -> Pte \cup {NoPte}] /\ s.m.data \in [Frames -> Data]
      /\ s.m.disk \in [Slots -> Data] /\ s.m.pra_vaddr \in [Frames -> 0 .. NPages]
  BY <1>2 DEF Fits, Machine
<1>5. NFrames \in Nat \ {0} /\ NPages \in Nat \ {0} /\ SwapSlots \in Nat /\ NPages + 1 < SwapSlots
  BY SwapAssumption
<1>6. PICK n \in Nat \ {0} : n = Len(q)
  <2>1. 1 \in Frames
    BY <1>5 DEF Frames
  <2>2. PICK i \in DOMAIN q : q[i] = 1
    BY <1>3, <2>1
  <2>3. Len(q) # 0
    BY <1>3, <2>2
  <2>4. QED
    BY <1>3, <2>3
<1>7. 1 \in DOMAIN q /\ q # <<>> /\ c # <<>>
  BY <1>3, <1>6, EmptySeq
<1>8. PICK e, v : e = q[1] /\ v = c[1]
  OBVIOUS
<1>9. /\ e \in Frames /\ s.m.pra_vaddr[e] = v /\ s.m.pte[v] = [kind |-> "frame", at |-> e]
  BY <1>3, <1>7, <1>8
<1>10. v \in Pages /\ Resident(s.m, v) /\ Slot(v) \in Slots /\ Slot(v) \in Nat
  <2>1. v \in Pages /\ Resident(s.m, v)
    <3>1. c \in Seq(Pages) /\ 1 \in DOMAIN c
      BY <1>2, <1>3, <1>7 DEF Resides
    <3>2. v \in Pages
      BY <1>8, <3>1, ElementOfSeq, LenProperties
    <3>3. QED
      BY <1>2, <1>8, <3>1, <3>2 DEF Resides
  <2>2. QED
    BY <1>5, <2>1 DEF Slot, Slots, Pages
<1>11. PICK out : out = victim(s.pra)
  OBVIOUS
<1>12. /\ out.page = e
       /\ out.list \in List /\ Ring(Newer(out.list), Older(out.list), Tail(q))
       /\ IF sm = "clock"
          THEN out.list.curr = e /\ \A i \in DOMAIN q : out.list.visited[q[i]] = 0
          ELSE out.list.curr = head
  BY <1>2, <1>3, <1>7, <1>8, <1>11, Victim
<1>13. t = [pra |-> out.list,
            m   |-> [s.m EXCEPT !.disk[Slot(v)] = s.m.data[e],
                                !.pte[v] = [kind |-> "slot", at |-> Slot(v)],
                                !.free = s.m.free \cup {e}, !.data[e] = Leftover]]
  BY <1>9, <1>11, <1>12 DEF swap_out
<1>14. /\ t.pra = out.list
       /\ t.m = [s.m EXCEPT !.disk[Slot(v)] = s.m.data[e],
                            !.pte[v] = [kind |-> "slot", at |-> Slot(v)],
                            !.free = s.m.free \cup {e}, !.data[e] = Leftover]
  BY <1>13
<1>15. t.m = [free |-> {e}, data |-> [s.m.data EXCEPT ![e] = Leftover],
              pra_vaddr |-> s.m.pra_vaddr,
              pte |-> [s.m.pte EXCEPT ![v] = [kind |-> "slot", at |-> Slot(v)]],
              disk |-> [s.m.disk EXCEPT ![Slot(v)] = s.m.data[e]]]
  <2>1. s.m = [free |-> s.m.free, data |-> s.m.data, pra_vaddr |-> s.m.pra_vaddr,
               pte |-> s.m.pte, disk |-> s.m.disk]
    BY <1>2 DEF Fits, Machine
  <2>2. QED
    BY <1>14, <2>1
<1>16. /\ t.m.free = {e} /\ t.m.data = [s.m.data EXCEPT ![e] = Leftover]
       /\ t.m.pra_vaddr = s.m.pra_vaddr
       /\ t.m.pte = [s.m.pte EXCEPT ![v] = [kind |-> "slot", at |-> Slot(v)]]
       /\ t.m.disk = [s.m.disk EXCEPT ![Slot(v)] = s.m.data[e]]
  BY <1>15
<1>17. [kind |-> "slot", at |-> Slot(v)] \in Pte /\ [kind |-> "slot", at |-> Slot(v)] # NoPte
  BY <1>10, SwapAssumption DEF Pte
<1>18. t.m \in Machine
  <2>1. /\ {e} \in SUBSET Frames
        /\ [s.m.data EXCEPT ![e] = Leftover] \in [Frames -> Data]
        /\ [s.m.pte EXCEPT ![v] = [kind |-> "slot", at |-> Slot(v)]] \in [Pages -> Pte \cup {NoPte}]
        /\ [s.m.disk EXCEPT ![Slot(v)] = s.m.data[e]] \in [Slots -> Data]
    BY <1>4, <1>9, <1>10, <1>17 DEF Data
  <2>2. QED
    BY <1>4, <1>15, <2>1 DEF Machine
<1>19. Fits(t.m)
  <2>1. ASSUME NEW f \in Frames
        PROVE  IF f \in t.m.free THEN t.m.data[f] = Leftover
               ELSE /\ t.m.pra_vaddr[f] \in Pages
                    /\ t.m.pte[t.m.pra_vaddr[f]] = [kind |-> "frame", at |-> f]
    <3>1. CASE f = e
      BY <1>4, <1>9, <1>16, <3>1
    <3>2. CASE f # e
      <4>1. /\ s.m.pra_vaddr[f] \in Pages
            /\ s.m.pte[s.m.pra_vaddr[f]] = [kind |-> "frame", at |-> f]
        BY <1>2 DEF Fits
      <4>2. s.m.pra_vaddr[f] # v
        BY <1>9, <3>2, <4>1
      <4>3. QED
        BY <1>4, <1>16, <3>2, <4>1, <4>2
    <3>3. QED
      BY <3>1, <3>2
  <2>2. ASSUME NEW w \in Pages, t.m.pte[w] # NoPte
        PROVE  IF t.m.pte[w].kind = "frame"
               THEN t.m.pte[w].at \in Frames \ t.m.free /\ t.m.pra_vaddr[t.m.pte[w].at] = w
               ELSE t.m.pte[w].at = Slot(w)
    <3>1. CASE w = v
      BY <1>4, <1>10, <1>16, <3>1
    <3>2. CASE w # v
      <4>1. t.m.pte[w] = s.m.pte[w]
        BY <1>4, <1>16, <3>2
      <4>2. s.m.pte[w].kind = "frame" =>
              /\ s.m.pte[w].at \in Frames /\ s.m.pra_vaddr[s.m.pte[w].at] = w
        BY <1>2, <2>2, <4>1 DEF Fits
      <4>3. s.m.pte[w].kind # "frame" => s.m.pte[w].at = Slot(w)
        BY <1>2, <2>2, <4>1 DEF Fits
      <4>4. s.m.pte[w].kind = "frame" => s.m.pte[w].at # e
        BY <1>9, <3>2, <4>2
      <4>5. QED
        BY <1>16, <4>1, <4>2, <4>3, <4>4
    <3>3. QED
      BY <3>1, <3>2
  <2>3. QED
    BY <1>18, <2>1, <2>2 DEF Fits
<1>20. \A w \in Pages : Resident(t.m, w) <=> Resident(s.m, w) /\ w # v
  <2>1. ~Resident(t.m, v)
    BY <1>4, <1>10, <1>16 DEF Resident
  <2>2. ASSUME NEW w \in Pages, w # v PROVE Resident(t.m, w) <=> Resident(s.m, w)
    <3>1. t.m.pte[w] = s.m.pte[w]
      BY <1>4, <1>16, <2>2
    <3>2. QED
      BY <3>1 DEF Resident
  <2>3. QED
    BY <2>1, <2>2
<1>21. /\ Tail(c) \in Seq(Pages) /\ DOMAIN Tail(c) = 1 .. n - 1
       /\ \A i \in 1 .. n - 1 : Tail(c)[i] = c[i + 1] /\ i + 1 \in DOMAIN c
  <2>1. c \in Seq(Pages) /\ c # <<>> /\ Len(c) = n /\ DOMAIN c = 1 .. n
    BY <1>2, <1>3, <1>6, <1>7 DEF Resides
  <2>2. /\ Tail(c) \in Seq(Pages) /\ Len(Tail(c)) = n - 1
        /\ \A i \in 1 .. Len(Tail(c)) : Tail(c)[i] = c[i + 1]
    BY <2>1, HeadTailProperties
  <2>3. QED
    BY <2>1, <2>2, LenProperties
<1>22. Resides(t.m, Tail(c))
  <2>1. \A i, j \in DOMAIN c : c[i] = c[j] => i = j
    BY <1>2 DEF Resides
  <2>2. \A i, j \in DOMAIN Tail(c) : Tail(c)[i] = Tail(c)[j] => i = j
    BY <1>21, <2>1
  <2>3. ASSUME NEW w \in Pages
        PROVE  Resident(t.m, w) <=> \E i \in DOMAIN Tail(c) : Tail(c)[i] = w
    <3>1. Resident(s.m, w) <=> \E i \in DOMAIN c : c[i] = w
      BY <1>2 DEF Resides
    <3>2. ASSUME NEW i \in DOMAIN c, c[i] = w, w # v
          PROVE  \E j \in DOMAIN Tail(c) : Tail(c)[j] = w
      <4>1. i # 1 /\ i \in 1 .. n
        BY <1>3, <1>6, <1>8, <3>2
      <4>2. i - 1 \in 1 .. n - 1 /\ (i - 1) + 1 = i
        BY <4>1
      <4>3. QED
        BY <1>21, <3>2, <4>2
    <3>3. ASSUME NEW j \in DOMAIN Tail(c), Tail(c)[j] = w
          PROVE  (\E i \in DOMAIN c : c[i] = w) /\ w # v
      <4>1. j + 1 \in DOMAIN c /\ c[j + 1] = w /\ j + 1 # 1 /\ 1 \in DOMAIN c
        BY <1>3, <1>6, <1>21, <3>3
      <4>2. QED
        BY <1>8, <2>1, <4>1
    <3>4. QED
      BY <1>20, <3>1, <3>2, <3>3
  <2>4. QED
    BY <1>21, <2>2, <2>3 DEF Resides
<1>23. PICK r : r = Order(t.m, Tail(c))
  OBVIOUS
<1>24. /\ r \in Seq(Frames) /\ Len(r) = n - 1 /\ DOMAIN r = 1 .. n - 1
       /\ \A i \in 1 .. n - 1 : r[i] = q[i + 1] /\ t.m.pte[Tail(c)[i]].at = q[i + 1]
  <2>1. /\ r \in Seq(Frames) /\ DOMAIN Tail(c) = 1 .. Len(r) /\ DOMAIN r = 1 .. Len(r)
        /\ Len(r) \in Nat
        /\ \A i \in DOMAIN r : t.m.pte[Tail(c)[i]] = [kind |-> "frame", at |-> r[i]]
    <3>1. PICK u, d : u = t.m /\ d = Tail(c)
      OBVIOUS
    <3>2. /\ r \in Seq(Frames) /\ DOMAIN d = 1 .. Len(r) /\ DOMAIN r = 1 .. Len(r)
          /\ Len(r) \in Nat
          /\ \A i \in DOMAIN r : u.pte[d[i]] = [kind |-> "frame", at |-> r[i]]
      <4>1. Fits(u) /\ Resides(u, d) /\ r = Order(u, d)
        BY <1>19, <1>22, <1>23, <3>1
      <4>2. /\ r \in Seq(Frames) /\ Len(r) \in Nat /\ Len(r) = Len(d)
            /\ DOMAIN d = 1 .. Len(r) /\ DOMAIN r = 1 .. Len(r)
        BY <4>1, OrderFits
      <4>3. \A i \in DOMAIN r : u.pte[d[i]] = [kind |-> "frame", at |-> r[i]]
        BY <4>1, OrderFits
      <4>4. QED
        BY <4>2, <4>3
    <3>3. QED
      BY <3>1, <3>2
  <2>2. Len(r) = n - 1
    <3>1. Len(Tail(c)) = Len(r) /\ Len(Tail(c)) = n - 1
      BY <1>21, <2>1, LenProperties
    <3>2. QED
      BY <3>1
  <2>3. ASSUME NEW i \in 1 .. n - 1 PROVE r[i] = q[i + 1] /\ t.m.pte[Tail(c)[i]].at = q[i + 1]
    <3>1. t.m.pte[c[i + 1]] = [kind |-> "frame", at |-> r[i]] /\ i + 1 \in DOMAIN c
      BY <1>21, <2>1, <2>2
    <3>2. s.m.pte[c[i + 1]] = [kind |-> "frame", at |-> q[i + 1]]
      BY <1>3, <3>1
    <3>3. c[i + 1] # v
      <4>1. \A a, b \in DOMAIN c : c[a] = c[b] => a = b
        BY <1>2 DEF Resides
      <4>2. 1 \in DOMAIN c /\ i + 1 # 1
        BY <1>3, <1>7
      <4>3. QED
        BY <1>8, <3>1, <4>1, <4>2
    <3>4. c[i + 1] \in Pages
      BY <3>1, <1>2, ElementOfSeq, LenProperties DEF Resides
    <3>5. t.m.pte[c[i + 1]] = s.m.pte[c[i + 1]]
      BY <1>4, <1>16, <3>3, <3>4
    <3>6. QED
      BY <1>21, <3>1, <3>2, <3>5
  <2>4. QED
    BY <2>1, <2>2, <2>3
<1>25. r = Tail(q)
  <2>1. /\ Tail(q) \in Seq(Frames) /\ Len(Tail(q)) = n - 1
        /\ \A i \in 1 .. Len(Tail(q)) : Tail(q)[i] = q[i + 1]
    BY <1>3, <1>6, <1>7, HeadTailProperties
  <2>2. QED
    BY <1>24, <2>1, SeqEqual
<1>26. Ready(t, Tail(c))
  <2>1. Ring(Newer(t.pra), Older(t.pra), Order(t.m, Tail(c))) /\ t.pra \in List /\ t.m.free # {}
    <3>1. t.m.free # {}
      BY <1>16
    <3>2. Ring(Newer(t.pra), Older(t.pra), Tail(q)) /\ t.pra \in List
      BY <1>12, <1>14
    <3>3. Order(t.m, Tail(c)) = Tail(q)
      BY <1>23, <1>25
    <3>4. QED
      BY <3>1, <3>2, <3>3
  <2>2. \/ /\ t.pra.curr = head
           /\ sm = "clock" => \A i \in DOMAIN Tail(c) : t.pra.visited[t.m.pte[Tail(c)[i]].at] = 1
        \/ /\ sm = "clock" /\ t.m.free = {t.pra.curr}
           /\ \A i \in DOMAIN Tail(c) : t.pra.visited[t.m.pte[Tail(c)[i]].at] = 0
    <3>1. CASE sm = "clock"
      <4>1. ASSUME NEW i \in DOMAIN Tail(c) PROVE t.pra.visited[t.m.pte[Tail(c)[i]].at] = 0
        <5>1. i \in 1 .. n - 1 /\ i + 1 \in DOMAIN q
          BY <1>3, <1>21
        <5>2. QED
          BY <1>12, <1>14, <1>24, <3>1, <5>1
      <4>2. t.m.free = {t.pra.curr}
        BY <1>12, <1>14, <1>16, <3>1
      <4>3. QED
        BY <3>1, <4>1, <4>2
    <3>2. CASE sm # "clock"
      BY <1>12, <1>14, <3>2
    <3>3. QED
      BY <3>1, <3>2
  <2>3. QED
    BY <1>19, <1>22, <2>1, <2>2 DEF Ready
<1>27. s.m.pte[c[1]].at = e
  BY <1>8, <1>9
<1>28. WrittenOut(s.m, c[1], t.m)
  BY <1>8, <1>16, <1>27 DEF WrittenOut
<1>29. QED
  BY <1>7, <1>8, <1>10, <1>26, <1>28

LEMMA AlreadyFree ==
  ASSUME sm \in {"fifo", "clock"}, NEW s, NEW c, Good(s, c), s.m.free # {}
  PROVE  alloc_page(s) = s /\ Ready(s, c)
<1>1. PICK q : q = Order(s.m, c)
  OBVIOUS
<1>2. /\ Fits(s.m) /\ Resides(s.m, c) /\ s.pra \in List
      /\ Ring(Newer(s.pra), Older(s.pra), q) /\ Hand(s.pra, q) /\ s.pra.curr = head
  BY <1>1 DEF Good
<1>3. /\ q \in Seq(Frames) /\ DOMAIN c = 1 .. Len(q) /\ DOMAIN q = 1 .. Len(q)
      /\ \A i \in DOMAIN q : s.m.pte[c[i]] = [kind |-> "frame", at |-> q[i]]
  BY <1>1, <1>2, OrderFits
<1>4. sm = "clock" => \A i \in DOMAIN q : s.pra.visited[q[i]] = 1
  <2>1. q # <<>> => q[Len(q)] # head
    <3>1. ASSUME q # <<>> PROVE q[Len(q)] # head
      <4>1. Len(q) \in Nat \ {0}
        BY <1>3, <3>1, EmptySeq, LenProperties
      <4>2. Len(q) \in DOMAIN q
        BY <1>3, <4>1
      <4>3. QED
        BY <1>3, <4>2, Places
    <3>2. QED
      BY <3>1
  <2>2. QED
    BY <1>2, <2>1 DEF Hand
<1>5. sm = "clock" => \A i \in DOMAIN c : s.pra.visited[s.m.pte[c[i]].at] = 1
  <2> SUFFICES ASSUME sm = "clock", NEW i \in DOMAIN c
               PROVE  s.pra.visited[s.m.pte[c[i]].at] = 1
    OBVIOUS
  <2>1. i \in DOMAIN q /\ s.m.pte[c[i]].at = q[i]
    <3>1. i \in DOMAIN q
      BY <1>3
    <3>2. s.m.pte[c[i]] = [kind |-> "frame", at |-> q[i]]
      BY <1>3, <3>1
    <3>3. QED
      BY <3>1, <3>2
  <2>2. QED
    BY <1>4, <2>1
<1>6. QED
  BY <1>1, <1>2, <1>5 DEF Ready, alloc_page

\* map_swappable for a frame on no list: it becomes the newest.
LEMMA MapSwappable ==
  ASSUME sm \in {"fifo", "clock"}, NEW l \in List, NEW q \in Seq(Frames), Injective(q),
         Ring(Newer(l), Older(l), q), NEW f \in Frames, \A i \in DOMAIN q : q[i] # f
  PROVE  \E u \in List :
           /\ u = map_swappable(l, f) /\ Ring(Newer(u), Older(u), Append(q, f))
           /\ u.curr = l.curr
           /\ \A g \in Frames : u.visited[g] = IF sm = "clock" /\ g = f THEN 1 ELSE l.visited[g]
<1> DEFINE u == map_swappable(l, f)
<1> SUFFICES /\ u \in List /\ Ring(Newer(u), Older(u), Append(q, f))
             /\ u.curr = l.curr
             /\ \A g \in Frames : u.visited[g] = IF sm = "clock" /\ g = f THEN 1 ELSE l.visited[g]
  <2> HIDE DEF u
  <2>1. u = map_swappable(l, f)
    BY DEF u
  <2>2. QED
    BY <2>1
<1> HIDE DEF u
<1>1. /\ Len(q) \in Nat /\ At(q, 0) = head /\ At(q, Len(q) + 1) = head
      /\ \A i \in Int : At(q, i) \in Nodes
  BY Places
<1>2. /\ l.next \in [Nodes -> Nodes] /\ l.prev \in [Nodes -> Nodes]
      /\ l.visited \in [Frames -> {0, 1}] /\ l.curr \in Nodes
  BY ListFields
<1>3. PICK next, prev : next = Newer(l) /\ prev = Older(l)
  OBVIOUS
<1>4. next \in [Nodes -> Nodes] /\ prev \in [Nodes -> Nodes] /\ Ring(next, prev, q)
  BY <1>2, <1>3 DEF Newer, Older
<1>5. head \in Nodes /\ f \in Nodes
  BY DEF Nodes
<1>6. PICK last \in Nodes : last = prev[head] /\ next[last] = head
  <2>1. next[At(q, Len(q))] = At(q, Len(q) + 1) /\ prev[At(q, Len(q) + 1)] = At(q, Len(q))
    BY <1>1, <1>4 DEF Ring
  <2>2. QED
    BY <1>1, <2>1
<1>7. PICK next2, prev2 : /\ next2 = [next EXCEPT ![last] = f, ![f] = head]
                          /\ prev2 = [prev EXCEPT ![head] = f, ![f] = last]
  OBVIOUS
<1>8. Ring(next2, prev2, Append(q, f))
  BY <1>4, <1>6, <1>7, RingAdd
<1>9. next2 \in [Nodes -> Nodes] /\ prev2 \in [Nodes -> Nodes]
  BY <1>4, <1>5, <1>7
<1>10. l = [next |-> l.next, prev |-> l.prev, visited |-> l.visited, curr |-> l.curr]
  BY DEF List
<1>11. CASE sm = "fifo"
  <2>1. /\ next = l.prev /\ prev = l.next
    BY <1>3, <1>11 DEF Newer, Older
  <2>2. u = [l EXCEPT !.next = [l.next EXCEPT ![head] = f, ![f] = last],
                      !.prev = [l.prev EXCEPT ![last] = f, ![f] = head]]
    BY <1>6, <1>11, <2>1 DEF map_swappable, list_add, u
  <2>3. u = [l EXCEPT !.next = prev2, !.prev = next2]
    BY <1>7, <2>1, <2>2
  <2>4. u = [next |-> prev2, prev |-> next2, visited |-> l.visited, curr |-> l.curr]
    BY <1>10, <2>3
  <2>5. u.next = prev2 /\ u.prev = next2 /\ u.visited = l.visited /\ u.curr = l.curr
    BY <2>4
  <2>6. Newer(u) = next2 /\ Older(u) = prev2
    BY <1>11, <2>5 DEF Newer, Older
  <2>7. u \in List
    BY <1>2, <1>9, <2>4 DEF List
  <2>8. QED
    BY <1>8, <1>11, <2>5, <2>6, <2>7
<1>12. CASE sm = "clock"
  <2>1. next = l.next /\ prev = l.prev
    BY <1>3, <1>12 DEF Newer, Older
  <2>2. list_add(l, last, f) =
          [l EXCEPT !.next = [l.next EXCEPT ![last] = f, ![f] = head],
                    !.prev = [l.prev EXCEPT ![head] = f, ![f] = last]]
    BY <1>6, <2>1 DEF list_add
  <2>3. list_add(l, last, f) = [l EXCEPT !.next = next2, !.prev = prev2]
    BY <1>7, <2>1, <2>2
  <2>4. list_add(l, last, f) = [next |-> next2, prev |-> prev2, visited |-> l.visited, curr |-> l.curr]
    BY <1>10, <2>3
  <2>5. u = [list_add(l, last, f) EXCEPT !.visited[f] = 1]
    BY <1>6, <1>12, <2>1 DEF map_swappable, u
  <2>6. u = [next |-> next2, prev |-> prev2, visited |-> [l.visited EXCEPT ![f] = 1],
             curr |-> l.curr]
    <3>1. PICK k : k = list_add(l, last, f)
      OBVIOUS
    <3>2. k.visited = l.visited
      BY <2>4, <3>1
    <3>3. u = [k EXCEPT !.visited = [l.visited EXCEPT ![f] = 1]]
      BY <2>5, <3>1, <3>2
    <3>4. QED
      BY <2>4, <3>1, <3>3
  <2>7. u.next = next2 /\ u.prev = prev2 /\ u.visited = [l.visited EXCEPT ![f] = 1] /\ u.curr = l.curr
    BY <2>6
  <2>8. Newer(u) = next2 /\ Older(u) = prev2
    BY <1>12, <2>7 DEF Newer, Older
  <2>9. u \in List
    <3>1. [l.visited EXCEPT ![f] = 1] \in [Frames -> {0, 1}]
      BY <1>2
    <3>2. QED
      BY <1>2, <1>9, <2>6, <3>1 DEF List
  <2>10. QED
    BY <1>2, <1>8, <1>12, <2>7, <2>8, <2>9
<1>13. QED
  BY <1>11, <1>12

\* install ends the fault: the page is there, with those contents, the newest.
LEMMA Installs ==
  ASSUME sm \in {"fifo", "clock"}, NEW t, NEW d, Ready(t, d),
         NEW v \in Pages, ~Resident(t.m, v), NEW x \in Data,
         NEW f, f = Min(t.m.free), NEW u, u = install(t, v, f, x)
  PROVE  /\ f \in Frames /\ f \in t.m.free
         /\ Good(u, Append(d, v))
         /\ u.m.pte = [t.m.pte EXCEPT ![v] = [kind |-> "frame", at |-> f]]
         /\ u.m.data = [t.m.data EXCEPT ![f] = x] /\ u.m.disk = t.m.disk
<1>1. PICK q : q = Order(t.m, d)
  OBVIOUS
<1>2. /\ Fits(t.m) /\ Resides(t.m, d) /\ t.pra \in List
      /\ Ring(Newer(t.pra), Older(t.pra), q) /\ t.m.free # {}
      /\ \/ /\ t.pra.curr = head
            /\ sm = "clock" => \A i \in DOMAIN d : t.pra.visited[t.m.pte[d[i]].at] = 1
         \/ /\ sm = "clock" /\ t.m.free = {t.pra.curr}
            /\ \A i \in DOMAIN d : t.pra.visited[t.m.pte[d[i]].at] = 0
  BY <1>1 DEF Ready
<1>3. /\ q \in Seq(Frames) /\ Injective(q)
      /\ Len(q) \in Nat /\ Len(q) = Len(d) /\ DOMAIN d = 1 .. Len(q) /\ DOMAIN q = 1 .. Len(q)
      /\ \A i \in DOMAIN q : /\ q[i] \in Frames \ t.m.free /\ t.m.pra_vaddr[q[i]] = d[i]
                             /\ t.m.pte[d[i]] = [kind |-> "frame", at |-> q[i]]
  <2>1. PICK y : y = t.m
    OBVIOUS
  <2>2. Fits(y) /\ Resides(y, d) /\ q = Order(y, d)
    BY <1>1, <1>2, <2>1
  <2>3. /\ q \in Seq(Frames) /\ Injective(q)
        /\ Len(q) \in Nat /\ Len(q) = Len(d) /\ DOMAIN d = 1 .. Len(q) /\ DOMAIN q = 1 .. Len(q)
    BY <2>2, OrderFits
  <2>4. \A i \in DOMAIN q : /\ q[i] \in Frames \ y.free /\ y.pra_vaddr[q[i]] = d[i]
                            /\ y.pte[d[i]] = [kind |-> "frame", at |-> q[i]]
    BY <2>2, OrderFits
  <2>5. QED
    BY <2>1, <2>3, <2>4
<1>4. /\ t.m.free \in SUBSET Frames
      /\ t.m.pte \in [Pages -> Pte \cup {NoPte}] /\ t.m.data \in [Frames -> Data]
      /\ t.m.disk \in [Slots -> Data] /\ t.m.pra_vaddr \in [Frames -> 0 .. NPages]
  BY <1>2 DEF Fits, Machine
<1>5. f \in t.m.free /\ f \in Frames /\ f # head
  <2>1. t.m.free \subseteq Nat /\ head \notin Frames
    BY <1>4 DEF Frames, head
  <2>2. QED
    BY <1>2, <1>4, <2>1, MinIsLeast
<1>6. /\ u.pra = map_swappable(t.pra, f)
      /\ u.m = [t.m EXCEPT !.free = t.m.free \ {f}, !.data[f] = x,
                           !.pte[v] = [kind |-> "frame", at |-> f],
                           !.pra_vaddr[f] = v]
  BY DEF install
<1>7. u.m = [free |-> t.m.free \ {f}, data |-> [t.m.data EXCEPT ![f] = x],
             pra_vaddr |-> [t.m.pra_vaddr EXCEPT ![f] = v],
             pte |-> [t.m.pte EXCEPT ![v] = [kind |-> "frame", at |-> f]],
             disk |-> t.m.disk]
  <2>1. t.m = [free |-> t.m.free, data |-> t.m.data, pra_vaddr |-> t.m.pra_vaddr,
               pte |-> t.m.pte, disk |-> t.m.disk]
    BY <1>2 DEF Fits, Machine
  <2>2. QED
    BY <1>6, <2>1
<1>8. /\ u.m.free = t.m.free \ {f} /\ u.m.data = [t.m.data EXCEPT ![f] = x]
      /\ u.m.pra_vaddr = [t.m.pra_vaddr EXCEPT ![f] = v]
      /\ u.m.pte = [t.m.pte EXCEPT ![v] = [kind |-> "frame", at |-> f]]
      /\ u.m.disk = t.m.disk
  BY <1>7
<1>9. [kind |-> "frame", at |-> f] \in Pte /\ [kind |-> "frame", at |-> f] # NoPte
  BY <1>5, SwapAssumption DEF Pte, Frames
<1>10. u.m \in Machine
  <2>1. v \in 0 .. NPages
    BY SwapAssumption DEF Pages
  <2>2. /\ t.m.free \ {f} \in SUBSET Frames
        /\ [t.m.data EXCEPT ![f] = x] \in [Frames -> Data]
        /\ [t.m.pra_vaddr EXCEPT ![f] = v] \in [Frames -> 0 .. NPages]
        /\ [t.m.pte EXCEPT ![v] = [kind |-> "frame", at |-> f]] \in [Pages -> Pte \cup {NoPte}]
    BY <1>4, <1>5, <1>9, <2>1
  <2>3. QED
    BY <1>4, <1>7, <2>2 DEF Machine
<1>11. u.m.pte[v] = [kind |-> "frame", at |-> f] /\ \A w \in Pages \ {v} : u.m.pte[w] = t.m.pte[w]
  BY <1>4, <1>8
<1>12. Fits(u.m)
  <2>1. ASSUME NEW g \in Frames
        PROVE  IF g \in u.m.free THEN u.m.data[g] = Leftover
               ELSE /\ u.m.pra_vaddr[g] \in Pages
                    /\ u.m.pte[u.m.pra_vaddr[g]] = [kind |-> "frame", at |-> g]
    <3>1. CASE g = f
      BY <1>4, <1>5, <1>8, <3>1
    <3>2. CASE g # f
      <4>1. IF g \in t.m.free THEN t.m.data[g] = Leftover
            ELSE /\ t.m.pra_vaddr[g] \in Pages
                 /\ t.m.pte[t.m.pra_vaddr[g]] = [kind |-> "frame", at |-> g]
        BY <1>2 DEF Fits
      <4>2. u.m.pra_vaddr[g] = t.m.pra_vaddr[g] /\ u.m.data[g] = t.m.data[g]
            /\ (g \in u.m.free <=> g \in t.m.free)
        BY <1>4, <1>8, <3>2
      <4>3. g \notin t.m.free => t.m.pra_vaddr[g] # v
        <5>1. [kind |-> "frame", at |-> g] # NoPte
          BY SwapAssumption DEF Frames
        <5>2. QED
          BY <4>1, <5>1 DEF Resident
      <4>4. QED
        BY <1>11, <4>1, <4>2, <4>3
    <3>3. QED
      BY <3>1, <3>2
  <2>2. ASSUME NEW w \in Pages, u.m.pte[w] # NoPte
        PROVE  IF u.m.pte[w].kind = "frame"
               THEN u.m.pte[w].at \in Frames \ u.m.free /\ u.m.pra_vaddr[u.m.pte[w].at] = w
               ELSE u.m.pte[w].at = Slot(w)
    <3>1. CASE w = v
      BY <1>4, <1>5, <1>8, <1>11, <3>1
    <3>2. CASE w # v
      <4>1. u.m.pte[w] = t.m.pte[w]
        BY <1>11, <3>2
      <4>2. t.m.pte[w].kind = "frame" =>
              /\ t.m.pte[w].at \in Frames \ t.m.free /\ t.m.pra_vaddr[t.m.pte[w].at] = w
        BY <1>2, <2>2, <4>1 DEF Fits
      <4>3. t.m.pte[w].kind # "frame" => t.m.pte[w].at = Slot(w)
        BY <1>2, <2>2, <4>1 DEF Fits
      <4>4. t.m.pte[w].kind = "frame" => t.m.pte[w].at # f
        BY <1>5, <4>2
      <4>5. QED
        BY <1>4, <1>8, <4>1, <4>2, <4>3, <4>4
    <3>3. QED
      BY <3>1, <3>2
  <2>3. QED
    BY <1>10, <2>1, <2>2 DEF Fits
<1>13. \A w \in Pages : Resident(u.m, w) <=> Resident(t.m, w) \/ w = v
  <2>1. Resident(u.m, v)
    BY <1>9, <1>11 DEF Resident
  <2>2. QED
    BY <1>11, <2>1 DEF Resident
<1>14. PICK n \in Nat : n = Len(q)
  BY <1>3
<1> DEFINE c == Append(d, v)
<1>15. /\ c \in Seq(Pages) /\ DOMAIN c = 1 .. n + 1
       /\ \A i \in 1 .. n : c[i] = d[i] /\ i \in DOMAIN d
       /\ c[n + 1] = v
  <2>1. d \in Seq(Pages) /\ Len(d) = n /\ DOMAIN d = 1 .. n
    BY <1>2, <1>3, <1>14 DEF Resides
  <2>2. c \in Seq(Pages) /\ Len(c) = n + 1 /\ (\A i \in 1 .. n : c[i] = d[i]) /\ c[n + 1] = v
    BY <2>1, AppendProperties
  <2> HIDE DEF c
  <2>3. QED
    BY <2>1, <2>2, LenProperties
<1>16. \A i \in 1 .. n : d[i] # v /\ d[i] \in Pages
  <2> SUFFICES ASSUME NEW i \in 1 .. n PROVE d[i] # v /\ d[i] \in Pages
    OBVIOUS
  <2>1. i \in DOMAIN d /\ d \in Seq(Pages)
    BY <1>2, <1>15 DEF Resides
  <2>2. d[i] \in Pages
    BY <2>1, ElementOfSeq, LenProperties
  <2>3. Resident(t.m, d[i])
    BY <1>2, <2>1, <2>2 DEF Resides
  <2>4. QED
    BY <2>2, <2>3
<1>17. /\ \A i, j \in DOMAIN d : d[i] = d[j] => i = j
       /\ \A w \in Pages : Resident(t.m, w) <=> \E i \in DOMAIN d : d[i] = w
  BY <1>2 DEF Resides
<1> HIDE DEF c
<1>18. Resides(u.m, c)
  <2>1. ASSUME NEW i \in 1 .. n + 1, NEW j \in 1 .. n + 1, c[i] = c[j] PROVE i = j
    <3>1. (i = n + 1 \/ i \in 1 .. n) /\ (j = n + 1 \/ j \in 1 .. n)
      OBVIOUS
    <3>2. QED
      BY <1>15, <1>16, <1>17, <2>1, <3>1
  <2>2. ASSUME NEW w \in Pages PROVE Resident(u.m, w) <=> \E i \in 1 .. n + 1 : c[i] = w
    <3>1. ASSUME NEW i \in 1 .. n + 1, c[i] = w PROVE Resident(t.m, w) \/ w = v
      <4>1. i = n + 1 \/ i \in 1 .. n
        OBVIOUS
      <4>2. QED
        BY <1>15, <1>17, <3>1, <4>1
    <3>2. n + 1 \in 1 .. n + 1
      OBVIOUS
    <3>3. ASSUME NEW i \in DOMAIN d, d[i] = w PROVE i \in 1 .. n + 1 /\ c[i] = w
      BY <1>3, <1>14, <1>15, <3>3
    <3>4. QED
      BY <1>13, <1>15, <1>17, <3>1, <3>2, <3>3
  <2>3. QED
    BY <1>15, <2>1, <2>2 DEF Resides
<1>19. PICK r : r = Order(u.m, c)
  OBVIOUS
<1>20. r = Append(q, f)
  <2>1. /\ r \in Seq(Frames) /\ Len(r) \in Nat /\ Len(r) = Len(c)
        /\ DOMAIN c = 1 .. Len(r) /\ DOMAIN r = 1 .. Len(r)
    BY <1>12, <1>18, <1>19, OrderFits
  <2>2. \A i \in DOMAIN r : u.m.pte[c[i]] = [kind |-> "frame", at |-> r[i]]
    BY <1>12, <1>18, <1>19, OrderFits
  <2>3. Len(r) = n + 1
    BY <1>15, <2>1, LenProperties
  <2>4. /\ Append(q, f) \in Seq(Frames) /\ Len(Append(q, f)) = n + 1
        /\ \A i \in 1 .. n : Append(q, f)[i] = q[i]
        /\ Append(q, f)[n + 1] = f
    BY <1>3, <1>5, <1>14, AppendProperties
  <2>5. ASSUME NEW i \in 1 .. n + 1 PROVE r[i] = Append(q, f)[i]
    <3>1. CASE i = n + 1
      <4>1. u.m.pte[v] = [kind |-> "frame", at |-> r[i]]
        BY <1>15, <2>1, <2>2, <2>3, <3>1
      <4>2. QED
        BY <1>11, <2>4, <3>1, <4>1
    <3>2. CASE i # n + 1
      <4>1. i \in 1 .. n /\ i \in DOMAIN r /\ i \in DOMAIN q
        BY <1>3, <1>14, <2>1, <2>3, <3>2
      <4>2. u.m.pte[d[i]] = [kind |-> "frame", at |-> r[i]]
        BY <1>15, <2>2, <4>1
      <4>3. t.m.pte[d[i]] = [kind |-> "frame", at |-> q[i]] /\ u.m.pte[d[i]] = t.m.pte[d[i]]
        BY <1>3, <1>11, <1>16, <4>1
      <4>4. QED
        BY <2>4, <4>1, <4>2, <4>3
    <3>3. QED
      BY <3>1, <3>2
  <2>6. QED
    BY <2>1, <2>3, <2>4, <2>5, SeqEqual
<1>21. \A i \in DOMAIN q : q[i] # f
  BY <1>3, <1>5
<1>22. /\ u.pra \in List /\ Ring(Newer(u.pra), Older(u.pra), Append(q, f))
       /\ u.pra.curr = t.pra.curr
       /\ \A g \in Frames :
            u.pra.visited[g] = IF sm = "clock" /\ g = f THEN 1 ELSE t.pra.visited[g]
  <2>1. PICK l, w : l = t.pra /\ w = u.pra
    OBVIOUS
  <2>2. l \in List /\ Ring(Newer(l), Older(l), q) /\ w = map_swappable(l, f)
    BY <1>2, <1>6, <2>1
  <2>3. /\ w \in List /\ Ring(Newer(w), Older(w), Append(q, f))
        /\ w.curr = l.curr
        /\ \A g \in Frames : w.visited[g] = IF sm = "clock" /\ g = f THEN 1 ELSE l.visited[g]
    <3>1. q \in Seq(Frames) /\ Injective(q) /\ f \in Frames /\ \A i \in DOMAIN q : q[i] # f
      BY <1>3, <1>5, <1>21
    <3>2. \E k \in List :
            /\ k = map_swappable(l, f) /\ Ring(Newer(k), Older(k), Append(q, f))
            /\ k.curr = l.curr
            /\ \A g \in Frames : k.visited[g] = IF sm = "clock" /\ g = f THEN 1 ELSE l.visited[g]
      BY <2>2, <3>1, MapSwappable
    <3>3. QED
      BY <2>2, <3>2
  <2>4. QED
    BY <2>1, <2>3
<1>23. /\ r # <<>> /\ Len(r) = n + 1 /\ DOMAIN r = 1 .. n + 1 /\ r[n + 1] = f
       /\ \A i \in 1 .. n : r[i] = q[i]
  <2>1. /\ Append(q, f) \in Seq(Frames) /\ Len(Append(q, f)) = n + 1
        /\ \A i \in 1 .. n : Append(q, f)[i] = q[i]
        /\ Append(q, f)[n + 1] = f /\ Append(q, f) # <<>>
    BY <1>3, <1>5, <1>14, AppendProperties
  <2>2. QED
    BY <1>20, <2>1, LenProperties
<1>24. ASSUME sm = "clock", NEW b, \A i \in DOMAIN d : t.pra.visited[t.m.pte[d[i]].at] = b
       PROVE  \A i \in 1 .. n + 1 : u.pra.visited[r[i]] = IF i = n + 1 THEN 1 ELSE b
  <2>1. t.pra.visited \in [Frames -> {0, 1}]
    BY <1>2, ListFields
  <2> SUFFICES ASSUME NEW i \in 1 .. n + 1 PROVE u.pra.visited[r[i]] = IF i = n + 1 THEN 1 ELSE b
    OBVIOUS
  <2>2. CASE i = n + 1
    BY <1>5, <1>22, <1>23, <1>24, <2>1, <2>2
  <2>3. CASE i # n + 1
    <3>1. i \in 1 .. n /\ i \in DOMAIN q /\ i \in DOMAIN d
      BY <1>3, <1>14, <2>3
    <3>2. t.pra.visited[q[i]] = b /\ q[i] # f /\ q[i] \in Frames /\ r[i] = q[i]
      <4>1. t.m.pte[d[i]] = [kind |-> "frame", at |-> q[i]]
        BY <1>3, <3>1
      <4>2. t.pra.visited[t.m.pte[d[i]].at] = b
        BY <1>24, <3>1
      <4>3. q[i] # f /\ q[i] \in Frames /\ r[i] = q[i]
        BY <1>3, <1>21, <1>23, <3>1
      <4>4. QED
        BY <4>1, <4>2, <4>3
    <3>3. QED
      BY <1>22, <1>24, <2>1, <2>3, <3>2
  <2>4. QED
    BY <2>2, <2>3
<1>25. Hand(u.pra, r) /\ (u.pra.curr # head => u.m.free = {})
  <2>1. CASE /\ t.pra.curr = head
             /\ sm = "clock" => \A i \in DOMAIN d : t.pra.visited[t.m.pte[d[i]].at] = 1
    <3>1. ASSUME sm = "clock" PROVE \A i \in DOMAIN r : u.pra.visited[r[i]] = 1
      <4>1. \A i \in 1 .. n + 1 : u.pra.visited[r[i]] = IF i = n + 1 THEN 1 ELSE 1
        BY <1>24, <2>1, <3>1
      <4>2. QED
        BY <1>23, <4>1
    <3>2. u.pra.curr = head
      BY <1>22, <2>1
    <3>3. QED
      BY <3>1, <3>2 DEF Hand
  <2>2. CASE /\ sm = "clock" /\ t.m.free = {t.pra.curr}
             /\ \A i \in DOMAIN d : t.pra.visited[t.m.pte[d[i]].at] = 0
    <3>1. t.pra.curr = f /\ u.m.free = {}
      BY <1>5, <1>8, <2>2
    <3>2. \A i \in 1 .. n + 1 : u.pra.visited[r[i]] = IF i = n + 1 THEN 1 ELSE 0
      BY <1>24, <2>2
    <3>3. u.pra.curr = r[n + 1] /\ n + 1 = Len(r)
      BY <1>22, <1>23, <3>1
    <3>4. \A i \in DOMAIN r : u.pra.visited[r[i]] = IF i = Len(r) THEN 1 ELSE 0
      BY <1>23, <3>2, <3>3
    <3>5. Hand(u.pra, r)
      BY <1>23, <2>2, <3>3, <3>4 DEF Hand
    <3>6. QED
      BY <3>1, <3>5
  <2>3. QED
    BY <1>2, <2>1, <2>2
<1>26. Good(u, c)
  BY <1>12, <1>18, <1>19, <1>20, <1>22, <1>25 DEF Good
<1>27. QED
  BY <1>5, <1>8, <1>26 DEF c

\* What the program finds in page w.
Shown(s, w) == CASE s.pte[w] = NoPte -> Undef
                 [] Resident(s, w)   -> s.data[s.pte[w].at]
                 [] OTHER            -> s.disk[s.pte[w].at]

\* An eviction moves the page's contents from its frame to the slot of its own
\* and no other page sees a difference.
LEMMA EvictionUnseen ==
  ASSUME NEW s, Fits(s), NEW v \in Pages, Resident(s, v), NEW t, WrittenOut(s, v, t),
         NEW w \in Pages
  PROVE  Shown(t, w) = Shown(s, w)
<1>0. PICK e : /\ e = s.pte[v].at
               /\ t.pte = [s.pte EXCEPT ![v] = [kind |-> "slot", at |-> Slot(v)]]
               /\ t.disk = [s.disk EXCEPT ![Slot(v)] = s.data[e]]
               /\ t.data = [s.data EXCEPT ![e] = Leftover]
  BY DEF WrittenOut
<1>1. /\ s.pte \in [Pages -> Pte \cup {NoPte}] /\ s.data \in [Frames -> Data]
      /\ s.disk \in [Slots -> Data]
  BY DEF Fits, Machine
<1>2. \A p \in Pages : Slot(p) \in Slots
  BY SwapAssumption DEF Slot, Slots, Pages
<1>3. s.pte[v] # NoPte /\ s.pte[v].kind = "frame" /\ e \in Frames /\ s.pra_vaddr[e] = v
  BY <1>0 DEF Resident, Fits
<1>4. CASE w = v
  <2>1. t.pte[w] = [kind |-> "slot", at |-> Slot(v)]
    BY <1>0, <1>1, <1>4
  <2>2. [kind |-> "slot", at |-> Slot(v)] # NoPte
    BY SwapAssumption DEF Slot, Pages
  <2>3. t.pte[w] # NoPte /\ ~Resident(t, w) /\ t.pte[w].at = Slot(v)
    BY <2>1, <2>2 DEF Resident
  <2>4. Shown(t, w) = t.disk[Slot(v)]
    BY <2>3 DEF Shown
  <2>5. t.disk[Slot(v)] = s.data[e]
    BY <1>0, <1>1, <1>2
  <2>6. Shown(s, w) = s.data[e]
    BY <1>0, <1>3, <1>4 DEF Shown
  <2>7. QED
    BY <2>4, <2>5, <2>6
<1>5. CASE w # v
  <2>1. t.pte[w] = s.pte[w]
    BY <1>0, <1>1, <1>5
  <2>2. Resident(t, w) <=> Resident(s, w)
    BY <2>1 DEF Resident
  <2>3. CASE s.pte[w] = NoPte
    BY <2>1, <2>3 DEF Shown, Resident
  <2>4. CASE Resident(s, w)
    <3>1. s.pte[w].at \in Frames /\ s.pte[w].at # e
      BY <1>3, <1>5, <2>4 DEF Resident, Fits
    <3>2. t.data[s.pte[w].at] = s.data[s.pte[w].at]
      BY <1>0, <1>1, <3>1
    <3>3. QED
      BY <2>1, <2>2, <2>4, <3>2 DEF Shown, Resident
  <2>5. CASE s.pte[w] # NoPte /\ ~Resident(s, w)
    <3>1. s.pte[w].at = Slot(w)
      BY <2>5 DEF Resident, Fits
    <3>2. Slot(w) \in Slots /\ Slot(w) # Slot(v)
      BY <1>2, <1>5 DEF Slot, Pages
    <3>3. t.disk[Slot(w)] = s.disk[Slot(w)]
      BY <1>0, <1>1, <3>2
    <3>4. QED
      BY <2>1, <2>2, <2>5, <3>1, <3>3 DEF Shown
  <2>6. QED
    BY <2>3, <2>4, <2>5
<1>6. QED
  BY <1>4, <1>5

\* alloc_page gets a frame, at the price of the oldest page when none is free.
LEMMA Allocates ==
  ASSUME sm \in {"fifo", "clock"}, NEW s, NEW c, Good(s, c), NEW t, t = alloc_page(s)
  PROVE  \E d : /\ Ready(t, d)
                /\ d = c \/ (c # <<>> /\ c[1] \in Pages /\ Resident(s.m, c[1]) /\ d = Tail(c))
                /\ \A w \in Pages : Shown(t.m, w) = Shown(s.m, w)
                /\ \A w \in Pages : ~Resident(s.m, w) => t.m.pte[w] = s.m.pte[w]
<1>1. CASE s.m.free # {}
  <2>1. t = s /\ Ready(t, c)
    BY <1>1, AlreadyFree
  <2>2. QED
    BY <2>1
<1>2. CASE s.m.free = {}
  <2>0. t = swap_out(s)
    BY <1>2 DEF alloc_page
  <2>1. /\ c # <<>> /\ c[1] \in Pages /\ Resident(s.m, c[1])
        /\ Ready(t, Tail(c)) /\ WrittenOut(s.m, c[1], t.m)
    BY <1>2, <2>0, Evicts
  <2>2. Fits(s.m) /\ s.m.pte \in [Pages -> Pte \cup {NoPte}]
    BY DEF Good, Fits, Machine
  <2>3. PICK x, y, v : x = s.m /\ y = t.m /\ v = c[1]
    OBVIOUS
  <2>4. Fits(x) /\ v \in Pages /\ Resident(x, v) /\ WrittenOut(x, v, y)
    BY <2>1, <2>2, <2>3
  <2>5. \A w \in Pages : Shown(y, w) = Shown(x, w)
    BY <2>4, EvictionUnseen
  <2>6. \A w \in Pages : ~Resident(x, w) => y.pte[w] = x.pte[w]
    BY <2>2, <2>3, <2>4 DEF WrittenOut
  <2>7. PICK d : d = Tail(c)
    OBVIOUS
  <2>8. QED
    BY <2>1, <2>3, <2>5, <2>6, <2>7
<1>3. QED
  BY <1>1, <1>2

\* The history drops the page that has left, which is the oldest.
LEMMA Departure ==
  ASSUME NEW c \in Seq(Pages), \A i, j \in DOMAIN c : c[i] = c[j] => i = j,
         NEW v \in Pages, \A i \in DOMAIN c : c[i] # v,
         NEW d, d = c \/ (c # <<>> /\ d = Tail(c)),
         NEW s, Resides(s, Append(d, v)),
         NEW out, out = {i \in DOMAIN c : ~Resident(s, c[i])}
  PROVE  (IF out = {} THEN c ELSE RemoveAt(c, Min(out))) = d
<1>1. PICK n \in Nat : n = Len(c) /\ DOMAIN c = 1 .. n /\ \A i \in DOMAIN c : c[i] \in Pages
  BY LenProperties, ElementOfSeq
<1>2. d \in Seq(Pages)
  BY HeadTailProperties
<1>3. PICK k \in Nat : k = Len(d) /\ DOMAIN d = 1 .. k
  BY <1>2, LenProperties
<1>4. PICK e : e = Append(d, v)
  OBVIOUS
<1>5. /\ DOMAIN e = 1 .. k + 1 /\ e[k + 1] = v
      /\ \A i \in 1 .. k : e[i] = d[i]
  <2>1. e \in Seq(Pages) /\ Len(e) = k + 1 /\ (\A i \in 1 .. k : e[i] = d[i]) /\ e[k + 1] = v
    BY <1>2, <1>3, <1>4, AppendProperties
  <2>2. QED
    BY <2>1, LenProperties
<1>6. \A w \in Pages : Resident(s, w) <=> \E i \in 1 .. k + 1 : e[i] = w
  BY <1>4, <1>5 DEF Resides
<1>7. CASE d = c
  <2>1. ASSUME NEW i \in DOMAIN c PROVE Resident(s, c[i])
    <3>1. c[i] \in Pages /\ i \in 1 .. k + 1 /\ e[i] = c[i]
      BY <1>1, <1>3, <1>5, <1>7
    <3>2. QED
      BY <1>6, <3>1
  <2>2. out = {}
    BY <2>1
  <2>3. QED
    BY <1>7, <2>2
<1>8. CASE c # <<>> /\ d = Tail(c)
  <2>1. /\ k = n - 1 /\ n \in Nat \ {0}
        /\ \A i \in 1 .. k : d[i] = c[i + 1]
    <3>1. n # 0
      BY <1>1, <1>8, EmptySeq
    <3>2. Len(d) = Len(c) - 1 /\ \A i \in 1 .. Len(d) : d[i] = c[i + 1]
      BY <1>8, HeadTailProperties
    <3>3. QED
      BY <1>1, <1>3, <3>1, <3>2
  <2>2. ASSUME NEW i \in DOMAIN c PROVE Resident(s, c[i]) <=> i # 1
    <3>0. i \in 1 .. n /\ c[i] \in Pages
      BY <1>1
    <3>1. CASE i = 1
      <4>1. ASSUME NEW j \in 1 .. k + 1 PROVE e[j] # c[1]
        <5>1. CASE j = k + 1
          BY <1>5, <3>0, <3>1, <5>1
        <5>2. CASE j # k + 1
          <6>1. j \in 1 .. k /\ j + 1 \in DOMAIN c /\ j + 1 # 1
            BY <1>1, <2>1, <5>2
          <6>2. e[j] = c[j + 1]
            BY <1>5, <2>1, <6>1
          <6>3. QED
            BY <3>1, <6>1, <6>2
        <5>3. QED
          BY <5>1, <5>2
      <4>2. QED
        BY <1>6, <3>0, <3>1, <4>1
    <3>2. CASE i # 1
      <4>1. i - 1 \in 1 .. k /\ i - 1 \in 1 .. k + 1 /\ (i - 1) + 1 = i
        BY <2>1, <3>0, <3>2
      <4>2. e[i - 1] = c[i]
        BY <1>5, <2>1, <4>1
      <4>3. QED
        BY <1>6, <3>0, <3>2, <4>1, <4>2
    <3>3. QED
      BY <3>1, <3>2
  <2>3. out = {1}
    BY <1>1, <2>1, <2>2
  <2>4. Min(out) = 1
    <3>1. out \subseteq Nat /\ out # {}
      BY <2>3
    <3>2. Min(out) \in out
      BY <3>1, MinIsLeast
    <3>3. QED
      BY <2>3, <3>2
  <2>5. 1 \in 1 .. Len(c) /\ n = Len(c)
    BY <1>1, <2>1
  <2>6. PICK r : r = RemoveAt(c, 1)
    OBVIOUS
  <2>7. /\ r \in Seq(Pages) /\ Len(r) = n - 1
        /\ \A j \in 1 .. n - 1 : r[j] = IF j < 1 THEN c[j] ELSE c[j + 1]
    BY <2>5, <2>6, RemoveAtElements
  <2>8. \A j \in 1 .. Len(r) : r[j] = d[j]
    BY <2>1, <2>7
  <2>9. r = d
    BY <1>2, <1>3, <2>1, <2>7, <2>8, SeqEqual
  <2>10. QED
    BY <2>3, <2>4, <2>6, <2>9
<1>9. QED
  BY <1>7, <1>8

LEMMA Faults ==
  ASSUME SwapInv, NEW v \in Pages, do_pgfault(v)
  PROVE  \E d : /\ d = come \/ (come # <<>> /\ d = Tail(come))
                /\ come' = Append(d, v) /\ Resides(m', come')
                /\ SwapInv'
                /\ \A w \in Pages \ {v} : Shown(m', w) = Shown(m, w)
                /\ Shown(m', v) = IF m.pte[v] = NoPte THEN Leftover ELSE Shown(m, v)
<1>0. sm \in {"fifo", "clock"} /\ sm' = sm /\ ~Resident(m, v) /\ Fits(m) /\ Resides(m, come)
  BY DEF SwapInv, do_pgfault
<1>1. PICK s : s = [m |-> m, pra |-> pra]
  OBVIOUS
<1>2. s.m = m /\ s.pra = pra /\ Good(s, come)
  BY <1>1 DEF SwapInv, Good
<1>3. PICK t : t = alloc_page(s)
  OBVIOUS
<1>4. PICK d : /\ Ready(t, d)
               /\ d = come \/ (come # <<>> /\ d = Tail(come))
               /\ \A w \in Pages : Shown(t.m, w) = Shown(m, w)
               /\ t.m.pte[v] = m.pte[v]
  BY <1>0, <1>2, <1>3, Allocates
<1>5. ~Resident(t.m, v) /\ t.m.free # {} /\ Fits(t.m)
  BY <1>0, <1>4 DEF Resident, Ready
<1>6. /\ t.m.free \in SUBSET Frames /\ t.m.data \in [Frames -> Data]
      /\ t.m.disk \in [Slots -> Data] /\ t.m.pte \in [Pages -> Pte \cup {NoPte}]
  BY <1>5 DEF Fits, Machine
<1>7. PICK f : f = Min(t.m.free)
  OBVIOUS
<1>8. f \in t.m.free /\ t.m.data[f] = Leftover
  <2>1. t.m.free \subseteq Nat
    BY <1>6 DEF Frames
  <2>2. f \in t.m.free
    BY <1>5, <1>7, <2>1, MinIsLeast
  <2>3. QED
    BY <1>5, <1>6, <2>2 DEF Fits
<1>9. PICK x : x = IF m.pte[v] = NoPte THEN t.m.data[f] ELSE t.m.disk[t.m.pte[v].at]
  OBVIOUS
<1>10. x \in Data /\ x = IF m.pte[v] = NoPte THEN Leftover ELSE Shown(m, v)
  <2>1. CASE m.pte[v] = NoPte
    BY <1>8, <1>9, <2>1 DEF Data
  <2>2. CASE m.pte[v] # NoPte
    <3>1. t.m.pte[v] # NoPte /\ x = t.m.disk[t.m.pte[v].at]
      BY <1>4, <1>9, <2>2
    <3>2. Shown(t.m, v) = x
      BY <1>5, <3>1 DEF Shown
    <3>3. t.m.pte[v].at = Slot(v)
      BY <1>5, <3>1 DEF Fits, Resident
    <3>4. Slot(v) \in Slots
      BY SwapAssumption DEF Slot, Slots, Pages
    <3>5. QED
      BY <1>4, <1>6, <2>2, <3>1, <3>2, <3>3, <3>4
  <2>3. QED
    BY <2>1, <2>2
<1>11. PICK u : u = install(t, v, f, x)
  OBVIOUS
<1>12. m' = u.m /\ pra' = u.pra
  <2>1. CASE m.pte[v] = NoPte
    BY <1>1, <1>3, <1>7, <1>9, <1>11, <2>1 DEF do_pgfault, pgdir_alloc_page
  <2>2. CASE m.pte[v] # NoPte
    BY <1>1, <1>3, <1>7, <1>9, <1>11, <2>2 DEF do_pgfault, swap_in
  <2>3. QED
    BY <2>1, <2>2
<1>13. /\ f \in Frames /\ Good(u, Append(d, v))
       /\ u.m.pte = [t.m.pte EXCEPT ![v] = [kind |-> "frame", at |-> f]]
       /\ u.m.data = [t.m.data EXCEPT ![f] = x] /\ u.m.disk = t.m.disk
  BY <1>0, <1>4, <1>5, <1>7, <1>10, <1>11, Installs
<1>14. PICK e : e = Append(d, v)
  OBVIOUS
<1>15. come' = e
  <2>1. PICK out : out = {i \in DOMAIN come : ~Resident(u.m, come[i])}
    OBVIOUS
  <2>2. /\ come \in Seq(Pages) /\ (\A i, j \in DOMAIN come : come[i] = come[j] => i = j)
        /\ \A i \in DOMAIN come : come[i] # v
    BY <1>0 DEF Resides
  <2>3. Resides(u.m, Append(d, v))
    BY <1>13 DEF Good
  <2>4. (IF out = {} THEN come ELSE RemoveAt(come, Min(out))) = d
    <3>1. PICK c, y : c = come /\ y = u.m
      OBVIOUS
    <3>2. /\ c \in Seq(Pages) /\ (\A i, j \in DOMAIN c : c[i] = c[j] => i = j)
          /\ (\A i \in DOMAIN c : c[i] # v) /\ (d = c \/ (c # <<>> /\ d = Tail(c)))
          /\ Resides(y, Append(d, v)) /\ out = {i \in DOMAIN c : ~Resident(y, c[i])}
      BY <1>4, <2>1, <2>2, <2>3, <3>1
    <3>3. (IF out = {} THEN c ELSE RemoveAt(c, Min(out))) = d
      BY <3>2, Departure
    <3>4. QED
      BY <3>1, <3>3
  <2>5. come' = Append(IF out = {} THEN come ELSE RemoveAt(come, Min(out)), v)
    BY <1>12, <2>1 DEF do_pgfault
  <2>6. QED
    BY <1>14, <2>4, <2>5
<1>16. SwapInv'
  <2>1. Good(u, e)
    BY <1>13, <1>14
  <2>2. QED
    BY <1>0, <1>12, <1>15, <2>1 DEF Good, SwapInv, Hand, Newer, Older
<1>17. ASSUME NEW w \in Pages \ {v} PROVE Shown(m', w) = Shown(m, w)
  <2>1. u.m.pte[w] = t.m.pte[w]
    BY <1>6, <1>13
  <2>2. Resident(t.m, w) => t.m.pte[w].at \in Frames /\ t.m.pte[w].at # f
    BY <1>5, <1>8 DEF Resident, Fits
  <2>3. Resident(t.m, w) => u.m.data[t.m.pte[w].at] = t.m.data[t.m.pte[w].at]
    BY <1>6, <1>13, <2>2
  <2>4. Shown(u.m, w) = Shown(t.m, w)
    BY <1>13, <2>1, <2>3 DEF Shown, Resident
  <2>5. QED
    BY <1>4, <1>12, <2>4
<1>18. Shown(m', v) = x
  <2>1. u.m.pte[v] = [kind |-> "frame", at |-> f] /\ u.m.data[f] = x
    BY <1>6, <1>13
  <2>2. [kind |-> "frame", at |-> f] # NoPte
    BY <1>13, SwapAssumption DEF Frames
  <2>3. QED
    BY <1>12, <2>1, <2>2 DEF Shown, Resident
<1>19. Resides(m', come')
  BY <1>12, <1>13, <1>14, <1>15 DEF Good
<1>20. QED
  BY <1>4, <1>10, <1>14, <1>15, <1>16, <1>17, <1>18, <1>19

LEMMA Stores ==
  ASSUME SwapInv, NEW v \in Pages, NEW x \in Values, Store(v, x)
  PROVE  /\ SwapInv' /\ come' = come
         /\ \A w \in Pages : Resident(m', w) <=> Resident(m, w)
         /\ \A w \in Pages \ {v} : Shown(m', w) = Shown(m, w)
         /\ Shown(m', v) = x /\ Shown(m, v) # Undef
<1>0. /\ sm \in {"fifo", "clock"} /\ Fits(m) /\ Resides(m, come) /\ pra \in List
      /\ Resident(m, v) /\ sm' = sm /\ pra' = pra /\ come' = come
      /\ m' = [m EXCEPT !.data[m.pte[v].at] = x]
  BY DEF SwapInv, Store
<1>1. /\ m.free \in SUBSET Frames
      /\ m.pte \in [Pages -> Pte \cup {NoPte}] /\ m.data \in [Frames -> Data]
      /\ m.disk \in [Slots -> Data] /\ m.pra_vaddr \in [Frames -> 0 .. NPages]
      /\ m = [free |-> m.free, data |-> m.data, pra_vaddr |-> m.pra_vaddr,
              pte |-> m.pte, disk |-> m.disk]
  BY <1>0 DEF Fits, Machine
<1>2. PICK f : f = m.pte[v].at
  OBVIOUS
<1>3. f \in Frames /\ f \notin m.free /\ m.pra_vaddr[f] = v /\ m.pte[v] # NoPte
  BY <1>0, <1>2 DEF Fits, Resident
<1>4. m' = [free |-> m.free, data |-> [m.data EXCEPT ![f] = x], pra_vaddr |-> m.pra_vaddr,
            pte |-> m.pte, disk |-> m.disk]
  BY <1>0, <1>1, <1>2
<1>5. /\ m'.free = m.free /\ m'.data = [m.data EXCEPT ![f] = x] /\ m'.pra_vaddr = m.pra_vaddr
      /\ m'.pte = m.pte /\ m'.disk = m.disk
  BY <1>4
<1>6. m' \in Machine
  <2>1. [m.data EXCEPT ![f] = x] \in [Frames -> Data]
    BY <1>1, <1>3 DEF Data
  <2>2. QED
    BY <1>1, <1>4, <2>1 DEF Machine
<1>7. Fits(m')
  <2>1. ASSUME NEW g \in Frames, g \in m.free PROVE m'.data[g] = Leftover
    <3>1. g # f /\ m.data[g] = Leftover
      BY <1>0, <1>3, <2>1 DEF Fits
    <3>2. QED
      BY <1>1, <1>5, <3>1
  <2>2. QED
    BY <1>0, <1>5, <1>6, <2>1 DEF Fits
<1>8. \A w \in Pages : Resident(m', w) <=> Resident(m, w)
  BY <1>5 DEF Resident
<1>9. Resides(m', come')
  BY <1>0, <1>8 DEF Resides
<1>10. Order(m', come') = Order(m, come)
  BY <1>0, <1>5 DEF Order
<1>11. SwapInv'
  BY <1>0, <1>5, <1>7, <1>9, <1>10 DEF SwapInv, Hand, Newer, Older
<1>12. ASSUME NEW w \in Pages \ {v} PROVE Shown(m', w) = Shown(m, w)
  <2>1. Resident(m, w) => m.pte[w].at \in Frames /\ m.pte[w].at # f
    BY <1>0, <1>3 DEF Resident, Fits
  <2>2. Resident(m, w) => m'.data[m.pte[w].at] = m.data[m.pte[w].at]
    BY <1>1, <1>5, <2>1
  <2>3. QED
    BY <1>5, <2>2 DEF Shown, Resident
<1>13. Shown(m', v) = x
  <2>1. m'.data[f] = x
    BY <1>1, <1>3, <1>5
  <2>2. Resident(m', v) /\ m'.pte[v] # NoPte /\ m'.pte[v].at = f
    BY <1>0, <1>2, <1>3, <1>5, <1>8
  <2>3. QED
    BY <2>1, <2>2 DEF Shown
<1>14. Shown(m, v) # Undef
  <2>1. Shown(m, v) = m.data[f]
    BY <1>0, <1>2, <1>3 DEF Shown
  <2>2. m.data[f] \in Data
    BY <1>1, <1>3
  <2>3. QED
    BY <2>1, <2>2, SwapAssumption DEF Data
<1>15. QED
  BY <1>0, <1>8, <1>11, <1>12, <1>13, <1>14

LEMMA Starts == Init => SwapInv
<1> SUFFICES ASSUME Init PROVE SwapInv
  OBVIOUS
<1>1. /\ sm \in {"fifo", "clock"} /\ come = <<>>
      /\ m = [free |-> Frames, data |-> [f \in Frames |-> Leftover],
              pra_vaddr |-> [f \in Frames |-> 0],
              pte |-> [v \in Pages |-> NoPte],
              disk |-> [k \in Slots |-> Leftover]]
      /\ pra = [next |-> [n \in Nodes |-> n], prev |-> [n \in Nodes |-> n],
                visited |-> [f \in Frames |-> 0], curr |-> head]
  BY DEF Init, Slots
<1>2. /\ m.free = Frames /\ m.data = [f \in Frames |-> Leftover]
      /\ m.pte = [v \in Pages |-> NoPte]
  BY <1>1
<1>3. m \in Machine
  <2>1. /\ [f \in Frames |-> Leftover] \in [Frames -> Data]
        /\ [f \in Frames |-> 0] \in [Frames -> 0 .. NPages]
        /\ [v \in Pages |-> NoPte] \in [Pages -> Pte \cup {NoPte}]
        /\ [k \in Slots |-> Leftover] \in [Slots -> Data]
    BY SwapAssumption DEF Data
  <2>2. QED
    BY <1>1, <2>1 DEF Machine
<1>4. Fits(m)
  BY <1>2, <1>3 DEF Fits
<1>5. <<>> \in Seq(Pages) /\ <<>> \in Seq(Frames) /\ DOMAIN <<>> = {} /\ Len(<<>>) = 0
  BY EmptySeq, LenProperties
<1>6. Resides(m, <<>>)
  BY <1>2, <1>5 DEF Resides, Resident
<1>7. Order(m, <<>>) = <<>>
  <2>1. PICK q : q = Order(m, <<>>)
    OBVIOUS
  <2>2. q \in Seq(Frames) /\ Len(q) = Len(<<>>)
    BY <1>4, <1>6, <2>1, OrderFits
  <2>3. QED
    BY <1>5, <2>1, <2>2, EmptySeq
<1>8. /\ pra.next = [n \in Nodes |-> n] /\ pra.prev = [n \in Nodes |-> n]
      /\ pra.curr = head /\ head \in Nodes
  BY <1>1 DEF Nodes
<1>9. pra \in List
  <2>1. /\ [n \in Nodes |-> n] \in [Nodes -> Nodes] /\ [f \in Frames |-> 0] \in [Frames -> {0, 1}]
    OBVIOUS
  <2>2. QED
    BY <1>1, <1>8, <2>1 DEF List
<1>10. Ring(Newer(pra), Older(pra), <<>>)
  <2>1. At(<<>>, 0) = head /\ At(<<>>, 1) = head
    BY <1>5 DEF At
  <2>2. Newer(pra)[head] = head /\ Older(pra)[head] = head
    BY <1>8 DEF Newer, Older
  <2>3. QED
    BY <1>5, <2>1, <2>2 DEF Ring
<1>11. Hand(pra, <<>>)
  BY <1>5, <1>8 DEF Hand
<1>12. QED
  BY <1>1, <1>4, <1>6, <1>7, <1>8, <1>9, <1>10, <1>11 DEF SwapInv

\* The pages in memory, the policy's list and the clock hand fit together after
\* every fault and store.
THEOREM SwapSafe == Spec => []SwapInv
<1>1. SwapInv /\ [Next]_vars => SwapInv'
  <2> SUFFICES ASSUME SwapInv, [Next]_vars PROVE SwapInv'
    OBVIOUS
  <2>1. ASSUME NEW v \in Pages, do_pgfault(v) PROVE SwapInv'
    BY <2>1, Faults
  <2>2. ASSUME NEW v \in Pages, NEW x \in Values, Store(v, x) PROVE SwapInv'
    BY <2>2, Stores
  <2>3. CASE UNCHANGED vars
    BY <2>3 DEF vars, SwapInv, Hand, Newer, Older
  <2>4. QED
    BY <2>1, <2>2, <2>3 DEF Next
<1>2. QED
  BY Starts, <1>1, PTL DEF Spec

\* OldestGoes: a page leaves memory only when none was there longer, under FIFO
\* and, since nothing sets a visited bit again, under clock as well.
THEOREM OldestLeaves == Spec => OldestGoes
<1>1. SwapInv /\ [Next]_vars =>
        [\A v \in Pages : Resident(m, v) /\ ~Resident(m, v)' => v = Head(come)]_vars
  <2> SUFFICES ASSUME SwapInv, Next, NEW v \in Pages, Resident(m, v), ~Resident(m', v)
               PROVE  v = Head(come)
    OBVIOUS
  <2>1. ASSUME NEW w \in Pages, do_pgfault(w) PROVE v = Head(come)
    <3>1. PICK d : /\ d = come \/ (come # <<>> /\ d = Tail(come))
                   /\ come' = Append(d, w) /\ Resides(m', come')
      BY <2>1, Faults
    <3>2. /\ come \in Seq(Pages) /\ Len(come) \in Nat /\ DOMAIN come = 1 .. Len(come)
          /\ \E i \in DOMAIN come : come[i] = v
      BY LenProperties DEF SwapInv, Resides
    <3>3. d \in Seq(Pages)
      BY <3>1, <3>2, HeadTailProperties
    <3>4. \A i \in 1 .. Len(d) : d[i] # v
      <4>1. /\ come' \in Seq(Pages) /\ Len(come') = Len(d) + 1 /\ Len(d) \in Nat
            /\ \A i \in 1 .. Len(d) : come'[i] = d[i]
        BY <3>1, <3>3, AppendProperties, LenProperties
      <4>2. DOMAIN come' = 1 .. Len(d) + 1
        BY <4>1, LenProperties
      <4>3. \A i \in DOMAIN come' : come'[i] # v
        BY <3>1 DEF Resides
      <4>4. QED
        BY <4>1, <4>2, <4>3
    <3>5. PICK i \in 1 .. Len(come) : come[i] = v
      BY <3>2
    <3>6. come # <<>> /\ d = Tail(come)
      BY <3>1, <3>4, <3>5
    <3>7. Head(come) = come[1] /\ Len(d) = Len(come) - 1 /\ \A j \in 1 .. Len(d) : d[j] = come[j + 1]
      BY <3>2, <3>6, HeadTailProperties
    <3>8. i = 1
      <4>1. ASSUME i # 1 PROVE FALSE
        <5>1. PICK n \in Nat : n = Len(come)
          BY <3>2
        <5>2. i - 1 \in 1 .. n - 1 /\ (i - 1) + 1 = i
          BY <3>5, <4>1, <5>1
        <5>3. i - 1 \in 1 .. Len(d) /\ d[i - 1] = v
          BY <3>5, <3>7, <5>1, <5>2
        <5>4. QED
          BY <3>4, <5>3
      <4>2. QED
        BY <4>1
    <3>9. QED
      BY <3>5, <3>7, <3>8
  <2>2. ASSUME NEW w \in Pages, NEW x \in Values, Store(w, x) PROVE FALSE
    BY <2>2, Stores
  <2>3. QED
    BY <2>1, <2>2 DEF Next
<1>2. QED
  BY SwapSafe, <1>1, PTL DEF Spec, OldestGoes
-----------------------------------------------------------------------------
\* Every page the program sees, before and after a step.
LEMMA ContentsAreShown ==
  /\ Contents = [p \in {"mm"} |-> [w \in Pages |-> Shown(m, w)]]
  /\ Contents' = [p \in {"mm"} |-> [w \in Pages |-> Shown(m', w)]]
  BY DEF Contents, Shown

LEMMA OnePageShown ==
  ASSUME NEW v \in Pages, NEW x, Shown(m', v) = x,
         \A w \in Pages \ {v} : Shown(m', w) = Shown(m, w)
  PROVE  Contents' = [Contents EXCEPT !["mm"][v] = x]
<1>1. PICK old, new : old = [w \in Pages |-> Shown(m, w)] /\ new = [w \in Pages |-> Shown(m', w)]
  OBVIOUS
<1>2. new = [old EXCEPT ![v] = x]
  BY <1>1
<1>3. Contents = [p \in {"mm"} |-> old] /\ Contents' = [p \in {"mm"} |-> new]
  BY <1>1, ContentsAreShown
<1>4. QED
  BY <1>2, <1>3

\* SurvivesSwap: however pages are written out and read back, the program has a
\* memory that only its own stores and first touches change.
THEOREM SwapIsInvisible == Spec => SurvivesSwap
<1>1. Init => Memory!Init
  <2> SUFFICES ASSUME Init PROVE Memory!Init
    OBVIOUS
  <2>0. m.pte = [w \in Pages |-> NoPte]
    BY DEF Init
  <2>1. \A w \in Pages : Shown(m, w) = Undef
    BY <2>0 DEF Shown, Resident
  <2>2. [w \in Pages |-> Shown(m, w)] = Memory!NoMemory
    BY <2>1 DEF Memory!NoMemory
  <2>3. Contents = [p \in {"mm"} |-> Memory!NoMemory]
    BY <2>2, ContentsAreShown
  <2>4. QED
    BY <2>3 DEF Memory!Init
<1>2. SwapInv /\ [Next]_vars => [Memory!Next]_Contents
  <2> SUFFICES ASSUME SwapInv, [Next]_vars PROVE Memory!Next \/ Contents' = Contents
    OBVIOUS
  <2>1. ASSUME NEW v \in Pages, do_pgfault(v) PROVE Memory!Next \/ Contents' = Contents
    <3>1. /\ \A w \in Pages \ {v} : Shown(m', w) = Shown(m, w)
          /\ Shown(m', v) = IF m.pte[v] = NoPte THEN Leftover ELSE Shown(m, v)
      BY <2>1, Faults
    <3>2. CASE m.pte[v] = NoPte
      <4>1. Contents' = [Contents EXCEPT !["mm"][v] = Leftover]
        BY <3>1, <3>2, OnePageShown
      <4>2. Contents["mm"][v] = Undef
        BY <3>2, ContentsAreShown DEF Shown, Resident
      <4>3. Memory!Materialise("mm", v)
        BY <4>1, <4>2 DEF Memory!Materialise
      <4>4. QED
        BY <4>3 DEF Memory!Next
    <3>3. CASE m.pte[v] # NoPte
      <4>1. \A w \in Pages : Shown(m', w) = Shown(m, w)
        BY <3>1, <3>3
      <4>2. [w \in Pages |-> Shown(m', w)] = [w \in Pages |-> Shown(m, w)]
        BY <4>1
      <4>3. QED
        BY <4>2, ContentsAreShown
    <3>4. QED
      BY <3>2, <3>3
  <2>2. ASSUME NEW v \in Pages, NEW x \in Values, Store(v, x)
        PROVE  Memory!Next
    <3>1. /\ \A w \in Pages \ {v} : Shown(m', w) = Shown(m, w)
          /\ Shown(m', v) = x /\ Shown(m, v) # Undef
      BY <2>2, Stores
    <3>2. Contents' = [Contents EXCEPT !["mm"][v] = x]
      BY <3>1, OnePageShown
    <3>3. Contents["mm"][v] # Undef
      BY <3>1, ContentsAreShown
    <3>4. Memory!Store("mm", v, x)
      BY <3>2, <3>3 DEF Memory!Store
    <3>5. QED
      BY <3>4 DEF Memory!Next
  <2>3. CASE UNCHANGED vars
    <3>1. m' = m
      BY <2>3 DEF vars
    <3>2. QED
      BY <3>1, ContentsAreShown
  <2>4. QED
    BY <2>1, <2>2, <2>3 DEF Next
<1>3. QED
  BY <1>1, <1>2, SwapSafe, PTL DEF Spec, SurvivesSwap, Memory!Spec
-----------------------------------------------------------------------------
\* A walk over a ring from the head meets its nodes in turn.
LEMMA WalkOver ==
  ASSUME NEW n \in Nat, n = Len(come), NEW next \in [Nodes -> Nodes],
         NEW place, \A i \in 0 .. n + 1 : place[i] \in Nodes, place[0] = head,
         \A i \in 0 .. n : next[place[i]] = place[i + 1]
  PROVE  Walk(next) = [i \in 1 .. n + 1 |-> place[i]]
<1> DEFINE D == 0 .. n + 1
           Goes(g) == g = [i \in D |-> IF i = 0 THEN head ELSE next[g[i - 1]]]
           go == CHOOSE g : Goes(g)
<1>1. \E g : Goes(g)
  <2>1. n + 1 \in Nat /\ head \in Nodes
    BY DEF Nodes
  <2>2. PICK g \in [0 .. n + 1 -> Nodes] : Iterates(g, n + 1, head, next)
    BY <2>1, IterationExists
  <2>3. Goes(g)
    BY <2>2 DEF Iterates
  <2>4. QED
    BY <2>3
<1>2. Goes(go)
  <2> HIDE DEF Goes
  <2>1. QED
    BY <1>1
<1>3. Walk(next) = [i \in 1 .. n + 1 |-> go[i]]
  BY DEF Walk
<1> HIDE DEF go
<1>4. \A i \in D : go[i] = IF i = 0 THEN head ELSE next[go[i - 1]]
  BY <1>2
<1> DEFINE K == {i \in Nat : i <= n + 1 => go[i] = place[i]}
<1>5. 0 \in K
  BY <1>4
<1>6. ASSUME NEW i \in Nat, i \in K PROVE i + 1 \in K
  <2> SUFFICES ASSUME i + 1 <= n + 1 PROVE go[i + 1] = place[i + 1]
    OBVIOUS
  <2>1. i + 1 \in D /\ i + 1 # 0 /\ (i + 1) - 1 = i /\ i \in 0 .. n
    OBVIOUS
  <2>2. go[i + 1] = next[go[i]] /\ go[i] = place[i]
    BY <1>4, <1>6, <2>1
  <2>3. QED
    BY <2>1, <2>2
<1>7. Nat \subseteq K
  <2> HIDE DEF K
  <2>1. QED
    BY <1>5, <1>6, NatSetInduction
<1>8. \A i \in 1 .. n + 1 : go[i] = place[i]
  BY <1>7
<1>9. QED
  BY <1>3, <1>8

LEMMA HeadBehind ==
  ASSUME NEW q \in Seq(Frames)
  PROVE  q \o <<head>> = [i \in 1 .. Len(q) + 1 |-> At(q, i)]
<1>1. PICK n \in Nat : n = Len(q) /\ DOMAIN q = 1 .. n
  BY LenProperties
<1>2. q \in Seq(Nodes) /\ <<head>> \in Seq(Nodes) /\ Len(<<head>>) = 1 /\ <<head>>[1] = head
  <2>1. Frames \subseteq Nodes /\ head \in Nodes
    BY DEF Nodes
  <2>2. q \in Seq(Nodes)
    BY <1>1, <2>1, ElementOfSeq, SeqDef, LenProperties
  <2>3. QED
    BY <2>1, <2>2
<1>3. PICK s : s = q \o <<head>>
  OBVIOUS
<1>4. s \in Seq(Nodes) /\ Len(s) = n + 1 /\ \A i \in 1 .. n + 1 : s[i] = IF i <= n THEN q[i] ELSE head
  BY <1>1, <1>2, <1>3, ConcatProperties
<1>5. s = [i \in 1 .. n + 1 |-> s[i]]
  BY <1>4, LenProperties
<1>6. \A i \in 1 .. n + 1 : s[i] = At(q, i)
  BY <1>1, <1>4 DEF At
<1>7. QED
  BY <1>1, <1>3, <1>5, <1>6

LEMMA Reversed ==
  ASSUME NEW q \in Seq(Frames)
  PROVE  /\ Reverse(q) \in Seq(Frames) /\ Len(Reverse(q)) = Len(q)
         /\ \A i \in 0 .. Len(q) + 1 : At(Reverse(q), i) = At(q, Len(q) + 1 - i)
         /\ Reverse(Reverse(q)) = q
         /\ \A i \in DOMAIN q : \E j \in DOMAIN Reverse(q) : Reverse(q)[j] = q[i]
<1>1. PICK n \in Nat : n = Len(q) /\ DOMAIN q = 1 .. n /\ \A i \in 1 .. n : q[i] \in Frames
  BY LenProperties, ElementOfSeq
<1>2. PICK r : r = Reverse(q)
  OBVIOUS
<1>3. r = [i \in 1 .. n |-> q[n - i + 1]]
  BY <1>1, <1>2 DEF Reverse
<1>4. \A i \in 1 .. n : n - i + 1 \in 1 .. n /\ r[i] = q[n - i + 1]
  BY <1>3
<1>5. r \in Seq(Frames) /\ Len(r) = n /\ DOMAIN r = 1 .. n
  <2>1. r \in [1 .. n -> Frames]
    BY <1>1, <1>3, <1>4
  <2>2. r \in Seq(Frames)
    BY <2>1, SeqDef
  <2>3. QED
    BY <1>3, <2>2, LenProperties
<1>6. ASSUME NEW i \in 0 .. n + 1 PROVE At(r, i) = At(q, n + 1 - i)
  <2>1. i \in 1 .. n <=> n + 1 - i \in 1 .. n
    OBVIOUS
  <2>2. n - i + 1 = n + 1 - i
    OBVIOUS
  <2>3. QED
    BY <1>1, <1>4, <1>5, <2>1, <2>2 DEF At
<1>7. Reverse(r) = q
  <2>1. Reverse(r) = [i \in 1 .. n |-> r[n - i + 1]]
    BY <1>5 DEF Reverse
  <2>2. \A i \in 1 .. n : r[n - i + 1] = q[i]
    <3> SUFFICES ASSUME NEW i \in 1 .. n PROVE r[n - i + 1] = q[i]
      OBVIOUS
    <3>1. PICK j \in 1 .. n : j = n - i + 1 /\ n - j + 1 = i
      OBVIOUS
    <3>2. QED
      BY <1>4, <3>1
  <2>3. Reverse(r) = [i \in 1 .. n |-> q[i]]
    BY <2>1, <2>2
  <2>4. q = [i \in 1 .. n |-> q[i]]
    BY <1>1, LenProperties
  <2>5. QED
    BY <2>3, <2>4
<1>8. ASSUME NEW i \in 1 .. n PROVE \E j \in 1 .. n : r[j] = q[i]
  <2>1. PICK j \in 1 .. n : n - j + 1 = i
    <3>1. n - i + 1 \in 1 .. n /\ n - (n - i + 1) + 1 = i
      OBVIOUS
    <3>2. QED
      BY <3>1
  <2>2. QED
    BY <1>4, <2>1
<1>9. QED
  BY <1>1, <1>2, <1>5, <1>6, <1>7, <1>8

LEMMA ForthAndBack ==
  ASSUME NEW q \in Seq(Frames), Len(come) = Len(q), NEW next \in [Nodes -> Nodes],
         NEW prev \in [Nodes -> Nodes], Ring(next, prev, q)
  PROVE  Walk(next) = q \o <<head>> /\ Walk(prev) = Reverse(q) \o <<head>>
<1>1. PICK n \in Nat : n = Len(q)
  BY LenProperties
<1>2. /\ At(q, 0) = head /\ At(q, n + 1) = head
      /\ \A i \in Int : At(q, i) \in Nodes
  BY <1>1, Places
<1>3. \A i \in 0 .. n : next[At(q, i)] = At(q, i + 1) /\ prev[At(q, i + 1)] = At(q, i)
  BY <1>1 DEF Ring
<1>4. Walk(next) = q \o <<head>>
  <2>1. PICK p : p = [i \in 0 .. n + 1 |-> At(q, i)]
    OBVIOUS
  <2>2. /\ \A i \in 0 .. n + 1 : p[i] = At(q, i) /\ p[i] \in Nodes
        /\ p[0] = head
    BY <1>2, <2>1
  <2>3. \A i \in 0 .. n : next[p[i]] = p[i + 1]
    BY <1>3, <2>2
  <2>4. Walk(next) = [i \in 1 .. n + 1 |-> p[i]]
    BY <1>1, <2>2, <2>3, WalkOver
  <2>5. [i \in 1 .. n + 1 |-> p[i]] = [i \in 1 .. n + 1 |-> At(q, i)]
    BY <2>2
  <2>6. QED
    BY <1>1, <2>4, <2>5, HeadBehind
<1>5. Walk(prev) = Reverse(q) \o <<head>>
  <2>1. PICK p : p = [i \in 0 .. n + 1 |-> At(q, n + 1 - i)]
    OBVIOUS
  <2>2. /\ \A i \in 0 .. n + 1 : p[i] = At(q, n + 1 - i) /\ p[i] \in Nodes
        /\ p[0] = head
    BY <1>2, <2>1
  <2>3. ASSUME NEW i \in 0 .. n PROVE prev[p[i]] = p[i + 1]
    <3>1. PICK j \in 0 .. n : j = n - i
      OBVIOUS
    <3>2. p[i] = At(q, j + 1) /\ p[i + 1] = At(q, j)
      <4>1. n + 1 - i = j + 1 /\ n + 1 - (i + 1) = j /\ i \in 0 .. n + 1 /\ i + 1 \in 0 .. n + 1
        BY <3>1
      <4>2. QED
        BY <2>2, <4>1
    <3>3. QED
      BY <1>3, <3>2
  <2>4. Walk(prev) = [i \in 1 .. n + 1 |-> p[i]]
    BY <1>1, <2>2, <2>3, WalkOver
  <2>5. PICK r : r = Reverse(q)
    OBVIOUS
  <2>6. r \in Seq(Frames) /\ Len(r) = n /\ \A i \in 0 .. n + 1 : At(r, i) = At(q, n + 1 - i)
    BY <1>1, <2>5, Reversed
  <2>7. [i \in 1 .. n + 1 |-> p[i]] = [i \in 1 .. n + 1 |-> At(r, i)]
    BY <2>2, <2>6
  <2>8. QED
    BY <2>4, <2>5, <2>6, <2>7, HeadBehind
<1>6. QED
  BY <1>4, <1>5

\* ListExact: the list is a ring of exactly the resident frames in the order they
\* came, read either way, and the clock hand is on it.
THEOREM ListIsExact == Spec => []ListExact
<1>1. SwapInv => ListExact
  <2> SUFFICES ASSUME SwapInv PROVE ListExact
    OBVIOUS
  <2>1. /\ sm \in {"fifo", "clock"} /\ Fits(m) /\ Resides(m, come) /\ pra \in List
        /\ pra.next \in [Nodes -> Nodes] /\ pra.prev \in [Nodes -> Nodes]
    BY ListFields DEF SwapInv
  <2>2. PICK q : q = Order(m, come)
    OBVIOUS
  <2>3. q = [i \in DOMAIN come |-> m.pte[come[i]].at]
    BY <2>2 DEF Order
  <2>4. /\ q \in Seq(Frames) /\ Len(q) = Len(come) /\ Len(q) \in Nat
        /\ DOMAIN come = 1 .. Len(q) /\ DOMAIN q = 1 .. Len(q)
    BY <2>1, <2>2, OrderFits
  <2>5. \A i \in DOMAIN q : m.pra_vaddr[q[i]] = come[i] /\ m.pte[come[i]].at = q[i]
    <3>1. \A i \in DOMAIN q : m.pra_vaddr[q[i]] = come[i]
      <4>1. PICK s, c : s = m /\ c = come
        OBVIOUS
      <4>2. Fits(s) /\ Resides(s, c) /\ q = Order(s, c)
        BY <2>1, <2>2, <4>1
      <4>3. \A i \in DOMAIN q : /\ q[i] \in Frames \ s.free /\ s.pra_vaddr[q[i]] = c[i]
                                /\ s.pte[c[i]] = [kind |-> "frame", at |-> q[i]]
        BY <4>2, OrderFits
      <4>4. QED
        BY <4>1, <4>3
    <3>2. QED
      BY <2>3, <2>4, <3>1
  <2>6. Ring(Newer(pra), Older(pra), q) /\ Hand(pra, q)
    BY <2>2 DEF SwapInv
  <2>7. PICK next, prev : next = Newer(pra) /\ prev = Older(pra)
    OBVIOUS
  <2>8. next \in [Nodes -> Nodes] /\ prev \in [Nodes -> Nodes]
    BY <2>1, <2>7 DEF Newer, Older
  <2>9. Walk(next) = q \o <<head>> /\ Walk(prev) = Reverse(q) \o <<head>>
    BY <2>4, <2>6, <2>7, <2>8, ForthAndBack
  <2>10. PICK there : there = IF sm = "clock" THEN q ELSE Reverse(q)
    OBVIOUS
  <2>11. Walk(pra.next) = there \o <<head>> /\ Walk(pra.prev) = Reverse(there) \o <<head>>
    <3>1. CASE sm = "clock"
      BY <2>7, <2>9, <2>10, <3>1 DEF Newer, Older
    <3>2. CASE sm = "fifo"
      <4>1. Reverse(Reverse(q)) = q
        BY <2>4, Reversed
      <4>2. QED
        BY <2>7, <2>9, <2>10, <3>2, <4>1 DEF Newer, Older
    <3>3. QED
      BY <2>1, <3>1, <3>2
  <2>12. ToSet(come) = {v \in Pages : Resident(m, v)}
    <3>1. \A i \in DOMAIN come : come[i] \in Pages
      BY <2>1, ElementOfSeq, LenProperties DEF Resides
    <3>2. QED
      BY <2>1, <3>1 DEF Resides, ToSet
  <2>13. \A v \in ToSet(come) : m.pra_vaddr[m.pte[v].at] = v
    BY <2>4, <2>5 DEF ToSet
  <2>14. pra.curr \in ToSet(there) \cup {head}
    <3>1. CASE pra.curr = head
      BY <3>1
    <3>2. CASE sm = "clock" /\ q # <<>> /\ pra.curr = q[Len(q)]
      <4>1. Len(q) \in DOMAIN q
        BY <2>4, <3>2, EmptySeq
      <4>2. QED
        BY <2>10, <3>2, <4>1 DEF ToSet
    <3>3. QED
      BY <2>6, <3>1, <3>2 DEF Hand
  <2>15. QED
    BY <2>3, <2>10, <2>11, <2>12, <2>13, <2>14 DEF ListExact
<1>2. QED
  BY SwapSafe, <1>1, PTL
=============================================================================
