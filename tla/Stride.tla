------------------------------- MODULE Stride -------------------------------
(***************************************************************************)
(* The scheduling class of the kernel: stride scheduling                   *)
(* (kern/schedule/default_sched_stride.c) on a skew heap of processes      *)
(* (libs/skew_heap.h), under the calls of wakeup_proc and schedule         *)
(* (kern/schedule/sched.c), which run with interrupts off.                 *)
(*                                                                         *)
(* Strides are unsigned integers that wrap and are compared by the sign of *)
(* their difference.  The heap is modelled with its links.                 *)
(* time_slice is left out: it is only counted down, and nothing reads it   *)
(* (Proc models that a tick never asks for a reschedule).                  *)
(***************************************************************************)
EXTENDS Naturals, FiniteSets

CONSTANTS
  Procs,        \* all processes but idleproc
  initproc,     \* one of them, which never exits
  NULL,         \* no node; as current: idleproc
  BIG_STRIDE,   \* the largest int: 2^31 - 1
  MaxPriority   \* bound: largest priority that a program asks for

\* A uint32_t takes so many values: 2^32.
Modulus == 2 * BIG_STRIDE + 2

\* A priority above BIG_STRIDE makes the pass 0: such a process would keep its
\* stride, and the CPU, for ever.
ASSUME StrideAssumption ==
  /\ IsFiniteSet(Procs) /\ initproc \in Procs /\ NULL \notin Procs
  /\ BIG_STRIDE \in Nat \ {0}
  /\ MaxPriority \in 1 .. BIG_STRIDE

VARIABLES
  lab6_run_pool,  \* the root of the heap
  links,          \* [left, right, parent] of the processes' heap nodes
  proc_num,
  lab6_stride,
  lab6_priority,
  runnable,       \* the processes in state PROC_RUNNABLE
  asleep,         \* the processes in state PROC_SLEEPING
  current,
  ordered         \* history: since the heap was empty, every process that became
                  \* runnable was within BIG_STRIDE of the others

stride_vars == <<lab6_run_pool, links, proc_num, lab6_stride, lab6_priority,
                 runnable, asleep, current, ordered>>

-----------------------------------------------------------------------------
Nodes == Procs \cup {NULL}

Heaps == [left : [Nodes -> Nodes], right : [Nodes -> Nodes], parent : [Nodes -> Nodes]]

\* stride[p] - stride[q], as a uint32_t.
Ahead(stride, p, q) == (stride[p] + Modulus - stride[q]) % Modulus

\* Mutant: strides are compared as unsigned integers.
proc_stride_comp_f_Unsigned(stride, p, q) ==
  IF stride[p] = stride[q] THEN "0" ELSE IF stride[p] > stride[q] THEN "1" ELSE "-1"

\* The sign of the difference, as an int.
proc_stride_comp_f(stride, p, q) ==
  LET c == Ahead(stride, p, q)
  IN IF c = 0 THEN "0" ELSE IF c <= BIG_STRIDE THEN "1" ELSE "-1"

\* Mutant: the parent of the merged subtree is not set.
skew_heap_merge_NoParent(heap, stride, a, b) ==
  LET merge[r \in Nodes \X Nodes] ==
        LET p == r[1]  q == r[2] IN
        IF p = NULL THEN [root |-> q, heap |-> heap]
        ELSE IF q = NULL THEN [root |-> p, heap |-> heap]
        ELSE LET first == proc_stride_comp_f(stride, p, q) = "-1"
                 top == IF first THEN p ELSE q
                 m == IF first THEN merge[<<heap.right[p], q>>] ELSE merge[<<p, heap.right[q]>>]
             IN [root |-> top,
                 heap |-> [m.heap EXCEPT !.left[top] = m.root,
                                         !.right[top] = heap.left[top]]]
  IN merge[<<a, b>>]

\* The heap with root a and the heap with root b become one: the smaller root
\* is its root, the rest is merged into the right subtree, and the subtrees
\* change places.
skew_heap_merge(heap, stride, a, b) ==
  LET merge[r \in Nodes \X Nodes] ==
        LET p == r[1]  q == r[2] IN
        IF p = NULL THEN [root |-> q, heap |-> heap]
        ELSE IF q = NULL THEN [root |-> p, heap |-> heap]
        ELSE LET first == proc_stride_comp_f(stride, p, q) = "-1"
                 top == IF first THEN p ELSE q
                 m == IF first THEN merge[<<heap.right[p], q>>] ELSE merge[<<p, heap.right[q]>>]
             IN [root |-> top,
                 heap |-> [m.heap EXCEPT !.left[top] = m.root,
                                         !.right[top] = heap.left[top],
                                         !.parent[m.root] = top]]
  IN merge[<<a, b>>]

skew_heap_insert(rq, stride, b) ==
  LET init == [rq.heap EXCEPT !.left[b] = NULL, !.right[b] = NULL, !.parent[b] = NULL]
  IN skew_heap_merge(init, stride, rq.root, b)

\* The links of b itself are dead from here on; skew_heap_insert sets them again.
skew_heap_remove(rq, stride, b) ==
  LET p == rq.heap.parent[b]
      m == skew_heap_merge(rq.heap, stride, rq.heap.left[b], rq.heap.right[b])
      gone == [m.heap EXCEPT !.left[b] = NULL, !.right[b] = NULL, !.parent[b] = NULL]
      up == IF m.root = NULL THEN gone ELSE [gone EXCEPT !.parent[m.root] = p]
  IN IF p = NULL THEN [root |-> m.root, heap |-> up]
     ELSE [root |-> rq.root,
           heap |-> IF up.left[p] = b THEN [up EXCEPT !.left[p] = m.root]
                                      ELSE [up EXCEPT !.right[p] = m.root]]

-----------------------------------------------------------------------------
Pool == runnable \ {current}

\* Some stride of the set is at most BIG_STRIDE behind every other one.
InWindow(set, stride) ==
  \E b \in set : \A p \in set : Ahead(stride, p, b) <= BIG_STRIDE

Rq == [root |-> lab6_run_pool, heap |-> links]

SetRq(rq) == lab6_run_pool' = rq.root /\ links' = rq.heap

\* stride_enqueue, called by wakeup_proc for a process that is not running.
Enqueue(p, stride) ==
  /\ SetRq(skew_heap_insert(Rq, stride, p))
  /\ proc_num' = proc_num + 1
  /\ ordered' = (runnable # {} => ordered /\ InWindow(runnable \cup {p}, stride))

\* Mutant: the stride advances by twice the pass.
Pass_Double(p) == 2 * (IF lab6_priority[p] = 0 THEN BIG_STRIDE ELSE BIG_STRIDE \div lab6_priority[p])

Pass(p) == IF lab6_priority[p] = 0 THEN BIG_STRIDE ELSE BIG_STRIDE \div lab6_priority[p]

\* schedule(): current goes back into the heap if it is still runnable, the
\* process at the root is picked, its stride advances, and it leaves the heap.
Schedule(back, stride) ==
  LET rq == IF back /\ current # NULL THEN skew_heap_insert(Rq, stride, current) ELSE Rq
      next == rq.root
      advanced == [stride EXCEPT ![next] = (@ + Pass(next)) % Modulus]
  IN
  /\ current' = next
  /\ IF next = NULL THEN SetRq(rq) /\ lab6_stride' = stride
                    ELSE SetRq(skew_heap_remove(rq, advanced, next)) /\ lab6_stride' = advanced
  /\ proc_num' = proc_num + (IF back /\ current # NULL THEN 1 ELSE 0)
                          - (IF next # NULL THEN 1 ELSE 0)
  /\ ordered' = (ordered \/ Pool = {})

-----------------------------------------------------------------------------
\* stride_init; initproc has been made by proc_init, and idleproc runs.
StrideInit ==
  /\ lab6_run_pool = initproc
  /\ links = LET none == [p \in Nodes |-> NULL]
             IN [left |-> none, right |-> none, parent |-> none]
  /\ proc_num = 1
  /\ lab6_stride = [p \in Procs |-> 0]
  /\ lab6_priority = [p \in Procs |-> 0]
  /\ runnable = {initproc}
  /\ asleep = {}
  /\ current = NULL
  /\ ordered = TRUE

\* do_fork: alloc_proc, and wakeup_proc for the new process.
Fork(p) ==
  /\ current # NULL
  /\ p \notin runnable \cup asleep
  /\ lab6_stride' = [lab6_stride EXCEPT ![p] = 0]
  /\ lab6_priority' = [lab6_priority EXCEPT ![p] = 0]
  /\ runnable' = runnable \cup {p}
  /\ Enqueue(p, lab6_stride')
  /\ UNCHANGED <<asleep, current>>

\* wakeup_proc for a sleeping process.
Wakeup(p) ==
  /\ p \in asleep
  /\ asleep' = asleep \ {p}
  /\ runnable' = runnable \cup {p}
  /\ Enqueue(p, lab6_stride)
  /\ UNCHANGED <<lab6_stride, lab6_priority, current>>

\* do_yield, or the idle loop.
Yield ==
  /\ current # NULL \/ lab6_run_pool # NULL
  /\ Schedule(TRUE, lab6_stride)
  /\ UNCHANGED <<lab6_priority, runnable, asleep>>

\* current goes to sleep.
GoToSleep ==
  /\ current # NULL
  /\ asleep' = asleep \cup {current}
  /\ runnable' = runnable \ {current}
  /\ Schedule(FALSE, lab6_stride)
  /\ UNCHANGED lab6_priority

\* do_exit.  The fields of a process that is gone are dead: alloc_proc sets them.
Exit ==
  /\ current \in Procs \ {initproc}
  /\ runnable' = runnable \ {current}
  /\ lab6_priority' = [lab6_priority EXCEPT ![current] = 0]
  /\ Schedule(FALSE, [lab6_stride EXCEPT ![current] = 0])
  /\ UNCHANGED asleep

\* lab6_set_priority.
SetPriority(k) ==
  /\ current # NULL
  /\ lab6_priority' = [lab6_priority EXCEPT ![current] = IF k = 0 THEN 1 ELSE k]
  /\ UNCHANGED <<lab6_run_pool, links, proc_num, lab6_stride, runnable, asleep, current, ordered>>

StrideNext ==
  \/ Yield \/ GoToSleep \/ Exit
  \/ \E p \in Procs : Fork(p) \/ Wakeup(p)
  \/ \E k \in 0 .. MaxPriority : SetPriority(k)

StrideSpec == StrideInit /\ [][StrideNext]_stride_vars

-----------------------------------------------------------------------------
\* The processes of the subtree below p, which is no deeper than their number.
Below(p) ==
  LET level[d \in 0 .. Cardinality(Procs)] ==
        IF d = 0 THEN {p} \ {NULL}
        ELSE (UNION {{links.left[q], links.right[q]} : q \in level[d - 1]}) \ {NULL}
  IN UNION {level[d] : d \in DOMAIN level}

StrideTypeOK ==
  /\ lab6_run_pool \in Nodes
  /\ links \in Heaps
  /\ proc_num \in Nat
  /\ lab6_stride \in [Procs -> 0 .. Modulus - 1]
  /\ lab6_priority \in [Procs -> 0 .. MaxPriority]
  /\ runnable \subseteq Procs /\ asleep \subseteq Procs \ runnable
  /\ current \in runnable \cup {NULL}
  /\ ordered \in BOOLEAN

\* The heap is a tree of exactly the runnable processes that are not running,
\* and its upward links match its downward links, so a process can be taken
\* out of it: no process is lost or linked twice by the merging of subtrees.
HeapExact ==
  /\ Below(lab6_run_pool) = Pool
  /\ proc_num = Cardinality(Pool)
  /\ lab6_run_pool # NULL => links.parent[lab6_run_pool] = NULL
  /\ \A p \in Pool :
       /\ links.left[p] # NULL => links.parent[links.left[p]] = p
       /\ links.right[p] # NULL => links.parent[links.right[p]] = p
       /\ links.left[p] # NULL => links.left[p] # links.right[p]

\* stride_pick_next returns a process with the minimal stride, in spite of the
\* overflow of strides, as long as all processes entered the heap within
\* BIG_STRIDE of the others: nobody in the heap is behind the root.
PicksMinimum ==
  ordered => \A p \in Pool : Ahead(lab6_stride, p, lab6_run_pool) <= BIG_STRIDE

\* Scheduling itself never drives the strides of runnable processes further
\* apart than the comparison can bear: only a process that was woken or made
\* can have been too far from the others.
WindowKept == ordered /\ runnable # {} => InWindow(runnable, lab6_stride)

\* stride_pick_next picks a process; a process is made.
Picks == \E p \in Procs : current' = p /\ lab6_stride'[p] # lab6_stride[p]
Makes == \E p \in Procs : p \notin runnable \cup asleep /\ p \in runnable'

\* No process waits for ever in the heap while others are picked again and
\* again, as long as the processes that come back lie within BIG_STRIDE of the
\* others, and unless new ones, which start with stride 0, are made without end.
NobodyOvertakenForever ==
  \A p \in Procs :
    <>[](p \in Pool /\ ordered) /\ []<><<Picks>>_stride_vars => []<><<Makes>>_stride_vars
=============================================================================
