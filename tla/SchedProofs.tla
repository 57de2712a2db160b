----------------------------- MODULE SchedProofs -----------------------------
(***************************************************************************)
(* Proofs about processes and how they wait: the pid allocator, the        *)
(* semaphores and the philosophers that use them, the timer list, and the  *)
(* stride scheduling class on its skew heap.  The modules share no state;  *)
(* each has a section of its own.                                          *)
(***************************************************************************)
EXTENDS Pid, Philosophers, TimerList, Stride, Lemmas

(* ------------------------------------------------------------------------*)
(* The pid allocator, for every MAX_PID and MAX_PROCESS that get_pid's     *)
(* static assertion admits and for every history of forks and reaps.       *)
(* ------------------------------------------------------------------------*)
\* The part of the list that the current scan has passed: none of its pids is
\* the candidate, and none lies inside the interval found so far.
Scanned ==
  stage = "scan" =>
    /\ last_pid \in Pids
    /\ last_pid < next_safe
    /\ \A i \in DOMAIN proc_list :
         i < le => /\ proc_list[i] # last_pid
                   /\ ~(last_pid < proc_list[i] /\ proc_list[i] < next_safe)

\* Until initproc is linked, get_pid has been called at most once.
BeforeInitproc ==
  proc_list = <<>> => last_pid = IF stage = "idle" THEN MAX_PID ELSE 1

\* The inductive invariant.
PidInv ==
  /\ PidTypeOK
  /\ UniquePids
  /\ FreshPid
  /\ SafeInterval
  /\ Scanned
  /\ BeforeInitproc
  /\ InitprocIsOne

LEMMA PidInvInit == PidInit => PidInv
  BY PidAssumption DEF PidInit, PidInv, PidTypeOK, UniquePids, FreshPid, SafeInterval,
     Scanned, Pids, BeforeInitproc, InitprocIsOne

LEMMA PidInvNext == PidInv /\ [PidNext]_pid_vars => PidInv'
<1> SUFFICES ASSUME PidInv, [PidNext]_pid_vars
             PROVE  PidInv'
  OBVIOUS
<1> USE PidAssumption DEF PidInv, PidTypeOK, Pids
<1>1. CASE GetPidFast
  <2>1. UniquePids' /\ BeforeInitproc' /\ InitprocIsOne'
    BY <1>1 DEF GetPidFast, UniquePids, BeforeInitproc, InitprocIsOne
  <2>2. FreshPid'
    BY <1>1 DEF GetPidFast, FreshPid, SafeInterval
  <2>3. SafeInterval' /\ Scanned'
    BY <1>1 DEF GetPidFast, SafeInterval, Scanned
  <2>4. QED
    BY <1>1, <2>1, <2>2, <2>3 DEF GetPidFast
<1>2. CASE GetPidInside
  BY <1>2 DEF GetPidInside, UniquePids, FreshPid, SafeInterval, Scanned,
     BeforeInitproc, InitprocIsOne
<1>3. CASE ScanRepeat
  BY <1>3 DEF ScanRepeat, UniquePids, FreshPid, SafeInterval, Scanned,
     BeforeInitproc, InitprocIsOne
<1>4. CASE ScanBump
  <2>1. BeforeInitproc' /\ InitprocIsOne'
    BY <1>4 DEF ScanBump, BeforeInitproc, InitprocIsOne
  <2>2. UniquePids' /\ FreshPid' /\ SafeInterval'
    BY <1>4 DEF ScanBump, UniquePids, FreshPid, SafeInterval
  <2>3. Scanned'
    <3>1. /\ last_pid' = last_pid + 1 /\ last_pid + 1 < next_safe /\ last_pid + 1 \in Pids
          /\ le' = le + 1 /\ proc_list[le] = last_pid /\ UNCHANGED <<proc_list, next_safe>>
      BY <1>4 DEF ScanBump
    <3>2. ASSUME NEW i \in DOMAIN proc_list, i < le + 1
          PROVE  /\ proc_list[i] # last_pid + 1
                 /\ ~(last_pid + 1 < proc_list[i] /\ proc_list[i] < next_safe)
      <4>1. proc_list[i] \in Nat /\ last_pid \in Nat /\ next_safe \in Nat /\ i \in Nat /\ le \in Nat
        OBVIOUS
      <4>2. CASE i = le
        BY <3>1, <4>1, <4>2
      <4>3. CASE i # le
        <5>1. ~(last_pid < proc_list[i] /\ proc_list[i] < next_safe)
          BY <1>4, <3>2, <4>1, <4>3 DEF ScanBump, Scanned
        <5>2. QED
          BY <3>1, <4>1, <5>1
      <4>4. QED
        BY <4>2, <4>3
    <3>3. QED
      BY <3>1, <3>2 DEF Scanned
  <2>4. PidTypeOK'
    BY <1>4 DEF ScanBump, Scanned
  <2>5. QED
    BY <2>1, <2>2, <2>3, <2>4
<1>5. CASE ScanOther
  BY <1>5 DEF ScanOther, UniquePids, FreshPid, SafeInterval, Scanned,
     BeforeInitproc, InitprocIsOne
<1>6. CASE ScanEnd
  BY <1>6 DEF ScanEnd, UniquePids, FreshPid, SafeInterval, Scanned,
     BeforeInitproc, InitprocIsOne
<1>7. CASE SetLinks
  <2>1. /\ proc_list' \in Seq(Pids)
        /\ Len(proc_list') = Len(proc_list) + 1
        /\ proc_list'[1] = last_pid
        /\ \A k \in 2 .. Len(proc_list) + 1 : proc_list'[k] = proc_list[k - 1]
    BY <1>7 DEF SetLinks, FreshPid
  <2>2. UniquePids'
    <3>1. \A k \in 1 .. Len(proc_list) : proc_list[k] # last_pid
      BY <1>7 DEF SetLinks, FreshPid
    <3>2. \A j, k \in 1 .. Len(proc_list) : proc_list[j] = proc_list[k] => j = k
      BY DEF UniquePids
    <3>3. Len(proc_list) \in Nat /\ DOMAIN proc_list' = 1 .. Len(proc_list) + 1
      BY <2>1
    <3>4. ASSUME NEW j \in 1 .. Len(proc_list) + 1, NEW k \in 1 .. Len(proc_list) + 1,
                 proc_list'[j] = proc_list'[k], j < k
          PROVE  FALSE
      <4>1. k \in 2 .. Len(proc_list) + 1 /\ k - 1 \in 1 .. Len(proc_list)
        BY <3>3, <3>4
      <4>2. CASE j = 1
        BY <2>1, <3>1, <3>4, <4>1, <4>2
      <4>3. CASE j # 1
        <5>1. j \in 2 .. Len(proc_list) + 1 /\ j - 1 \in 1 .. Len(proc_list) /\ j - 1 # k - 1
          BY <3>3, <3>4, <4>3
        <5>2. QED
          BY <2>1, <3>2, <3>4, <4>1, <5>1
      <4>4. QED
        BY <4>2, <4>3
    <3>5. \A j, k \in DOMAIN proc_list' : proc_list'[j] = proc_list'[k] => j = k
      BY <3>3, <3>4
    <3>6. QED
      BY <3>5 DEF UniquePids
  <2>3. SafeInterval'
    BY <1>7, <2>1 DEF SetLinks, SafeInterval
  <2>4. BeforeInitproc' /\ InitprocIsOne'
    BY <1>7, <2>1 DEF SetLinks, BeforeInitproc, InitprocIsOne
  <2>5. QED
    BY <1>7, <2>1, <2>2, <2>3, <2>4 DEF SetLinks, FreshPid, Scanned
<1>8. ASSUME NEW i \in DOMAIN proc_list, RemoveLinks(i)
      PROVE  PidInv'
  <2>1. /\ proc_list' \in Seq(Pids)
        /\ Len(proc_list') = Len(proc_list) - 1
        /\ \A k \in 1 .. Len(proc_list) - 1 :
             proc_list'[k] = IF k < i THEN proc_list[k] ELSE proc_list[k + 1]
    <3>1. i \in 1 .. Len(proc_list) /\ proc_list' = RemoveAt(proc_list, i)
      BY <1>8 DEF RemoveLinks
    <3>2. QED
      BY <3>1, RemoveAtElements
  <2> DEFINE old(k) == IF k < i THEN k ELSE k + 1
  <2>a. DOMAIN proc_list' = 1 .. Len(proc_list) - 1 /\ i \in 1 .. Len(proc_list)
    BY <2>1
  <2>b. \A k \in DOMAIN proc_list' :
          old(k) \in DOMAIN proc_list /\ proc_list'[k] = proc_list[old(k)]
    <3> SUFFICES ASSUME NEW k \in DOMAIN proc_list'
                 PROVE  old(k) \in DOMAIN proc_list /\ proc_list'[k] = proc_list[old(k)]
      OBVIOUS
    <3>1. k \in 1 .. Len(proc_list) - 1 /\ DOMAIN proc_list = 1 .. Len(proc_list)
      BY <2>a
    <3>2. old(k) \in DOMAIN proc_list
      BY <3>1, <2>a
    <3>3. proc_list'[k] = IF k < i THEN proc_list[k] ELSE proc_list[k + 1]
      BY ONLY <2>1, <3>1
    <3>4. proc_list'[k] = proc_list[old(k)]
      BY ONLY <3>3
    <3>5. QED
      BY <3>2, <3>4
  <2>c. \A k, l \in DOMAIN proc_list' : k # l => old(k) # old(l)
    BY <2>a
  <2> HIDE DEF old
  <2>2. UniquePids'
    BY <2>b, <2>c DEF UniquePids
  <2>3. SafeInterval'
    BY <1>8, <2>b DEF RemoveLinks, SafeInterval
  <2>4. BeforeInitproc' /\ InitprocIsOne'
    <3>1. /\ proc_list # <<>> /\ proc_list[Len(proc_list)] = 1
          /\ proc_list[i] # 1
      BY <1>8 DEF RemoveLinks, InitprocIsOne
    <3>2. i < Len(proc_list)
      BY <3>1, <2>a
    <3>3. proc_list'[Len(proc_list')] = 1 /\ Len(proc_list') > 0
      BY <2>1, <3>1, <3>2
    <3>4. QED
      BY <3>3 DEF BeforeInitproc, InitprocIsOne
  <2>5. QED
    BY <1>8, <2>1, <2>2, <2>3, <2>4 DEF RemoveLinks, FreshPid, Scanned
<1>9. CASE UNCHANGED pid_vars
  BY <1>9 DEF pid_vars, UniquePids, FreshPid, SafeInterval, Scanned, BeforeInitproc,
     InitprocIsOne
<1>10. QED
  BY <1>1, <1>2, <1>3, <1>4, <1>5, <1>6, <1>7, <1>8, <1>9
  DEF PidNext, GetPid, Scan

\* The state of get_pid stays in range: in particular last_pid and next_safe
\* never leave 1 .. MAX_PID, whatever the order of forks and reaps.
THEOREM PidTypeCorrect == PidSpec => []PidTypeOK
<1>1. PidInv => PidTypeOK
  BY DEF PidInv
<1>2. QED
  BY <1>1, PidInvInit, PidInvNext, PTL DEF PidSpec

\* get_pid only returns pids that no listed process has.
THEOREM PidFresh == PidSpec => []FreshPid
<1>1. PidInv => FreshPid
  BY DEF PidInv
<1>2. QED
  BY <1>1, PidInvInit, PidInvNext, PTL DEF PidSpec

\* No two processes ever share a pid.
THEOREM PidUnique == PidSpec => []UniquePids
<1>1. PidInv => UniquePids
  BY DEF PidInv
<1>2. QED
  BY <1>1, PidInvInit, PidInvNext, PTL DEF PidSpec

\* The interval that get_pid remembers between calls is free of live pids,
\* whatever was forked and reaped since it was computed.
THEOREM PidSafeInterval == PidSpec => []SafeInterval
<1>1. PidInv => SafeInterval
  BY DEF PidInv
<1>2. QED
  BY <1>1, PidInvInit, PidInvNext, PTL DEF PidSpec

\* initproc has pid 1 and stays the last entry of proc_list.
THEOREM PidInitproc == PidSpec => []InitprocIsOne
<1>1. PidInv => InitprocIsOne
  BY DEF PidInv
<1>2. QED
  BY <1>1, PidInvInit, PidInvNext, PTL DEF PidSpec

(* ------------------------------------------------------------------------*)
(* up and down and the philosophers that use them, for every number of     *)
(* philosophers and of meals.                                              *)
(* ------------------------------------------------------------------------*)

\* The semaphore that a thread behind the schedule() of __down waits for.
WaitsFor(t) == IF pc[t] = "wait" THEN s(t) ELSE mutex

\* Whoever is in the queue of a semaphore waits for that semaphore and has not
\* been given its unit.
WaitersBlocked ==
  \A x \in Sems : \A k \in DOMAIN wait_queue[x] :
    /\ wait_queue[x][k] \in in_down
    /\ wakeup_flags[wait_queue[x][k]] = "WT_INTERRUPTED"
    /\ WaitsFor(wait_queue[x][k]) = x

\* No thread is in a queue twice.
QueuesDistinct ==
  \A x \in Sems : \A j, k \in DOMAIN wait_queue[x] :
    wait_queue[x][j] = wait_queue[x][k] => j = k

\* A thread in __down that has not been given its unit sleeps for a semaphore.
DownSleeps ==
  \A t \in in_down :
    /\ pc[t] \in {"thought", "ate", "wait"}
    /\ wakeup_flags[t] = "WT_INTERRUPTED" => state[t] = "SLEEPING" /\ wait_state[t] = "WT_KSEM"

\* What the place of a philosopher says about its entry in state_sema.
Phases ==
  \A i \in Threads :
    /\ pc[i] \in {"loop", "thought", "hungry", "left", "right", "put", "quit"} =>
         state_sema[i] = "THINKING"
    /\ pc[i] = "test" => state_sema[i] = "HUNGRY"
    /\ pc[i] \in {"tested", "wait"} => state_sema[i] \in {"HUNGRY", "EATING"}
    /\ pc[i] \in {"eat", "ate", "full"} => state_sema[i] = "EATING"

\* mutex is a binary semaphore, and its unit has at most one owner.
OneOwner ==
  /\ value[mutex] \in {0, 1}
  /\ value[mutex] = 1 => Inside = {}
  /\ value[mutex] = 0 => Inside # {}
  /\ \A i, j \in Inside : i = j

\* The inductive invariant.
SemInv == WaitersBlocked /\ QueuesDistinct /\ DownSleeps /\ NoAssertionFails

PhilInv == TypeOK /\ SemInv /\ Phases /\ OneOwner /\ ForksExclusive
-----------------------------------------------------------------------------
\* LEFT and RIGHT (check_sync.c) are the two neighbours on the ring, and each
\* undoes the other.
LEMMA Neighbours ==
  ASSUME NEW i \in Threads
  PROVE  /\ LEFT(i) \in Threads /\ RIGHT(i) \in Threads
         /\ LEFT(i) # i /\ RIGHT(i) # i
         /\ \A j \in Threads : RIGHT(j) = i <=> j = LEFT(i)
         /\ i \in Sems /\ mutex \in Sems /\ i # mutex
<1> USE PhilosophersAssumption
<1>1. \A j \in Threads : RIGHT(j) = IF j = N - 1 THEN 0 ELSE j + 1
  BY DEF RIGHT
<1>2. \A j \in Threads : LEFT(j) = IF j = 0 THEN N - 1 ELSE j - 1
  BY DEF LEFT
<1>3. QED
  BY <1>1, <1>2 DEF mutex

\* wait_queue_first and wait_queue_del of the first waiter (wait.c).
LEMMA FirstOut ==
  ASSUME NEW S, NEW q \in Seq(S), q # <<>>
  PROVE  /\ Head(q) = q[1] /\ 1 \in DOMAIN q /\ Head(q) \in S
         /\ Tail(q) \in Seq(S)
         /\ \A k \in DOMAIN Tail(q) : k + 1 \in DOMAIN q /\ k + 1 # 1 /\ Tail(q)[k] = q[k + 1]
<1>1. Len(q) \in Nat \ {0} /\ DOMAIN q = 1 .. Len(q)
  BY EmptySeq, LenProperties
<1>2. /\ Head(q) \in S /\ Tail(q) \in Seq(S) /\ Len(Tail(q)) = Len(q) - 1
      /\ \A k \in 1 .. Len(Tail(q)) : Tail(q)[k] = q[k + 1]
  BY HeadTailProperties
<1>3. DOMAIN Tail(q) = 1 .. Len(q) - 1
  BY <1>2, LenProperties
<1>4. QED
  BY <1>1, <1>2, <1>3

\* wait_queue_add at the tail (wait.c).
LEMMA LastIn ==
  ASSUME NEW S, NEW q \in Seq(S), NEW t \in S
  PROVE  /\ Append(q, t) \in Seq(S)
         /\ \A k \in DOMAIN Append(q, t) :
              \/ k \in DOMAIN q /\ Append(q, t)[k] = q[k]
              \/ k \notin DOMAIN q /\ k = Len(q) + 1 /\ Append(q, t)[k] = t
<1>1. Len(q) \in Nat /\ DOMAIN q = 1 .. Len(q)
  BY LenProperties
<1>2. /\ Append(q, t) \in Seq(S) /\ Len(Append(q, t)) = Len(q) + 1
      /\ \A k \in 1 .. Len(q) : Append(q, t)[k] = q[k]
      /\ Append(q, t)[Len(q) + 1] = t
  BY AppendProperties
<1>3. DOMAIN Append(q, t) = 1 .. Len(q) + 1
  BY <1>2, LenProperties
<1>4. QED
  BY <1>1, <1>2, <1>3

-----------------------------------------------------------------------------
\* What up(x) does to a state of SemInv (sem.c, __up): the unit goes to the value
\* when nobody waits and else to the first waiter, who sleeps for it.
LEMMA UpCases ==
  ASSUME TypeOK, SemInv, NEW x \in Sems, Up(x)
  PROVE  /\ panicked' = FALSE /\ in_down' = in_down
         /\ \/ /\ wait_queue[x] = <<>>
               /\ value' = [value EXCEPT ![x] = @ + 1]
               /\ UNCHANGED <<wait_queue, state, wait_state, wakeup_flags>>
            \/ \E first \in in_down :
                 /\ wait_queue[x] # <<>> /\ first = wait_queue[x][1]
                 /\ wakeup_flags[first] = "WT_INTERRUPTED" /\ WaitsFor(first) = x
                 /\ value' = value
                 /\ wait_queue' = [wait_queue EXCEPT ![x] = Tail(@)]
                 /\ wakeup_flags' = [wakeup_flags EXCEPT ![first] = "WT_KSEM"]
                 /\ state' = [state EXCEPT ![first] = "RUNNABLE"]
                 /\ wait_state' = [wait_state EXCEPT ![first] = "0"]
<1>1. CASE wait_queue[x] = <<>>
  BY <1>1 DEF Up, SemInv, NoAssertionFails, TypeOK, SemTypeOK
<1>2. CASE wait_queue[x] # <<>>
  <2> DEFINE first == Head(wait_queue[x])
  <2>1. wait_queue[x] \in Seq(Threads)
    BY DEF TypeOK, SemTypeOK
  <2>2. first = wait_queue[x][1] /\ 1 \in DOMAIN wait_queue[x]
    BY <2>1, <1>2, FirstOut
  <2>3. first \in in_down /\ wakeup_flags[first] = "WT_INTERRUPTED" /\ WaitsFor(first) = x
    BY <2>2 DEF SemInv, WaitersBlocked
  <2>4. wait_state[first] = "WT_KSEM"
    BY <2>3 DEF SemInv, DownSleeps
  <2>5. /\ wait_queue' = [wait_queue EXCEPT ![x] = Tail(@)]
        /\ wakeup_flags' = [wakeup_flags EXCEPT ![first] = "WT_KSEM"]
        /\ state' = [state EXCEPT ![first] = "RUNNABLE"]
        /\ wait_state' = [wait_state EXCEPT ![first] = "0"]
        /\ panicked' = (wait_state[first] # "WT_KSEM")
        /\ value' = value /\ in_down' = in_down
    BY <1>2 DEF Up, WakeupProc
  <2> HIDE DEF first
  <2>6. QED
    BY <1>2, <2>2, <2>3, <2>4, <2>5
<1>3. QED
  BY <1>1, <1>2

\* up keeps the types and the facts about the queues, when the places of the
\* threads in __down stay as they are.
LEMMA UpKeeps ==
  ASSUME TypeOK, SemInv, NEW x \in Sems, Up(x),
         \A t \in in_down : pc'[t] = pc[t]
  PROVE  SemTypeOK' /\ SemInv'
<1>1. CASE UNCHANGED <<wait_queue, state, wait_state, wakeup_flags>> /\ value' = [value EXCEPT ![x] = @ + 1]
  <2>1. in_down' = in_down /\ panicked' = FALSE
    BY UpCases
  <2>2. SemTypeOK'
    <3>1. value' \in [Sems -> Nat]
      BY <1>1 DEF TypeOK, SemTypeOK
    <3>2. QED
      BY <1>1, <2>1, <3>1 DEF TypeOK, SemTypeOK
  <2>3. SemInv'
    BY <1>1, <2>1 DEF TypeOK, SemTypeOK, SemInv, WaitersBlocked, QueuesDistinct, DownSleeps, NoAssertionFails, WaitsFor
  <2>4. QED
    BY <2>2, <2>3
<1>2. ASSUME NEW first \in in_down,
             wait_queue[x] # <<>>, first = wait_queue[x][1],
             wakeup_flags[first] = "WT_INTERRUPTED", WaitsFor(first) = x,
             value' = value,
             wait_queue' = [wait_queue EXCEPT ![x] = Tail(@)],
             wakeup_flags' = [wakeup_flags EXCEPT ![first] = "WT_KSEM"],
             state' = [state EXCEPT ![first] = "RUNNABLE"],
             wait_state' = [wait_state EXCEPT ![first] = "0"]
      PROVE  SemTypeOK' /\ SemInv'
  <2>1. in_down' = in_down /\ panicked' = FALSE
    BY UpCases
  <2>2. /\ Tail(wait_queue[x]) \in Seq(Threads)
        /\ 1 \in DOMAIN wait_queue[x]
        /\ \A k \in DOMAIN Tail(wait_queue[x]) :
             /\ k + 1 \in DOMAIN wait_queue[x] /\ k + 1 # 1
             /\ Tail(wait_queue[x])[k] = wait_queue[x][k + 1]
    BY <1>2, FirstOut DEF TypeOK, SemTypeOK
  <2>3. SemTypeOK'
    BY <1>2, <2>1, <2>2 DEF TypeOK, SemTypeOK
  <2>4. \A y \in Sems : y # x => wait_queue'[y] = wait_queue[y]
    BY <1>2 DEF TypeOK, SemTypeOK
  <2>5. wait_queue'[x] = Tail(wait_queue[x])
    BY <1>2 DEF TypeOK, SemTypeOK
  <2>6. ASSUME NEW y \in Sems, NEW k \in DOMAIN wait_queue'[y]
        PROVE  \E j \in DOMAIN wait_queue[y] :
                 /\ wait_queue'[y][k] = wait_queue[y][j] /\ wait_queue[y][j] # first
                 /\ j = IF y = x THEN k + 1 ELSE k
    <3>1. CASE y = x
      BY <3>1, <2>2, <2>5, <1>2 DEF SemInv, QueuesDistinct
    <3>2. CASE y # x
      BY <3>2, <2>4, <1>2 DEF SemInv, WaitersBlocked
    <3>3. QED
      BY <3>1, <3>2
  <2>8. WaitersBlocked'
    <3> SUFFICES ASSUME NEW y \in Sems, NEW k \in DOMAIN wait_queue'[y]
                 PROVE  /\ wait_queue'[y][k] \in in_down'
                        /\ wakeup_flags'[wait_queue'[y][k]] = "WT_INTERRUPTED"
                        /\ (WaitsFor(wait_queue[y][k]))' = y
      BY DEF WaitersBlocked
    <3>1. PICK j \in DOMAIN wait_queue[y] : wait_queue'[y][k] = wait_queue[y][j] /\ wait_queue[y][j] # first
      BY <2>6
    <3>2. /\ wait_queue[y][j] \in in_down
          /\ wakeup_flags[wait_queue[y][j]] = "WT_INTERRUPTED"
          /\ WaitsFor(wait_queue[y][j]) = y
      BY DEF SemInv, WaitersBlocked
    <3>3. (WaitsFor(wait_queue[y][k]))' = WaitsFor(wait_queue[y][j])
      BY <3>1, <3>2 DEF WaitsFor
    <3>4. QED
      BY <3>1, <3>2, <3>3, <2>1, <1>2 DEF TypeOK, SemTypeOK
  <2>9. QueuesDistinct'
    <3> SUFFICES ASSUME NEW y \in Sems, NEW j \in DOMAIN wait_queue'[y], NEW k \in DOMAIN wait_queue'[y],
                        wait_queue'[y][j] = wait_queue'[y][k]
                 PROVE  j = k
      BY DEF QueuesDistinct
    <3>1. j \in Nat /\ k \in Nat
      BY <2>3 DEF SemTypeOK
    <3>2. (IF y = x THEN j + 1 ELSE j) = (IF y = x THEN k + 1 ELSE k)
      BY <2>6 DEF SemInv, QueuesDistinct
    <3>3. QED
      BY <3>1, <3>2
  <2>10. DownSleeps'
    BY <1>2, <2>1 DEF SemInv, DownSleeps, TypeOK, SemTypeOK
  <2>11. QED
    BY <2>1, <2>3, <2>8, <2>9, <2>10 DEF SemInv, NoAssertionFails
<1>3. QED
  BY <1>1, <1>2, UpCases
\* A down(x) that takes the unit (sem.c, __down) moves a thread that is not in
\* __down, and no queue.
LEMMA DownTakeKeeps ==
  ASSUME TypeOK, SemInv, NEW x \in Sems, NEW i \in Threads, DownTake(i, x),
         \A t \in Threads \ {i} : pc'[t] = pc[t]
  PROVE  SemTypeOK' /\ SemInv'
<1>1. value' \in [Sems -> Nat]
  BY DEF DownTake, TypeOK, SemTypeOK
<1>2. SemTypeOK'
  BY <1>1 DEF DownTake, TypeOK, SemTypeOK
<1>3. /\ UNCHANGED <<wait_queue, state, wait_state, wakeup_flags, in_down, panicked>>
      /\ i \notin in_down
  BY DEF DownTake
<1>4. \A t \in in_down : pc'[t] = pc[t]
  BY <1>3 DEF TypeOK, SemTypeOK
<1>5. SemInv'
  BY <1>3, <1>4 DEF TypeOK, SemTypeOK, SemInv, WaitersBlocked, QueuesDistinct, DownSleeps, NoAssertionFails, WaitsFor
<1>6. QED
  BY <1>2, <1>5

\* A down(x) that must wait puts its thread, which is in no queue, at the end of
\* the queue of x.
LEMMA DownSleepKeeps ==
  ASSUME TypeOK, SemInv, NEW x \in Sems, NEW i \in Threads, DownSleep(i, x),
         pc' = pc, WaitsFor(i) = x, pc[i] \in {"thought", "ate", "wait"}
  PROVE  SemTypeOK' /\ SemInv'
<1>1. /\ i \notin in_down
      /\ wait_queue' = [wait_queue EXCEPT ![x] = Append(@, i)]
      /\ state' = [state EXCEPT ![i] = "SLEEPING"]
      /\ wait_state' = [wait_state EXCEPT ![i] = "WT_KSEM"]
      /\ wakeup_flags' = [wakeup_flags EXCEPT ![i] = "WT_INTERRUPTED"]
      /\ in_down' = in_down \cup {i}
      /\ value' = value /\ panicked' = panicked
  BY DEF DownSleep
<1>2. /\ Append(wait_queue[x], i) \in Seq(Threads)
      /\ \A k \in DOMAIN Append(wait_queue[x], i) :
           \/ k \in DOMAIN wait_queue[x] /\ Append(wait_queue[x], i)[k] = wait_queue[x][k]
           \/ /\ k \notin DOMAIN wait_queue[x] /\ k = Len(wait_queue[x]) + 1
              /\ Append(wait_queue[x], i)[k] = i
  BY LastIn DEF TypeOK, SemTypeOK
<1>3. SemTypeOK'
  BY <1>1, <1>2 DEF TypeOK, SemTypeOK
<1>4. \A y \in Sems : wait_queue'[y] = IF y = x THEN Append(wait_queue[x], i) ELSE wait_queue[y]
  BY <1>1 DEF TypeOK, SemTypeOK
<1>5. ASSUME NEW y \in Sems, NEW k \in DOMAIN wait_queue'[y]
      PROVE  \/ /\ k \in DOMAIN wait_queue[y] /\ wait_queue'[y][k] = wait_queue[y][k]
                /\ wait_queue[y][k] # i
             \/ y = x /\ k = Len(wait_queue[x]) + 1 /\ wait_queue'[y][k] = i
  <2>1. k \in DOMAIN wait_queue[y] => wait_queue[y][k] # i
    BY <1>1 DEF SemInv, WaitersBlocked
  <2>2. QED
    BY <2>1, <1>2, <1>4
<1>6. WaitersBlocked'
  <2> SUFFICES ASSUME NEW y \in Sems, NEW k \in DOMAIN wait_queue'[y]
               PROVE  /\ wait_queue'[y][k] \in in_down'
                      /\ wakeup_flags'[wait_queue'[y][k]] = "WT_INTERRUPTED"
                      /\ (WaitsFor(wait_queue[y][k]))' = y
    BY DEF WaitersBlocked
  <2>1. CASE y = x /\ wait_queue'[y][k] = i
    BY <2>1, <1>1 DEF WaitsFor, TypeOK, SemTypeOK
  <2>2. CASE k \in DOMAIN wait_queue[y] /\ wait_queue'[y][k] = wait_queue[y][k] /\ wait_queue[y][k] # i
    <3>1. /\ wait_queue[y][k] \in in_down
          /\ wakeup_flags[wait_queue[y][k]] = "WT_INTERRUPTED"
          /\ WaitsFor(wait_queue[y][k]) = y
      BY <2>2 DEF SemInv, WaitersBlocked
    <3>2. (WaitsFor(wait_queue[y][k]))' = y
      BY <2>2, <3>1 DEF WaitsFor
    <3>3. QED
      BY <2>2, <3>1, <3>2, <1>1 DEF TypeOK, SemTypeOK
  <2>3. QED
    BY <2>1, <2>2, <1>5
<1>7. QueuesDistinct'
  <2> SUFFICES ASSUME NEW y \in Sems, NEW j \in DOMAIN wait_queue'[y], NEW k \in DOMAIN wait_queue'[y],
                      wait_queue'[y][j] = wait_queue'[y][k]
               PROVE  j = k
    BY DEF QueuesDistinct
  <2>1. QED
    BY <1>5 DEF SemInv, QueuesDistinct
<1>8. DownSleeps'
  BY <1>1 DEF SemInv, DownSleeps, TypeOK, SemTypeOK
<1>9. QED
  BY <1>1, <1>3, <1>6, <1>7, <1>8 DEF SemInv, NoAssertionFails

\* When down(x) goes on after its schedule() it has been given the unit: the
\* assertion of down holds, and wait_current_del finds nothing to delete.
LEMMA DownResumeCases ==
  ASSUME TypeOK, SemInv, NEW x \in Sems, NEW i \in Threads, DownResume(i, x)
  PROVE  /\ i \in in_down /\ wakeup_flags[i] = "WT_KSEM"
         /\ in_down' = in_down \ {i} /\ panicked' = FALSE
         /\ UNCHANGED <<value, wait_queue, state, wait_state, wakeup_flags>>
<1>1. i \in in_down /\ wakeup_flags[i] = "WT_KSEM"
  BY DEF DownResume, SemInv, DownSleeps, TypeOK, SemTypeOK
<1>2. \A k \in DOMAIN wait_queue[x] : wait_queue[x][k] # i
  BY <1>1 DEF SemInv, WaitersBlocked
<1>3. wait_current_del(wait_queue[x], i) = wait_queue[x]
  BY <1>2 DEF wait_current_del
<1>4. wait_queue' = wait_queue
  BY <1>3 DEF DownResume, TypeOK, SemTypeOK
<1>5. QED
  BY <1>1, <1>4 DEF DownResume

LEMMA DownResumeKeeps ==
  ASSUME TypeOK, SemInv, NEW x \in Sems, NEW i \in Threads, DownResume(i, x),
         \A t \in Threads \ {i} : pc'[t] = pc[t]
  PROVE  SemTypeOK' /\ SemInv'
<1>1. /\ i \in in_down /\ wakeup_flags[i] = "WT_KSEM"
      /\ in_down' = in_down \ {i} /\ panicked' = FALSE
      /\ UNCHANGED <<value, wait_queue, state, wait_state, wakeup_flags>>
  BY DownResumeCases
<1>2. SemTypeOK'
  BY <1>1 DEF TypeOK, SemTypeOK
<1>3. WaitersBlocked'
  BY <1>1 DEF SemInv, WaitersBlocked, WaitsFor, TypeOK, SemTypeOK
<1>4. QueuesDistinct' /\ DownSleeps'
  BY <1>1 DEF SemInv, QueuesDistinct, DownSleeps, TypeOK, SemTypeOK
<1>5. QED
  BY <1>1, <1>2, <1>3, <1>4 DEF SemInv, NoAssertionFails

\* do_sleep, the timer and do_kill leave the threads alone that wait for a
\* semaphore: WT_KSEM is not interruptible and no thread in __down calls do_sleep.
LEMMA TimerKeeps ==
  ASSUME TypeOK, SemInv, NEW i \in Threads,
         Sleep(i) \/ Expire(i) \/ Kill(i),
         \A t \in in_down : pc'[t] = pc[t]
  PROVE  /\ SemTypeOK' /\ SemInv'
         /\ UNCHANGED <<value, wait_queue, wakeup_flags, in_down>>
<1>1. /\ UNCHANGED <<value, wait_queue, wakeup_flags, in_down, panicked>>
      /\ \/ /\ i \notin in_down
            /\ state' = [state EXCEPT ![i] = "SLEEPING"]
            /\ wait_state' = [wait_state EXCEPT ![i] = "WT_TIMER"]
         \/ /\ wait_state[i] = "WT_TIMER"
            /\ state' = [state EXCEPT ![i] = "RUNNABLE"]
            /\ wait_state' = [wait_state EXCEPT ![i] = "0"]
  BY DEF Sleep, Expire, Kill, WakeupProc, Interruptible
<1>2. SemTypeOK'
  BY <1>1 DEF TypeOK, SemTypeOK
<1>3. WaitersBlocked' /\ QueuesDistinct'
  BY <1>1 DEF SemInv, WaitersBlocked, QueuesDistinct, WaitsFor, TypeOK, SemTypeOK
<1>4. DownSleeps'
  BY <1>1 DEF SemInv, DownSleeps, TypeOK, SemTypeOK
<1>5. QED
  BY <1>1, <1>2, <1>3, <1>4 DEF SemInv, NoAssertionFails
-----------------------------------------------------------------------------
\* Going to sleep and waking up by a timer or a kill (do_sleep, run_timer_list,
\* do_kill) change nothing that the invariant is about.
LEMMA SleepStep ==
  ASSUME PhilInv, NEW i \in Threads, NEW from, NEW to,
         At(i, from), Sleep(i), Goto(i, to),
         <<from, to>> \in {<<"loop", "thought">>, <<"eat", "ate">>},
         iter' \in [Threads -> 0 .. TIMES], UNCHANGED state_sema
  PROVE  PhilInv'
<1>1. i \notin in_down /\ pc[i] = from /\ pc' = [pc EXCEPT ![i] = to]
  BY DEF At, Goto
<1>2. \A t \in in_down : pc'[t] = pc[t]
  BY <1>1 DEF PhilInv, TypeOK, SemTypeOK
<1>3. /\ SemTypeOK' /\ SemInv'
      /\ UNCHANGED <<value, wait_queue, wakeup_flags, in_down>>
  BY <1>2, TimerKeeps DEF PhilInv
<1>4. TypeOK'
  BY <1>1, <1>3 DEF PhilInv, TypeOK
<1>5. Phases'
  BY <1>1 DEF PhilInv, Phases, TypeOK
<1>6. Inside' = Inside
  BY <1>1, <1>3 DEF Inside, HandedOver, PhilInv, TypeOK
<1>7. OneOwner'
  BY <1>3, <1>6 DEF PhilInv, OneOwner
<1>8. ForksExclusive'
  BY <1>1, <1>3 DEF PhilInv, ForksExclusive, HandedOver, TypeOK
<1>9. QED
  BY <1>3, <1>4, <1>5, <1>7, <1>8 DEF PhilInv

LEMMA WakeStep ==
  ASSUME PhilInv, NEW i \in Threads, TimerExpires(i) \/ Killed(i)
  PROVE  PhilInv'
<1>1. /\ SemTypeOK' /\ SemInv'
      /\ UNCHANGED <<value, wait_queue, wakeup_flags, in_down>>
      /\ UNCHANGED <<state_sema, iter, pc>>
  BY TimerKeeps DEF PhilInv, TimerExpires, Killed
<1>2. QED
  BY <1>1 DEF PhilInv, TypeOK, Phases, OneOwner, Inside, ForksExclusive, HandedOver

\* down(mutex): the unit that leaves the value, or that up has handed over, is
\* the one the philosopher owns inside.
LEMMA DownMutexStep ==
  ASSUME PhilInv, NEW i \in Threads, NEW from, NEW to,
         <<from, to>> \in {<<"thought", "hungry">>, <<"ate", "full">>},
         DownAt(i, from, mutex, to)
  PROVE  PhilInv'
<1>1. pc[i] = from /\ UNCHANGED <<state_sema, iter>>
  BY DEF DownAt
<1>2. mutex \in Sems /\ i # mutex /\ \A j \in Threads : j \in Sems /\ s(j) # mutex
  BY Neighbours DEF s
<1> USE <1>1, <1>2
<1>3. CASE DownTake(i, mutex) /\ Goto(i, to)
  <2>1. pc' = [pc EXCEPT ![i] = to]
    BY <1>3 DEF Goto
  <2>2. /\ i \notin in_down /\ value[mutex] > 0
        /\ value' = [value EXCEPT ![mutex] = @ - 1]
        /\ UNCHANGED <<wakeup_flags, in_down>>
    BY <1>3 DEF DownTake
  <2>3. SemTypeOK' /\ SemInv'
    BY <1>3, <2>1, DownTakeKeeps DEF PhilInv, TypeOK
  <2>4. TypeOK' /\ Phases'
    BY <2>1, <2>3 DEF PhilInv, TypeOK, Phases
  <2>5. Inside = {} /\ value[mutex] = 1
    BY <2>2 DEF PhilInv, OneOwner
  <2>6. Inside' = {i}
    BY <2>1, <2>2, <2>5 DEF Inside, HandedOver, PhilInv, TypeOK
  <2>7. OneOwner'
    BY <2>2, <2>5, <2>6 DEF OneOwner, PhilInv, TypeOK, SemTypeOK
  <2>8. ForksExclusive'
    BY <2>1, <2>2 DEF PhilInv, ForksExclusive, HandedOver, TypeOK, SemTypeOK
  <2>9. QED
    BY <2>3, <2>4, <2>7, <2>8 DEF PhilInv
<1>4. CASE DownSleep(i, mutex) /\ UNCHANGED pc
  <2>1. /\ i \notin in_down /\ value' = value /\ in_down' = in_down \cup {i}
        /\ wakeup_flags' = [wakeup_flags EXCEPT ![i] = "WT_INTERRUPTED"]
    BY <1>4 DEF DownSleep
  <2>2. WaitsFor(i) = mutex
    BY DEF WaitsFor
  <2>3. SemTypeOK' /\ SemInv'
    BY <1>4, <2>2, DownSleepKeeps DEF PhilInv
  <2>4. TypeOK' /\ Phases'
    BY <1>4, <2>3 DEF PhilInv, TypeOK, Phases
  <2>5. \A t \in Threads : HandedOver(t)' = HandedOver(t)
    BY <2>1 DEF HandedOver, PhilInv, TypeOK, SemTypeOK
  <2>6. Inside' = Inside
    BY <1>4, <2>5 DEF Inside
  <2>7. OneOwner' /\ ForksExclusive'
    BY <1>4, <2>1, <2>5, <2>6 DEF PhilInv, OneOwner, ForksExclusive
  <2>8. QED
    BY <2>3, <2>4, <2>7 DEF PhilInv
<1>5. CASE DownResume(i, mutex) /\ Goto(i, to)
  <2>1. pc' = [pc EXCEPT ![i] = to]
    BY <1>5 DEF Goto
  <2>2. /\ i \in in_down /\ wakeup_flags[i] = "WT_KSEM"
        /\ in_down' = in_down \ {i}
        /\ UNCHANGED <<value, wait_queue, state, wait_state, wakeup_flags>>
    BY <1>5, DownResumeCases DEF PhilInv
  <2>3. SemTypeOK' /\ SemInv'
    BY <1>5, <2>1, DownResumeKeeps DEF PhilInv, TypeOK
  <2>4. TypeOK' /\ Phases'
    BY <2>1, <2>3 DEF PhilInv, TypeOK, Phases
  <2>5. Inside' = Inside
    BY <2>1, <2>2 DEF Inside, HandedOver, PhilInv, TypeOK
  <2>6. OneOwner'
    BY <2>2, <2>5 DEF PhilInv, OneOwner
  <2>7. ForksExclusive'
    BY <2>1, <2>2 DEF PhilInv, ForksExclusive, HandedOver, TypeOK
  <2>8. QED
    BY <2>3, <2>4, <2>6, <2>7 DEF PhilInv
<1>6. QED
  BY <1>3, <1>4, <1>5 DEF DownAt

\* down(&s[i]): the permission to eat leaves the semaphore, or has been handed
\* over, exactly when the philosopher goes to eat.
LEMMA DownForksStep ==
  ASSUME PhilInv, NEW i \in Threads, DownAt(i, "wait", s(i), "eat")
  PROVE  PhilInv'
<1>1. pc[i] = "wait" /\ UNCHANGED <<state_sema, iter>>
  BY DEF DownAt
<1>2. s(i) \in Sems /\ s(i) # mutex /\ \A j \in Threads : j \in Sems /\ s(j) = j
  BY Neighbours DEF s
<1> USE <1>1, <1>2
<1>3. CASE DownTake(i, s(i)) /\ Goto(i, "eat")
  <2>1. pc' = [pc EXCEPT ![i] = "eat"]
    BY <1>3 DEF Goto
  <2>2. /\ i \notin in_down /\ value[s(i)] > 0
        /\ value' = [value EXCEPT ![s(i)] = @ - 1]
        /\ UNCHANGED <<wakeup_flags, in_down>>
    BY <1>3 DEF DownTake
  <2>3. SemTypeOK' /\ SemInv'
    BY <1>3, <2>1, DownTakeKeeps DEF PhilInv, TypeOK
  <2>4. value[s(i)] = 1 /\ state_sema[i] = "EATING"
    BY <2>2 DEF PhilInv, ForksExclusive, HandedOver, TypeOK, SemTypeOK
  <2>5. TypeOK' /\ Phases'
    BY <2>1, <2>3, <2>4 DEF PhilInv, TypeOK, Phases
  <2>6. Inside' = Inside
    BY <2>1, <2>2 DEF Inside, HandedOver, PhilInv, TypeOK
  <2>7. OneOwner'
    BY <2>2, <2>6 DEF OneOwner, PhilInv, TypeOK, SemTypeOK
  <2>8. ForksExclusive'
    BY <2>1, <2>2, <2>4 DEF PhilInv, ForksExclusive, HandedOver, TypeOK, SemTypeOK
  <2>9. QED
    BY <2>3, <2>5, <2>7, <2>8 DEF PhilInv
<1>4. CASE DownSleep(i, s(i)) /\ UNCHANGED pc
  <2>1. /\ i \notin in_down /\ value' = value /\ in_down' = in_down \cup {i}
        /\ wakeup_flags' = [wakeup_flags EXCEPT ![i] = "WT_INTERRUPTED"]
    BY <1>4 DEF DownSleep
  <2>2. WaitsFor(i) = s(i)
    BY DEF WaitsFor
  <2>3. SemTypeOK' /\ SemInv'
    BY <1>4, <2>2, DownSleepKeeps DEF PhilInv
  <2>4. TypeOK' /\ Phases'
    BY <1>4, <2>3 DEF PhilInv, TypeOK, Phases
  <2>5. \A t \in Threads : HandedOver(t)' = HandedOver(t)
    BY <2>1 DEF HandedOver, PhilInv, TypeOK, SemTypeOK
  <2>6. Inside' = Inside
    BY <1>4, <2>5 DEF Inside
  <2>7. OneOwner' /\ ForksExclusive'
    BY <1>4, <2>1, <2>5, <2>6 DEF PhilInv, OneOwner, ForksExclusive
  <2>8. QED
    BY <2>3, <2>4, <2>7 DEF PhilInv
<1>5. CASE DownResume(i, s(i)) /\ Goto(i, "eat")
  <2>1. pc' = [pc EXCEPT ![i] = "eat"]
    BY <1>5 DEF Goto
  <2>2. /\ i \in in_down /\ wakeup_flags[i] = "WT_KSEM"
        /\ in_down' = in_down \ {i}
        /\ UNCHANGED <<value, wait_queue, state, wait_state, wakeup_flags>>
    BY <1>5, DownResumeCases DEF PhilInv
  <2>3. SemTypeOK' /\ SemInv'
    BY <1>5, <2>1, DownResumeKeeps DEF PhilInv, TypeOK
  <2>4. value[s(i)] = 0 /\ state_sema[i] = "EATING"
    BY <2>2 DEF PhilInv, ForksExclusive, HandedOver, TypeOK, SemTypeOK
  <2>5. TypeOK' /\ Phases'
    BY <2>1, <2>3, <2>4 DEF PhilInv, TypeOK, Phases
  <2>6. Inside' = Inside
    BY <2>1, <2>2 DEF Inside, HandedOver, PhilInv, TypeOK
  <2>7. OneOwner'
    BY <2>2, <2>6 DEF PhilInv, OneOwner
  <2>8. ForksExclusive'
    BY <2>1, <2>2, <2>4 DEF PhilInv, ForksExclusive, HandedOver, TypeOK
  <2>9. QED
    BY <2>3, <2>5, <2>7, <2>8 DEF PhilInv
<1>6. QED
  BY <1>3, <1>4, <1>5 DEF DownAt
\* up(mutex): the owner leaves, and the first waiter, if there is one, is the
\* owner at once, before it runs.
LEMMA UpMutexStep ==
  ASSUME PhilInv, NEW i \in Threads, NEW from, NEW to,
         <<from, to>> \in {<<"tested", "wait">>, <<"put", "loop">>},
         UpMutex(i, from, to)
  PROVE  PhilInv'
<1>1. /\ pc[i] = from /\ i \notin in_down /\ pc' = [pc EXCEPT ![i] = to]
      /\ UNCHANGED <<state_sema, iter>>
  BY DEF UpMutex, At, Goto
<1>2. mutex \in Sems /\ \A j \in Threads : j \in Sems /\ j # mutex /\ s(j) = j
  BY Neighbours DEF s
<1>3. SemTypeOK' /\ SemInv'
  <2>1. \A t \in in_down : pc'[t] = pc[t]
    BY <1>1 DEF PhilInv, TypeOK, SemTypeOK
  <2>2. QED
    BY <1>2, <2>1, UpKeeps DEF PhilInv, UpMutex
<1>4. TypeOK' /\ Phases'
  BY <1>1, <1>3 DEF PhilInv, TypeOK, Phases
<1>5. i \in Inside /\ Inside \subseteq {i} /\ value[mutex] = 0
  <2>1. i \in Inside
    BY <1>1 DEF Inside
  <2>2. QED
    BY <2>1 DEF PhilInv, OneOwner
<1>6. CASE value' = [value EXCEPT ![mutex] = @ + 1] /\ UNCHANGED <<wakeup_flags, in_down>>
  <2>1. \A t \in Threads : HandedOver(t)' = HandedOver(t)
    BY <1>6 DEF HandedOver
  <2>2. Inside' = {}
    BY <1>1, <1>5, <2>1 DEF Inside, HandedOver, PhilInv, TypeOK
  <2>3. OneOwner'
    BY <1>2, <1>5, <1>6, <2>2 DEF OneOwner, PhilInv, TypeOK, SemTypeOK
  <2>4. ForksExclusive'
    BY <1>1, <1>2, <1>6, SMTT(20) DEF PhilInv, ForksExclusive, HandedOver, TypeOK, SemTypeOK
  <2>5. QED
    BY <1>3, <1>4, <2>3, <2>4 DEF PhilInv
<1>7. ASSUME NEW first \in in_down,
             wakeup_flags[first] = "WT_INTERRUPTED", WaitsFor(first) = mutex,
             value' = value, in_down' = in_down,
             wakeup_flags' = [wakeup_flags EXCEPT ![first] = "WT_KSEM"]
      PROVE  PhilInv'
  <2>1. first \in Threads /\ first # i /\ pc[first] \in {"thought", "ate"}
    BY <1>1, <1>2, <1>7 DEF PhilInv, SemInv, DownSleeps, TypeOK, SemTypeOK, WaitsFor
  <2>2. \A t \in Threads : HandedOver(t)' = (HandedOver(t) \/ t = first)
    BY <1>7, <2>1 DEF HandedOver, PhilInv, TypeOK, SemTypeOK
  <2>3. Inside' = {first}
    BY <1>1, <1>5, <1>7, <2>1, <2>2 DEF Inside, HandedOver, PhilInv, TypeOK
  <2>4. OneOwner'
    BY <1>5, <1>7, <2>3 DEF OneOwner
  <2>5. ForksExclusive'
    BY <1>1, <1>2, <1>7, <2>1, <2>2, SMTT(20)
       DEF PhilInv, ForksExclusive, HandedOver, TypeOK, SemTypeOK
  <2>6. QED
    BY <1>3, <1>4, <2>4, <2>5 DEF PhilInv
<1>8. QED
  <2>1. TypeOK /\ SemInv /\ Up(mutex)
    BY DEF PhilInv, UpMutex
  <2>2. QED
    BY <2>1, <1>2, <1>6, <1>7, UpCases

\* The assignments to state_sema of phi_take_forks_sema and phi_put_forks_sema.
LEMMA EnterStep ==
  ASSUME PhilInv, NEW i \in Threads, NEW from, NEW new, NEW to,
         <<from, new, to>> \in {<<"hungry", "HUNGRY", "test">>, <<"full", "THINKING", "left">>},
         Enter(i, from, new, to)
  PROVE  PhilInv'
<1>1. /\ pc[i] = from /\ i \notin in_down /\ pc' = [pc EXCEPT ![i] = to]
      /\ state_sema' = [state_sema EXCEPT ![i] = new]
      /\ UNCHANGED <<sem_vars, iter>>
  BY DEF Enter, At, Goto
<1>2. TypeOK'
  BY <1>1 DEF PhilInv, TypeOK, SemTypeOK, sem_vars
<1>3. SemInv'
  BY <1>1 DEF PhilInv, SemInv, WaitersBlocked, QueuesDistinct, DownSleeps, NoAssertionFails, WaitsFor,
              TypeOK, SemTypeOK, sem_vars
<1>4. Phases'
  BY <1>1 DEF PhilInv, Phases, TypeOK
<1>5. Inside' = Inside
  BY <1>1 DEF Inside, HandedOver, PhilInv, TypeOK, sem_vars
<1>6. OneOwner'
  BY <1>1, <1>5 DEF PhilInv, OneOwner, sem_vars
<1>7. ForksExclusive'
  <2>1. \A j \in Threads : RIGHT(j) \in Threads
    BY Neighbours
  <2>2. QED
    BY <1>1, <2>1 DEF PhilInv, ForksExclusive, HandedOver, TypeOK, SemTypeOK, sem_vars
<1>8. QED
  BY <1>2, <1>3, <1>4, <1>6, <1>7 DEF PhilInv

\* phi_test_sema: a hungry philosopher between two that do not eat gets both forks
\* and one permission.  It is the caller itself, or it waits for its semaphore,
\* because no other philosopher is inside.
LEMMA TestStep ==
  ASSUME PhilInv, NEW i \in Threads, NEW from, NEW whom, NEW to,
         <<from, whom, to>> \in {<<"test", i, "tested">>, <<"left", LEFT(i), "right">>,
                                 <<"right", RIGHT(i), "put">>},
         Test(i, from, whom, to)
  PROVE  PhilInv'
<1>1. /\ pc[i] = from /\ i \notin in_down /\ pc' = [pc EXCEPT ![i] = to]
      /\ phi_test_sema(whom) /\ iter' = iter
  BY DEF Test, At, Goto
<1>2. \A t \in in_down : pc'[t] = pc[t]
  BY <1>1 DEF PhilInv, TypeOK, SemTypeOK
<1>3. \A j \in Threads :
        /\ LEFT(j) \in Threads /\ RIGHT(j) \in Threads /\ LEFT(j) # j /\ RIGHT(j) # j
        /\ j \in Sems /\ mutex \in Sems /\ j # mutex /\ s(j) = j
        /\ \A k \in Threads : RIGHT(k) = j => k = LEFT(j)
  BY Neighbours DEF s
<1>4. whom \in Threads /\ (whom = i <=> from = "test")
  BY <1>3
<1>5. i \in Inside
  BY <1>1 DEF Inside
<1>6. CASE ~(state_sema[whom] = "HUNGRY" /\ state_sema[LEFT(whom)] # "EATING"
             /\ state_sema[RIGHT(whom)] # "EATING")
  <2>1. UNCHANGED <<sem_vars, state_sema>>
    BY <1>1, <1>6 DEF phi_test_sema
  <2>2. TypeOK'
    BY <1>1, <2>1 DEF PhilInv, TypeOK, SemTypeOK, sem_vars
  <2>3. SemInv'
    BY <1>2, <2>1 DEF PhilInv, SemInv, WaitersBlocked, QueuesDistinct, DownSleeps, NoAssertionFails,
                      WaitsFor, TypeOK, SemTypeOK, sem_vars
  <2>4. Phases'
    BY <1>1, <2>1 DEF PhilInv, Phases, TypeOK
  <2>5. Inside' = Inside
    BY <1>1, <2>1 DEF Inside, HandedOver, PhilInv, TypeOK, sem_vars
  <2>6. OneOwner'
    BY <2>1, <2>5 DEF PhilInv, OneOwner, sem_vars
  <2>7. ForksExclusive'
    BY <1>1, <2>1 DEF PhilInv, ForksExclusive, Phases, HandedOver, TypeOK, SemTypeOK, sem_vars
  <2>8. QED
    BY <2>2, <2>3, <2>4, <2>6, <2>7 DEF PhilInv
<1>7. CASE /\ state_sema[whom] = "HUNGRY" /\ state_sema[LEFT(whom)] # "EATING"
           /\ state_sema[RIGHT(whom)] # "EATING"
  <2>1. state_sema' = [state_sema EXCEPT ![whom] = "EATING"] /\ Up(whom)
    BY <1>1, <1>4, <1>7, <1>3 DEF phi_test_sema
  <2>2. SemTypeOK' /\ SemInv'
    BY <1>2, <1>3, <1>4, <2>1, UpKeeps DEF PhilInv
  <2>3. pc[whom] = IF whom = i THEN "test" ELSE "wait"
    <3>1. whom # i => pc[whom] \in {"test", "tested", "wait"}
      BY <1>4, <1>7 DEF PhilInv, Phases, TypeOK
    <3>2. whom # i => whom \notin Inside
      BY <1>5 DEF PhilInv, OneOwner
    <3>3. QED
      BY <1>1, <1>4, <3>1, <3>2 DEF Inside
  <2>4. TypeOK'
    BY <1>1, <2>1, <2>2 DEF PhilInv, TypeOK
  <2>5. Phases'
    BY <1>1, <1>4, <2>1, <2>3 DEF PhilInv, Phases, TypeOK
  <2>6. value[whom] = 0 /\ ~(pc[whom] = "wait" /\ HandedOver(whom))
    <3>1. /\ value[whom] + (IF pc[whom] = "wait" /\ HandedOver(whom) THEN 1 ELSE 0) =
               IF state_sema[whom] = "EATING" /\ pc[whom] \in {"tested", "wait"} THEN 1 ELSE 0
          /\ value[whom] \in Nat
      BY <1>3, <1>4 DEF PhilInv, ForksExclusive, TypeOK, SemTypeOK
    <3>2. QED
      BY <3>1, <1>7
  <2>7. \A j \in Threads : state_sema'[j] = "EATING" => state_sema'[RIGHT(j)] # "EATING"
    BY <1>3, <1>4, <1>7, <2>1 DEF PhilInv, ForksExclusive, TypeOK
  <2>8. CASE /\ value' = [value EXCEPT ![whom] = @ + 1]
             /\ UNCHANGED <<wakeup_flags, in_down>>
    <3>1. \A t \in Threads : HandedOver(t)' = HandedOver(t)
      BY <2>8 DEF HandedOver
    <3>2. Inside' = Inside
      BY <1>1, <3>1 DEF Inside, PhilInv, TypeOK
    <3>3. OneOwner'
      <4>1. value'[mutex] = value[mutex]
        BY <1>3, <1>4, <2>8 DEF PhilInv, TypeOK, SemTypeOK
      <4>2. QED
        BY <3>2, <4>1 DEF PhilInv, OneOwner
    <3>4. ForksExclusive'
      <4> SUFFICES ASSUME NEW j \in Threads
                   PROVE  value'[s(j)] + (IF pc'[j] = "wait" /\ HandedOver(j)' THEN 1 ELSE 0) =
                            IF state_sema'[j] = "EATING" /\ pc'[j] \in {"tested", "wait"} THEN 1 ELSE 0
        BY <2>7 DEF ForksExclusive, s
      <4>1. CASE j = whom
        BY <4>1, <1>1, <1>3, <1>4, <2>1, <2>3, <2>6, <2>8, <3>1 DEF PhilInv, TypeOK, SemTypeOK
      <4>2. CASE j # whom
        <5>1. /\ value[s(j)] + (IF pc[j] = "wait" /\ HandedOver(j) THEN 1 ELSE 0) =
                 IF state_sema[j] = "EATING" /\ pc[j] \in {"tested", "wait"} THEN 1 ELSE 0
              /\ s(j) = j
          BY <1>3 DEF PhilInv, ForksExclusive
        <5>2. pc'[j] \in {"tested", "wait"} <=> pc[j] \in {"tested", "wait"}
          BY <4>2, <1>1, <1>4 DEF PhilInv, TypeOK
        <5>3. pc'[j] = "wait" <=> pc[j] = "wait"
          BY <4>2, <1>1, <1>4 DEF PhilInv, TypeOK
        <5>4. value'[j] = value[j] /\ state_sema'[j] = state_sema[j]
          BY <4>2, <1>3, <2>1, <2>8 DEF PhilInv, TypeOK, SemTypeOK
        <5>5. QED
          BY <5>1, <5>2, <5>3, <5>4, <3>1
      <4>3. QED
        BY <4>1, <4>2
    <3>5. QED
      BY <2>2, <2>4, <2>5, <3>3, <3>4 DEF PhilInv
  <2>9. ASSUME NEW first \in in_down,
               WaitsFor(first) = whom,
               wakeup_flags[first] = "WT_INTERRUPTED",
               value' = value, in_down' = in_down,
               wakeup_flags' = [wakeup_flags EXCEPT ![first] = "WT_KSEM"]
        PROVE  PhilInv'
    <3>1. first = whom /\ pc[whom] = "wait" /\ whom # i
      BY <1>3, <1>4, <2>9, <2>3 DEF WaitsFor, PhilInv, TypeOK, SemTypeOK
    <3>2. \A t \in Threads : HandedOver(t)' = (HandedOver(t) \/ t = whom)
      BY <2>9, <3>1 DEF HandedOver, PhilInv, TypeOK, SemTypeOK
    <3>3. Inside' = Inside
      BY <1>1, <3>1, <3>2 DEF Inside, PhilInv, TypeOK
    <3>4. OneOwner'
      BY <2>9, <3>3 DEF PhilInv, OneOwner
    <3>5. ForksExclusive'
      <4> SUFFICES ASSUME NEW j \in Threads
                   PROVE  value'[s(j)] + (IF pc'[j] = "wait" /\ HandedOver(j)' THEN 1 ELSE 0) =
                            IF state_sema'[j] = "EATING" /\ pc'[j] \in {"tested", "wait"} THEN 1 ELSE 0
        BY <2>7 DEF ForksExclusive, s
      <4>1. CASE j = whom
        <5>1. HandedOver(j)' /\ pc'[j] = "wait" /\ state_sema'[j] = "EATING"
          BY <4>1, <1>1, <1>4, <2>1, <3>1, <3>2 DEF PhilInv, TypeOK
        <5>2. value'[s(j)] = 0
          BY <4>1, <1>3, <1>4, <2>6, <2>9
        <5>3. QED
          BY <5>1, <5>2
      <4>2. CASE j # whom
        <5>1. /\ value[s(j)] + (IF pc[j] = "wait" /\ HandedOver(j) THEN 1 ELSE 0) =
                 IF state_sema[j] = "EATING" /\ pc[j] \in {"tested", "wait"} THEN 1 ELSE 0
              /\ s(j) = j
          BY <1>3 DEF PhilInv, ForksExclusive
        <5>2. pc'[j] \in {"tested", "wait"} <=> pc[j] \in {"tested", "wait"}
          BY <4>2, <1>1, <1>4 DEF PhilInv, TypeOK
        <5>3. pc'[j] = "wait" <=> pc[j] = "wait"
          BY <4>2, <1>1, <1>4 DEF PhilInv, TypeOK
        <5>4. value'[j] = value[j] /\ state_sema'[j] = state_sema[j]
          BY <4>2, <1>3, <2>1, <2>9 DEF PhilInv, TypeOK
        <5>5. QED
          BY <5>1, <5>2, <5>3, <5>4, <3>2, <4>2
      <4>3. QED
        BY <4>1, <4>2
    <3>6. QED
      BY <2>2, <2>4, <2>5, <3>4, <3>5 DEF PhilInv
  <2>10. QED
    <3>1. TypeOK /\ SemInv /\ whom \in Sems
      BY <1>3, <1>4 DEF PhilInv
    <3>2. QED
      BY <2>1, <2>8, <2>9, <3>1, UpCases
<1>8. QED
  BY <1>6, <1>7
-----------------------------------------------------------------------------
\* check_sync leaves a state of the invariant.
LEMMA PhilInit == Init => PhilInv
<1> SUFFICES ASSUME Init PROVE PhilInv
  OBVIOUS
<1>1. \A i \in Threads : RIGHT(i) \in Threads /\ i \in Sems /\ i # mutex /\ mutex \in Sems /\ s(i) = i
  BY Neighbours DEF s
<1>2. mutex \in Sems
  BY PhilosophersAssumption DEF mutex
<1>3. \A x \in Sems : wait_queue[x] = <<>> /\ DOMAIN wait_queue[x] = {}
  BY DEF Init, SemInit
<1>4. TypeOK
  <2>1. <<>> \in Seq(Threads)
    BY EmptySeq
  <2>2. SemTypeOK
    BY <2>1 DEF Init, SemInit, SemTypeOK
  <2>3. QED
    BY <2>2, PhilosophersAssumption DEF Init, TypeOK
<1>5. SemInv
  BY <1>3 DEF Init, SemInit, SemInv, WaitersBlocked, QueuesDistinct, DownSleeps, NoAssertionFails
<1>6. Phases
  BY DEF Init, Phases
<1>7. OneOwner
  BY <1>2 DEF Init, SemInit, OneOwner, Inside, HandedOver
<1>8. ForksExclusive
  BY <1>1 DEF Init, SemInit, ForksExclusive, HandedOver
<1>9. QED
  BY <1>4, <1>5, <1>6, <1>7, <1>8 DEF PhilInv

LEMMA PhilStep == PhilInv /\ [Next]_vars => PhilInv'
<1> SUFFICES ASSUME PhilInv, [Next]_vars PROVE PhilInv'
  OBVIOUS
<1>1. CASE UNCHANGED vars
  BY <1>1 DEF vars, sem_vars, PhilInv, TypeOK, SemTypeOK, SemInv, WaitersBlocked, QueuesDistinct, DownSleeps,
              NoAssertionFails, WaitsFor, Phases, OneOwner, Inside, ForksExclusive, HandedOver
<1>2. ASSUME NEW i \in Threads, TimerExpires(i) \/ Killed(i)
      PROVE  PhilInv'
  BY <1>2, WakeStep
<1>3. ASSUME NEW i \in Threads, Think(i)
      PROVE  PhilInv'
  <2>1. iter' \in [Threads -> 0 .. TIMES]
    BY <1>3, PhilosophersAssumption DEF Think, PhilInv, TypeOK
  <2>2. /\ At(i, "loop") /\ Sleep(i) /\ Goto(i, "thought") /\ UNCHANGED state_sema
    BY <1>3 DEF Think
  <2>3. QED
    BY <2>1, <2>2, SleepStep
<1>4. ASSUME NEW i \in Threads, Eat(i)
      PROVE  PhilInv'
  <2>1. /\ At(i, "eat") /\ Sleep(i) /\ Goto(i, "ate") /\ UNCHANGED <<state_sema, iter>>
    BY <1>4 DEF Eat
  <2>2. iter' \in [Threads -> 0 .. TIMES]
    BY <2>1 DEF PhilInv, TypeOK
  <2>3. QED
    BY <2>1, <2>2, SleepStep
<1>5. ASSUME NEW i \in Threads, Quit(i)
      PROVE  PhilInv'
  <2>1. /\ pc[i] = "loop" /\ i \notin in_down /\ pc' = [pc EXCEPT ![i] = "quit"]
        /\ UNCHANGED <<sem_vars, state_sema, iter>>
    BY <1>5 DEF Quit, At, Goto
  <2>2. TypeOK' /\ Phases'
    BY <2>1 DEF PhilInv, TypeOK, SemTypeOK, Phases, sem_vars
  <2>3. SemInv'
    BY <2>1 DEF PhilInv, SemInv, WaitersBlocked, QueuesDistinct, DownSleeps, NoAssertionFails, WaitsFor,
                TypeOK, SemTypeOK, sem_vars
  <2>4. Inside' = Inside
    BY <2>1 DEF Inside, HandedOver, PhilInv, TypeOK, sem_vars
  <2>5. OneOwner' /\ ForksExclusive'
    BY <2>1, <2>4 DEF PhilInv, OneOwner, ForksExclusive, HandedOver, TypeOK, sem_vars
  <2>6. QED
    BY <2>2, <2>3, <2>5 DEF PhilInv
<1>6. ASSUME NEW i \in Threads, phi_take_forks_sema(i)
      PROVE  PhilInv'
  <2>1. CASE DownAt(i, "thought", mutex, "hungry")
    BY <2>1, DownMutexStep
  <2>2. CASE Enter(i, "hungry", "HUNGRY", "test")
    BY <2>2, EnterStep
  <2>3. CASE Test(i, "test", i, "tested")
    BY <2>3, TestStep
  <2>4. CASE UpMutex(i, "tested", "wait")
    BY <2>4, UpMutexStep
  <2>5. CASE DownAt(i, "wait", s(i), "eat")
    BY <2>5, DownForksStep
  <2>6. QED
    BY <1>6, <2>1, <2>2, <2>3, <2>4, <2>5 DEF phi_take_forks_sema
<1>7. ASSUME NEW i \in Threads, phi_put_forks_sema(i)
      PROVE  PhilInv'
  <2>1. CASE DownAt(i, "ate", mutex, "full")
    BY <2>1, DownMutexStep
  <2>2. CASE Enter(i, "full", "THINKING", "left")
    BY <2>2, EnterStep
  <2>3. CASE Test(i, "left", LEFT(i), "right")
    BY <2>3, TestStep
  <2>4. CASE Test(i, "right", RIGHT(i), "put")
    BY <2>4, TestStep
  <2>5. CASE UpMutex(i, "put", "loop")
    BY <2>5, UpMutexStep
  <2>6. QED
    BY <1>7, <2>1, <2>2, <2>3, <2>4, <2>5 DEF phi_put_forks_sema
<1>8. QED
  BY <1>1, <1>2, <1>3, <1>4, <1>5, <1>6, <1>7 DEF Next, philosopher_using_semaphore, Finished

\* Every reachable state is one of the inductive invariant.
THEOREM PhilSafe == Spec => []PhilInv
<1>1. QED
  BY PhilInit, PhilStep, PTL DEF Spec

\* The variables of the semaphores and of the philosophers keep their types.
THEOREM PhilTypeCorrect == Spec => []TypeOK
<1>1. PhilInv => TypeOK
  BY DEF PhilInv
<1>2. QED
  BY <1>1, PhilSafe, PTL

\* The hand-over of up loses no unit of mutex and makes no second one: with any
\* number of philosophers exactly one is inside when the value is 0.
THEOREM MutexIsConserved == Spec => []MutexConserved
<1>1. PhilInv => MutexConserved
  <2> SUFFICES ASSUME PhilInv PROVE MutexConserved
    OBVIOUS
  <2>1. CASE value[mutex] = 1
    <3>1. Cardinality(Inside) = 0
      BY <2>1, FS_EmptySet DEF PhilInv, OneOwner
    <3>2. QED
      BY <2>1, <3>1 DEF MutexConserved
  <2>2. CASE value[mutex] = 0
    <3>1. PICK i \in Inside : Inside = {i}
      BY <2>2 DEF PhilInv, OneOwner
    <3>2. Cardinality(Inside) = 1
      BY <3>1, FS_Singleton
    <3>3. QED
      BY <2>2, <3>2 DEF MutexConserved
  <2>3. QED
    BY <2>1, <2>2 DEF PhilInv, OneOwner
<1>2. QED
  BY <1>1, PhilSafe, PTL

\* Neighbours never eat together, and the semaphore of a philosopher holds or is
\* handing over one permission exactly while it may eat and has not begun.
THEOREM ForksAreExclusive == Spec => []ForksExclusive
<1>1. PhilInv => ForksExclusive
  BY DEF PhilInv
<1>2. QED
  BY <1>1, PhilSafe, PTL

\* No assertion of up or down fails, whatever do_kill wakes and when.
THEOREM SemAssertionsHold == Spec => []NoAssertionFails
<1>1. PhilInv => NoAssertionFails
  BY DEF PhilInv, SemInv
<1>2. QED
  BY <1>1, PhilSafe, PTL

(* ------------------------------------------------------------------------*)
(* The timer list, for every set of sleepers and every MaxSleep: it stores *)
(* differences, and is proved to count the ticks that are left to every    *)
(* process (module Timers).                                                *)
(* ------------------------------------------------------------------------*)
Entries == [proc : Sleepers, expires : Nat]

LEMMA InsertEntry ==
  ASSUME NEW list \in Seq(Entries), NEW k \in 1 .. Len(list) + 1, NEW e \in Entries
  PROVE  /\ InsertAt(list, k, e) \in Seq(Entries) /\ Len(InsertAt(list, k, e)) = Len(list) + 1
         /\ \A i \in 1 .. Len(list) + 1 :
              InsertAt(list, k, e)[i] = IF i < k THEN list[i] ELSE IF i = k THEN e ELSE list[i - 1]
<1>1. IsInserted(Entries, list, k, e, InsertAt(list, k, e))
  BY InsertAtInserts
<1>2. QED
  BY <1>1 DEF IsInserted

LEMMA SuffixElements ==
  ASSUME NEW list \in Seq(Entries), NEW d \in 0 .. Len(list), NEW k \in 1 .. Len(list) - d
  PROVE  SubSeq(list, d + 1, Len(list))[k] = list[(d + 1) + k - 1]
  OBVIOUS

\* The recursion of Ticks, spelled out.
Sums(sum, list) ==
  sum = [i \in 0 .. Len(list) |-> IF i = 0 THEN 0 ELSE sum[i - 1] + list[i].expires]

\* Ticks is the function of prefix sums (the list of timers stores differences).
LEMMA TicksAdd ==
  ASSUME NEW list \in Seq(Entries)
  PROVE  /\ Ticks(list) \in [0 .. Len(list) -> Nat]
         /\ Ticks(list)[0] = 0
         /\ \A i \in 1 .. Len(list) : Ticks(list)[i] = Ticks(list)[i - 1] + list[i].expires
<1> PICK n \in Nat : n = Len(list)
  OBVIOUS
<1>0. \A i \in 1 .. n : list[i].expires \in Nat
  <2>1. \A i \in 1 .. n : list[i] \in Entries
    OBVIOUS
  <2>2. QED
    BY <2>1 DEF Entries
<1> DEFINE step == [x \in Nat \X (1 .. n) |-> x[1] + list[x[2]].expires]
<1>1. step \in [Nat \X (1 .. n) -> Nat]
  BY <1>0
<1>2. PICK g : Loops(g, n, Nat, 0, step)
  <2> HIDE DEF step
  <2>1. QED
    BY <1>1, LoopRecursion
<1> DEFINE f == [i \in 0 .. n |-> g[1 .. i]]
<1>3. f[0] = 0 /\ f \in [0 .. n -> Nat]
  <2>1. 1 .. 0 = {} /\ \A i \in 0 .. n : 1 .. i \in SUBSET (1 .. n)
    OBVIOUS
  <2>2. g[{}] = 0 /\ \A i \in 0 .. n : g[1 .. i] \in Nat
    BY <1>2, <2>1 DEF Loops
  <2>3. QED
    BY <2>1, <2>2
<1>4. ASSUME NEW i \in 1 .. n PROVE f[i] = f[i - 1] + list[i].expires
  <2>1. i \in Nat \ {0} /\ 1 .. i \in SUBSET (1 .. n)
    OBVIOUS
  <2>2. Max(1 .. i) = i /\ (1 .. i) \ {Max(1 .. i)} = 1 .. (i - 1) /\ 1 .. i # {}
    BY <2>1, MaxOfInterval
  <2>3. g[1 .. i] = step[<<g[1 .. (i - 1)], i>>]
    <3> HIDE DEF step
    <3>1. g[1 .. i] = step[<<g[(1 .. i) \ {Max(1 .. i)}], Max(1 .. i)>>]
      BY <1>2, <2>1, <2>2 DEF Loops
    <3>2. QED
      BY <2>2, <3>1
  <2>4. g[1 .. (i - 1)] \in Nat
    <3>1. 1 .. (i - 1) \in SUBSET (1 .. n)
      OBVIOUS
    <3>2. QED
      BY <1>2, <3>1 DEF Loops
  <2>5. f[i] = g[1 .. i] /\ f[i - 1] = g[1 .. (i - 1)]
    OBVIOUS
  <2>6. QED
    BY <2>3, <2>4, <2>5
<1>5. Sums(f, list)
  <2>1. \A i \in 0 .. n : f[i] = IF i = 0 THEN 0 ELSE f[i - 1] + list[i].expires
    <3> HIDE DEF f
    <3>1. \A i \in 0 .. n : i # 0 => i \in 1 .. n
      OBVIOUS
    <3>2. QED
      BY <1>3, <1>4, <3>1
  <2>2. f = [i \in 0 .. n |-> f[i]]
    OBVIOUS
  <2> HIDE DEF f
  <2>3. QED
    BY <2>1, <2>2 DEF Sums
<1>6. Ticks(list) = CHOOSE sum : Sums(sum, list)
  BY DEF Ticks, Sums
<1>7. Sums(Ticks(list), list)
  BY <1>5, <1>6
<1> HIDE DEF f
<1> PICK t : t = Ticks(list)
  OBVIOUS
<1>8. \A i \in 0 .. n : t[i] = IF i = 0 THEN 0 ELSE t[i - 1] + list[i].expires
  BY <1>7 DEF Sums
<1>9. \A i \in 1 .. n : t[i] = t[i - 1] + list[i].expires
  BY <1>8
<1> DEFINE K == {i \in Nat : i <= n => t[i] \in Nat}
<1>10. 0 \in K
  BY <1>8
<1>11. ASSUME NEW i \in Nat, i \in K PROVE i + 1 \in K
  <2>1. CASE i + 1 <= n
    <3>1. t[i + 1] = t[i] + list[i + 1].expires
      BY <1>9, <2>1
    <3>2. QED
      BY <1>0, <1>11, <2>1, <3>1
  <2>2. QED
    BY <2>1
<1>12. Nat \subseteq K
  <2> HIDE DEF K
  <2>1. QED
    BY <1>10, <1>11, NatSetInduction
<1>13. t \in [0 .. n -> Nat]
  <2>1. \A i \in 0 .. n : t[i] \in Nat
    BY <1>12
  <2>2. t = [i \in 0 .. n |-> IF i = 0 THEN 0 ELSE t[i - 1] + list[i].expires]
    BY <1>7 DEF Sums
  <2>3. DOMAIN t = 0 .. n
    BY <2>2
  <2>4. QED
    BY <2>1, <2>2
<1>14. QED
  BY <1>8, <1>9, <1>13

\* What adds up like Ticks is Ticks.
LEMMA TicksUnique ==
  ASSUME NEW list \in Seq(Entries), NEW f \in [0 .. Len(list) -> Int], f[0] = 0,
         \A i \in 1 .. Len(list) : f[i] = f[i - 1] + list[i].expires
  PROVE  \A i \in 0 .. Len(list) : Ticks(list)[i] = f[i]
<1> PICK n \in Nat : n = Len(list)
  OBVIOUS
<1> PICK t : t = Ticks(list)
  OBVIOUS
<1>1. t[0] = 0 /\ \A i \in 1 .. n : t[i] = t[i - 1] + list[i].expires
  BY TicksAdd
<1> DEFINE K == {i \in Nat : i <= n => t[i] = f[i]}
<1>2. 0 \in K
  BY <1>1
<1>3. ASSUME NEW i \in Nat, i \in K PROVE i + 1 \in K
  <2>1. CASE i + 1 <= n
    <3>1. i + 1 \in 1 .. n /\ (i + 1) - 1 = i
      BY <2>1
    <3>2. t[i + 1] = t[i] + list[i + 1].expires /\ f[i + 1] = f[i] + list[i + 1].expires
      BY <1>1, <3>1
    <3>3. QED
      BY <1>3, <2>1, <3>2
  <2>2. QED
    BY <2>1
<1>4. Nat \subseteq K
  <2> HIDE DEF K
  <2>1. QED
    BY <1>2, <1>3, NatSetInduction
<1>5. QED
  BY <1>4

\* Later timers expire no earlier.
LEMMA TicksMonotone ==
  ASSUME NEW list \in Seq(Entries), NEW j \in 0 .. Len(list), NEW k \in j .. Len(list)
  PROVE  Ticks(list)[j] <= Ticks(list)[k]
<1> PICK n \in Nat : n = Len(list)
  OBVIOUS
<1> PICK t : t = Ticks(list)
  OBVIOUS
<1>1. t \in [0 .. n -> Nat] /\ \A i \in 1 .. n : t[i] = t[i - 1] + list[i].expires
  BY TicksAdd
<1>2. \A i \in 1 .. n : list[i].expires \in Nat
  <2>1. \A i \in 1 .. n : list[i] \in Entries
    OBVIOUS
  <2>2. QED
    BY <2>1 DEF Entries
<1> DEFINE K == {i \in Nat : j + i <= n => t[j] <= t[j + i]}
<1>3. 0 \in K
  BY <1>1
<1>4. ASSUME NEW i \in Nat, i \in K PROVE i + 1 \in K
  <2>1. CASE j + i + 1 <= n
    <3>1. j + i + 1 \in 1 .. n /\ (j + i + 1) - 1 = j + i /\ j + i \in 0 .. n
      BY <2>1
    <3>2. t[j + i + 1] = t[j + i] + list[j + i + 1].expires
      BY <1>1, <3>1
    <3>3. t[j] \in Nat /\ t[j + i] \in Nat /\ list[j + i + 1].expires \in Nat
      BY <1>1, <1>2, <3>1
    <3>4. QED
      BY <1>4, <2>1, <3>2, <3>3
  <2>2. QED
    BY <2>1
<1>5. Nat \subseteq K
  <2> HIDE DEF K
  <2>1. QED
    BY <1>3, <1>4, NatSetInduction
<1>6. k - j \in K /\ j + (k - j) = k
  BY <1>5
<1>7. QED
  BY <1>6

-----------------------------------------------------------------------------
\* Every process is on the list at most once, and only from its add_timer to its
\* del_timer; the head is not due, or the last run would have removed it.
ListOK(list, sleeping) ==
  /\ list \in Seq(Entries)
  /\ \A i, j \in DOMAIN list : list[i].proc = list[j].proc => i = j
  /\ \A i \in DOMAIN list : list[i].proc \in sleeping
  /\ list # <<>> => list[1].expires > 0

\* TicksLeft, of any list.
LeftOf(list) ==
  [p \in Sleepers |->
    LET mine == {i \in DOMAIN list : list[i].proc = p}
    IN IF mine = {} THEN 0 ELSE Ticks(list)[CHOOSE i \in mine : TRUE]]

\* The countdown of each process on the list is the sum at its place; that of the
\* others is 0, and no other function is like that.
LEMMA LeftIsTicks ==
  ASSUME NEW list, NEW sleeping \in SUBSET Sleepers, ListOK(list, sleeping)
  PROVE  /\ \A i \in DOMAIN list : LeftOf(list)[list[i].proc] = Ticks(list)[i]
         /\ \A p \in Sleepers :
              (\A i \in DOMAIN list : list[i].proc # p) => LeftOf(list)[p] = 0
<1> DEFINE mine(p) == {i \in DOMAIN list : list[i].proc = p}
<1>1. ASSUME NEW i \in DOMAIN list
      PROVE  LeftOf(list)[list[i].proc] = Ticks(list)[i]
  <2>1. list[i] \in Entries
    BY DEF ListOK
  <2>2. list[i].proc \in Sleepers
    BY <2>1 DEF Entries
  <2>3. mine(list[i].proc) = {i}
    BY DEF ListOK
  <2>4. (CHOOSE k \in {i} : TRUE) = i
    OBVIOUS
  <2>5. LeftOf(list)[list[i].proc] =
          IF mine(list[i].proc) = {} THEN 0
          ELSE Ticks(list)[CHOOSE k \in mine(list[i].proc) : TRUE]
    BY <2>2 DEF LeftOf
  <2> HIDE DEF mine
  <2>6. QED
    BY <2>3, <2>4, <2>5
<1>2. ASSUME NEW p \in Sleepers, \A i \in DOMAIN list : list[i].proc # p
      PROVE  LeftOf(list)[p] = 0
  <2>1. mine(p) = {}
    BY <1>2
  <2>2. QED
    BY <2>1 DEF LeftOf
<1>3. QED
  BY <1>1, <1>2

LEMMA LeftIsUnique ==
  ASSUME NEW list, NEW sleeping \in SUBSET Sleepers, ListOK(list, sleeping),
         NEW u, DOMAIN u = Sleepers, u = [p \in Sleepers |-> u[p]],
         \A i \in DOMAIN list : u[list[i].proc] = Ticks(list)[i],
         \A p \in Sleepers : (\A i \in DOMAIN list : list[i].proc # p) => u[p] = 0
  PROVE  LeftOf(list) = u
<1>1. ASSUME NEW p \in Sleepers PROVE LeftOf(list)[p] = u[p]
  <2>1. CASE \A i \in DOMAIN list : list[i].proc # p
    BY <2>1, LeftIsTicks
  <2>2. CASE \E i \in DOMAIN list : list[i].proc = p
    <3>1. PICK i \in DOMAIN list : list[i].proc = p
      BY <2>2
    <3>2. LeftOf(list)[list[i].proc] = Ticks(list)[i]
      BY LeftIsTicks
    <3>3. QED
      BY <3>1, <3>2
  <2>3. QED
    BY <2>1, <2>2
<1>2. LeftOf(list) = [p \in Sleepers |-> LeftOf(list)[p]]
  BY DEF LeftOf
<1>3. QED
  BY <1>1, <1>2

\* A timer on the list has at least a tick left.
LEMMA TicksPositive ==
  ASSUME NEW list, NEW sleeping \in SUBSET Sleepers, ListOK(list, sleeping),
         NEW i \in DOMAIN list
  PROVE  Ticks(list)[i] \in Nat /\ Ticks(list)[i] > 0
<1>0. list \in Seq(Entries)
  BY DEF ListOK
<1> PICK n \in Nat : n = Len(list)
  BY <1>0
<1>1. i \in 1 .. n /\ DOMAIN list = 1 .. n
  BY <1>0
<1>2. 1 \in 0 .. n /\ i \in 1 .. n
  BY <1>1
<1>3. Ticks(list)[1] <= Ticks(list)[i]
  BY <1>0, <1>1, <1>2, TicksMonotone
<1>4. list[1] \in Entries /\ list # <<>>
  BY <1>0, <1>1, <1>2
<1>5. list[1].expires \in Nat /\ list[1].expires > 0
  BY <1>4 DEF Entries, ListOK
<1> PICK t : t = Ticks(list)
  OBVIOUS
<1>6. t \in [0 .. n -> Nat] /\ t[0] = 0 /\ \A k \in 1 .. n : t[k] = t[k - 1] + list[k].expires
  BY <1>0, TicksAdd
<1>7. t[1] = list[1].expires
  BY <1>2, <1>5, <1>6
<1>8. QED
  BY <1>2, <1>3, <1>5, <1>6, <1>7

-----------------------------------------------------------------------------
\* From list to new, the countdown of p becomes n and no other changes.
SetsOne(new, list, p, n) ==
  /\ LeftOf(new)[p] = n
  /\ \A q \in Sleepers \ {p} : LeftOf(new)[q] = LeftOf(list)[q]

\* From list to new, every countdown is a tick lower, and d of them end.
CountsDown(new, list, d) ==
  /\ \A q \in Sleepers :
       /\ LeftOf(list)[q] > 0 => LeftOf(new)[q] = LeftOf(list)[q] - 1
       /\ ~(LeftOf(list)[q] > 0) => LeftOf(new)[q] = 0
  /\ {list[k].proc : k \in 1 .. d} = {q \in Sleepers : LeftOf(list)[q] = 1}

\* new is list with one timer more, in front of its pos-th timer, whose distance
\* is split.
Inserted(new, list, pos, p, n) ==
  /\ new \in Seq(Entries) /\ Len(new) = Len(list) + 1
  /\ pos \in 1 .. Len(list) + 1
  /\ Ticks(list)[pos - 1] <= n
  /\ pos <= Len(list) => n < Ticks(list)[pos]
  /\ \A i \in 1 .. pos - 1 : new[i] = list[i]
  /\ new[pos].proc = p /\ new[pos].expires = n - Ticks(list)[pos - 1]
  /\ \A i \in pos .. Len(list) :
       /\ new[i + 1].proc = list[i].proc
       /\ new[i + 1].expires = IF i = pos THEN Ticks(list)[pos] - n ELSE list[i].expires

\* The new timer gets its n ticks and no other timer moves.
LEMMA InsertKeepsTicks ==
  ASSUME NEW list, NEW sleeping \in SUBSET Sleepers, ListOK(list, sleeping),
         NEW p \in Sleepers, p \notin sleeping, NEW n \in Nat, n > 0,
         NEW new, NEW pos, Inserted(new, list, pos, p, n)
  PROVE  ListOK(new, sleeping \cup {p}) /\ SetsOne(new, list, p, n)
<1>0. list \in Seq(Entries)
  BY DEF ListOK
<1> PICK len \in Nat : len = Len(list)
  BY <1>0
<1> PICK t : t = Ticks(list)
  OBVIOUS
<1> PICK both : both = sleeping \cup {p}
  OBVIOUS
<1>a. /\ new \in Seq(Entries) /\ Len(new) = len + 1
      /\ pos \in 1 .. len + 1 /\ t[pos - 1] <= n /\ (pos <= len => n < t[pos])
  BY DEF Inserted
<1>b. /\ \A i \in 1 .. pos - 1 : new[i] = list[i]
      /\ new[pos].proc = p /\ new[pos].expires = n - t[pos - 1]
      /\ \A i \in pos .. len :
           /\ new[i + 1].proc = list[i].proc
           /\ new[i + 1].expires = IF i = pos THEN t[pos] - n ELSE list[i].expires
  BY DEF Inserted
<1> USE <1>a, <1>b
<1>1. list \in Seq(Entries) /\ DOMAIN list = 1 .. len /\ DOMAIN new = 1 .. len + 1
  BY DEF ListOK
<1>2. \A i \in 1 .. len : list[i].proc \in Sleepers /\ list[i].expires \in Nat
  <2>1. \A i \in 1 .. len : list[i] \in Entries
    BY <1>1
  <2>2. QED
    BY <2>1 DEF Entries
<1>3. t \in [0 .. len -> Nat] /\ t[0] = 0 /\ \A i \in 1 .. len : t[i] = t[i - 1] + list[i].expires
  BY <1>1, TicksAdd
<1>4. \A k \in 1 .. len + 1 : k < pos \/ k = pos \/ \E i \in pos .. len : k = i + 1
  <2>1. ASSUME NEW k \in 1 .. len + 1, k > pos PROVE k - 1 \in pos .. len /\ k = (k - 1) + 1
    BY <2>1
  <2>2. QED
    BY <2>1
\* the sums of the new list
<1> DEFINE f == [i \in 0 .. len + 1 |-> IF i < pos THEN t[i] ELSE IF i = pos THEN n ELSE t[i - 1]]
<1>5. f \in [0 .. len + 1 -> Int] /\ f[0] = 0
  <2>1. ASSUME NEW i \in 0 .. len + 1 PROVE f[i] \in Int
    <3>1. CASE i < pos
      BY <1>3, <3>1
    <3>2. CASE i >= pos
      <4>1. i - 1 \in 0 .. len
        BY <3>2
      <4>2. t[i - 1] \in Nat
        BY <1>3, <4>1
      <4>3. f[i] = t[i - 1] \/ f[i] = n
        BY <3>2
      <4>4. QED
        BY <4>2, <4>3
    <3>3. QED
      BY <3>1, <3>2
  <2>2. 0 < pos
    OBVIOUS
  <2>3. QED
    BY <1>3, <2>1, <2>2
<1>6. /\ \A i \in 0 .. pos - 1 : f[i] = t[i]
      /\ f[pos] = n
      /\ \A i \in pos .. len : f[i + 1] = t[i]
  OBVIOUS
<1> HIDE DEF f
<1>7. ASSUME NEW k \in 1 .. len + 1 PROVE f[k] = f[k - 1] + new[k].expires
  <2>1. CASE k < pos
    <3>1. k \in 1 .. pos - 1 /\ k \in 1 .. len /\ k \in 0 .. pos - 1 /\ k - 1 \in 0 .. pos - 1
      BY <2>1
    <3>2. f[k] = t[k] /\ f[k - 1] = t[k - 1] /\ new[k] = list[k]
      BY <1>6, <3>1
    <3>3. QED
      BY <1>3, <3>1, <3>2
  <2>2. CASE k = pos
    <3>1. pos - 1 \in 0 .. pos - 1 /\ pos - 1 \in 0 .. len
      OBVIOUS
    <3>2. f[k] = n /\ f[k - 1] = t[pos - 1] /\ t[pos - 1] \in Nat /\ new[k].expires = n - t[pos - 1]
      BY <1>3, <1>6, <2>2, <3>1
    <3>3. QED
      BY <3>2
  <2>3. CASE \E i \in pos .. len : k = i + 1
    <3>1. PICK i \in pos .. len : k = i + 1
      BY <2>3
    <3>2. f[k] = t[i] /\ i \in 1 .. len /\ t[i] \in Nat
      BY <1>3, <1>6, <3>1
    <3>3. CASE i = pos
      <4>1. f[k - 1] = n /\ new[k].expires = t[i] - n
        BY <1>6, <3>1, <3>3
      <4>2. QED
        BY <3>2, <4>1
    <3>4. CASE i # pos
      <4>1. i - 1 \in pos .. len /\ k - 1 = (i - 1) + 1
        BY <3>1, <3>4
      <4>2. f[k - 1] = t[i - 1] /\ new[k].expires = list[i].expires
        BY <1>6, <3>1, <3>4, <4>1
      <4>3. QED
        BY <1>3, <3>2, <4>2
    <3>5. QED
      BY <3>3, <3>4
  <2>4. QED
    BY <1>4, <2>1, <2>2, <2>3
<1>8. \A i \in 0 .. len + 1 : Ticks(new)[i] = f[i]
  <2>1. f \in [0 .. Len(new) -> Int] /\ f[0] = 0 /\ new \in Seq(Entries)
    BY <1>5
  <2>2. \A k \in 1 .. Len(new) : f[k] = f[k - 1] + new[k].expires
    BY <1>7
  <2>3. \A k \in 0 .. Len(new) : Ticks(new)[k] = f[k]
    BY ONLY <2>1, <2>2, TicksUnique
  <2>4. QED
    BY ONLY <1>a, <2>3
\* the list
<1>9. /\ \A i \in 1 .. pos - 1 : i \in 1 .. len /\ new[i].proc = list[i].proc
      /\ \A i \in pos .. len : i \in 1 .. len /\ new[i + 1].proc = list[i].proc
  OBVIOUS
<1>10. \A i \in 1 .. len : list[i].proc \in sleeping /\ list[i].proc # p
  BY <1>1 DEF ListOK
<1>11. \A k \in 1 .. len + 1 :
         \/ k = pos
         \/ \E i \in 1 .. len : new[k].proc = list[i].proc /\ k = IF i < pos THEN i ELSE i + 1
  <2>1. ASSUME NEW k \in 1 .. len + 1, k < pos
        PROVE  \E i \in 1 .. len : new[k].proc = list[i].proc /\ k = IF i < pos THEN i ELSE i + 1
    <3>1. k \in 1 .. pos - 1
      BY <2>1
    <3>2. k \in 1 .. len /\ new[k].proc = list[k].proc
      BY ONLY <1>9, <3>1
    <3>3. QED
      BY ONLY <2>1, <3>2
  <2>2. ASSUME NEW i \in pos .. len
        PROVE  new[i + 1].proc = list[i].proc /\ i + 1 = (IF i < pos THEN i ELSE i + 1) /\ i \in 1 .. len
    BY <1>9
  <2>3. QED
    BY <1>4, <2>1, <2>2
<1>12. ListOK(new, both)
  <2>1. ASSUME NEW k \in 1 .. len + 1, NEW l \in 1 .. len + 1, new[k].proc = new[l].proc
        PROVE  k = l
    <3>1. \A i, j \in 1 .. len : list[i].proc = list[j].proc => i = j
      BY <1>1 DEF ListOK
    <3>2. CASE k = pos \/ l = pos
      <4>1. \A h \in 1 .. len + 1 : h # pos => new[h].proc # p
        <5>1. ASSUME NEW h \in 1 .. len + 1, h # pos PROVE new[h].proc # p
          BY <1>10, <1>11, <5>1
        <5>2. QED
          BY ONLY <5>1
      <4>2. QED
        BY <2>1, <3>2, <4>1
    <3>3. CASE k # pos /\ l # pos
      <4>1. PICK i \in 1 .. len : new[k].proc = list[i].proc /\ k = IF i < pos THEN i ELSE i + 1
        BY <1>11, <3>3
      <4>2. PICK j \in 1 .. len : new[l].proc = list[j].proc /\ l = IF j < pos THEN j ELSE j + 1
        BY <1>11, <3>3
      <4>3. i = j
        BY <2>1, <3>1, <4>1, <4>2
      <4>4. QED
        BY <4>1, <4>2, <4>3
    <3>4. QED
      BY <3>2, <3>3
  <2>2. \A k \in 1 .. len + 1 : new[k].proc \in both
    BY <1>10, <1>11
  <2>3. new[1].expires > 0
    <3>1. CASE pos = 1
      BY <1>3, <3>1
    <3>2. CASE pos # 1
      <4>1. 1 \in 1 .. pos - 1 /\ 1 \in 1 .. len
        BY <3>2
      <4>2. list # <<>> /\ new[1] = list[1]
        BY <1>1, <4>1
      <4>3. QED
        BY <4>2 DEF ListOK
    <3>3. QED
      BY <3>1, <3>2
  <2>4. QED
    BY <1>1, <2>1, <2>2, <2>3 DEF ListOK
\* the countdowns
<1> PICK old : old = LeftOf(list)
  OBVIOUS
<1> PICK u : u = [q \in Sleepers |-> IF q = p THEN n ELSE old[q]]
  OBVIOUS
<1>13. /\ old = [q \in Sleepers |-> old[q]]
       /\ \A i \in 1 .. len : old[list[i].proc] = t[i]
       /\ \A q \in Sleepers : (\A i \in 1 .. len : list[i].proc # q) => old[q] = 0
  <2>1. old = [q \in Sleepers |-> old[q]]
    BY DEF LeftOf
  <2>2. /\ \A i \in DOMAIN list : LeftOf(list)[list[i].proc] = Ticks(list)[i]
        /\ \A q \in Sleepers : (\A i \in DOMAIN list : list[i].proc # q) => LeftOf(list)[q] = 0
    BY LeftIsTicks
  <2>3. QED
    BY <1>1, <2>1, <2>2
<1>14. /\ DOMAIN u = Sleepers /\ u = [q \in Sleepers |-> u[q]]
       /\ \A q \in Sleepers : u[q] = IF q = p THEN n ELSE old[q]
  <2>1. DOMAIN old = Sleepers
    BY <1>13
  <2>2. QED
    BY ONLY <2>1, u = [q \in Sleepers |-> IF q = p THEN n ELSE old[q]]
<1>15. ASSUME NEW k \in 1 .. len + 1 PROVE u[new[k].proc] = Ticks(new)[k]
  <2>1. CASE k = pos
    <3>1. u[p] = n
      BY <1>14
    <3>2. QED
      BY <1>6, <1>8, <2>1, <3>1
  <2>2. CASE k # pos
    <3>1. PICK i \in 1 .. len : new[k].proc = list[i].proc /\ k = IF i < pos THEN i ELSE i + 1
      BY <1>11, <2>2
    <3>2. u[new[k].proc] = t[i]
      BY <1>2, <1>10, <1>13, <1>14, <3>1
    <3>3. f[k] = t[i]
      <4>1. CASE i < pos
        BY <1>6, <3>1, <4>1
      <4>2. CASE i >= pos
        BY <1>6, <3>1, <4>2
      <4>3. QED
        BY <4>1, <4>2
    <3>4. QED
      BY <1>8, <3>2, <3>3
  <2>3. QED
    BY <2>1, <2>2
<1>16. ASSUME NEW q \in Sleepers, \A k \in 1 .. len + 1 : new[k].proc # q PROVE u[q] = 0
  <2>1. q # p
    BY <1>16
  <2>2. ASSUME NEW i \in 1 .. len PROVE list[i].proc # q
    <3>1. CASE i < pos
      <4>1. i \in 1 .. pos - 1 /\ i \in 1 .. len + 1
        BY <3>1
      <4>2. QED
        BY <1>9, <1>16, <4>1
    <3>2. CASE i >= pos
      <4>1. i \in pos .. len /\ i + 1 \in 1 .. len + 1
        BY <3>2
      <4>2. QED
        BY <1>9, <1>16, <4>1
    <3>3. QED
      BY <3>1, <3>2
  <2>3. QED
    BY <1>13, <1>14, <2>1, <2>2
<1>17. both \in SUBSET Sleepers
  OBVIOUS
<1>18. LeftOf(new) = u
  <2>1. \A i \in DOMAIN new : u[new[i].proc] = Ticks(new)[i]
    BY <1>1, <1>15
  <2>2. \A q \in Sleepers : (\A i \in DOMAIN new : new[i].proc # q) => u[q] = 0
    BY <1>1, <1>16
  <2>3. both \in SUBSET Sleepers /\ ListOK(new, both)
    BY <1>12, <1>17
  <2>4. DOMAIN u = Sleepers /\ u = [q \in Sleepers |-> u[q]]
    BY <1>14
  <2>5. QED
    BY ONLY <2>1, <2>2, <2>3, <2>4, LeftIsUnique
<1>19. QED
  <2>1. ListOK(new, sleeping \cup {p})
    BY ONLY <1>12, both = sleeping \cup {p}
  <2>2. /\ LeftOf(new)[p] = n
        /\ \A q \in Sleepers \ {p} : LeftOf(new)[q] = LeftOf(list)[q]
    BY ONLY <1>14, <1>18, old = LeftOf(list), p \in Sleepers
  <2>3. QED
    BY ONLY <2>1, <2>2 DEF SetsOne

\* new is list without its i-th timer, whose distance goes to the timer behind it.
Removed(new, list, i) ==
  /\ new \in Seq(Entries) /\ Len(new) = Len(list) - 1
  /\ \A k \in 1 .. i - 1 : new[k] = list[k]
  /\ \A k \in i .. Len(list) - 1 :
       /\ new[k].proc = list[k + 1].proc
       /\ new[k].expires = IF k = i THEN list[k + 1].expires + list[i].expires
                           ELSE list[k + 1].expires

\* No other timer moves.
LEMMA RemoveKeepsTicks ==
  ASSUME NEW list, NEW sleeping \in SUBSET Sleepers, ListOK(list, sleeping),
         NEW i \in DOMAIN list, NEW p \in Sleepers, p = list[i].proc,
         NEW new, Removed(new, list, i)
  PROVE  ListOK(new, sleeping \ {p}) /\ SetsOne(new, list, p, 0)
<1>0. list \in Seq(Entries)
  BY DEF ListOK
<1> PICK len \in Nat : len = Len(list)
  BY <1>0
<1> PICK others : others = sleeping \ {p}
  OBVIOUS
<1>a. new \in Seq(Entries) /\ Len(new) = len - 1 /\ i \in 1 .. len
  BY <1>0 DEF Removed
<1>b. /\ \A k \in 1 .. i - 1 : new[k] = list[k]
      /\ \A k \in i .. len - 1 :
           /\ new[k].proc = list[k + 1].proc
           /\ new[k].expires = IF k = i THEN list[k + 1].expires + list[i].expires
                               ELSE list[k + 1].expires
  BY DEF Removed
<1> USE <1>a, <1>b
<1>1. list \in Seq(Entries) /\ DOMAIN list = 1 .. len /\ DOMAIN new = 1 .. len - 1
  BY DEF ListOK
<1>2. \A k \in 1 .. len : list[k].proc \in Sleepers /\ list[k].expires \in Nat
  <2>1. \A k \in 1 .. len : list[k] \in Entries
    BY <1>1
  <2>2. QED
    BY <2>1 DEF Entries
<1> PICK t : t = Ticks(list)
  OBVIOUS
<1>3. t \in [0 .. len -> Nat] /\ t[0] = 0 /\ \A k \in 1 .. len : t[k] = t[k - 1] + list[k].expires
  BY <1>1, TicksAdd
\* the sums of the new list
<1> DEFINE f == [k \in 0 .. len - 1 |-> IF k < i THEN t[k] ELSE t[k + 1]]
<1>4. f \in [0 .. len - 1 -> Int] /\ f[0] = 0
  <2>1. ASSUME NEW k \in 0 .. len - 1 PROVE f[k] \in Int
    <3>1. k \in 0 .. len /\ k + 1 \in 0 .. len
      OBVIOUS
    <3>2. t[k] \in Nat /\ t[k + 1] \in Nat
      BY <1>3, <3>1
    <3>3. f[k] = t[k] \/ f[k] = t[k + 1]
      OBVIOUS
    <3>4. QED
      BY <3>2, <3>3
  <2>2. 0 < i /\ 0 \in 0 .. len - 1
    OBVIOUS
  <2>3. QED
    BY <1>3, <2>1, <2>2
<1>5. /\ \A k \in 0 .. i - 1 : f[k] = t[k]
      /\ \A k \in i .. len - 1 : f[k] = t[k + 1]
  OBVIOUS
<1> HIDE DEF f
<1>6. ASSUME NEW k \in 1 .. len - 1 PROVE f[k] = f[k - 1] + new[k].expires
  <2>1. CASE k < i
    <3>1. k \in 1 .. i - 1 /\ k \in 1 .. len /\ k \in 0 .. i - 1 /\ k - 1 \in 0 .. i - 1
      BY <2>1
    <3>2. f[k] = t[k] /\ f[k - 1] = t[k - 1] /\ new[k] = list[k]
      BY <1>5, <3>1
    <3>3. QED
      BY <1>3, <3>1, <3>2
  <2>2. CASE k = i
    <3>1. i - 1 \in 0 .. i - 1 /\ i - 1 \in 0 .. len /\ i + 1 \in 1 .. len /\ k \in i .. len - 1
      BY <2>2
    <3>2. f[k] = t[i + 1] /\ f[k - 1] = t[i - 1]
      BY <1>5, <2>2, <3>1
    <3>3. new[k].expires = list[i + 1].expires + list[i].expires
      BY <2>2, <3>1
    <3>4. t[i + 1] = t[(i + 1) - 1] + list[i + 1].expires /\ t[i] = t[i - 1] + list[i].expires
      BY <1>3, <3>1
    <3>5. (i + 1) - 1 = i
      OBVIOUS
    <3>6. t[i - 1] \in Nat /\ list[i].expires \in Nat /\ list[i + 1].expires \in Nat
      BY <1>2, <1>3, <3>1
    <3>7. QED
      BY ONLY <3>2, <3>3, <3>4, <3>5, <3>6
  <2>3. CASE k > i
    <3>1. k \in i .. len - 1 /\ k - 1 \in i .. len - 1 /\ k + 1 \in 1 .. len /\ (k + 1) - 1 = k /\ (k - 1) + 1 = k
      BY <2>3
    <3>2. f[k] = t[k + 1] /\ f[k - 1] = t[k] /\ new[k].expires = list[k + 1].expires
      BY <1>5, <2>3, <3>1
    <3>3. t[k + 1] = t[(k + 1) - 1] + list[k + 1].expires
      BY <1>3, <3>1
    <3>4. QED
      BY <3>1, <3>2, <3>3
  <2>4. QED
    BY <2>1, <2>2, <2>3
<1>7. \A k \in 0 .. len - 1 : Ticks(new)[k] = f[k]
  <2>1. f \in [0 .. Len(new) -> Int] /\ f[0] = 0
    BY <1>4
  <2>2. \A k \in 1 .. Len(new) : f[k] = f[k - 1] + new[k].expires
    BY <1>6
  <2>3. \A k \in 0 .. Len(new) : Ticks(new)[k] = f[k]
    BY <2>1, <2>2, TicksUnique
  <2>4. QED
    BY <2>3
\* the list
<1> DEFINE old(k) == IF k < i THEN k ELSE k + 1
<1>8. ASSUME NEW k \in 1 .. len - 1
      PROVE  old(k) \in 1 .. len /\ old(k) # i /\ new[k].proc = list[old(k)].proc
  <2>1. CASE k < i
    <3>1. k \in 1 .. i - 1 /\ old(k) = k
      BY <2>1
    <3>2. QED
      BY <3>1
  <2>2. CASE k >= i
    <3>1. k \in i .. len - 1 /\ old(k) = k + 1
      BY <2>2
    <3>2. QED
      BY <3>1
  <2>3. QED
    BY <2>1, <2>2
<1>9. /\ \A k, l \in 1 .. len : list[k].proc = list[l].proc => k = l
      /\ \A k \in 1 .. len : list[k].proc \in sleeping
  BY <1>1 DEF ListOK
<1>10. ListOK(new, others)
  <2>1. ASSUME NEW k \in 1 .. len - 1, NEW l \in 1 .. len - 1, new[k].proc = new[l].proc
        PROVE  k = l
    <3>1. old(k) = old(l)
      <4> HIDE DEF old
      <4>1. old(k) \in 1 .. len /\ new[k].proc = list[old(k)].proc
        BY <1>8
      <4>2. old(l) \in 1 .. len /\ new[l].proc = list[old(l)].proc
        BY <1>8
      <4>3. QED
        BY <1>9, <2>1, <4>1, <4>2
    <3>2. QED
      BY <3>1
  <2>2. ASSUME NEW k \in 1 .. len - 1 PROVE new[k].proc \in others
    <3> HIDE DEF old
    <3>1. list[old(k)].proc \in sleeping /\ list[old(k)].proc # list[i].proc
      BY <1>8, <1>9
    <3>2. QED
      BY <1>8, <3>1
  <2>3. ASSUME len - 1 > 0 PROVE new[1].expires > 0
    <3>0. list # <<>> /\ 1 \in 1 .. len
      BY <1>1, <2>3
    <3>1. list[1].expires > 0 /\ list[1].expires \in Nat
      BY <1>2, <3>0 DEF ListOK
    <3>2. CASE i = 1
      <4>1. 1 \in i .. len - 1 /\ 1 + 1 \in 1 .. len
        BY <2>3, <3>2
      <4>2. new[1].expires = list[1 + 1].expires + list[1].expires
        BY <3>2, <4>1
      <4>3. list[1 + 1].expires \in Nat
        BY <1>2, <4>1
      <4>4. QED
        BY <3>1, <4>2, <4>3
    <3>3. CASE i # 1
      <4>1. 1 \in 1 .. i - 1
        BY <3>3
      <4>2. QED
        BY <3>1, <4>1
    <3>4. QED
      BY <3>2, <3>3
  <2>4. new # <<>> => len - 1 > 0
    OBVIOUS
  <2>5. QED
    BY <1>1, <2>1, <2>2, <2>3, <2>4 DEF ListOK
\* the countdowns
<1> PICK left : left = LeftOf(list)
  OBVIOUS
<1> PICK u : u = [q \in Sleepers |-> IF q = p THEN 0 ELSE left[q]]
  OBVIOUS
<1>11. /\ left = [q \in Sleepers |-> left[q]]
       /\ \A k \in 1 .. len : left[list[k].proc] = t[k]
       /\ \A q \in Sleepers : (\A k \in 1 .. len : list[k].proc # q) => left[q] = 0
  <2>1. left = [q \in Sleepers |-> left[q]]
    BY DEF LeftOf
  <2>2. /\ \A k \in DOMAIN list : LeftOf(list)[list[k].proc] = Ticks(list)[k]
        /\ \A q \in Sleepers : (\A k \in DOMAIN list : list[k].proc # q) => LeftOf(list)[q] = 0
    BY LeftIsTicks
  <2>3. QED
    BY <1>1, <2>1, <2>2
<1>12. /\ DOMAIN u = Sleepers /\ u = [q \in Sleepers |-> u[q]]
       /\ \A q \in Sleepers : u[q] = IF q = p THEN 0 ELSE left[q]
  <2>1. DOMAIN left = Sleepers
    BY <1>11
  <2>2. QED
    BY ONLY <2>1, u = [q \in Sleepers |-> IF q = p THEN 0 ELSE left[q]]
<1>13. ASSUME NEW k \in 1 .. len - 1 PROVE u[new[k].proc] = Ticks(new)[k]
  <2>1. f[k] = t[old(k)]
    <3>1. k < i => k \in 0 .. i - 1
      OBVIOUS
    <3>2. k >= i => k \in i .. len - 1
      OBVIOUS
    <3>3. k < i \/ k >= i
      OBVIOUS
    <3>4. QED
      BY ONLY <1>5, <3>1, <3>2, <3>3, k \in Int, i \in Int
  <2> HIDE DEF old
  <2>2. new[k].proc \in Sleepers /\ new[k].proc # p /\ left[new[k].proc] = t[old(k)]
    BY <1>2, <1>8, <1>9, <1>11
  <2>3. QED
    BY <1>7, <1>12, <2>1, <2>2
<1>14. ASSUME NEW q \in Sleepers, \A k \in 1 .. len - 1 : new[k].proc # q PROVE u[q] = 0
  <2>1. ASSUME NEW k \in 1 .. len, q # p PROVE list[k].proc # q
    <3>1. CASE k < i
      <4>1. k \in 1 .. len - 1 /\ old(k) = k
        BY <3>1
      <4>2. QED
        BY <1>8, <1>14, <4>1
    <3>2. CASE k > i
      <4>1. k - 1 \in 1 .. len - 1 /\ old(k - 1) = k
        BY <3>2
      <4>2. QED
        BY <1>8, <1>14, <4>1
    <3>3. CASE k = i
      BY <2>1, <3>3
    <3>4. QED
      BY <3>1, <3>2, <3>3
  <2>2. QED
    BY <1>11, <1>12, <2>1
<1>15. LeftOf(new) = u
  <2>1. \A k \in DOMAIN new : u[new[k].proc] = Ticks(new)[k]
    BY <1>1, <1>13
  <2>2. \A q \in Sleepers : (\A k \in DOMAIN new : new[k].proc # q) => u[q] = 0
    BY <1>1, <1>14
  <2>3. others \in SUBSET Sleepers /\ ListOK(new, others)
    <3>1. others \in SUBSET Sleepers
      OBVIOUS
    <3>2. QED
      BY <1>10, <3>1
  <2>4. DOMAIN u = Sleepers /\ u = [q \in Sleepers |-> u[q]]
    BY <1>12
  <2>5. QED
    BY ONLY <2>1, <2>2, <2>3, <2>4, LeftIsUnique
<1>16. QED
  <2>1. ListOK(new, sleeping \ {p})
    BY ONLY <1>10, others = sleeping \ {p}
  <2>2. /\ LeftOf(new)[p] = 0
        /\ \A q \in Sleepers \ {p} : LeftOf(new)[q] = LeftOf(list)[q]
    BY ONLY <1>12, <1>15, left = LeftOf(list), p \in Sleepers
  <2>3. QED
    BY ONLY <2>1, <2>2 DEF SetsOne

\* new is list after a tick: the d timers that are due leave it.
Ticked(new, list, d) ==
  /\ d \in 0 .. Len(list)
  /\ \A k \in 1 .. d : Ticks(list)[k] = 1
  /\ d < Len(list) => Ticks(list)[d + 1] > 1
  /\ new \in Seq(Entries) /\ Len(new) = Len(list) - d
  /\ \A k \in 1 .. Len(list) - d :
       /\ new[k].proc = list[k + d].proc
       /\ new[k].expires = IF k + d = 1 THEN list[1].expires - 1 ELSE list[k + d].expires

\* Every timer that stays is a tick closer.
LEMMA TickKeepsTicks ==
  ASSUME NEW list, NEW sleeping \in SUBSET Sleepers, ListOK(list, sleeping),
         NEW new, NEW d, Ticked(new, list, d)
  PROVE  ListOK(new, sleeping) /\ CountsDown(new, list, d)
<1>0. list \in Seq(Entries)
  BY DEF ListOK
<1> PICK len \in Nat : len = Len(list)
  BY <1>0
<1> PICK t : t = Ticks(list)
  OBVIOUS
<1>a. /\ d \in 0 .. len /\ (d < len => t[d + 1] > 1) /\ \A k \in 1 .. d : t[k] = 1
      /\ new \in Seq(Entries) /\ Len(new) = len - d
  BY DEF Ticked
<1>b. \A k \in 1 .. len - d :
        /\ new[k].proc = list[k + d].proc
        /\ new[k].expires = IF k + d = 1 THEN list[1].expires - 1 ELSE list[k + d].expires
  BY DEF Ticked
<1> USE <1>a, <1>b
<1>1. list \in Seq(Entries) /\ DOMAIN list = 1 .. len /\ DOMAIN new = 1 .. len - d
  BY DEF ListOK
<1>2. \A k \in 1 .. len : list[k].proc \in Sleepers /\ list[k].expires \in Nat
  <2>1. \A k \in 1 .. len : list[k] \in Entries
    BY <1>1
  <2>2. QED
    BY <2>1 DEF Entries
<1>3. t \in [0 .. len -> Nat] /\ t[0] = 0 /\ \A k \in 1 .. len : t[k] = t[k - 1] + list[k].expires
  BY <1>1, TicksAdd
<1>4. \A k \in 1 .. len : t[k] \in Nat /\ t[k] > 0
  BY <1>1, TicksPositive
<1>5. \A k \in d + 1 .. len : t[k] > 1
  <2>1. ASSUME NEW k \in d + 1 .. len PROVE t[k] > 1
    <3>1. d + 1 \in 0 .. Len(list) /\ k \in d + 1 .. Len(list) /\ d < len /\ d + 1 \in 1 .. len /\ k \in 1 .. len
      OBVIOUS
    <3>2. t[d + 1] <= t[k]
      BY <1>1, <3>1, TicksMonotone
    <3>3. t[d + 1] \in Nat /\ t[k] \in Nat
      BY <1>4, <3>1
    <3>4. QED
      BY <3>1, <3>2, <3>3
  <2>2. QED
    BY <2>1
\* the sums of the new list
<1> DEFINE f == [k \in 0 .. len - d |-> IF k = 0 THEN 0 ELSE t[k + d] - 1]
<1>6. f[0] = 0 /\ \A k \in 1 .. len - d : f[k] = t[k + d] - 1 /\ k + d \in 1 .. len
  OBVIOUS
<1>7. f \in [0 .. len - d -> Int]
  <2>1. ASSUME NEW k \in 0 .. len - d PROVE f[k] \in Int
    <3>1. CASE k = 0
      BY <3>1
    <3>2. CASE k # 0
      <4>1. k \in 1 .. len - d
        BY <3>2
      <4>2. QED
        BY <1>4, <1>6, <4>1
    <3>3. QED
      BY <3>1, <3>2
  <2>2. QED
    BY <2>1
<1> HIDE DEF f
<1>8. ASSUME NEW k \in 1 .. len - d PROVE f[k] = f[k - 1] + new[k].expires
  <2>0. k + d \in 1 .. len
    OBVIOUS
  <2>1. k + d \in 1 .. len /\ t[k + d] = t[(k + d) - 1] + list[k + d].expires
    BY <1>3, <2>0
  <2>2. f[k] = t[k + d] - 1 /\ t[k + d] \in Nat /\ list[k + d].expires \in Nat
    BY ONLY <1>2, <1>4, <1>6, <2>1, k \in 1 .. len - d
  <2>3. CASE k = 1 /\ d = 0
    <3>1. k + d = 1 /\ (k + d) - 1 = 0 /\ k - 1 = 0
      BY <2>3
    <3>2. new[k].expires = list[1].expires - 1
      BY <3>1
    <3>3. QED
      BY ONLY <1>3, <1>6, <2>1, <2>2, <3>1, <3>2
  <2>4. CASE k = 1 /\ d # 0
    <3>1. (k + d) - 1 = d /\ k - 1 = 0 /\ k + d # 1 /\ d \in 1 .. d
      BY <2>4
    <3>2. new[k].expires = list[k + d].expires /\ t[d] = 1
      BY <3>1
    <3>3. QED
      BY ONLY <1>6, <2>1, <2>2, <3>1, <3>2
  <2>5. CASE k # 1
    <3>1. k - 1 \in 1 .. len - d /\ (k + d) - 1 = (k - 1) + d /\ k + d # 1
      BY <2>5
    <3>2. f[k - 1] = t[(k - 1) + d] - 1 /\ t[(k - 1) + d] \in Nat /\ new[k].expires = list[k + d].expires
      BY <1>4, <1>6, <3>1
    <3>3. QED
      BY ONLY <2>1, <2>2, <3>1, <3>2
  <2>6. QED
    BY <2>3, <2>4, <2>5
<1>9. \A k \in 0 .. len - d : Ticks(new)[k] = f[k]
  <2>1. f \in [0 .. Len(new) -> Int] /\ f[0] = 0
    BY <1>6, <1>7
  <2>2. \A k \in 1 .. Len(new) : f[k] = f[k - 1] + new[k].expires
    BY <1>8
  <2>3. \A k \in 0 .. Len(new) : Ticks(new)[k] = f[k]
    BY <2>1, <2>2, TicksUnique
  <2>4. QED
    BY <2>3
\* the list
<1>10. /\ \A k, l \in 1 .. len : list[k].proc = list[l].proc => k = l
       /\ \A k \in 1 .. len : list[k].proc \in sleeping
  BY <1>1 DEF ListOK
<1>11. \A k \in 1 .. len - d : k + d \in 1 .. len
  OBVIOUS
<1>12. ListOK(new, sleeping)
  <2>1. ASSUME NEW k \in 1 .. len - d, NEW l \in 1 .. len - d, new[k].proc = new[l].proc
        PROVE  k = l
    <3>1. k + d = l + d
      BY <1>10, <1>11, <2>1
    <3>2. QED
      BY <3>1
  <2>2. \A k \in 1 .. len - d : new[k].proc \in sleeping
    BY <1>10, <1>11
  <2>3. ASSUME len - d > 0 PROVE new[1].expires > 0
    <3>1. 1 \in 1 .. len - d /\ 1 - 1 = 0 /\ 1 + d = d + 1 /\ d < len /\ d + 1 \in 1 .. len
      BY <2>3
    <3>2. f[1] = t[d + 1] - 1 /\ f[1] = f[0] + new[1].expires /\ f[0] = 0 /\ t[d + 1] > 1 /\ t[d + 1] \in Nat
      BY <1>4, <1>6, <1>8, <3>1
    <3>3. new[1].expires \in Nat
      <4>1. new[1] \in Entries
        BY <3>1
      <4>2. QED
        BY <4>1 DEF Entries
    <3>4. QED
      BY <3>2, <3>3
  <2>4. new # <<>> => len - d > 0
    OBVIOUS
  <2>5. QED
    BY <1>1, <2>1, <2>2, <2>3, <2>4 DEF ListOK
\* the countdowns
<1> PICK left : left = LeftOf(list)
  OBVIOUS
<1>13. /\ \A k \in 1 .. len : left[list[k].proc] = t[k]
       /\ \A q \in Sleepers : (\A k \in 1 .. len : list[k].proc # q) => left[q] = 0
  <2>1. /\ \A k \in DOMAIN list : LeftOf(list)[list[k].proc] = Ticks(list)[k]
        /\ \A q \in Sleepers : (\A k \in DOMAIN list : list[k].proc # q) => LeftOf(list)[q] = 0
    BY LeftIsTicks
  <2>2. QED
    BY <1>1, <2>1
<1> PICK u : u = [q \in Sleepers |-> IF left[q] > 0 THEN left[q] - 1 ELSE 0]
  OBVIOUS
<1>14. /\ DOMAIN u = Sleepers /\ u = [q \in Sleepers |-> u[q]]
       /\ \A q \in Sleepers : u[q] = IF left[q] > 0 THEN left[q] - 1 ELSE 0
  BY ONLY u = [q \in Sleepers |-> IF left[q] > 0 THEN left[q] - 1 ELSE 0]
<1>15. ASSUME NEW k \in 1 .. len - d PROVE u[new[k].proc] = Ticks(new)[k]
  <2>1. k + d \in 1 .. len /\ k \in 0 .. len - d /\ new[k].proc = list[k + d].proc
    OBVIOUS
  <2>2. left[new[k].proc] = t[k + d] /\ t[k + d] \in Nat /\ t[k + d] > 0 /\ new[k].proc \in Sleepers
    BY <1>2, <1>4, <1>13, <2>1
  <2>3. f[k] = t[k + d] - 1
    BY <1>6
  <2>4. QED
    BY <1>9, <1>14, <2>1, <2>2, <2>3
<1>16. ASSUME NEW q \in Sleepers, \A k \in 1 .. len - d : new[k].proc # q PROVE u[q] = 0
  <2>1. CASE \E k \in 1 .. len : list[k].proc = q
    <3>1. PICK k \in 1 .. len : list[k].proc = q
      BY <2>1
    <3>2. k <= d
      <4>1. SUFFICES ASSUME k > d PROVE FALSE
        OBVIOUS
      <4>2. k - d \in 1 .. len - d /\ (k - d) + d = k
        BY <4>1
      <4>3. new[k - d].proc = list[(k - d) + d].proc
        BY <4>2
      <4>4. QED
        BY <1>16, <3>1, <4>2, <4>3
    <3>3. t[k] = 1
      BY <3>2
    <3>4. QED
      BY <1>13, <1>14, <3>1, <3>3
  <2>2. CASE \A k \in 1 .. len : list[k].proc # q
    BY <1>13, <1>14, <2>2
  <2>3. QED
    BY <2>1, <2>2
<1>17. LeftOf(new) = u
  <2>1. \A k \in DOMAIN new : u[new[k].proc] = Ticks(new)[k]
    BY <1>1, <1>15
  <2>2. \A q \in Sleepers : (\A k \in DOMAIN new : new[k].proc # q) => u[q] = 0
    BY <1>1, <1>16
  <2>3. DOMAIN u = Sleepers /\ u = [q \in Sleepers |-> u[q]]
    BY <1>14
  <2>4. QED
    BY ONLY <1>12, <2>1, <2>2, <2>3, LeftIsUnique
<1>18. {list[k].proc : k \in 1 .. d} = {q \in Sleepers : left[q] = 1}
  <2>1. ASSUME NEW k \in 1 .. d PROVE list[k].proc \in Sleepers /\ left[list[k].proc] = 1
    <3>1. k \in 1 .. len /\ t[k] = 1
      OBVIOUS
    <3>2. QED
      BY <1>2, <1>13, <3>1
  <2>2. ASSUME NEW q \in Sleepers, left[q] = 1 PROVE \E k \in 1 .. d : list[k].proc = q
    <3>1. PICK k \in 1 .. len : list[k].proc = q
      BY <1>13, <2>2
    <3>2. t[k] = 1
      BY <1>13, <2>2, <3>1
    <3>3. k <= d
      <4>1. SUFFICES ASSUME k > d PROVE FALSE
        OBVIOUS
      <4>2. k \in d + 1 .. len
        BY <4>1
      <4>3. QED
        BY <1>5, <3>2, <4>2
    <3>4. QED
      BY <3>1, <3>3
  <2>3. QED
    BY <2>1, <2>2
<1>19. QED
  BY ONLY <1>12, <1>14, <1>17, <1>18, left = LeftOf(list) DEF CountsDown

-----------------------------------------------------------------------------
\* The inductive invariant of the timer list.
TimerInv == in_sleep \in SUBSET Sleepers /\ ListOK(timer_list, in_sleep)

LEMMA TimerInvInit == TimerInit => TimerInv /\ Abstract!Init
<1> SUFFICES ASSUME TimerInit PROVE TimerInv /\ Abstract!Init
  OBVIOUS
<1>1. ListOK(<<>>, {})
  BY DEF ListOK
<1>2. TimerInv
  BY <1>1 DEF TimerInit, TimerInv
<1>3. TicksLeft = LeftOf(<<>>)
  BY DEF TimerInit, TicksLeft, LeftOf
<1>4. LeftOf(<<>>) = [p \in Sleepers |-> 0]
  BY DEF LeftOf
<1>5. QED
  BY <1>2, <1>3, <1>4 DEF TimerInit, Abstract!Init

\* add_timer starts the countdown of its process.
LEMMA AddTimerStarts ==
  ASSUME TimerInv, NEW p \in Sleepers, NEW n \in 1 .. MaxSleep, AddTimer(p, n)
  PROVE  TimerInv' /\ Abstract!Start(p, n)
<1>1. /\ timer_list \in Seq(Entries) /\ in_sleep \in SUBSET Sleepers
      /\ ListOK(timer_list, in_sleep) /\ p \in Sleepers \ in_sleep
  BY DEF TimerInv, ListOK, AddTimer
<1> PICK list : list = timer_list
  OBVIOUS
<1> PICK len \in Nat : len = Len(list)
  BY <1>1
<1> PICK t : t = Ticks(list)
  OBVIOUS
<1> PICK pos : pos = Min({i \in 1 .. Len(list) + 1 : i > Len(list) \/ n < Ticks(list)[i]})
  OBVIOUS
<1> PICK timer : timer = [proc |-> p, expires |-> n - Ticks(list)[pos - 1]]
  OBVIOUS
<1> PICK rest : rest = IF pos > Len(list) THEN list
                       ELSE [list EXCEPT ![pos].expires = @ - timer.expires]
  OBVIOUS
<1> PICK new : new = InsertAt(rest, pos, timer)
  OBVIOUS
<1>2. timer_list' = new /\ in_sleep' = in_sleep \cup {p} /\ asked' = n /\ woken' = {}
  BY DEF AddTimer
<1>3. list \in Seq(Entries) /\ ListOK(list, in_sleep)
  BY <1>1
<1>4. DOMAIN list = 1 .. len /\ \A i \in 1 .. len : list[i] \in Entries
  BY <1>3
<1>5. \A i \in 1 .. len : /\ list[i].proc \in Sleepers /\ list[i].expires \in Nat
                          /\ list[i] = [proc |-> list[i].proc, expires |-> list[i].expires]
  BY <1>4 DEF Entries
<1>6. t \in [0 .. len -> Nat] /\ t[0] = 0 /\ \A i \in 1 .. len : t[i] = t[i - 1] + list[i].expires
  BY <1>3, TicksAdd
\* the place of the new timer
<1>7. pos \in 1 .. len + 1 /\ (pos <= len => n < t[pos]) /\ t[pos - 1] <= n
  <2> DEFINE P == {i \in 1 .. len + 1 : i > len \/ n < t[i]}
  <2>1. P \subseteq Nat /\ len + 1 \in P /\ pos = Min(P)
    OBVIOUS
  <2>2. pos \in P /\ \A i \in P : pos <= i
    <3> HIDE DEF P
    <3>1. QED
      BY ONLY <2>1, MinIsLeast
  <2>3. CASE pos = 1
    BY <1>6, <2>2, <2>3
  <2>4. CASE pos # 1
    <3>0. pos \in 1 .. len + 1 /\ pos - 1 \notin P
      BY ONLY <2>2, len \in Nat
    <3>1. pos - 1 \in 1 .. len /\ pos - 1 \in 1 .. len + 1 /\ pos - 1 \notin P
      BY ONLY <2>4, <3>0, len \in Nat
    <3>2. ~(n < t[pos - 1]) /\ t[pos - 1] \in Nat
      BY <1>6, <3>1
    <3>3. QED
      BY <2>2, <3>2
  <2>5. QED
    BY <2>3, <2>4
<1>8. t[pos - 1] \in Nat /\ timer \in Entries /\ timer.proc = p /\ timer.expires = n - t[pos - 1]
  <2>1. t[pos - 1] \in Nat
    BY <1>6, <1>7
  <2>2. n - t[pos - 1] \in Nat
    BY <1>7, <2>1
  <2>3. QED
    BY <2>1, <2>2 DEF Entries
\* its successor
<1>9. /\ rest \in Seq(Entries) /\ Len(rest) = len
      /\ \A i \in 1 .. len :
           /\ i # pos => rest[i] = list[i]
           /\ i = pos => rest[i].proc = list[i].proc /\ rest[i].expires = t[pos] - n
  <2>1. CASE pos > len
    <3>1. rest = list
      BY <2>1
    <3>2. \A i \in 1 .. len : i # pos
      BY ONLY <1>7, <2>1, len \in Nat
    <3>3. QED
      BY ONLY <1>3, <3>1, <3>2, len = Len(list)
  <2>2. CASE pos <= len
    <3>1. pos \in 1 .. len /\ t[pos] = t[pos - 1] + list[pos].expires /\ t[pos] \in Nat /\ n < t[pos]
      BY <1>6, <1>7, <2>2
    <3>2. list[pos].expires \in Nat
      BY <1>5, <3>1
    <3>3. rest = [list EXCEPT ![pos].expires = @ - timer.expires]
      BY <2>2, <3>1
    <3>4. list[pos].expires - timer.expires = t[pos] - n /\ t[pos] - n \in Nat
      BY <1>8, <3>1, <3>2
    <3> PICK e : e = [list[pos] EXCEPT !.expires = @ - timer.expires]
      OBVIOUS
    <3>5. rest = [list EXCEPT ![pos] = e]
      BY <3>3
    <3>6. e = [proc |-> list[pos].proc, expires |-> t[pos] - n]
      <4>1. list[pos] = [proc |-> list[pos].proc, expires |-> list[pos].expires]
        BY <1>5, <3>1
      <4>2. QED
        BY <3>4, <4>1
    <3>7. e \in Entries
      BY ONLY <1>5, <3>1, <3>4, <3>6 DEF Entries
    <3>8. rest \in Seq(Entries) /\ Len(rest) = len
      BY <1>3, <3>1, <3>5, <3>7
    <3>9. \A i \in 1 .. len : rest[i] = IF i = pos THEN e ELSE list[i]
      BY <1>4, <3>5
    <3>10. e.proc = list[pos].proc /\ e.expires = t[pos] - n
      BY <3>6
    <3>11. QED
      BY <3>8, <3>9, <3>10
  <2>3. QED
    BY ONLY <1>7, <2>1, <2>2, len \in Nat
<1>10. /\ new \in Seq(Entries) /\ Len(new) = len + 1
       /\ \A i \in 1 .. len + 1 :
            new[i] = IF i < pos THEN rest[i] ELSE IF i = pos THEN timer ELSE rest[i - 1]
  <2>0. rest \in Seq(Entries)
    BY <1>9
  <2>1. rest \in Seq(Entries) /\ Len(rest) = len /\ pos \in 1 .. Len(rest) + 1 /\ timer \in Entries
    BY <1>7, <1>8, <1>9
  <2> PICK k \in 1 .. Len(rest) + 1 : k = pos
    BY <2>1
  <2> PICK e \in Entries : e = timer
    BY <2>1
  <2>2. /\ InsertAt(rest, k, e) \in Seq(Entries) /\ Len(InsertAt(rest, k, e)) = Len(rest) + 1
        /\ \A i \in 1 .. Len(rest) + 1 :
             InsertAt(rest, k, e)[i] = IF i < k THEN rest[i] ELSE IF i = k THEN e ELSE rest[i - 1]
    BY ONLY <2>0, InsertEntry, k \in 1 .. Len(rest) + 1, e \in Entries
  <2>3. QED
    BY ONLY <2>1, <2>2, new = InsertAt(rest, pos, timer), k = pos, e = timer
<1>11. /\ \A i \in 1 .. pos - 1 : new[i] = list[i]
       /\ new[pos].proc = p /\ new[pos].expires = n - t[pos - 1]
       /\ \A i \in pos .. len :
            /\ new[i + 1].proc = list[i].proc
            /\ new[i + 1].expires = IF i = pos THEN t[pos] - n ELSE list[i].expires
  <2>1. ASSUME NEW i \in 1 .. pos - 1 PROVE new[i] = list[i]
    <3>1. i \in 1 .. len /\ i \in 1 .. len + 1 /\ i < pos /\ i # pos
      BY ONLY <1>7, i \in 1 .. pos - 1, len \in Nat
    <3>2. QED
      BY ONLY <1>9, <1>10, <3>1
  <2>2. new[pos] = timer
    BY ONLY <1>7, <1>10, len \in Nat
  <2>3. ASSUME NEW i \in pos .. len
        PROVE  /\ new[i + 1].proc = list[i].proc
               /\ new[i + 1].expires = IF i = pos THEN t[pos] - n ELSE list[i].expires
    <3>1. i \in 1 .. len /\ i + 1 \in 1 .. len + 1 /\ i + 1 > pos /\ (i + 1) - 1 = i
      BY ONLY <1>7, i \in pos .. len, len \in Nat
    <3>2. new[i + 1] = rest[i]
      <4>1. new[i + 1] = IF i + 1 < pos THEN rest[i + 1] ELSE IF i + 1 = pos THEN timer
                         ELSE rest[(i + 1) - 1]
        BY ONLY <1>10, <3>1
      <4>2. QED
        BY ONLY <1>7, <3>1, <4>1, len \in Nat
    <3>3. QED
      BY ONLY <1>9, <3>1, <3>2
  <2>4. QED
    BY <1>8, <2>1, <2>2, <2>3
<1>12. n \in Nat \ {0}
  BY TimerListAssumption
<1>13. Inserted(new, list, pos, p, n)
  BY ONLY <1>7, <1>10, <1>11, len = Len(list), t = Ticks(list) DEF Inserted
<1>a. ListOK(new, in_sleep \cup {p}) /\ SetsOne(new, list, p, n)
  <2> PICK m \in Nat : m = n
    BY <1>12
  <2> PICK sleeping \in SUBSET Sleepers : sleeping = in_sleep
    BY <1>1
  <2>1. /\ ListOK(list, sleeping) /\ p \in Sleepers /\ p \notin sleeping /\ m > 0
        /\ Inserted(new, list, pos, p, m)
    BY <1>1, <1>3, <1>12, <1>13
  <2>2. ListOK(new, sleeping \cup {p}) /\ SetsOne(new, list, p, m)
    BY <2>1, InsertKeepsTicks
  <2>3. QED
    BY <2>2
<1>14. TimerInv'
  BY <1>1, <1>2, <1>a DEF TimerInv
<1>15. TicksLeft = LeftOf(list) /\ TicksLeft' = LeftOf(new)
  BY <1>2 DEF TicksLeft, LeftOf
<1>16. TicksLeft[p] = 0
  <2>1. \A i \in DOMAIN list : list[i].proc # p
    BY <1>1, <1>3 DEF ListOK
  <2>2. LeftOf(list)[p] = 0
    BY <1>1, <1>3, <2>1, LeftIsTicks
  <2>3. QED
    BY <1>15, <2>2
<1>17. LeftOf(new) = [LeftOf(list) EXCEPT ![p] = n]
  <2>1. LeftOf(new) = [q \in Sleepers |-> LeftOf(new)[q]]
    BY ONLY DEF LeftOf
  <2>2. LeftOf(list) = [q \in Sleepers |-> LeftOf(list)[q]]
    BY ONLY DEF LeftOf
  <2>3. QED
    BY ONLY <1>a, <2>1, <2>2, p \in Sleepers DEF SetsOne
<1>18. QED
  BY ONLY <1>2, <1>14, <1>15, <1>16, <1>17 DEF Abstract!Start

\* del_timer stops the countdown of its process, which may have run out.
LEMMA DelTimerStops ==
  ASSUME TimerInv, NEW p \in Sleepers, DelTimer(p)
  PROVE  TimerInv' /\ Abstract!Stop(p)
<1>1. /\ timer_list \in Seq(Entries) /\ in_sleep \in SUBSET Sleepers
      /\ ListOK(timer_list, in_sleep)
  BY DEF TimerInv, ListOK
<1> PICK list : list = timer_list
  OBVIOUS
<1> PICK new : new = timer_list'
  OBVIOUS
<1>2. TicksLeft = LeftOf(list) /\ TicksLeft' = LeftOf(new)
  BY DEF TicksLeft, LeftOf
<1>3. in_sleep' = in_sleep \ {p} /\ asked' = 0 /\ woken' = {}
  BY DEF DelTimer
<1>4. ListOK(new, in_sleep \ {p}) /\ LeftOf(new) = [LeftOf(list) EXCEPT ![p] = 0]
  <2>1. CASE (\A i \in DOMAIN timer_list : timer_list[i].proc # p) /\ UNCHANGED timer_list
    <3>1. new = list /\ \A i \in DOMAIN list : list[i].proc # p
      BY <2>1
    <3>2. LeftOf(list)[p] = 0
      BY <1>1, <3>1, LeftIsTicks
    <3>3. LeftOf(list) = [LeftOf(list) EXCEPT ![p] = 0]
      BY <3>2 DEF LeftOf
    <3>4. ListOK(new, in_sleep \ {p})
      BY <1>1, <3>1 DEF ListOK
    <3>5. QED
      BY <3>1, <3>3, <3>4
  <2>2. CASE \E i \in DOMAIN timer_list : timer_list[i].proc = p /\ timer_list' = Unlink(i)
    <3> PICK len \in Nat : len = Len(list)
      BY <1>1
    <3>1. PICK i \in 1 .. len : list[i].proc = p /\ new = Unlink(i)
      BY <1>1, <2>2
    <3>2. \A k \in 1 .. len : /\ list[k] \in Entries
                              /\ list[k].proc \in Sleepers /\ list[k].expires \in Nat
                              /\ list[k] = [proc |-> list[k].proc, expires |-> list[k].expires]
      <4>1. \A k \in 1 .. len : list[k] \in Entries
        BY <1>1
      <4>2. QED
        BY <4>1 DEF Entries
    <3> PICK rest : rest = IF i = Len(timer_list) THEN timer_list
                           ELSE [timer_list EXCEPT ![i + 1].expires = @ + timer_list[i].expires]
      OBVIOUS
    <3>3. new = RemoveAt(rest, i)
      BY <3>1 DEF Unlink
    <3>4. /\ rest \in Seq(Entries) /\ Len(rest) = len
          /\ \A k \in 1 .. len :
               /\ k # i + 1 => rest[k] = list[k]
               /\ k = i + 1 => /\ rest[k].proc = list[k].proc
                               /\ rest[k].expires = list[k].expires + list[i].expires
      <4>1. CASE i = len
        <5>1. rest = list
          BY <4>1
        <5>2. QED
          BY <1>1, <3>1, <4>1, <5>1
      <4>2. CASE i # len
        <5>1. i + 1 \in 1 .. len
          BY <3>1, <4>2
        <5>2. rest = [list EXCEPT ![i + 1].expires = @ + list[i].expires]
          BY <4>2
        <5> PICK e : e = [list[i + 1] EXCEPT !.expires = @ + list[i].expires]
          OBVIOUS
        <5>3. rest = [list EXCEPT ![i + 1] = e]
          BY <5>2
        <5>4. e = [proc |-> list[i + 1].proc, expires |-> list[i + 1].expires + list[i].expires]
          <6>1. list[i + 1] = [proc |-> list[i + 1].proc, expires |-> list[i + 1].expires]
            BY <3>2, <5>1
          <6>2. QED
            BY <6>1
        <5>5. list[i + 1].expires \in Nat /\ list[i].expires \in Nat /\ list[i + 1].proc \in Sleepers
          BY <3>2, <5>1
        <5>6. e \in Entries
          BY <5>4, <5>5 DEF Entries
        <5>7. rest \in Seq(Entries) /\ Len(rest) = len
          BY <1>1, <5>1, <5>3, <5>6
        <5>8. \A k \in 1 .. len : rest[k] = IF k = i + 1 THEN e ELSE list[k]
          BY <1>1, <5>3
        <5>9. e.proc = list[i + 1].proc /\ e.expires = list[i + 1].expires + list[i].expires
          BY <5>4
        <5>10. QED
          BY <5>7, <5>8, <5>9
      <4>3. QED
        BY <4>1, <4>2
    <3>5. /\ new \in Seq(Entries) /\ Len(new) = len - 1
          /\ \A k \in 1 .. len - 1 : new[k] = IF k < i THEN rest[k] ELSE rest[k + 1]
      <4>1. rest \in Seq(Entries) /\ Len(rest) = len /\ i \in 1 .. Len(rest)
        BY <3>1, <3>4
      <4>2. QED
        BY ONLY <3>3, <4>1, RemoveAtElements
    <3>6. /\ \A k \in 1 .. i - 1 : new[k] = list[k]
          /\ \A k \in i .. len - 1 :
               /\ new[k].proc = list[k + 1].proc
               /\ new[k].expires = IF k = i THEN list[k + 1].expires + list[i].expires
                                   ELSE list[k + 1].expires
      <4>1. ASSUME NEW k \in 1 .. i - 1 PROVE new[k] = list[k]
        <5>1. k \in 1 .. len - 1 /\ k < i /\ k \in 1 .. len /\ k # i + 1
          BY ONLY i \in 1 .. len, len \in Nat, k \in 1 .. i - 1
        <5>2. QED
          BY ONLY <3>4, <3>5, <5>1
      <4>2. ASSUME NEW k \in i .. len - 1
            PROVE  /\ new[k].proc = list[k + 1].proc
                   /\ new[k].expires = IF k = i THEN list[k + 1].expires + list[i].expires
                                       ELSE list[k + 1].expires
        <5>1. k \in 1 .. len - 1 /\ ~(k < i) /\ k + 1 \in 1 .. len /\ (k + 1 = i + 1 <=> k = i)
          BY ONLY i \in 1 .. len, len \in Nat, k \in i .. len - 1
        <5>2. new[k] = rest[k + 1]
          BY ONLY <3>5, <5>1
        <5>3. QED
          BY ONLY <3>4, <5>1, <5>2
      <4>3. QED
        BY <4>1, <4>2
    <3>7. in_sleep \in SUBSET Sleepers /\ ListOK(list, in_sleep) /\ p = list[i].proc
      BY <1>1, <3>1
    <3>a. Removed(new, list, i) /\ i \in DOMAIN list
      BY <1>1, <3>5, <3>6 DEF Removed
    <3>8. ListOK(new, in_sleep \ {p}) /\ SetsOne(new, list, p, 0)
      BY ONLY <3>7, <3>a, RemoveKeepsTicks, p \in Sleepers
    <3>9. LeftOf(new) = [LeftOf(list) EXCEPT ![p] = 0]
      <4>1. LeftOf(new) = [q \in Sleepers |-> LeftOf(new)[q]]
        BY ONLY DEF LeftOf
      <4>2. LeftOf(list) = [q \in Sleepers |-> LeftOf(list)[q]]
        BY ONLY DEF LeftOf
      <4>3. QED
        BY ONLY <3>8, <4>1, <4>2, p \in Sleepers DEF SetsOne
    <3>10. QED
      BY ONLY <3>8, <3>9
  <2>3. QED
    BY <2>1, <2>2 DEF DelTimer
<1>5. TimerInv'
  BY <1>1, <1>3, <1>4 DEF TimerInv
<1>6. QED
  BY <1>2, <1>3, <1>4, <1>5 DEF Abstract!Stop

\* run_timer_list is a tick of every countdown, and wakes those that end.
LEMMA RunTimerListTicks ==
  ASSUME TimerInv, RunTimerList
  PROVE  TimerInv' /\ Abstract!Tick
<1>1. /\ timer_list \in Seq(Entries) /\ in_sleep \in SUBSET Sleepers
      /\ ListOK(timer_list, in_sleep)
  BY DEF TimerInv, ListOK
<1> PICK old : old = timer_list
  OBVIOUS
<1> PICK new : new = timer_list'
  OBVIOUS
<1>2. TicksLeft = LeftOf(old) /\ TicksLeft' = LeftOf(new)
  BY DEF TicksLeft, LeftOf
<1>3. in_sleep' = in_sleep /\ asked' = 0
  BY DEF RunTimerList
<1>4. \E d : /\ ListOK(new, in_sleep) /\ CountsDown(new, old, d)
             /\ woken' = {old[k].proc : k \in 1 .. d}
  <2>1. CASE old = <<>>
    <3>1. new = <<>> /\ woken' = {}
      BY <2>1 DEF RunTimerList
    <3>2. Ticked(new, old, 0)
      <4>1. Len(old) = 0 /\ new \in Seq(Entries)
        BY <2>1, <3>1
      <4>2. QED
        BY <2>1, <3>1, <4>1 DEF Ticked
    <3>3. ListOK(old, in_sleep) /\ in_sleep \in SUBSET Sleepers
      BY <1>1
    <3>4. ListOK(new, in_sleep) /\ CountsDown(new, old, 0)
      BY ONLY <3>2, <3>3, TickKeepsTicks
    <3>5. woken' = {old[k].proc : k \in 1 .. 0}
      BY <3>1
    <3>6. QED
      BY <3>4, <3>5
  <2>2. CASE old # <<>>
    <3> PICK len \in Nat : len = Len(old)
      BY <1>1
    <3>1. old \in Seq(Entries) /\ 1 \in 1 .. len
      BY <1>1, <2>2
    <3>2. \A k \in 1 .. len : old[k] \in Entries
      BY <3>1
    <3>3. \A k \in 1 .. len : /\ old[k].proc \in Sleepers /\ old[k].expires \in Nat
                              /\ old[k] = [proc |-> old[k].proc, expires |-> old[k].expires]
      BY <3>2 DEF Entries
    <3>4. old[1].expires > 0
      BY <1>1, <2>2 DEF ListOK
    <3> PICK list : list = [old EXCEPT ![1].expires = @ - 1]
      OBVIOUS
    <3> PICK due : due = {i \in DOMAIN list : \A j \in 1 .. i : list[j].expires = 0}
      OBVIOUS
    <3>5. new = SubSeq(list, Cardinality(due) + 1, Len(list)) /\ woken' = {list[i].proc : i \in due}
      BY <2>2 DEF RunTimerList
    <3> PICK e : e = [old[1] EXCEPT !.expires = @ - 1]
      OBVIOUS
    <3>6. /\ e = [proc |-> old[1].proc, expires |-> old[1].expires - 1]
          /\ e.proc = old[1].proc /\ e.expires = old[1].expires - 1 /\ e \in Entries
      <4>1. old[1] = [proc |-> old[1].proc, expires |-> old[1].expires]
        BY <3>1, <3>3
      <4>2. old[1].expires \in Nat /\ old[1].proc \in Sleepers
        BY <3>1, <3>3
      <4>3. old[1].expires - 1 \in Nat
        BY <3>4, <4>2
      <4>4. e = [proc |-> old[1].proc, expires |-> old[1].expires - 1]
        BY <4>1
      <4>5. QED
        BY ONLY <4>2, <4>3, <4>4 DEF Entries
    <3>7. list = [old EXCEPT ![1] = e]
      OBVIOUS
    <3>8. /\ list \in Seq(Entries) /\ Len(list) = len /\ DOMAIN list = 1 .. len
          /\ \A k \in 1 .. len : list[k] = IF k = 1 THEN e ELSE old[k]
      BY ONLY <3>1, <3>6, <3>7, len = Len(old), len \in Nat
    \* the due timers come first
    <3>9. PICK d \in 0 .. len : /\ due = 1 .. d
                                /\ \A k \in 1 .. d : list[k].expires = 0
                                /\ d < len => list[d + 1].expires # 0
      <4> DEFINE late == {k \in 1 .. len : list[k].expires # 0}
      <4>1. CASE late = {}
        <5>1. due = 1 .. len
          BY <3>8, <4>1
        <5>2. QED
          BY <4>1, <5>1
      <4>2. CASE late # {}
        <5>1. PICK m \in late : \A k \in late : m <= k
          <6>1. late \subseteq Nat
            OBVIOUS
          <6> HIDE DEF late
          <6>2. QED
            BY ONLY <4>2, <6>1, LeastElement
        <5>2. \A k \in 1 .. m - 1 : k \in 1 .. len /\ list[k].expires = 0
          <6>1. ASSUME NEW k \in 1 .. m - 1 PROVE k \in 1 .. len /\ k \notin late
            BY <5>1
          <6>2. QED
            BY <6>1
        <5>3. m \in 1 .. len /\ list[m].expires # 0
          OBVIOUS
        <5>4. due = 1 .. m - 1
          <6>1. \A i \in due : i \in 1 .. len /\ i < m
            BY <3>8, <5>3
          <6>2. \A i \in 1 .. m - 1 : i \in due
            <7>1. ASSUME NEW i \in 1 .. m - 1 PROVE i \in due
              <8>1. i \in 1 .. len /\ \A j \in 1 .. i : j \in 1 .. m - 1
                BY <5>3
              <8>2. QED
                BY <3>8, <5>2, <8>1
            <7>2. QED
              BY <7>1
          <6>3. QED
            BY <6>1, <6>2
        <5>5. m - 1 \in 0 .. len /\ (m - 1) + 1 = m
          BY <5>3
        <5>6. QED
          BY <5>2, <5>3, <5>4, <5>5
      <4>3. QED
        BY <4>1, <4>2
    <3>10. Cardinality(due) = d
      <4>1. d \in Nat /\ 1 \in Int /\ d \in Int /\ due = 1 .. d
        BY <3>9
      <4>2. Cardinality(1 .. d) = IF 1 > d THEN 0 ELSE d - 1 + 1
        BY ONLY <4>1, FS_Interval
      <4>3. QED
        BY ONLY <4>1, <4>2
    <3>11. new = SubSeq(list, d + 1, len)
      BY <3>5, <3>8, <3>10
    <3>12. /\ new \in Seq(Entries) /\ Len(new) = len - d
           /\ \A k \in 1 .. len - d : new[k] = list[k + d]
      <4>1. d + 1 \in 1 .. len + 1 /\ len \in d .. len
        OBVIOUS
      <4>2. \A k \in d + 1 .. len : list[k] \in Entries
        BY <3>8
      <4>3. new \in Seq(Entries) /\ Len(new) = len - d
        BY ONLY <3>8, <3>11, <4>1, <4>2, d \in 0 .. len, len \in Nat
      <4>4. ASSUME NEW k \in 1 .. len - d PROVE new[k] = list[k + d]
        <5>1. (d + 1) + k - 1 = k + d
          OBVIOUS
        <5>2. SubSeq(list, d + 1, len)[k] = list[(d + 1) + k - 1]
          <6>1. list \in Seq(Entries) /\ Len(list) = len /\ d \in 0 .. Len(list) /\ k \in 1 .. Len(list) - d
            BY ONLY <3>8, d \in 0 .. len, k \in 1 .. len - d
          <6>2. QED
            BY ONLY <6>1, SuffixElements
        <5>3. QED
          BY ONLY <3>11, <5>1, <5>2
      <4>5. QED
        BY <4>3, <4>4
    \* the ticks left before
    <3> PICK t : t = Ticks(old)
      OBVIOUS
    <3>13. t \in [0 .. len -> Nat] /\ t[0] = 0 /\ \A k \in 1 .. len : t[k] = t[k - 1] + old[k].expires
      BY <3>1, TicksAdd
    <3>14. old[1].expires \in Nat /\ old[1].expires - 1 = e.expires
      BY <3>1, <3>3, <3>6
    <3>15. \A k \in 1 .. d : t[k] = 1
      <4> DEFINE K == {k \in Nat : k + 1 <= d => t[k + 1] = 1}
      <4>1. 0 \in K
        <5>1. SUFFICES ASSUME 1 <= d PROVE t[1] = 1
          OBVIOUS
        <5>2. 1 \in 1 .. d /\ 1 \in 1 .. len
          BY <5>1
        <5>3. list[1] = e /\ list[1].expires = 0
          BY <3>8, <3>9, <5>2
        <5>4. t[1] = t[0] + old[1].expires
          BY <3>13, <5>2
        <5>5. QED
          BY <3>13, <3>14, <5>3, <5>4
      <4>2. ASSUME NEW k \in Nat, k \in K PROVE k + 1 \in K
        <5>1. SUFFICES ASSUME (k + 1) + 1 <= d PROVE t[(k + 1) + 1] = 1
          OBVIOUS
        <5>2. t[k + 1] = 1
          BY <4>2, <5>1
        <5>3. (k + 1) + 1 \in 1 .. d /\ (k + 1) + 1 \in 1 .. len /\ (k + 1) + 1 # 1 /\ ((k + 1) + 1) - 1 = k + 1
          BY <5>1
        <5>4. list[(k + 1) + 1] = old[(k + 1) + 1] /\ list[(k + 1) + 1].expires = 0
          BY <3>8, <3>9, <5>3
        <5>5. t[(k + 1) + 1] = t[((k + 1) + 1) - 1] + old[(k + 1) + 1].expires
          BY <3>13, <5>3
        <5>6. QED
          BY ONLY <5>2, <5>3, <5>4, <5>5
      <4>3. Nat \subseteq K
        <5> HIDE DEF K
        <5>1. QED
          BY <4>1, <4>2, NatSetInduction
      <4>4. ASSUME NEW k \in 1 .. d PROVE t[k] = 1
        <5>1. k - 1 \in Nat /\ (k - 1) + 1 = k /\ k <= d
          OBVIOUS
        <5>2. k - 1 \in K
          <6> HIDE DEF K
          <6>1. QED
            BY ONLY <4>3, <5>1
        <5>3. (k - 1) + 1 <= d => t[(k - 1) + 1] = 1
          BY ONLY <5>2 DEF K
        <5>4. QED
          BY ONLY <5>1, <5>3
      <4>5. QED
        BY <4>4
    <3>16. d < len => t[d + 1] > 1
      <4> SUFFICES ASSUME d < len PROVE t[d + 1] > 1
        OBVIOUS
      <4>1. d + 1 \in 1 .. len /\ (d + 1) - 1 = d /\ list[d + 1].expires # 0
        BY <3>9
      <4>2. t[d + 1] = t[d] + old[d + 1].expires /\ old[d + 1].expires \in Nat
        BY <3>3, <3>13, <4>1
      <4>3. CASE d = 0
        <5>1. list[1] = e /\ d + 1 = 1
          BY <3>8, <4>1, <4>3
        <5>2. old[1].expires - 1 # 0
          BY <3>14, <4>1, <5>1
        <5>3. t[1] = old[1].expires
          BY <3>13, <3>14, <4>2, <4>3, <5>1
        <5>4. QED
          BY <3>4, <3>14, <5>1, <5>2, <5>3
      <4>4. CASE d # 0
        <5>1. d \in 1 .. d /\ d + 1 # 1
          BY <4>4
        <5>2. t[d] = 1 /\ list[d + 1] = old[d + 1]
          BY <3>8, <3>15, <4>1, <5>1
        <5>3. t[d + 1] = 1 + list[d + 1].expires
          BY ONLY <4>2, <5>2
        <5>4. QED
          BY ONLY <4>1, <4>2, <5>2, <5>3
      <4>5. QED
        BY <4>3, <4>4
    <3>17. \A k \in 1 .. len - d :
             /\ new[k].proc = old[k + d].proc
             /\ new[k].expires = IF k + d = 1 THEN old[1].expires - 1 ELSE old[k + d].expires
      <4>1. ASSUME NEW k \in 1 .. len - d
            PROVE  /\ new[k].proc = old[k + d].proc
                   /\ new[k].expires = IF k + d = 1 THEN old[1].expires - 1 ELSE old[k + d].expires
        <5>1. k + d \in 1 .. len /\ new[k] = list[k + d]
          BY <3>12
        <5>2. CASE k + d = 1
          <6>1. new[k] = e
            BY <3>8, <5>1, <5>2
          <6>2. QED
            BY ONLY <3>6, <5>2, <6>1
        <5>3. CASE k + d # 1
          <6>1. new[k] = old[k + d]
            BY <3>8, <5>1, <5>3
          <6>2. QED
            BY ONLY <5>3, <6>1
        <5>4. QED
          BY <5>2, <5>3
      <4>2. QED
        BY <4>1
    <3>18. Ticked(new, old, d)
      BY ONLY <3>12, <3>15, <3>16, <3>17, len = Len(old), t = Ticks(old), d \in 0 .. len DEF Ticked
    <3>19. ListOK(old, in_sleep) /\ in_sleep \in SUBSET Sleepers
      BY <1>1
    <3>20. ListOK(new, in_sleep) /\ CountsDown(new, old, d)
      BY ONLY <3>18, <3>19, TickKeepsTicks
    <3>21. woken' = {old[k].proc : k \in 1 .. d}
      <4>1. \A k \in 1 .. d : list[k].proc = old[k].proc
        <5>1. \A k \in 1 .. d : k \in 1 .. len
          OBVIOUS
        <5>2. QED
          BY <3>6, <3>8, <5>1
      <4>2. woken' = {list[k].proc : k \in 1 .. d}
        BY <3>5, <3>9
      <4>3. QED
        BY <4>1, <4>2
    <3>22. QED
      BY <3>20, <3>21
  <2>3. QED
    BY <2>1, <2>2
<1>5. PICK d : /\ ListOK(new, in_sleep) /\ CountsDown(new, old, d)
               /\ woken' = {old[k].proc : k \in 1 .. d}
  BY <1>4
<1>6. TimerInv'
  BY <1>1, <1>3, <1>5 DEF TimerInv
<1>7. LeftOf(new) = [p \in Sleepers |-> IF LeftOf(old)[p] > 0 THEN LeftOf(old)[p] - 1 ELSE 0]
  <2>1. LeftOf(new) = [q \in Sleepers |-> LeftOf(new)[q]]
    BY DEF LeftOf
  <2>2. QED
    BY ONLY <1>5, <2>1 DEF CountsDown
<1>8. woken' = {q \in Sleepers : LeftOf(old)[q] = 1}
  BY <1>5 DEF CountsDown
<1>9. QED
  BY <1>2, <1>3, <1>6, <1>7, <1>8 DEF Abstract!Tick

LEMMA TimerStep ==
  TimerInv /\ [TimerNext]_timer_vars => TimerInv' /\ [Abstract!Next]_<<TicksLeft, asked, woken>>
<1> SUFFICES ASSUME TimerInv, [TimerNext]_timer_vars
             PROVE  TimerInv' /\ [Abstract!Next]_<<TicksLeft, asked, woken>>
  OBVIOUS
<1>1. ASSUME NEW p \in Sleepers, NEW n \in 1 .. MaxSleep, AddTimer(p, n)
      PROVE  TimerInv' /\ [Abstract!Next]_<<TicksLeft, asked, woken>>
  BY <1>1, AddTimerStarts DEF Abstract!Next
<1>2. ASSUME NEW p \in Sleepers, DelTimer(p)
      PROVE  TimerInv' /\ [Abstract!Next]_<<TicksLeft, asked, woken>>
  BY <1>2, DelTimerStops DEF Abstract!Next
<1>3. CASE RunTimerList
  BY <1>3, RunTimerListTicks DEF Abstract!Next
<1>4. CASE UNCHANGED timer_vars
  BY <1>4 DEF timer_vars, TimerInv, TicksLeft
<1>5. QED
  BY <1>1, <1>2, <1>3, <1>4 DEF TimerNext

\* add_timer, del_timer and run_timer_list implement one countdown per process:
\* every sleeper is woken at its own tick, whatever is inserted before it or
\* deleted in between.
THEOREM TimerListImplementsTimers == TimerSpec => ImplementsTimers
<1>1. TimerSpec => []TimerInv
  BY TimerInvInit, TimerStep, PTL DEF TimerSpec
<1>2. QED
  BY <1>1, TimerInvInit, TimerStep, PTL DEF TimerSpec, ImplementsTimers, Abstract!Spec

(* ------------------------------------------------------------------------*)
(* The stride scheduling class, for every set of processes, every          *)
(* BIG_STRIDE and every priority up to it.                                 *)
(* ------------------------------------------------------------------------*)
\* The recursion of skew_heap_merge, spelled out: one call, in terms of the
\* results of the calls it makes.
LinkUp(h, top, n) ==
  [root |-> top,
   heap |-> [n.heap EXCEPT !.left[top] = n.root,
                           !.right[top] = h.left[top],
                           !.parent[n.root] = top]]

Call(m, h, stride, p, q) ==
  IF p = NULL THEN [root |-> q, heap |-> h]
  ELSE IF q = NULL THEN [root |-> p, heap |-> h]
  ELSE IF proc_stride_comp_f(stride, p, q) = "-1" THEN LinkUp(h, p, m[<<h.right[p], q>>])
                                                 ELSE LinkUp(h, q, m[<<p, h.right[q]>>])

Calls(m, h, stride) == m = [r \in Nodes \X Nodes |-> Call(m, h, stride, r[1], r[2])]

Results == [root : Nodes, heap : Heaps]

LEMMA LinkUpType ==
  ASSUME NEW h \in Heaps, NEW top \in Procs, NEW n \in Results
  PROVE  /\ LinkUp(h, top, n) \in Results
         /\ LinkUp(h, top, n).root = top
         /\ LinkUp(h, top, n).heap.left = [n.heap.left EXCEPT ![top] = n.root]
         /\ LinkUp(h, top, n).heap.right = [n.heap.right EXCEPT ![top] = h.left[top]]
         /\ LinkUp(h, top, n).heap.parent = [n.heap.parent EXCEPT ![n.root] = top]
<1>1. top \in Nodes /\ n.root \in Nodes /\ n.heap \in Heaps /\ h.left[top] \in Nodes
  BY DEF Results, Heaps, Nodes
<1> PICK k : k = n.heap
  OBVIOUS
<1> DEFINE new == [k EXCEPT !.left[top] = n.root, !.right[top] = h.left[top], !.parent[n.root] = top]
<1>2. LinkUp(h, top, n).root = top /\ LinkUp(h, top, n).heap = new
  BY DEF LinkUp
<1>3. /\ new.left = [k.left EXCEPT ![top] = n.root]
      /\ new.right = [k.right EXCEPT ![top] = h.left[top]]
      /\ new.parent = [k.parent EXCEPT ![n.root] = top]
  BY <1>1 DEF Heaps
<1>4. new \in Heaps
  BY <1>1 DEF Heaps
<1>5. LinkUp(h, top, n) \in Results
  BY <1>1, <1>4 DEF LinkUp, Results
<1>6. QED
  BY <1>2, <1>3, <1>5

LEMMA CallType ==
  ASSUME NEW h \in Heaps, NEW stride, NEW m \in [Nodes \X Nodes -> Results],
         NEW p \in Nodes, NEW q \in Nodes
  PROVE  Call(m, h, stride, p, q) \in Results
<1>1. h.right[p] \in Nodes /\ h.right[q] \in Nodes
  BY DEF Heaps
<1>2. m[<<h.right[p], q>>] \in Results /\ m[<<p, h.right[q]>>] \in Results
  BY <1>1
<1>3. CASE p = NULL \/ q = NULL
  BY <1>3 DEF Call, Results
<1>4. CASE p # NULL /\ q # NULL
  <2>1. p \in Procs /\ q \in Procs
    BY <1>4 DEF Nodes
  <2>2. LinkUp(h, p, m[<<h.right[p], q>>]) \in Results /\ LinkUp(h, q, m[<<p, h.right[q]>>]) \in Results
    BY <1>2, <2>1, LinkUpType
  <2>3. QED
    BY <1>4, <2>2 DEF Call
<1>5. QED
  BY <1>3, <1>4

\* n ranks a heap if every node has a higher one than its children, so that
\* the recursion ends.
Ranks(rank, n, h) ==
  /\ rank \in [Nodes -> 0 .. n]
  /\ \A x \in Procs : rank[h.left[x]] < rank[x] /\ rank[h.right[x]] < rank[x]

LEMMA CallDepends ==
  ASSUME NEW h \in Heaps, NEW stride, NEW m, NEW k, NEW p \in Nodes, NEW q \in Nodes,
         p # NULL /\ q # NULL => /\ m[<<h.right[p], q>>] = k[<<h.right[p], q>>]
                                 /\ m[<<p, h.right[q]>>] = k[<<p, h.right[q]>>]
  PROVE  Call(m, h, stride, p, q) = Call(k, h, stride, p, q)
  BY DEF Call

LEMMA CallsExist ==
  ASSUME NEW h \in Heaps, NEW stride, NEW n \in Nat, NEW rank, Ranks(rank, n, h)
  PROVE  \E m \in [Nodes \X Nodes -> Results] : Calls(m, h, stride)
<1> DEFINE Pairs == Nodes \X Nodes
           Good(m, b) == \A p, q \in Nodes :
             rank[p] + rank[q] < b => m[<<p, q>>] = Call(m, h, stride, p, q)
           K == {b \in Nat : \E m \in [Pairs -> Results] : Good(m, b)}
<1>0. \A p \in Nodes : rank[p] \in Nat /\ rank[p] <= n
  BY DEF Ranks
<1>1. 0 \in K
  <2> DEFINE m == [r \in Pairs |-> [root |-> NULL, heap |-> h]]
  <2>1. m \in [Pairs -> Results]
    BY DEF Results, Nodes
  <2>2. Good(m, 0)
    BY <1>0
  <2> HIDE DEF m, Good
  <2>3. QED
    BY <2>1, <2>2
<1>2. ASSUME NEW b \in Nat, b \in K PROVE b + 1 \in K
  <2>1. PICK m \in [Pairs -> Results] : Good(m, b)
    BY <1>2
  <2> DEFINE new == [r \in Pairs |-> IF rank[r[1]] + rank[r[2]] < b THEN m[r]
                                     ELSE Call(m, h, stride, r[1], r[2])]
  <2>2. \A p, q \in Nodes : new[<<p, q>>] = IF rank[p] + rank[q] < b THEN m[<<p, q>>]
                                             ELSE Call(m, h, stride, p, q)
    <3> HIDE DEF Good
    <3>1. QED
      OBVIOUS
  <2>3. new \in [Pairs -> Results]
    <3>1. ASSUME NEW r \in Pairs PROVE new[r] \in Results
      <4>1. PICK p \in Nodes, q \in Nodes : r = <<p, q>>
        OBVIOUS
      <4>2. m[<<p, q>>] \in Results /\ Call(m, h, stride, p, q) \in Results
        BY <2>1, CallType
      <4> HIDE DEF new
      <4>3. QED
        BY <2>2, <4>1, <4>2
    <3>2. new = [r \in Pairs |-> new[r]]
      OBVIOUS
    <3> HIDE DEF new
    <3>3. QED
      BY <3>1, <3>2
  <2> HIDE DEF new
  <2>4. ASSUME NEW p \in Nodes, NEW q \in Nodes, rank[p] + rank[q] < b + 1
        PROVE  new[<<p, q>>] = Call(new, h, stride, p, q)
    <3>1. new[<<p, q>>] = Call(m, h, stride, p, q)
      BY <2>1, <2>2
    <3>2. ASSUME p # NULL, q # NULL
          PROVE  /\ m[<<h.right[p], q>>] = new[<<h.right[p], q>>]
                 /\ m[<<p, h.right[q]>>] = new[<<p, h.right[q]>>]
      <4>1. p \in Procs /\ q \in Procs /\ h.right[p] \in Nodes /\ h.right[q] \in Nodes
        BY <3>2 DEF Nodes, Heaps
      <4>2. /\ rank[h.right[p]] \in Nat /\ rank[h.right[q]] \in Nat /\ rank[p] \in Nat /\ rank[q] \in Nat
            /\ rank[h.right[p]] < rank[p] /\ rank[h.right[q]] < rank[q]
        BY <1>0, <4>1 DEF Ranks
      <4>3. rank[h.right[p]] + rank[q] < b /\ rank[p] + rank[h.right[q]] < b
        BY <2>4, <4>2
      <4>4. QED
        BY <2>2, <4>1, <4>3
    <3>3. Call(m, h, stride, p, q) = Call(new, h, stride, p, q)
      BY <3>2, CallDepends
    <3>4. QED
      BY <3>1, <3>3
  <2>5. Good(new, b + 1)
    BY <2>4
  <2> HIDE DEF Good
  <2>6. QED
    BY <2>3, <2>5
<1>3. 2 * n + 1 \in K
  <2> HIDE DEF K
  <2>1. QED
    BY <1>1, <1>2, NatSetInduction
<1>4. PICK m \in [Pairs -> Results] : Good(m, 2 * n + 1)
  BY <1>3
<1>5. ASSUME NEW r \in Pairs PROVE m[r] = Call(m, h, stride, r[1], r[2])
  <2>1. PICK p \in Nodes, q \in Nodes : r = <<p, q>>
    OBVIOUS
  <2>2. rank[p] + rank[q] < 2 * n + 1
    BY <1>0
  <2>3. m[<<p, q>>] = Call(m, h, stride, p, q)
    BY <1>4, <2>2
  <2>4. QED
    BY <2>1, <2>3
<1>6. m = [r \in Pairs |-> Call(m, h, stride, r[1], r[2])]
  <2>1. m = [r \in Pairs |-> m[r]]
    OBVIOUS
  <2>2. QED
    BY <1>5, <2>1
<1>7. QED
  BY <1>6 DEF Calls

LEMMA CallsType ==
  ASSUME NEW h \in Heaps, NEW stride, NEW n \in Nat, NEW rank, Ranks(rank, n, h),
         NEW m, Calls(m, h, stride)
  PROVE  m \in [Nodes \X Nodes -> Results]
<1> DEFINE K == {b \in Nat : \A p, q \in Nodes : rank[p] + rank[q] < b => m[<<p, q>>] \in Results}
<1>0. \A p \in Nodes : rank[p] \in Nat /\ rank[p] <= n
  BY DEF Ranks
<1>1. 0 \in K
  BY <1>0
<1>2. ASSUME NEW b \in Nat, b \in K PROVE b + 1 \in K
  <2>1. ASSUME NEW p \in Nodes, NEW q \in Nodes, rank[p] + rank[q] < b + 1
        PROVE  m[<<p, q>>] \in Results
    <3>1. m[<<p, q>>] = Call(m, h, stride, p, q)
      BY DEF Calls
    <3>2. CASE p = NULL \/ q = NULL
      BY <3>1, <3>2 DEF Call, Results
    <3>3. CASE p # NULL /\ q # NULL
      <4>1. p \in Procs /\ q \in Procs /\ h.right[p] \in Nodes /\ h.right[q] \in Nodes
        BY <3>3 DEF Nodes, Heaps
      <4>2. /\ rank[h.right[p]] \in Nat /\ rank[h.right[q]] \in Nat /\ rank[p] \in Nat /\ rank[q] \in Nat
            /\ rank[h.right[p]] < rank[p] /\ rank[h.right[q]] < rank[q]
        BY <1>0, <4>1 DEF Ranks
      <4>3. rank[h.right[p]] + rank[q] < b /\ rank[p] + rank[h.right[q]] < b
        BY <2>1, <4>2
      <4>4. m[<<h.right[p], q>>] \in Results /\ m[<<p, h.right[q]>>] \in Results
        BY <1>2, <4>1, <4>3
      <4>5. LinkUp(h, p, m[<<h.right[p], q>>]) \in Results /\ LinkUp(h, q, m[<<p, h.right[q]>>]) \in Results
        BY <4>1, <4>4, LinkUpType
      <4>6. QED
        BY <3>1, <3>3, <4>5 DEF Call
    <3>4. QED
      BY <3>2, <3>3
  <2>2. QED
    BY <2>1
<1>3. 2 * n + 1 \in K
  <2> HIDE DEF K
  <2>1. QED
    BY <1>1, <1>2, NatSetInduction
<1>4. ASSUME NEW p \in Nodes, NEW q \in Nodes PROVE m[<<p, q>>] \in Results
  <2>1. rank[p] + rank[q] < 2 * n + 1
    BY <1>0
  <2>2. QED
    BY <1>3, <2>1
<1>5. m = [r \in Nodes \X Nodes |-> m[r]]
  BY DEF Calls
<1>6. ASSUME NEW r \in Nodes \X Nodes PROVE m[r] \in Results
  <2>1. PICK p \in Nodes, q \in Nodes : r = <<p, q>>
    OBVIOUS
  <2>2. QED
    BY <1>4, <2>1
<1>7. QED
  BY <1>5, <1>6

\* One call of skew_heap_merge in terms of the call it makes.
LEMMA MergeIsCall ==
  ASSUME NEW h \in Heaps, NEW stride, NEW n \in Nat, NEW rank, Ranks(rank, n, h),
         NEW p \in Nodes, NEW q \in Nodes
  PROVE  /\ skew_heap_merge(h, stride, p, q) \in Results
         /\ p = NULL => skew_heap_merge(h, stride, p, q) = [root |-> q, heap |-> h]
         /\ p # NULL /\ q = NULL => skew_heap_merge(h, stride, p, q) = [root |-> p, heap |-> h]
         /\ p # NULL /\ q # NULL =>
              skew_heap_merge(h, stride, p, q) =
                IF proc_stride_comp_f(stride, p, q) = "-1"
                THEN LinkUp(h, p, skew_heap_merge(h, stride, h.right[p], q))
                ELSE LinkUp(h, q, skew_heap_merge(h, stride, p, h.right[q]))
<1> DEFINE m == CHOOSE f : Calls(f, h, stride)
<1>1. \A a, b : skew_heap_merge(h, stride, a, b) = m[<<a, b>>]
  <2> DEFINE Body(f, r) ==
        LET a == r[1]  b == r[2] IN
        IF a = NULL THEN [root |-> b, heap |-> h]
        ELSE IF b = NULL THEN [root |-> a, heap |-> h]
        ELSE LET first == proc_stride_comp_f(stride, a, b) = "-1"
                 top == IF first THEN a ELSE b
                 k == IF first THEN f[<<h.right[a], b>>] ELSE f[<<a, h.right[b]>>]
             IN [root |-> top,
                 heap |-> [k.heap EXCEPT !.left[top] = k.root,
                                         !.right[top] = h.left[top],
                                         !.parent[k.root] = top]]
  <2>1. ASSUME NEW f, NEW r \in Nodes \X Nodes PROVE Body(f, r) = Call(f, h, stride, r[1], r[2])
    BY DEF Call, LinkUp
  <2>2. \A a, b : skew_heap_merge(h, stride, a, b) = (CHOOSE f : f = [r \in Nodes \X Nodes |-> Body(f, r)])[<<a, b>>]
    BY DEF skew_heap_merge
  <2> HIDE DEF Body
  <2>3. ASSUME NEW f PROVE f = [r \in Nodes \X Nodes |-> Body(f, r)] <=> Calls(f, h, stride)
    BY <2>1 DEF Calls
  <2>4. (CHOOSE f : f = [r \in Nodes \X Nodes |-> Body(f, r)]) = m
    BY <2>3
  <2>5. QED
    BY <2>2, <2>4
<1>2. Calls(m, h, stride)
  BY CallsExist
<1> HIDE DEF m
<1>3. m[<<p, q>>] = Call(m, h, stride, p, q)
  BY <1>2 DEF Calls
<1>4. m \in [Nodes \X Nodes -> Results]
  BY <1>2, CallsType
<1>5. QED
  BY <1>1, <1>3, <1>4 DEF Call

\* The nodes t and below form a tree whose nodes are the set T, with upward links
\* that match the downward ones (but for t's own): down[x] are the nodes from x on.
Descends(down, h, T) ==
  /\ down \in [T \cup {NULL} -> SUBSET T]
  /\ down[NULL] = {}
  /\ \A x \in T :
       /\ h.left[x] \in T \cup {NULL} /\ h.right[x] \in T \cup {NULL}
       /\ down[x] = {x} \cup down[h.left[x]] \cup down[h.right[x]]
       /\ x \notin down[h.left[x]] /\ x \notin down[h.right[x]]
       /\ down[h.left[x]] \cap down[h.right[x]] = {}
       /\ \A y \in down[x] : down[y] \subseteq down[x]

Linked(h, x) ==
  /\ h.left[x] # NULL => h.parent[h.left[x]] = x
  /\ h.right[x] # NULL => h.parent[h.right[x]] = x

Tree(h, t, T) ==
  /\ T \subseteq Procs
  /\ t \in T \cup {NULL}
  /\ \A x \in T : Linked(h, x)
  /\ \E down : Descends(down, h, T) /\ down[t] = T

LEMMA EmptyTree ==
  ASSUME NEW h PROVE Tree(h, NULL, {})
<1> DEFINE down == [x \in {NULL} |-> {}]
<1>1. Descends(down, h, {}) /\ down[NULL] = {}
  BY DEF Descends
<1>2. QED
  BY <1>1 DEF Tree

LEMMA TreeIsEmpty ==
  ASSUME NEW h, NEW t, NEW T, Tree(h, t, T)
  PROVE  (t = NULL <=> T = {}) /\ (t # NULL => t \in T) /\ T \subseteq Procs /\ NULL \notin T
  BY StrideAssumption DEF Tree, Descends

\* The two subtrees of a tree, and a tree from two.
Splits(h, t, T, A, B) ==
  /\ Tree(h, h.left[t], A) /\ Tree(h, h.right[t], B)
  /\ T = {t} \cup A \cup B
  /\ t \notin A /\ t \notin B /\ A \cap B = {}
  /\ Linked(h, t)

LEMMA Subtree ==
  ASSUME NEW h, NEW T, T \subseteq Procs, \A x \in T : Linked(h, x),
         NEW down, Descends(down, h, T), NEW c \in T \cup {NULL}
  PROVE  Tree(h, c, down[c])
<1>0. NULL \notin T
  BY StrideAssumption
<1>1. CASE c = NULL
  <2>1. down[c] = {}
    BY <1>1 DEF Descends
  <2>2. Tree(h, NULL, {})
    BY EmptyTree
  <2>3. QED
    BY <1>1, <2>1, <2>2
<1>2. CASE c # NULL
  <2> DEFINE A == down[c]
             sub == [x \in A \cup {NULL} |-> down[x]]
  <2>1. A \subseteq T /\ c \in A /\ c \in T
    BY <1>2 DEF Descends
  <2>2. \A x \in A : down[x] \in SUBSET A
    BY <2>1 DEF Descends
  <2>3. sub \in [A \cup {NULL} -> SUBSET A] /\ sub[NULL] = {} /\ \A x \in A \cup {NULL} : sub[x] = down[x]
    BY <2>2 DEF Descends
  <2>4. ASSUME NEW x \in A
        PROVE  /\ h.left[x] \in A \cup {NULL} /\ h.right[x] \in A \cup {NULL}
    <3>1. /\ h.left[x] \in T \cup {NULL} /\ h.right[x] \in T \cup {NULL}
          /\ down[x] = {x} \cup down[h.left[x]] \cup down[h.right[x]]
      BY <2>1 DEF Descends
    <3>2. \A y \in T : y \in down[y]
      BY DEF Descends
    <3>3. down[x] \subseteq A
      BY <2>2
    <3>4. QED
      BY <3>1, <3>2, <3>3
  <2> HIDE DEF A, sub
  <2>5. Descends(sub, h, A)
    <3>1. ASSUME NEW x \in A
          PROVE  /\ sub[x] = {x} \cup sub[h.left[x]] \cup sub[h.right[x]]
                 /\ x \notin sub[h.left[x]] /\ x \notin sub[h.right[x]]
                 /\ sub[h.left[x]] \cap sub[h.right[x]] = {}
                 /\ \A y \in sub[x] : sub[y] \subseteq sub[x]
      <4>1. x \in T
        BY <2>1
      <4>2. sub[x] = down[x] /\ sub[h.left[x]] = down[h.left[x]] /\ sub[h.right[x]] = down[h.right[x]]
        BY <2>3, <2>4
      <4>3. \A y \in down[x] : down[y] \subseteq down[x] /\ sub[y] = down[y]
        BY <2>2, <2>3, <4>1 DEF Descends
      <4>4. QED
        BY <4>1, <4>2, <4>3 DEF Descends
    <3>2. QED
      BY <2>3, <2>4, <3>1 DEF Descends
  <2>6. sub[c] = A
    BY <2>1, <2>3 DEF A
  <2>7. QED
    BY <2>1, <2>5, <2>6 DEF Tree, A
<1>3. QED
  BY <1>1, <1>2

LEMMA TreeSplits ==
  ASSUME NEW h, NEW t, NEW T, Tree(h, t, T), t # NULL
  PROVE  \E A, B \in SUBSET Procs : Splits(h, t, T, A, B)
<1>1. PICK down : Descends(down, h, T) /\ down[t] = T
  BY DEF Tree
<1>2. t \in T /\ T \subseteq Procs /\ \A x \in T : Linked(h, x)
  BY DEF Tree
<1>3. h.left[t] \in T \cup {NULL} /\ h.right[t] \in T \cup {NULL}
  BY <1>1, <1>2 DEF Descends
<1>4. Tree(h, h.left[t], down[h.left[t]]) /\ Tree(h, h.right[t], down[h.right[t]])
  BY <1>1, <1>2, <1>3, Subtree
<1>5. /\ T = {t} \cup down[h.left[t]] \cup down[h.right[t]]
      /\ t \notin down[h.left[t]] /\ t \notin down[h.right[t]]
      /\ down[h.left[t]] \cap down[h.right[t]] = {}
  BY <1>1, <1>2 DEF Descends
<1>6. down[h.left[t]] \in SUBSET Procs /\ down[h.right[t]] \in SUBSET Procs
  BY <1>2, <1>5
<1>7. Splits(h, t, T, down[h.left[t]], down[h.right[t]])
  BY <1>2, <1>4, <1>5 DEF Splits
<1>8. QED
  BY <1>6, <1>7

LEMMA TreeJoins ==
  ASSUME NEW h, NEW t \in Procs, NEW T, NEW A, NEW B, Splits(h, t, T, A, B)
  PROVE  Tree(h, t, T)
<1>1. PICK da : Descends(da, h, A) /\ da[h.left[t]] = A
  BY DEF Splits, Tree
<1>2. PICK db : Descends(db, h, B) /\ db[h.right[t]] = B
  BY DEF Splits, Tree
<1>3. /\ T = {t} \cup A \cup B /\ A \subseteq Procs /\ B \subseteq Procs
      /\ t \notin A /\ t \notin B /\ A \cap B = {} /\ NULL \notin T /\ T \subseteq Procs
      /\ h.left[t] \in A \cup {NULL} /\ h.right[t] \in B \cup {NULL}
      /\ \A x \in T : Linked(h, x)
  BY StrideAssumption DEF Splits, Tree
<1> DEFINE down == [x \in T \cup {NULL} |-> IF x = t THEN T ELSE IF x \in A THEN da[x]
                                            ELSE IF x \in B THEN db[x] ELSE {}]
<1>4. /\ down[t] = T /\ down[NULL] = {}
      /\ \A x \in A : down[x] = da[x]
      /\ \A x \in B : down[x] = db[x]
  BY <1>3
<1>5. /\ \A x \in A \cup {NULL} : down[x] = da[x] /\ da[x] \subseteq A
      /\ \A x \in B \cup {NULL} : down[x] = db[x] /\ db[x] \subseteq B
  <2>1. da[NULL] = {} /\ \A x \in A \cup {NULL} : da[x] \subseteq A
    BY <1>1 DEF Descends
  <2>2. db[NULL] = {} /\ \A x \in B \cup {NULL} : db[x] \subseteq B
    BY <1>2 DEF Descends
  <2> HIDE DEF down
  <2>3. QED
    BY ONLY <1>4, <2>1, <2>2
<1>6. down \in [T \cup {NULL} -> SUBSET T]
  <2>1. \A x \in T \cup {NULL} : down[x] \in SUBSET T
    BY <1>3, <1>4, <1>5
  <2>2. QED
    BY <2>1
<1> HIDE DEF down
<1>7. ASSUME NEW x \in T
      PROVE  /\ h.left[x] \in T \cup {NULL} /\ h.right[x] \in T \cup {NULL}
             /\ down[x] = {x} \cup down[h.left[x]] \cup down[h.right[x]]
             /\ x \notin down[h.left[x]] /\ x \notin down[h.right[x]]
             /\ down[h.left[x]] \cap down[h.right[x]] = {}
             /\ \A y \in down[x] : down[y] \subseteq down[x]
  <2>1. CASE x = t
    <3>1. down[h.left[t]] = A /\ down[h.right[t]] = B
      BY <1>1, <1>2, <1>3, <1>5
    <3>2. \A y \in T : down[y] \subseteq T
      BY <1>6
    <3>3. QED
      BY <1>3, <1>4, <2>1, <3>1, <3>2
  <2>2. CASE x \in A
    <3>1. /\ h.left[x] \in A \cup {NULL} /\ h.right[x] \in A \cup {NULL}
          /\ da[x] = {x} \cup da[h.left[x]] \cup da[h.right[x]]
          /\ x \notin da[h.left[x]] /\ x \notin da[h.right[x]]
          /\ da[h.left[x]] \cap da[h.right[x]] = {}
          /\ \A y \in da[x] : da[y] \subseteq da[x]
      BY <1>1, <2>2 DEF Descends
    <3>2. \A y \in da[x] : down[y] = da[y]
      BY <1>5, <2>2
    <3>3. down[x] = da[x] /\ down[h.left[x]] = da[h.left[x]] /\ down[h.right[x]] = da[h.right[x]]
      BY <1>5, <2>2, <3>1
    <3>4. QED
      BY <1>3, <3>1, <3>2, <3>3
  <2>3. CASE x \in B
    <3>1. /\ h.left[x] \in B \cup {NULL} /\ h.right[x] \in B \cup {NULL}
          /\ db[x] = {x} \cup db[h.left[x]] \cup db[h.right[x]]
          /\ x \notin db[h.left[x]] /\ x \notin db[h.right[x]]
          /\ db[h.left[x]] \cap db[h.right[x]] = {}
          /\ \A y \in db[x] : db[y] \subseteq db[x]
      BY <1>2, <2>3 DEF Descends
    <3>2. \A y \in db[x] : down[y] = db[y]
      BY <1>5, <2>3
    <3>3. down[x] = db[x] /\ down[h.left[x]] = db[h.left[x]] /\ down[h.right[x]] = db[h.right[x]]
      BY <1>5, <2>3, <3>1
    <3>4. QED
      BY <1>3, <3>1, <3>2, <3>3
  <2>4. QED
    BY <1>3, <2>1, <2>2, <2>3
<1>8. Descends(down, h, T)
  BY <1>4, <1>6, <1>7 DEF Descends
<1>9. QED
  BY <1>3, <1>4, <1>8 DEF Tree

\* A tree does not depend on other nodes, nor on the upward link of its root.
SameLinks(h, k, t, T) ==
  \A x \in T : /\ k.left[x] = h.left[x] /\ k.right[x] = h.right[x]
               /\ x # t => k.parent[x] = h.parent[x]

LEMMA TreeStays ==
  ASSUME NEW h, NEW k, NEW t, NEW T, Tree(h, t, T), SameLinks(h, k, t, T)
  PROVE  Tree(k, t, T)
<1>1. PICK down : Descends(down, h, T) /\ down[t] = T
  BY DEF Tree
<1>2. T \subseteq Procs /\ t \in T \cup {NULL} /\ NULL \notin T /\ \A x \in T : Linked(h, x)
  BY StrideAssumption DEF Tree
<1>3. ASSUME NEW x \in T PROVE t # NULL => h.left[x] # t /\ h.right[x] # t
  <2>1. x \in down[t]
    BY <1>1
  <2>2. x \notin down[h.left[x]] /\ x \notin down[h.right[x]]
    BY <1>1 DEF Descends
  <2>3. QED
    BY <2>1, <2>2
<1>4. ASSUME NEW x \in T PROVE Linked(k, x)
  <2>1. k.left[x] = h.left[x] /\ k.right[x] = h.right[x] /\ Linked(h, x)
    BY <1>2 DEF SameLinks
  <2>2. h.left[x] \in T \cup {NULL} /\ h.right[x] \in T \cup {NULL}
    BY <1>1 DEF Descends
  <2>3. h.left[x] # NULL => k.parent[h.left[x]] = h.parent[h.left[x]]
    BY <1>2, <1>3, <2>2 DEF SameLinks
  <2>4. h.right[x] # NULL => k.parent[h.right[x]] = h.parent[h.right[x]]
    BY <1>2, <1>3, <2>2 DEF SameLinks
  <2>5. QED
    BY <2>1, <2>3, <2>4 DEF Linked
<1>5. Descends(down, k, T)
  BY <1>1 DEF Descends, SameLinks
<1>6. QED
  BY <1>1, <1>2, <1>4, <1>5 DEF Tree

\* offset, such as the distances from a stride that none is behind, orders T as
\* the comparison does.
Agrees(stride, offset, T) ==
  \A x, y \in T : proc_stride_comp_f(stride, x, y) = "-1" <=> offset[x] < offset[y]

\* No node of T has a child before it.
HeapOrder(h, offset, T) ==
  \A x \in T : /\ h.left[x] # NULL => offset[x] <= offset[h.left[x]]
               /\ h.right[x] # NULL => offset[x] <= offset[h.right[x]]

Offsets == [Procs -> Nat]

\* What merging the trees P and Q with the roots p and q comes to.
Merged(h, stride, p, q, P, Q, new) ==
  /\ new \in Results
  /\ new.root \in {p, q}
  /\ Tree(new.heap, new.root, P \cup Q)
  /\ new.heap.parent[new.root] = h.parent[new.root]
  /\ \A x \in Nodes \ (P \cup Q) : /\ new.heap.left[x] = h.left[x]
                                   /\ new.heap.right[x] = h.right[x]
                                   /\ new.heap.parent[x] = h.parent[x]
  /\ \A offset \in Offsets :
       Agrees(stride, offset, P \cup Q) /\ HeapOrder(h, offset, P \cup Q)
         => HeapOrder(new.heap, offset, P \cup Q)

\* One call: the subtree of the top node that is not merged becomes the right one,
\* the merged rest the left one.
LEMMA LinkUpMerges ==
  ASSUME NEW h \in Heaps, NEW stride, NEW top \in Procs, NEW other \in Procs,
         NEW T \in SUBSET Procs, NEW U \in SUBSET Procs, T \cap U = {},
         Tree(h, top, T), Tree(h, other, U),
         ~(proc_stride_comp_f(stride, other, top) = "-1") \/ proc_stride_comp_f(stride, top, other) = "-1",
         NEW A \in SUBSET Procs, NEW B \in SUBSET Procs, Splits(h, top, T, A, B),
         NEW n, Merged(h, stride, h.right[top], other, B, U, n)
  PROVE  Merged(h, stride, top, other, T, U, LinkUp(h, top, n))
<1> DEFINE both == T \cup U
<1> PICK new : new = LinkUp(h, top, n)
  OBVIOUS
<1> PICK k : k = n.heap
  OBVIOUS
<1> PICK g : g = new.heap
  OBVIOUS
<1>1. n \in Results /\ n.root \in {h.right[top], other} /\ k \in Heaps /\ n.root \in Nodes
  BY DEF Merged, Results
<1>2. /\ new \in Results /\ new.root = top
      /\ g.left = [k.left EXCEPT ![top] = n.root]
      /\ g.right = [k.right EXCEPT ![top] = h.left[top]]
      /\ g.parent = [k.parent EXCEPT ![n.root] = top]
  <2>1. /\ LinkUp(h, top, n) \in Results
        /\ LinkUp(h, top, n).root = top
        /\ LinkUp(h, top, n).heap.left = [n.heap.left EXCEPT ![top] = n.root]
        /\ LinkUp(h, top, n).heap.right = [n.heap.right EXCEPT ![top] = h.left[top]]
        /\ LinkUp(h, top, n).heap.parent = [n.heap.parent EXCEPT ![n.root] = top]
    BY <1>1, LinkUpType
  <2>2. QED
    BY <2>1
<1>3. /\ \A x \in Nodes : g.left[x] = IF x = top THEN n.root ELSE k.left[x]
      /\ \A x \in Nodes : g.right[x] = IF x = top THEN h.left[top] ELSE k.right[x]
      /\ \A x \in Nodes : g.parent[x] = IF x = n.root THEN top ELSE k.parent[x]
  BY <1>1, <1>2 DEF Heaps
<1>4. /\ T = {top} \cup A \cup B /\ top \notin A /\ top \notin B /\ A \cap B = {}
      /\ top \in T /\ other \in U /\ NULL \notin T /\ NULL \notin U
      /\ Tree(h, h.left[top], A) /\ Tree(h, h.right[top], B) /\ Linked(h, top)
  BY StrideAssumption, TreeIsEmpty DEF Splits
<1>5. /\ Tree(k, n.root, B \cup U)
      /\ k.parent[n.root] = h.parent[n.root]
      /\ \A x \in Nodes \ (B \cup U) : /\ k.left[x] = h.left[x]
                                       /\ k.right[x] = h.right[x]
                                       /\ k.parent[x] = h.parent[x]
  BY DEF Merged
<1>6. n.root \in B \cup U /\ n.root # NULL /\ n.root # top /\ A \subseteq Nodes /\ both \subseteq Nodes
      /\ top \in Nodes
  <2>1. B \cup U # {} /\ NULL \notin B \cup U
    BY <1>4
  <2>2. n.root # NULL /\ n.root \in B \cup U
    BY <1>5, <2>1, TreeIsEmpty
  <2>3. QED
    BY <1>4, <2>2 DEF Nodes
<1>7. Tree(g, n.root, B \cup U)
  <2>1. \A x \in B \cup U : x # top /\ x \in Nodes
    BY <1>4 DEF Nodes
  <2>2. SameLinks(k, g, n.root, B \cup U)
    BY <1>3, <2>1 DEF SameLinks
  <2>3. QED
    BY <1>5, <2>2, TreeStays
<1>8. Tree(g, h.left[top], A)
  <2>1. \A x \in A : x # top /\ x \in Nodes /\ x \notin B \cup U /\ x # n.root
    BY <1>4, <1>6 DEF Nodes
  <2>2. SameLinks(h, g, h.left[top], A)
    BY <1>3, <1>5, <2>1 DEF SameLinks
  <2>3. QED
    BY <1>4, <2>2, TreeStays
<1>9. Linked(g, top)
  <2>1. g.left[top] = n.root /\ g.parent[n.root] = top /\ g.right[top] = h.left[top]
    BY <1>1, <1>3, <1>6
  <2>2. ASSUME h.left[top] # NULL PROVE g.parent[h.left[top]] = top
    <3>1. h.left[top] \in A
      BY <1>4, <2>2, TreeIsEmpty
    <3>2. h.left[top] \in Nodes /\ h.left[top] \notin B \cup U /\ h.left[top] # n.root
      BY <1>4, <1>6, <3>1 DEF Nodes
    <3>3. h.parent[h.left[top]] = top
      BY <1>4, <2>2 DEF Linked
    <3>4. QED
      BY <1>3, <1>5, <3>2, <3>3
  <2>3. QED
    BY <2>1, <2>2 DEF Linked
<1>10. Tree(g, top, both)
  <2>1. g.left[top] = n.root /\ g.right[top] = h.left[top]
    BY <1>3, <1>6
  <2>2. /\ both = {top} \cup (B \cup U) \cup A /\ top \notin B \cup U /\ (B \cup U) \cap A = {}
    BY <1>4
  <2>3. Splits(g, top, both, B \cup U, A)
    BY <1>7, <1>8, <1>9, <1>4, <2>1, <2>2 DEF Splits
  <2>4. QED
    BY <2>3, TreeJoins
<1>11. g.parent[top] = h.parent[top]
  BY <1>3, <1>4, <1>5, <1>6
<1>12. ASSUME NEW x \in Nodes \ both
       PROVE  g.left[x] = h.left[x] /\ g.right[x] = h.right[x] /\ g.parent[x] = h.parent[x]
  <2>1. x # top /\ x \notin B \cup U /\ x # n.root
    BY <1>4, <1>6
  <2>2. QED
    BY <1>3, <1>5, <2>1
<1>13. ASSUME NEW offset \in Offsets, Agrees(stride, offset, both), HeapOrder(h, offset, both)
       PROVE  HeapOrder(g, offset, both)
  <2>1. Agrees(stride, offset, B \cup U) /\ HeapOrder(h, offset, B \cup U)
    BY <1>4, <1>13 DEF Agrees, HeapOrder
  <2>2. HeapOrder(k, offset, B \cup U)
    BY <2>1 DEF Merged
  <2>3. offset[top] <= offset[n.root]
    <3>1. offset[top] \in Nat /\ offset[other] \in Nat
      BY DEF Offsets
    <3>2. offset[top] <= offset[other]
      BY <1>4, <1>13, <3>1 DEF Agrees
    <3>3. CASE n.root = other
      BY <3>2, <3>3
    <3>4. CASE n.root = h.right[top]
      BY <1>4, <1>6, <1>13, <3>4 DEF HeapOrder
    <3>5. QED
      BY <1>1, <3>3, <3>4
  <2>4. ASSUME NEW x \in both
        PROVE  /\ g.left[x] # NULL => offset[x] <= offset[g.left[x]]
               /\ g.right[x] # NULL => offset[x] <= offset[g.right[x]]
    <3>1. CASE x = top
      <4>1. g.left[x] = n.root /\ g.right[x] = h.left[top]
        BY <1>3, <1>6, <3>1
      <4>2. h.left[top] # NULL => offset[top] <= offset[h.left[top]]
        BY <1>4, <1>13 DEF HeapOrder
      <4>3. QED
        BY <2>3, <3>1, <4>1, <4>2
    <3>2. CASE x \in B \cup U
      <4>1. g.left[x] = k.left[x] /\ g.right[x] = k.right[x]
        BY <1>3, <1>4, <1>6, <3>2
      <4>2. QED
        BY <2>2, <3>2, <4>1 DEF HeapOrder
    <3>3. CASE x \in A
      <4>1. g.left[x] = h.left[x] /\ g.right[x] = h.right[x]
        BY <1>3, <1>4, <1>5, <1>6, <3>3
      <4>2. QED
        BY <1>13, <4>1 DEF HeapOrder
    <3>4. QED
      BY <1>4, <3>1, <3>2, <3>3
  <2>5. QED
    BY <2>4 DEF HeapOrder
<1>14. new = LinkUp(h, top, n) /\ new.heap = g
  OBVIOUS
<1> HIDE DEF both
<1>15. Merged(h, stride, top, other, T, U, new)
  <2>1. both = T \cup U
    BY DEF both
  <2>2. /\ Tree(new.heap, new.root, T \cup U) /\ new.root \in {top, other}
        /\ new.heap.parent[new.root] = h.parent[new.root]
    BY <1>2, <1>10, <1>11, <1>14, <2>1
  <2>3. \A x \in Nodes \ (T \cup U) : /\ new.heap.left[x] = h.left[x]
                                       /\ new.heap.right[x] = h.right[x]
                                       /\ new.heap.parent[x] = h.parent[x]
    BY <1>12, <1>14, <2>1
  <2>4. \A offset \in Offsets :
          Agrees(stride, offset, T \cup U) /\ HeapOrder(h, offset, T \cup U)
            => HeapOrder(new.heap, offset, T \cup U)
    BY <1>13, <1>14, <2>1
  <2>5. QED
    BY ONLY <1>2, <2>2, <2>3, <2>4 DEF Merged
<1>16. QED
  BY <1>14, <1>15

LEMMA MergeTurns ==
  ASSUME NEW h, NEW stride, NEW p, NEW q, NEW P, NEW Q, NEW new, Merged(h, stride, p, q, P, Q, new)
  PROVE  Merged(h, stride, q, p, Q, P, new)
<1>1. {p, q} = {q, p} /\ P \cup Q = Q \cup P
  OBVIOUS
<1>2. QED
  BY ONLY <1>1, Merged(h, stride, p, q, P, Q, new) DEF Merged

\* Merging with nothing.
LEMMA NullMerges ==
  ASSUME NEW h \in Heaps, NEW stride, NEW q \in Nodes, NEW Q, Tree(h, q, Q)
  PROVE  Merged(h, stride, NULL, q, {}, Q, [root |-> q, heap |-> h])
<1> PICK new : new = [root |-> q, heap |-> h]
  OBVIOUS
<1>1. new.root = q /\ new.heap = h /\ new \in Results /\ {} \cup Q = Q
  BY DEF Results
<1>2. Merged(h, stride, NULL, q, {}, Q, new)
  BY <1>1 DEF Merged
<1>3. QED
  BY <1>2

\* The comparison, without the modulus.
LEMMA AheadIs ==
  ASSUME NEW stride \in [Procs -> 0 .. Modulus - 1], NEW x \in Procs, NEW y \in Procs
  PROVE  /\ Ahead(stride, x, y) = IF stride[x] >= stride[y] THEN stride[x] - stride[y]
                                  ELSE stride[x] - stride[y] + Modulus
         /\ Ahead(stride, x, y) \in 0 .. Modulus - 1
         /\ proc_stride_comp_f(stride, x, y) = "-1" <=> Ahead(stride, x, y) > BIG_STRIDE
<1> DEFINE d == stride[x] + Modulus - stride[y]
<1>1. Modulus \in Nat \ {0} /\ BIG_STRIDE \in Nat \ {0} /\ Modulus = 2 * BIG_STRIDE + 2
  BY StrideAssumption DEF Modulus
<1>2. stride[x] \in 0 .. Modulus - 1 /\ stride[y] \in 0 .. Modulus - 1
  OBVIOUS
<1>3. d \in 0 .. 2 * Modulus - 1
  BY <1>1, <1>2
<1>4. \A M \in Nat \ {0} : \A c \in 0 .. 2 * M - 1 : c % M = IF c < M THEN c ELSE c - M
  OBVIOUS
<1>5. d % Modulus = IF d < Modulus THEN d ELSE d - Modulus
  <2> HIDE DEF d
  <2>1. QED
    BY ONLY <1>1, <1>3, <1>4
<1>6. Ahead(stride, x, y) = IF d < Modulus THEN d ELSE d - Modulus
  BY <1>5 DEF Ahead
<1>7. QED
  BY <1>1, <1>2, <1>6 DEF proc_stride_comp_f

LEMMA MergeMerges ==
  ASSUME NEW h \in Heaps, NEW stride, NEW n \in Nat, NEW rank, Ranks(rank, n, h),
         NEW p \in Nodes, NEW q \in Nodes, NEW P \in SUBSET Procs, NEW Q \in SUBSET Procs,
         P \cap Q = {}, Tree(h, p, P), Tree(h, q, Q)
  PROVE  Merged(h, stride, p, q, P, Q, skew_heap_merge(h, stride, p, q))
<1> DEFINE Sure(a, b, A, B) ==
             A \cap B = {} /\ Tree(h, a, A) /\ Tree(h, b, B) =>
               Merged(h, stride, a, b, A, B, skew_heap_merge(h, stride, a, b))
           K == {k \in Nat : \A a, b \in Nodes : \A A, B \in SUBSET Procs :
                   rank[a] + rank[b] < k => Sure(a, b, A, B)}
<1>0. \A x \in Nodes : rank[x] \in Nat /\ rank[x] <= n
  BY DEF Ranks
<1>1. 0 \in K
  BY <1>0
<1>2. ASSUME NEW k \in Nat, k \in K PROVE k + 1 \in K
  <2>1. ASSUME NEW a \in Nodes, NEW b \in Nodes, NEW A \in SUBSET Procs, NEW B \in SUBSET Procs,
               rank[a] + rank[b] < k + 1, A \cap B = {}, Tree(h, a, A), Tree(h, b, B)
        PROVE  Merged(h, stride, a, b, A, B, skew_heap_merge(h, stride, a, b))
    <3>0. \A c, d \in Nodes : \A C, D \in SUBSET Procs :
            rank[c] + rank[d] < k => Sure(c, d, C, D)
      BY <1>2
    <3>1. CASE a = NULL
      <4>1. A = {}
        BY <2>1, <3>1, TreeIsEmpty
      <4>2. skew_heap_merge(h, stride, a, b) = [root |-> b, heap |-> h]
        <5>1. a = NULL => skew_heap_merge(h, stride, a, b) = [root |-> b, heap |-> h]
          BY MergeIsCall
        <5>2. QED
          BY <3>1, <5>1
      <4>3. QED
        BY <2>1, <3>1, <4>1, <4>2, NullMerges
    <3>2. CASE a # NULL /\ b = NULL
      <4>1. B = {}
        BY <2>1, <3>2, TreeIsEmpty
      <4>2. skew_heap_merge(h, stride, a, b) = [root |-> a, heap |-> h]
        BY <3>2, MergeIsCall
      <4>3. Merged(h, stride, NULL, a, {}, A, [root |-> a, heap |-> h])
        BY <2>1, NullMerges
      <4>4. Merged(h, stride, a, NULL, A, {}, [root |-> a, heap |-> h])
        BY ONLY <4>3, MergeTurns
      <4>5. QED
        BY <3>2, <4>1, <4>2, <4>4
    <3>3. CASE a # NULL /\ b # NULL
      <4>1. a \in Procs /\ b \in Procs /\ h.right[a] \in Nodes /\ h.right[b] \in Nodes
        BY <3>3 DEF Nodes, Heaps
      <4>2. /\ rank[h.right[a]] \in Nat /\ rank[h.right[b]] \in Nat /\ rank[a] \in Nat /\ rank[b] \in Nat
            /\ rank[h.right[a]] < rank[a] /\ rank[h.right[b]] < rank[b]
        BY <1>0, <4>1 DEF Ranks
      <4>3. rank[h.right[a]] + rank[b] < k /\ rank[a] + rank[h.right[b]] < k
        BY <2>1, <4>2
      <4>4. CASE proc_stride_comp_f(stride, a, b) = "-1"
        <5>1. skew_heap_merge(h, stride, a, b) =
                LinkUp(h, a, skew_heap_merge(h, stride, h.right[a], b))
          BY <3>3, <4>4, MergeIsCall
        <5>2. PICK C \in SUBSET Procs, D \in SUBSET Procs : Splits(h, a, A, C, D)
          BY <2>1, <3>3, TreeSplits
        <5>3. D \cap B = {} /\ Tree(h, h.right[a], D)
          BY <2>1, <5>2 DEF Splits
        <5>4. Sure(h.right[a], b, D, B)
          <6> HIDE DEF Sure
          <6>1. QED
            BY <3>0, <4>1, <4>3
        <5>5. Merged(h, stride, h.right[a], b, D, B, skew_heap_merge(h, stride, h.right[a], b))
          BY <2>1, <5>3, <5>4
        <5>6. QED
          BY <2>1, <4>1, <4>4, <5>1, <5>2, <5>5, LinkUpMerges
      <4>5. CASE ~(proc_stride_comp_f(stride, a, b) = "-1")
        <5>1. skew_heap_merge(h, stride, a, b) =
                LinkUp(h, b, skew_heap_merge(h, stride, a, h.right[b]))
          BY <3>3, <4>5, MergeIsCall
        <5>2. PICK C \in SUBSET Procs, D \in SUBSET Procs : Splits(h, b, B, C, D)
          BY <2>1, <3>3, TreeSplits
        <5>3. A \cap D = {} /\ Tree(h, h.right[b], D)
          BY <2>1, <5>2 DEF Splits
        <5>4. Sure(a, h.right[b], A, D)
          <6> HIDE DEF Sure
          <6>1. QED
            BY <3>0, <4>1, <4>3
        <5>5. Merged(h, stride, a, h.right[b], A, D, skew_heap_merge(h, stride, a, h.right[b]))
          BY <2>1, <5>3, <5>4
        <5>6. Merged(h, stride, h.right[b], a, D, A, skew_heap_merge(h, stride, a, h.right[b]))
          BY ONLY <5>5, MergeTurns
        <5>7. B \cap A = {}
          BY <2>1
        <5>8. Merged(h, stride, b, a, B, A, skew_heap_merge(h, stride, a, b))
          BY <2>1, <4>1, <4>5, <5>1, <5>2, <5>6, <5>7, LinkUpMerges
        <5>9. QED
          BY ONLY <5>8, MergeTurns
      <4>6. QED
        BY <4>4, <4>5
    <3>4. QED
      BY <3>1, <3>2, <3>3
  <2>2. QED
    BY <2>1
<1>3. 2 * n + 1 \in K
  <2> HIDE DEF K
  <2>1. QED
    BY <1>1, <1>2, NatSetInduction
<1>4. rank[p] + rank[q] < 2 * n + 1
  BY <1>0
<1>5. Sure(p, q, P, Q)
  <2> HIDE DEF Sure
  <2>1. QED
    BY <1>3, <1>4
<1>6. QED
  BY <1>5

-----------------------------------------------------------------------------
\* A heap of the processes T with the root t: dead links are cut.
Heap(h, t, T) ==
  /\ h \in Heaps
  /\ Tree(h, t, T)
  /\ t # NULL => h.parent[t] = NULL
  /\ \A x \in Procs \ T : h.left[x] = NULL /\ h.right[x] = NULL

LEMMA HeapIsRanked ==
  ASSUME NEW h, NEW t, NEW T, Heap(h, t, T)
  PROVE  \E n \in Nat : \E rank : Ranks(rank, n, h)
<1>1. PICK down : Descends(down, h, T) /\ down[t] = T
  BY DEF Heap, Tree
<1>2. T \subseteq Procs /\ NULL \notin T /\ NULL \notin Procs /\ IsFiniteSet(Procs) /\ h \in Heaps
  BY StrideAssumption DEF Heap, Tree
<1>3. ASSUME NEW U \in SUBSET Procs
      PROVE  IsFiniteSet(U) /\ Cardinality(U) \in Nat /\ Cardinality(U) <= Cardinality(Procs)
  BY <1>2, FS_Subset, FS_CardinalityType
<1> DEFINE rank == [x \in Nodes |-> IF x = NULL THEN 0 ELSE IF x \in T THEN Cardinality(down[x]) ELSE 1]
           n == Cardinality(Procs) + 1
<1>4. n \in Nat
  BY <1>2, FS_CardinalityType
<1>5. \A x \in T \cup {NULL} : down[x] \in SUBSET Procs /\ down[x] \subseteq T
  BY <1>1, <1>2 DEF Descends
<1>6. Cardinality({}) = 0 /\ down[NULL] = {}
  BY <1>1, FS_EmptySet DEF Descends
<1>7. rank \in [Nodes -> 0 .. n]
  <2>1. ASSUME NEW x \in Nodes PROVE rank[x] \in 0 .. n
    <3>1. CASE x = NULL
      BY <1>4, <3>1
    <3>2. CASE x # NULL /\ x \in T
      <4>1. rank[x] = Cardinality(down[x])
        BY <3>2
      <4>2. down[x] \in SUBSET Procs
        BY <1>5, <3>2
      <4>3. Cardinality(down[x]) \in Nat /\ Cardinality(down[x]) <= Cardinality(Procs) /\ Cardinality(Procs) \in Nat
        BY <1>3, <4>2, <1>2, FS_CardinalityType
      <4> HIDE DEF rank
      <4>4. QED
        BY <4>1, <4>3
    <3>3. CASE x # NULL /\ x \notin T
      <4>1. rank[x] = 1
        BY <3>3
      <4>2. Cardinality(Procs) \in Nat
        BY <1>2, FS_CardinalityType
      <4> HIDE DEF rank
      <4>3. QED
        BY <4>1, <4>2
    <3>4. QED
      BY <3>1, <3>2, <3>3
  <2>2. QED
    BY <2>1
<1>8. ASSUME NEW x \in Procs PROVE rank[h.left[x]] < rank[x] /\ rank[h.right[x]] < rank[x]
  <2>0. rank[NULL] = 0 /\ x # NULL /\ x \in Nodes
    BY <1>2 DEF Nodes
  <2>1. CASE x \notin T
    <3>1. h.left[x] = NULL /\ h.right[x] = NULL /\ rank[x] = 1
      BY <2>0, <2>1 DEF Heap
    <3> HIDE DEF rank
    <3>2. QED
      BY <2>0, <3>1
  <2>2. CASE x \in T
    <3>1. \A c \in T \cup {NULL} : rank[c] = Cardinality(down[c])
      BY <1>2, <1>6 DEF Nodes
    <3>2. ASSUME NEW c \in T \cup {NULL}, down[c] \subseteq down[x], x \notin down[c]
          PROVE  rank[c] < rank[x]
      <4>1. x \in down[x] /\ IsFiniteSet(down[x]) /\ IsFiniteSet(down[c])
        BY <1>1, <1>3, <1>5, <2>2 DEF Descends
      <4>2. Cardinality(down[c]) < Cardinality(down[x])
        <5>1. Cardinality(down[c]) <= Cardinality(down[x])
          BY <3>2, <4>1, FS_Subset
        <5>2. Cardinality(down[c]) # Cardinality(down[x])
          BY <3>2, <4>1, FS_Subset
        <5>3. Cardinality(down[c]) \in Nat /\ Cardinality(down[x]) \in Nat
          BY <4>1, FS_CardinalityType
        <5>4. QED
          BY <5>1, <5>2, <5>3
      <4> HIDE DEF rank
      <4>3. QED
        BY <2>2, <3>1, <4>2
    <3>3. /\ h.left[x] \in T \cup {NULL} /\ h.right[x] \in T \cup {NULL}
          /\ down[h.left[x]] \subseteq down[x] /\ down[h.right[x]] \subseteq down[x]
          /\ x \notin down[h.left[x]] /\ x \notin down[h.right[x]]
      BY <1>1, <2>2 DEF Descends
    <3> HIDE DEF rank
    <3>4. QED
      BY <3>2, <3>3
  <2>3. QED
    BY <2>1, <2>2
<1> HIDE DEF rank, n
<1>9. Ranks(rank, n, h)
  BY <1>7, <1>8 DEF Ranks
<1>10. QED
  BY <1>4, <1>9

\* skew_heap_insert and skew_heap_remove of the root keep a heap, and its order.
KeepsOrder(stride, h, T, k, U) ==
  \A offset \in Offsets :
    Agrees(stride, offset, T \cup U) /\ HeapOrder(h, offset, T) => HeapOrder(k, offset, U)

LEMMA InsertKeeps ==
  ASSUME NEW rq, NEW T, Heap(rq.heap, rq.root, T), NEW b \in Procs \ T, NEW stride
  PROVE  /\ Heap(skew_heap_insert(rq, stride, b).heap, skew_heap_insert(rq, stride, b).root, T \cup {b})
         /\ skew_heap_insert(rq, stride, b).root # NULL
         /\ KeepsOrder(stride, rq.heap, T, skew_heap_insert(rq, stride, b).heap, T \cup {b})
<1> PICK h : h = rq.heap
  OBVIOUS
<1> PICK t : t = rq.root
  OBVIOUS
<1> PICK k : k = [h EXCEPT !.left[b] = NULL, !.right[b] = NULL, !.parent[b] = NULL]
  OBVIOUS
<1> PICK new : new = skew_heap_merge(k, stride, t, b)
  OBVIOUS
<1>0. /\ h \in Heaps /\ Tree(h, t, T) /\ (t # NULL => h.parent[t] = NULL)
      /\ \A x \in Procs \ T : h.left[x] = NULL /\ h.right[x] = NULL
      /\ T \subseteq Procs /\ NULL \notin T /\ b \in Nodes /\ b # NULL /\ t \in Nodes /\ b \notin T
      /\ NULL \in Nodes /\ (t # NULL => t \in T) /\ Procs \subseteq Nodes
  BY StrideAssumption, TreeIsEmpty DEF Heap, Nodes
<1>1. /\ k \in Heaps
      /\ k.left = [h.left EXCEPT ![b] = NULL]
      /\ k.right = [h.right EXCEPT ![b] = NULL]
      /\ k.parent = [h.parent EXCEPT ![b] = NULL]
  BY <1>0 DEF Heaps
<1>2. /\ \A x \in Nodes : k.left[x] = IF x = b THEN NULL ELSE h.left[x]
      /\ \A x \in Nodes : k.right[x] = IF x = b THEN NULL ELSE h.right[x]
      /\ \A x \in Nodes : k.parent[x] = IF x = b THEN NULL ELSE h.parent[x]
  BY <1>0, <1>1 DEF Heaps
<1>3. Tree(k, t, T)
  <2>1. SameLinks(h, k, t, T)
    BY <1>0, <1>2 DEF SameLinks
  <2>2. QED
    BY <1>0, <2>1, TreeStays
<1>4. Tree(k, b, {b})
  <2>1. k.left[b] = NULL /\ k.right[b] = NULL
    BY <1>0, <1>2
  <2>2. Splits(k, b, {b}, {}, {})
    BY <2>1, EmptyTree DEF Splits, Linked
  <2>3. QED
    BY <2>2, TreeJoins
<1>5. Heap(k, t, T)
  <2>1. t # NULL => k.parent[t] = NULL
    BY <1>0, <1>2
  <2>2. \A x \in Procs \ T : k.left[x] = NULL /\ k.right[x] = NULL
    BY <1>0, <1>2
  <2>3. QED
    BY <1>1, <1>3, <2>1, <2>2 DEF Heap
<1>6. Merged(k, stride, t, b, T, {b}, new)
  <2>1. PICK n \in Nat : \E rank : Ranks(rank, n, k)
    BY <1>5, HeapIsRanked
  <2> PICK rank : Ranks(rank, n, k)
    BY <2>1
  <2>2. T \in SUBSET Procs /\ {b} \in SUBSET Procs /\ T \cap {b} = {}
    BY <1>0
  <2>3. QED
    BY <1>0, <1>1, <1>3, <1>4, <2>1, <2>2, MergeMerges
<1>7. new = skew_heap_insert(rq, stride, b)
  BY DEF skew_heap_insert
<1>8. new.root # NULL
  <2>1. Tree(new.heap, new.root, T \cup {b})
    BY <1>6 DEF Merged
  <2>2. QED
    BY <2>1, TreeIsEmpty
<1>9. Heap(new.heap, new.root, T \cup {b})
  <2>1. /\ new \in Results /\ new.root \in {t, b} /\ Tree(new.heap, new.root, T \cup {b})
        /\ new.heap.parent[new.root] = k.parent[new.root]
        /\ \A x \in Nodes \ (T \cup {b}) : new.heap.left[x] = k.left[x] /\ new.heap.right[x] = k.right[x]
    BY <1>6 DEF Merged
  <2>2. k.parent[new.root] = NULL
    <3>1. CASE new.root = t
      BY <1>0, <1>2, <1>8, <3>1
    <3>2. CASE new.root = b
      BY <1>0, <1>2, <3>2
    <3>3. QED
      BY <2>1, <3>1, <3>2
  <2>3. \A x \in Procs \ (T \cup {b}) : new.heap.left[x] = NULL /\ new.heap.right[x] = NULL
    <3>1. \A x \in Procs \ T : k.left[x] = NULL /\ k.right[x] = NULL
      BY <1>5 DEF Heap
    <3>2. \A x \in Procs : x \in Nodes
      BY <1>0
    <3>3. QED
      BY ONLY <2>1, <3>1, <3>2
  <2>4. QED
    BY <2>1, <2>2, <2>3 DEF Heap, Results
<1>10. KeepsOrder(stride, h, T, new.heap, T \cup {b})
  <2>1. ASSUME NEW offset \in Offsets, Agrees(stride, offset, T \cup (T \cup {b})), HeapOrder(h, offset, T)
        PROVE  HeapOrder(new.heap, offset, T \cup {b})
    <3>1. HeapOrder(k, offset, T \cup {b})
      BY <1>0, <1>2, <2>1 DEF HeapOrder
    <3>2. T \cup (T \cup {b}) = T \cup {b}
      OBVIOUS
    <3>3. QED
      BY <1>6, <2>1, <3>1, <3>2 DEF Merged
  <2>2. QED
    BY <2>1 DEF KeepsOrder
<1>11. QED
  BY <1>7, <1>8, <1>9, <1>10

LEMMA RemoveKeeps ==
  ASSUME NEW rq, NEW T, Heap(rq.heap, rq.root, T), rq.root # NULL, NEW stride
  PROVE  /\ Heap(skew_heap_remove(rq, stride, rq.root).heap, skew_heap_remove(rq, stride, rq.root).root,
                 T \ {rq.root})
         /\ \A offset \in Offsets :
              Agrees(stride, offset, T \ {rq.root}) /\ HeapOrder(rq.heap, offset, T \ {rq.root})
                => HeapOrder(skew_heap_remove(rq, stride, rq.root).heap, offset, T \ {rq.root})
<1> PICK h : h = rq.heap
  OBVIOUS
<1> PICK b : b = rq.root
  OBVIOUS
<1> PICK m : m = skew_heap_merge(h, stride, h.left[b], h.right[b])
  OBVIOUS
<1> PICK g : g = m.heap
  OBVIOUS
<1> PICK c : c = m.root
  OBVIOUS
<1> PICK gone : gone = [g EXCEPT !.left[b] = NULL, !.right[b] = NULL, !.parent[b] = NULL]
  OBVIOUS
<1> DEFINE up == IF c = NULL THEN gone ELSE [gone EXCEPT !.parent[c] = NULL]
<1>0. /\ h \in Heaps /\ Tree(h, b, T) /\ h.parent[b] = NULL
      /\ \A x \in Procs \ T : h.left[x] = NULL /\ h.right[x] = NULL
      /\ T \subseteq Procs /\ NULL \notin T /\ b \in Nodes /\ b # NULL /\ b \in T
      /\ NULL \in Nodes /\ Procs \subseteq Nodes /\ NULL \notin Procs
  BY StrideAssumption, TreeIsEmpty DEF Heap, Nodes
<1>1. PICK A \in SUBSET Procs, B \in SUBSET Procs : Splits(h, b, T, A, B)
  BY <1>0, TreeSplits
<1>2. /\ T = {b} \cup A \cup B /\ b \notin A /\ b \notin B /\ A \cap B = {} /\ T \ {b} = A \cup B
      /\ Tree(h, h.left[b], A) /\ Tree(h, h.right[b], B)
      /\ h.left[b] \in Nodes /\ h.right[b] \in Nodes
  <2>1. h.left[b] \in Nodes /\ h.right[b] \in Nodes
    BY <1>0 DEF Heaps
  <2>2. /\ T = {b} \cup A \cup B /\ b \notin A /\ b \notin B /\ A \cap B = {}
        /\ Tree(h, h.left[b], A) /\ Tree(h, h.right[b], B)
    BY <1>1 DEF Splits
  <2>3. T \ {b} = A \cup B
    BY ONLY <2>2
  <2>4. QED
    BY <2>1, <2>2, <2>3
<1>3. Merged(h, stride, h.left[b], h.right[b], A, B, m)
  <2>1. PICK n \in Nat : \E rank : Ranks(rank, n, h)
    BY HeapIsRanked
  <2> PICK rank : Ranks(rank, n, h)
    BY <2>1
  <2>2. QED
    BY <1>0, <1>2, <2>1, MergeMerges
<1>4. /\ m \in Results /\ g \in Heaps /\ c \in Nodes /\ Tree(g, c, A \cup B)
      /\ \A x \in Nodes \ (A \cup B) : g.left[x] = h.left[x] /\ g.right[x] = h.right[x]
  BY <1>3 DEF Merged, Results
<1>5. c # NULL => c \in A \cup B
  BY <1>4, TreeIsEmpty
<1>6. /\ gone \in Heaps
      /\ gone.left = [g.left EXCEPT ![b] = NULL]
      /\ gone.right = [g.right EXCEPT ![b] = NULL]
      /\ gone.parent = [g.parent EXCEPT ![b] = NULL]
  <2>1. b \in Nodes /\ NULL \in Nodes /\ g \in Heaps
    BY <1>0, <1>4
  <2>2. QED
    BY ONLY <2>1, gone = [g EXCEPT !.left[b] = NULL, !.right[b] = NULL, !.parent[b] = NULL] DEF Heaps
<1>7. /\ up \in Heaps /\ up.left = gone.left /\ up.right = gone.right
      /\ c # NULL => up.parent = [gone.parent EXCEPT ![c] = NULL]
      /\ c = NULL => up.parent = gone.parent
  <2>1. CASE c = NULL
    BY <1>6, <2>1
  <2>2. CASE c # NULL
    <3> PICK k : k = [gone EXCEPT !.parent[c] = NULL]
      OBVIOUS
    <3>1. up = k
      BY <2>2
    <3>2. k \in Heaps /\ k.left = gone.left /\ k.right = gone.right /\ k.parent = [gone.parent EXCEPT ![c] = NULL]
      <4>1. c \in Nodes /\ NULL \in Nodes /\ gone \in Heaps
        BY ONLY <1>0, <1>4, <1>6
      <4>2. QED
        BY ONLY <4>1, k = [gone EXCEPT !.parent[c] = NULL] DEF Heaps
    <3> HIDE DEF up
    <3>3. QED
      BY <2>2, <3>1, <3>2
  <2>3. QED
    BY <2>1, <2>2
<1>8. skew_heap_remove(rq, stride, b) = [root |-> c, heap |-> up]
  <2>1. rq.heap.parent[b] = NULL
    BY <1>0
  <2>2. QED
    BY ONLY <2>1, h = rq.heap, m = skew_heap_merge(h, stride, h.left[b], h.right[b]), g = m.heap, c = m.root,
            gone = [g EXCEPT !.left[b] = NULL, !.right[b] = NULL, !.parent[b] = NULL]
       DEF skew_heap_remove
<1> HIDE DEF up
<1>9. /\ \A x \in Nodes : up.left[x] = IF x = b THEN NULL ELSE g.left[x]
      /\ \A x \in Nodes : up.right[x] = IF x = b THEN NULL ELSE g.right[x]
      /\ \A x \in Nodes : up.parent[x] = IF x = b \/ x = c THEN up.parent[x] ELSE g.parent[x]
      /\ c # NULL => up.parent[c] = NULL
  <2>1. /\ g.left \in [Nodes -> Nodes] /\ g.right \in [Nodes -> Nodes] /\ g.parent \in [Nodes -> Nodes]
        /\ gone.parent \in [Nodes -> Nodes]
    BY <1>4, <1>6 DEF Heaps
  <2>2. /\ \A x \in Nodes : up.left[x] = IF x = b THEN NULL ELSE g.left[x]
        /\ \A x \in Nodes : up.right[x] = IF x = b THEN NULL ELSE g.right[x]
    BY ONLY <1>6, <1>7, <2>1
  <2>3. \A x \in Nodes : x # b => gone.parent[x] = g.parent[x]
    BY ONLY <1>6, <2>1
  <2>4. ASSUME NEW x \in Nodes, x # b, x # c PROVE up.parent[x] = g.parent[x]
    BY ONLY <1>7, <2>1, <2>3, <2>4, x \in Nodes
  <2>5. c # NULL => up.parent[c] = NULL
    BY ONLY <1>4, <1>7, <2>1
  <2>6. QED
    BY <2>2, <2>4, <2>5
<1>10. Tree(up, c, A \cup B)
  <2>1. \A x \in A \cup B : x # b /\ x \in Nodes
    BY <1>0, <1>2
  <2>2. SameLinks(g, up, c, A \cup B)
    BY ONLY <1>9, <2>1 DEF SameLinks
  <2>3. Tree(g, c, A \cup B)
    BY <1>4
  <2>4. QED
    BY ONLY <2>2, <2>3, TreeStays
<1>11. Heap(up, c, T \ {b})
  <2>1. \A x \in Procs \ (A \cup B) : up.left[x] = NULL /\ up.right[x] = NULL
    BY ONLY <1>0, <1>2, <1>4, <1>9
  <2>2. QED
    BY ONLY <1>2, <1>7, <1>9, <1>10, <2>1 DEF Heap
<1>12. skew_heap_remove(rq, stride, b).root = c /\ skew_heap_remove(rq, stride, b).heap = up
  BY ONLY <1>8
<1>13. ASSUME NEW offset \in Offsets, Agrees(stride, offset, T \ {b}), HeapOrder(h, offset, T \ {b})
       PROVE  HeapOrder(up, offset, T \ {b})
  <2>1. Agrees(stride, offset, A \cup B) /\ HeapOrder(h, offset, A \cup B)
    BY <1>2, <1>13
  <2>2. HeapOrder(g, offset, A \cup B)
    BY <1>3, <2>1 DEF Merged
  <2>3. QED
    BY ONLY <1>0, <1>2, <1>9, <2>2 DEF HeapOrder
<1>14. QED
  BY <1>11, <1>12, <1>13

-----------------------------------------------------------------------------
\* In a tree the children of its nodes are nodes of it, and never the root.
Closed(h, T) == \A x \in T : h.left[x] \in T \cup {NULL} /\ h.right[x] \in T \cup {NULL}

LEMMA TreeCloses ==
  ASSUME NEW h, NEW t, NEW T, Tree(h, t, T)
  PROVE  Closed(h, T) /\ Closed(h, T \ {t})
<1>1. PICK down : Descends(down, h, T) /\ down[t] = T
  BY DEF Tree
<1>2. Closed(h, T)
  BY <1>1 DEF Descends, Closed
<1>3. ASSUME NEW x \in T PROVE t # NULL => h.left[x] # t /\ h.right[x] # t
  <2>1. x \in down[t]
    BY <1>1
  <2>2. x \notin down[h.left[x]] /\ x \notin down[h.right[x]]
    BY <1>1 DEF Descends
  <2>3. QED
    BY <2>1, <2>2
<1>4. QED
  BY <1>2, <1>3 DEF Closed

\* The root of an ordered tree is before all its nodes.
LEMMA RootIsLeast ==
  ASSUME NEW h, NEW t, NEW T, Tree(h, t, T), NEW offset \in Offsets, HeapOrder(h, offset, T)
  PROVE  \A x \in T : offset[t] <= offset[x]
<1>1. PICK down : Descends(down, h, T) /\ down[t] = T
  BY DEF Tree
<1>2. T \subseteq Procs /\ NULL \notin T /\ IsFiniteSet(Procs)
  BY StrideAssumption DEF Tree
<1>3. \A x \in T : offset[x] \in Nat
  BY <1>2 DEF Offsets
<1> DEFINE Bad == {x \in T : \E y \in down[x] : ~(offset[x] <= offset[y])}
           F == {down[x] : x \in Bad}
<1>4. Bad = {}
  <2> SUFFICES ASSUME Bad # {} PROVE FALSE
    OBVIOUS
  <2>1. F # {}
    OBVIOUS
  <2>2. ASSUME NEW U \in F PROVE IsFiniteSet(U)
    <3>1. PICK x \in T : U = down[x]
      OBVIOUS
    <3>2. U \in SUBSET Procs
      BY <1>1, <1>2, <3>1 DEF Descends
    <3>3. QED
      BY <1>2, <3>2, FS_Subset
  <2>3. PICK M \in F : \A U \in F : U \subseteq M => U = M
    <3> HIDE DEF F
    <3>1. QED
      BY <2>1, <2>2, FiniteMinimum
  <2>4. PICK x \in Bad : M = down[x]
    OBVIOUS
  <2>5. PICK y \in down[x] : ~(offset[x] <= offset[y])
    BY <2>4
  <2>6. /\ h.left[x] \in T \cup {NULL} /\ h.right[x] \in T \cup {NULL}
        /\ down[x] = {x} \cup down[h.left[x]] \cup down[h.right[x]]
        /\ x \notin down[h.left[x]] /\ x \notin down[h.right[x]] /\ x \in T
        /\ down[x] \subseteq T /\ down[NULL] = {}
    BY <1>1, <2>4 DEF Descends
  <2>7. ASSUME NEW c \in T, down[c] \subseteq down[x], x \notin down[c], offset[x] <= offset[c], y \in down[c]
        PROVE  FALSE
    <3>1. c \notin Bad
      <4>1. down[c] # M
        BY <2>4, <2>6, <2>7
      <4>2. c \in Bad => down[c] \in F
        OBVIOUS
      <4> HIDE DEF Bad, F
      <4>3. QED
        BY <2>3, <2>4, <2>7, <4>1, <4>2
    <3>2. offset[c] <= offset[y]
      BY <2>7, <3>1
    <3>3. offset[x] \in Nat /\ offset[c] \in Nat /\ offset[y] \in Nat
      BY <1>3, <2>6
    <3>4. QED
      BY <2>5, <2>7, <3>2, <3>3
  <2>8. y # x
    BY <1>3, <2>5, <2>6
  <2>9. CASE y \in down[h.left[x]]
    <3>1. h.left[x] \in T /\ h.left[x] # NULL
      BY <2>6, <2>9
    <3>2. offset[x] <= offset[h.left[x]]
      BY <2>6, <3>1 DEF HeapOrder
    <3>3. QED
      BY <2>6, <2>7, <2>9, <3>1, <3>2
  <2>10. CASE y \in down[h.right[x]]
    <3>1. h.right[x] \in T /\ h.right[x] # NULL
      BY <2>6, <2>10
    <3>2. offset[x] <= offset[h.right[x]]
      BY <2>6, <3>1 DEF HeapOrder
    <3>3. QED
      BY <2>6, <2>7, <2>10, <3>1, <3>2
  <2>11. QED
    BY <2>5, <2>6, <2>8, <2>9, <2>10
<1>5. ASSUME NEW x \in T PROVE offset[t] <= offset[x]
  <2>1. t \in T
    BY TreeIsEmpty
  <2>2. t \notin Bad /\ x \in down[t]
    BY <1>1, <1>4
  <2>3. QED
    BY <2>1, <2>2
<1>6. QED
  BY <1>5

-----------------------------------------------------------------------------
\* All strides of a set as distances from one of them, none above BIG_STRIDE.
Wrap(n) == IF n < Modulus THEN n ELSE n - Modulus

From(stride, r, offset, T) ==
  /\ r \in 0 .. Modulus - 1
  /\ offset \in Offsets
  /\ \A x \in T : offset[x] <= BIG_STRIDE /\ stride[x] = Wrap(r + offset[x])

Strides == [Procs -> 0 .. Modulus - 1]

LEMMA Constants ==
  BIG_STRIDE \in Nat \ {0} /\ Modulus \in Nat \ {0} /\ Modulus = 2 * BIG_STRIDE + 2
  BY StrideAssumption DEF Modulus

\* In a window the comparison is that of the distances.
LEMMA WindowOrders ==
  ASSUME NEW stride \in Strides, NEW r, NEW offset, NEW T \in SUBSET Procs, From(stride, r, offset, T)
  PROVE  /\ Agrees(stride, offset, T)
         /\ \A x, y \in T : Ahead(stride, x, y) <= BIG_STRIDE <=> offset[y] <= offset[x]
<1>1. ASSUME NEW x \in T, NEW y \in T
      PROVE  /\ proc_stride_comp_f(stride, x, y) = "-1" <=> offset[x] < offset[y]
             /\ Ahead(stride, x, y) <= BIG_STRIDE <=> offset[y] <= offset[x]
  <2> PICK a : a = offset[x]
    OBVIOUS
  <2> PICK b : b = offset[y]
    OBVIOUS
  <2>1. a \in 0 .. BIG_STRIDE /\ b \in 0 .. BIG_STRIDE /\ r \in 0 .. Modulus - 1
    BY DEF From, Offsets
  <2>2. stride[x] = (IF r + a < Modulus THEN r + a ELSE r + a - Modulus)
    <3>1. stride[x] = Wrap(r + a)
      BY DEF From
    <3>2. QED
      BY ONLY <2>1, <3>1, Constants DEF Wrap
  <2>3. stride[y] = (IF r + b < Modulus THEN r + b ELSE r + b - Modulus)
    <3>1. stride[y] = Wrap(r + b)
      BY DEF From
    <3>2. QED
      BY ONLY <2>1, <3>1, Constants DEF Wrap
  <2>4. /\ Ahead(stride, x, y) = IF stride[x] >= stride[y] THEN stride[x] - stride[y]
                                 ELSE stride[x] - stride[y] + Modulus
        /\ proc_stride_comp_f(stride, x, y) = "-1" <=> Ahead(stride, x, y) > BIG_STRIDE
    BY AheadIs DEF Strides
  <2>5. Ahead(stride, x, y) = IF a >= b THEN a - b ELSE a - b + Modulus
    BY ONLY <2>1, <2>2, <2>3, <2>4, Constants
  <2>6. QED
    BY ONLY <2>1, <2>4, <2>5, Constants, a = offset[x], b = offset[y]
<1>2. QED
  BY <1>1 DEF Agrees

LEMMA WindowHasOffsets ==
  ASSUME NEW stride \in Strides, NEW T \in SUBSET Procs, InWindow(T, stride)
  PROVE  \E r, offset : From(stride, r, offset, T)
<1>1. PICK b \in T : \A p \in T : Ahead(stride, p, b) <= BIG_STRIDE
  BY DEF InWindow
<1> DEFINE offset == [p \in Procs |-> Ahead(stride, p, b)]
<1>2. \A p \in Procs : /\ Ahead(stride, p, b) = IF stride[p] >= stride[b] THEN stride[p] - stride[b]
                                                ELSE stride[p] - stride[b] + Modulus
                       /\ Ahead(stride, p, b) \in 0 .. Modulus - 1
  BY AheadIs DEF Strides
<1>3. offset \in Offsets
  BY <1>2 DEF Offsets
<1>4. stride[b] \in 0 .. Modulus - 1
  BY DEF Strides
<1>5. ASSUME NEW x \in T PROVE offset[x] <= BIG_STRIDE /\ stride[x] = Wrap(stride[b] + offset[x])
  <2>1. stride[x] \in 0 .. Modulus - 1
    BY DEF Strides
  <2>2. offset[x] = IF stride[x] >= stride[b] THEN stride[x] - stride[b] ELSE stride[x] - stride[b] + Modulus
    BY <1>2
  <2>3. offset[x] <= BIG_STRIDE
    BY <1>1
  <2> HIDE DEF offset
  <2>4. stride[x] = Wrap(stride[b] + offset[x])
    BY ONLY <1>4, <2>1, <2>2, Constants DEF Wrap
  <2>5. QED
    BY <2>3, <2>4
<1> HIDE DEF offset
<1>6. From(stride, stride[b], offset, T)
  BY <1>3, <1>4, <1>5 DEF From
<1>7. QED
  BY <1>6

LEMMA OffsetsMakeWindow ==
  ASSUME NEW stride \in Strides, NEW T \in SUBSET Procs, T # {}, NEW r, NEW offset, From(stride, r, offset, T)
  PROVE  InWindow(T, stride)
<1> DEFINE N1 == {offset[x] : x \in T}
<1>1. N1 \subseteq Nat /\ N1 # {}
  BY DEF From, Offsets
<1>2. PICK n \in N1 : \A k \in N1 : n <= k
  <2> HIDE DEF N1
  <2>1. QED
    BY <1>1, LeastElement
<1>3. PICK b \in T : n = offset[b]
  OBVIOUS
<1>4. \A p \in T : offset[b] <= offset[p]
  BY <1>2, <1>3
<1>5. \A p \in T : Ahead(stride, p, b) <= BIG_STRIDE
  BY <1>4, WindowOrders
<1>6. QED
  BY <1>5 DEF InWindow

\* No child is behind its parent, as the comparison sees it.
NearOrder(h, stride, T) ==
  \A x \in T : /\ h.left[x] # NULL => Ahead(stride, h.left[x], x) <= BIG_STRIDE
               /\ h.right[x] # NULL => Ahead(stride, h.right[x], x) <= BIG_STRIDE

LEMMA NearIsHeapOrder ==
  ASSUME NEW stride \in Strides, NEW T \in SUBSET Procs, NEW W \in SUBSET Procs, T \subseteq W,
         NEW r, NEW offset, From(stride, r, offset, W), NEW h, Closed(h, T)
  PROVE  NearOrder(h, stride, T) <=> HeapOrder(h, offset, T)
<1>1. \A x, y \in W : Ahead(stride, x, y) <= BIG_STRIDE <=> offset[y] <= offset[x]
  BY WindowOrders
<1>2. ASSUME NEW x \in T
      PROVE  /\ h.left[x] # NULL => (Ahead(stride, h.left[x], x) <= BIG_STRIDE <=> offset[x] <= offset[h.left[x]])
             /\ h.right[x] # NULL => (Ahead(stride, h.right[x], x) <= BIG_STRIDE <=> offset[x] <= offset[h.right[x]])
  BY <1>1 DEF Closed
<1>3. QED
  BY <1>2 DEF NearOrder, HeapOrder


LEMMA InsertOrders ==
  ASSUME NEW rq, NEW T, Heap(rq.heap, rq.root, T), NEW b \in Procs \ T, NEW stride \in Strides,
         NEW W \in SUBSET Procs, T \cup {b} \subseteq W, InWindow(W, stride), NearOrder(rq.heap, stride, T)
  PROVE  NearOrder(skew_heap_insert(rq, stride, b).heap, stride, T \cup {b})
<1> PICK new : new = skew_heap_insert(rq, stride, b)
  OBVIOUS
<1>1. /\ Heap(new.heap, new.root, T \cup {b})
      /\ KeepsOrder(stride, rq.heap, T, new.heap, T \cup {b})
  BY InsertKeeps
<1>2. PICK r, offset : From(stride, r, offset, W)
  BY WindowHasOffsets
<1>3. offset \in Offsets /\ Agrees(stride, offset, W)
  BY <1>2, WindowOrders DEF From
<1>4. T \in SUBSET Procs /\ T \subseteq W /\ T \cup {b} \in SUBSET Procs
  OBVIOUS
<1>5. HeapOrder(rq.heap, offset, T)
  <2>1. Closed(rq.heap, T)
    BY TreeCloses DEF Heap
  <2>2. QED
    BY <1>2, <1>4, <2>1, NearIsHeapOrder
<1>6. Agrees(stride, offset, T \cup (T \cup {b}))
  BY <1>3, <1>4 DEF Agrees
<1>7. HeapOrder(new.heap, offset, T \cup {b})
  BY <1>1, <1>3, <1>5, <1>6 DEF KeepsOrder
<1>8. NearOrder(new.heap, stride, T \cup {b})
  <2>1. Closed(new.heap, T \cup {b})
    BY <1>1, TreeCloses DEF Heap
  <2>2. QED
    BY <1>2, <1>4, <1>7, <2>1, NearIsHeapOrder
<1>9. QED
  BY <1>8

\* Picking the root of a heap in order, and advancing its stride.
\* The strides when the process t has been picked.
Advance(stride, t, pass) == [stride EXCEPT ![t] = (@ + pass) % Modulus]

\* Taking out the root keeps a window, and the order of the heap.
Picked(rq, T, stride, advanced) ==
  InWindow(T, stride) /\ NearOrder(rq.heap, stride, T) =>
    /\ InWindow(T, advanced)
    /\ NearOrder(skew_heap_remove(rq, advanced, rq.root).heap, advanced, T \ {rq.root})

LEMMA PickKeeps ==
  ASSUME NEW rq, NEW T, Heap(rq.heap, rq.root, T), rq.root # NULL,
         NEW stride \in Strides, NEW pass \in 0 .. BIG_STRIDE, NEW advanced,
         advanced = Advance(stride, rq.root, pass)
  PROVE  advanced \in Strides /\ Picked(rq, T, stride, advanced)
<1> PICK b : b = rq.root
  OBVIOUS
<1> PICK h : h = rq.heap
  OBVIOUS
<1>1. /\ T \in SUBSET Procs /\ b \in T /\ b \in Procs /\ Tree(h, b, T)
      /\ T \ {b} \in SUBSET Procs /\ T # {} /\ T \ {b} \subseteq T
  BY TreeIsEmpty DEF Heap
<1>2. stride[b] \in 0 .. Modulus - 1
  BY <1>1 DEF Strides
<1>3. (stride[b] + pass) % Modulus = Wrap(stride[b] + pass) /\ (stride[b] + pass) % Modulus \in 0 .. Modulus - 1
  <2>1. stride[b] + pass \in 0 .. 2 * Modulus - 1
    BY <1>2, Constants
  <2>2. \A M \in Nat \ {0} : \A c \in 0 .. 2 * M - 1 :
          c % M = (IF c < M THEN c ELSE c - M) /\ c % M \in 0 .. M - 1
    OBVIOUS
  <2>3. QED
    BY ONLY <2>1, <2>2, Constants DEF Wrap
<1>4. advanced \in Strides
  BY <1>1, <1>3 DEF Strides, Advance
<1>5. \A x \in Procs : advanced[x] = IF x = b THEN Wrap(stride[b] + pass) ELSE stride[x]
  BY <1>1, <1>3 DEF Strides, Advance
<1>6. ASSUME InWindow(T, stride), NearOrder(h, stride, T)
      PROVE  /\ InWindow(T, advanced)
             /\ NearOrder(skew_heap_remove(rq, advanced, b).heap, advanced, T \ {b})
  <2>1. PICK r, o : From(stride, r, o, T)
    BY <1>1, <1>6, WindowHasOffsets
  <2>2. o \in Offsets /\ \A x \in Procs : o[x] \in Nat
    BY <2>1 DEF From, Offsets
  <2>3. HeapOrder(h, o, T)
    BY <1>1, <1>6, <2>1, TreeCloses, NearIsHeapOrder
  <2>4. \A x \in T : o[b] <= o[x]
    BY <1>1, <2>2, <2>3, RootIsLeast
  \* distances from the old stride of the root
  <2> DEFINE offset == [x \in Procs |-> IF x = b THEN pass ELSE IF x \in T THEN o[x] - o[b] ELSE 0]
  <2>5. offset \in Offsets
    <3>1. ASSUME NEW x \in Procs PROVE offset[x] \in Nat
      BY <1>1, <2>2, <2>4
    <3>2. QED
      BY <3>1 DEF Offsets
  <2>6. /\ offset[b] = pass
        /\ \A x \in T : x # b => offset[x] = o[x] - o[b]
    BY <1>1
  <2> HIDE DEF offset
  <2>7. ASSUME NEW x \in T
        PROVE  offset[x] <= BIG_STRIDE /\ advanced[x] = Wrap(stride[b] + offset[x])
    <3>1. CASE x = b
      BY <1>1, <1>5, <2>6, <3>1
    <3>2. CASE x # b
      <4>1. /\ o[x] <= BIG_STRIDE /\ o[b] <= BIG_STRIDE /\ o[b] <= o[x] /\ o[x] \in Nat /\ o[b] \in Nat
            /\ stride[x] = Wrap(r + o[x]) /\ stride[b] = Wrap(r + o[b]) /\ r \in 0 .. Modulus - 1
        BY <1>1, <2>1, <2>2, <2>4 DEF From
      <4>2. offset[x] = o[x] - o[b] /\ advanced[x] = stride[x]
        BY <1>1, <1>5, <2>6, <3>2
      <4>3. stride[x] = Wrap(stride[b] + (o[x] - o[b]))
        <5> PICK ox \in Nat : ox = o[x]
          BY <4>1
        <5> PICK ob \in Nat : ob = o[b]
          BY <4>1
        <5>1. /\ ox \in Nat /\ ob \in Nat /\ ox <= BIG_STRIDE /\ ob <= ox /\ r \in 0 .. Modulus - 1
              /\ stride[x] = (IF r + ox < Modulus THEN r + ox ELSE r + ox - Modulus)
              /\ stride[b] = (IF r + ob < Modulus THEN r + ob ELSE r + ob - Modulus)
          BY ONLY <4>1, ox = o[x], ob = o[b], ox \in Nat, ob \in Nat, Constants DEF Wrap
        <5>2. stride[x] = IF stride[b] + (ox - ob) < Modulus THEN stride[b] + (ox - ob)
                          ELSE stride[b] + (ox - ob) - Modulus
          BY ONLY <5>1, Constants
        <5>3. QED
          BY ONLY <5>1, <5>2, <4>1, ox = o[x], ob = o[b], Constants DEF Wrap
      <4>4. QED
        BY <4>1, <4>2, <4>3, Constants
    <3>3. QED
      BY <3>1, <3>2
  <2>8. From(advanced, stride[b], offset, T)
    BY <1>2, <2>5, <2>7 DEF From
  <2>9. InWindow(T, advanced)
    BY <1>1, <1>4, <2>8, OffsetsMakeWindow
  <2>10. Closed(h, T \ {b})
    BY <1>1, TreeCloses
  <2>11. HeapOrder(h, offset, T \ {b})
    <3>1. ASSUME NEW x \in T \ {b}
          PROVE  /\ h.left[x] # NULL => offset[x] <= offset[h.left[x]]
                 /\ h.right[x] # NULL => offset[x] <= offset[h.right[x]]
      <4>1. /\ h.left[x] # NULL => h.left[x] \in T \ {b} /\ o[x] <= o[h.left[x]]
            /\ h.right[x] # NULL => h.right[x] \in T \ {b} /\ o[x] <= o[h.right[x]]
        BY <2>3, <2>10 DEF HeapOrder, Closed
      <4>2. \A y \in T \ {b} : offset[y] = o[y] - o[b] /\ o[y] \in Nat /\ o[b] \in Nat
        BY <1>1, <2>2, <2>6
      <4>3. QED
        BY <4>1, <4>2
    <3>2. QED
      BY <3>1 DEF HeapOrder
  <2>12. Agrees(advanced, offset, T \ {b})
    BY <1>1, <1>4, <2>8, WindowOrders DEF Agrees
  <2> PICK new : new = skew_heap_remove(rq, advanced, b)
    OBVIOUS
  <2>13. Heap(new.heap, new.root, T \ {b}) /\ HeapOrder(new.heap, offset, T \ {b})
    BY <2>5, <2>11, <2>12, RemoveKeeps
  <2>14. Closed(new.heap, T \ {b})
    BY <2>13, TreeCloses DEF Heap
  <2>15. NearOrder(new.heap, advanced, T \ {b})
    BY <1>1, <1>4, <2>8, <2>13, <2>14, NearIsHeapOrder
  <2>16. QED
    BY <2>9, <2>15
<1>7. QED
  BY <1>4, <1>6 DEF Picked

-----------------------------------------------------------------------------
\* The inductive invariant.
StrideInv ==
  /\ StrideTypeOK
  /\ Heap(links, lab6_run_pool, Pool)
  /\ proc_num = Cardinality(Pool)
  /\ ordered => NearOrder(links, lab6_stride, Pool)
  /\ WindowKept

LEMMA SingleWindow ==
  ASSUME NEW stride \in Strides, NEW x \in Procs
  PROVE  InWindow({x}, stride)
<1>1. Ahead(stride, x, x) = IF stride[x] >= stride[x] THEN stride[x] - stride[x]
                            ELSE stride[x] - stride[x] + Modulus
  BY AheadIs DEF Strides
<1>2. stride[x] \in 0 .. Modulus - 1
  BY DEF Strides
<1>3. Ahead(stride, x, x) <= BIG_STRIDE
  BY ONLY <1>1, <1>2, Constants
<1>4. QED
  BY <1>3 DEF InWindow

LEMMA WindowShrinks ==
  ASSUME NEW stride \in Strides, NEW W \in SUBSET Procs, InWindow(W, stride), NEW T \in SUBSET W, T # {}
  PROVE  InWindow(T, stride)
<1>1. PICK r, offset : From(stride, r, offset, W)
  BY WindowHasOffsets
<1>2. From(stride, r, offset, T)
  BY <1>1 DEF From
<1>3. QED
  BY <1>2, OffsetsMakeWindow

\* Windows and order are about the strides of the processes in question.
LEMMA SameStrides ==
  ASSUME NEW new, NEW old, NEW T, \A x \in T : new[x] = old[x]
  PROVE  /\ InWindow(T, old) => InWindow(T, new)
         /\ \A h : Closed(h, T) /\ NearOrder(h, old, T) => NearOrder(h, new, T)
<1>1. \A x, y \in T : Ahead(new, x, y) = Ahead(old, x, y)
  BY DEF Ahead
<1>2. InWindow(T, old) => InWindow(T, new)
  BY <1>1 DEF InWindow
<1>3. ASSUME NEW h, Closed(h, T), NearOrder(h, old, T) PROVE NearOrder(h, new, T)
  <2>1. ASSUME NEW x \in T
        PROVE  /\ h.left[x] # NULL => Ahead(new, h.left[x], x) <= BIG_STRIDE
               /\ h.right[x] # NULL => Ahead(new, h.right[x], x) <= BIG_STRIDE
    BY <1>1, <1>3 DEF Closed, NearOrder
  <2>2. QED
    BY <2>1 DEF NearOrder
<1>4. QED
  BY <1>2, <1>3

LEMMA PassIsSmall ==
  ASSUME NEW p \in Procs, lab6_priority \in [Procs -> 0 .. MaxPriority]
  PROVE  Pass(p) \in 0 .. BIG_STRIDE
<1>1. lab6_priority[p] \in Nat
  BY StrideAssumption
<1>2. \A B \in Nat : \A k \in Nat \ {0} : B \div k \in 0 .. B
  OBVIOUS
<1>3. QED
  BY <1>1, <1>2, Constants DEF Pass

\* What holds of the heap, the window and the count after a step.
Kept ==
  /\ Heap(links, lab6_run_pool, Pool)
  /\ proc_num = Cardinality(Pool)
  /\ ordered => NearOrder(links, lab6_stride, Pool)
  /\ WindowKept
  /\ lab6_run_pool \in Nodes /\ links \in Heaps /\ proc_num \in Nat
  /\ lab6_stride \in Strides /\ current \in runnable \cup {NULL} /\ ordered \in BOOLEAN

LEMMA PoolIsFinite ==
  ASSUME NEW T \in SUBSET Procs
  PROVE  /\ IsFiniteSet(T) /\ Cardinality(T) \in Nat
         /\ \A x \in Procs \ T : Cardinality(T \cup {x}) = Cardinality(T) + 1
         /\ \A x \in T : Cardinality(T \ {x}) = Cardinality(T) - 1
<1>1. IsFiniteSet(T)
  BY StrideAssumption, FS_Subset
<1>2. QED
  BY <1>1, FS_CardinalityType, FS_AddElement, FS_RemoveElement

LEMMA HeapNodes ==
  ASSUME NEW h, NEW t, NEW T, Heap(h, t, T)
  PROVE  h \in Heaps /\ t \in Nodes
  BY TreeIsEmpty DEF Heap, Nodes

LEMMA EnqueueKeeps ==
  ASSUME StrideInv, NEW p \in Procs \ runnable, NEW stride \in Strides,
         \A x \in runnable : stride[x] = lab6_stride[x],
         Enqueue(p, stride), runnable' = runnable \cup {p}, current' = current, lab6_stride' = stride
  PROVE  Kept'
<1>0. /\ runnable \subseteq Procs /\ current \in runnable \cup {NULL} /\ Pool \subseteq Procs
      /\ Heap(links, lab6_run_pool, Pool) /\ proc_num = Cardinality(Pool) /\ p \notin Pool
      /\ Pool \subseteq runnable /\ p # NULL /\ p \in Procs
  BY StrideAssumption DEF StrideInv, StrideTypeOK, Pool
<1>1. Pool' = Pool \cup {p}
  BY <1>0 DEF Pool
<1> PICK new : new = skew_heap_insert(Rq, stride, p)
  OBVIOUS
<1>2. lab6_run_pool' = new.root /\ links' = new.heap
  BY DEF Enqueue, SetRq
<1>3. Rq.root = lab6_run_pool /\ Rq.heap = links
  BY DEF Rq
<1>4. Heap(new.heap, new.root, Pool \cup {p})
  BY <1>0, <1>3, InsertKeeps
<1>5. proc_num' = Cardinality(Pool') /\ proc_num' \in Nat
  <2>1. proc_num' = proc_num + 1
    BY DEF Enqueue
  <2>2. Cardinality(Pool \cup {p}) = Cardinality(Pool) + 1 /\ Cardinality(Pool) \in Nat
    BY <1>0, PoolIsFinite
  <2>3. QED
    BY <1>0, <1>1, <2>1, <2>2
<1>6. ordered' \in BOOLEAN /\ (ordered' <=> (runnable # {} => ordered /\ InWindow(runnable \cup {p}, stride)))
  BY DEF Enqueue
<1>7. ASSUME ordered' PROVE InWindow(runnable \cup {p}, stride) /\ NearOrder(new.heap, stride, Pool \cup {p})
  <2>1. InWindow(runnable \cup {p}, stride)
    <3>1. CASE runnable = {}
      <4>1. runnable \cup {p} = {p}
        BY <3>1
      <4>2. QED
        BY <1>0, <4>1, SingleWindow
    <3>2. CASE runnable # {}
      BY <1>6, <1>7, <3>2
    <3>3. QED
      BY <3>1, <3>2
  <2>2. NearOrder(links, stride, Pool)
    <3>1. CASE Pool = {}
      BY <3>1 DEF NearOrder
    <3>2. CASE Pool # {}
      <4>1. ordered /\ NearOrder(links, lab6_stride, Pool)
        BY <1>0, <1>6, <1>7, <3>2 DEF StrideInv
      <4>2. Closed(links, Pool)
        BY <1>0, TreeCloses DEF Heap
      <4>3. \A x \in Pool : stride[x] = lab6_stride[x]
        BY <1>0
      <4>4. QED
        BY <4>1, <4>2, <4>3, SameStrides
    <3>3. QED
      BY <3>1, <3>2
  <2>3. runnable \cup {p} \in SUBSET Procs /\ Pool \cup {p} \subseteq runnable \cup {p} /\ p \in Procs \ Pool
    BY <1>0
  <2>4. NearOrder(new.heap, stride, Pool \cup {p})
    BY <1>0, <1>3, <2>1, <2>2, <2>3, InsertOrders
  <2>5. QED
    BY <2>1, <2>4
<1>8. WindowKept'
  BY <1>7 DEF WindowKept
<1>9. lab6_run_pool' \in Nodes /\ links' \in Heaps
  BY <1>2, <1>4, HeapNodes
<1>10. QED
  BY <1>0, <1>1, <1>2, <1>4, <1>5, <1>6, <1>7, <1>8, <1>9 DEF Kept

LEMMA ScheduleKeeps ==
  ASSUME StrideInv, NEW back \in BOOLEAN, NEW stride \in Strides, NEW T,
         T = IF back THEN runnable ELSE runnable \ {current},
         back \/ current # NULL,
         \A x \in T : stride[x] = lab6_stride[x],
         Schedule(back, stride), runnable' = T
  PROVE  Kept'
<1>0. /\ runnable \subseteq Procs /\ current \in runnable \cup {NULL} /\ Pool \subseteq Procs
      /\ Heap(links, lab6_run_pool, Pool) /\ proc_num = Cardinality(Pool)
      /\ Pool \subseteq runnable /\ NULL \notin Procs /\ Pool \subseteq T /\ T \subseteq runnable /\ T \subseteq Procs
      /\ lab6_priority \in [Procs -> 0 .. MaxPriority] /\ ordered \in BOOLEAN
  BY StrideAssumption DEF StrideInv, StrideTypeOK, Pool
<1> PICK rq : rq = IF back /\ current # NULL THEN skew_heap_insert(Rq, stride, current) ELSE Rq
  OBVIOUS
<1> PICK next : next = rq.root
  OBVIOUS
<1>1. Rq.root = lab6_run_pool /\ Rq.heap = links
  BY DEF Rq
<1>2. (Pool # {} => ordered) => NearOrder(links, stride, Pool)
  <2>1. CASE Pool = {}
    BY <2>1 DEF NearOrder
  <2>2. CASE ordered
    <3>1. NearOrder(links, lab6_stride, Pool) /\ Closed(links, Pool)
      BY <1>0, <2>2, TreeCloses DEF StrideInv, Heap
    <3>2. \A x \in Pool : stride[x] = lab6_stride[x]
      BY <1>0
    <3>3. QED
      BY <3>1, <3>2, SameStrides
  <2>3. QED
    BY <2>1, <2>2
<1>3. (Pool # {} => ordered) /\ T # {} => InWindow(T, stride)
  <2>1. CASE Pool = {}
    <3>1. ASSUME T # {} PROVE InWindow(T, stride)
      <4>1. T = {current} /\ current \in Procs
        BY <1>0, <2>1, <3>1 DEF Pool
      <4>2. QED
        BY <4>1, SingleWindow
    <3>2. QED
      BY <3>1
  <2>2. CASE ordered /\ T # {}
    <3>1. InWindow(runnable, lab6_stride) /\ lab6_stride \in Strides /\ runnable \in SUBSET Procs
      BY <1>0, <2>2 DEF StrideInv, WindowKept, StrideTypeOK, Strides
    <3>2. InWindow(T, lab6_stride)
      BY <1>0, <2>2, <3>1, WindowShrinks
    <3>3. QED
      BY <3>2, SameStrides
  <2>3. QED
    BY <2>1, <2>2
\* current is back in the heap
<1>4. /\ Heap(rq.heap, rq.root, T)
      /\ Cardinality(T) = proc_num + (IF back /\ current # NULL THEN 1 ELSE 0)
      /\ (Pool # {} => ordered) => NearOrder(rq.heap, stride, T)
  <2>1. CASE back /\ current # NULL
    <3>1. rq = skew_heap_insert(Rq, stride, current) /\ current \in Procs \ Pool /\ T = Pool \cup {current}
      BY <1>0, <2>1 DEF Pool
    <3>2. Heap(rq.heap, rq.root, T)
      <4>1. Heap(Rq.heap, Rq.root, Pool)
        BY <1>0, <1>1
      <4>2. Heap(skew_heap_insert(Rq, stride, current).heap, skew_heap_insert(Rq, stride, current).root,
                 Pool \cup {current})
        BY <3>1, <4>1, InsertKeeps
      <4>3. QED
        BY <3>1, <4>2
    <3>3. Cardinality(T) = proc_num + 1
      BY <1>0, <3>1, PoolIsFinite
    <3>4. (Pool # {} => ordered) => NearOrder(rq.heap, stride, T)
      <4> SUFFICES ASSUME Pool # {} => ordered PROVE NearOrder(rq.heap, stride, T)
        OBVIOUS
      <4>1. InWindow(T, stride) /\ NearOrder(Rq.heap, stride, Pool) /\ T \in SUBSET Procs
        BY <1>0, <1>1, <1>2, <1>3, <3>1
      <4>2. QED
        BY <1>0, <1>1, <3>1, <4>1, InsertOrders
    <3>5. QED
      BY <2>1, <3>2, <3>3, <3>4
  <2>2. CASE ~(back /\ current # NULL)
    <3>1. rq = Rq /\ T = Pool
      BY <1>0, <2>2 DEF Pool
    <3>2. proc_num \in Nat
      BY <1>0, PoolIsFinite
    <3>3. Heap(rq.heap, rq.root, T)
      BY <1>0, <1>1, <3>1
    <3>4. Cardinality(T) = proc_num + (IF back /\ current # NULL THEN 1 ELSE 0)
      <4>1. Cardinality(T) = proc_num
        BY <1>0, <3>1
      <4>2. QED
        BY ONLY <2>2, <3>2, <4>1
    <3>5. (Pool # {} => ordered) => NearOrder(rq.heap, stride, T)
      BY <1>1, <1>2, <3>1
    <3>6. QED
      BY <3>3, <3>4, <3>5
  <2>3. QED
    BY <2>1, <2>2
<1>5. /\ current' = next
      /\ ordered' = (ordered \/ Pool = {})
      /\ proc_num' = proc_num + (IF back /\ current # NULL THEN 1 ELSE 0) - (IF next # NULL THEN 1 ELSE 0)
  BY DEF Schedule
<1>6. Pool' = T \ {next} /\ (next = NULL <=> T = {}) /\ (next # NULL => next \in T)
  BY <1>4, <1>5, TreeIsEmpty DEF Pool, Heap
<1>7. proc_num' = Cardinality(Pool') /\ proc_num' \in Nat
  <2>1. Cardinality(T) \in Nat /\ \A x \in T : Cardinality(T \ {x}) = Cardinality(T) - 1
    BY <1>0, PoolIsFinite
  <2>2. Cardinality(T \ {next}) = Cardinality(T) - (IF next # NULL THEN 1 ELSE 0) /\ Cardinality(T \ {next}) \in Nat
    <3>1. CASE next = NULL
      <4>1. T \ {next} = T
        BY <1>0, <3>1
      <4>2. QED
        BY <2>1, <3>1, <4>1
    <3>2. CASE next # NULL
      <4>1. T \ {next} \in SUBSET Procs
        BY <1>0
      <4>2. Cardinality(T \ {next}) \in Nat
        BY <4>1, PoolIsFinite
      <4>3. QED
        BY <1>6, <2>1, <3>2, <4>2
    <3>3. QED
      BY <3>1, <3>2
  <2>3. Pool' = T \ {next}
    BY <1>6
  <2>4. proc_num \in Nat
    BY <1>0, PoolIsFinite
  <2> DEFINE a == IF back /\ current # NULL THEN 1 ELSE 0
             b == IF next # NULL THEN 1 ELSE 0
             c == Cardinality(T)
             d == Cardinality(T \ {next})
  <2>5. a \in Nat /\ b \in Nat /\ c = proc_num + a /\ d = c - b /\ d \in Nat /\ proc_num' = proc_num + a - b
    BY <1>4, <1>5, <2>2
  <2> HIDE DEF a, b, c, d
  <2>6. proc_num' = d /\ d \in Nat
    BY ONLY <2>4, <2>5
  <2>7. QED
    BY <2>3, <2>6 DEF d
<1>8. CASE next = NULL
  <2>1. lab6_run_pool' = rq.root /\ links' = rq.heap /\ lab6_stride' = stride
    BY <1>8 DEF Schedule, SetRq
  <2>2. T = {} /\ Pool' = {} /\ runnable' = {}
    BY <1>6, <1>8
  <2>3. Heap(links', lab6_run_pool', Pool')
    BY <1>4, <2>1, <2>2
  <2>4. (ordered => NearOrder(links, lab6_stride, Pool))' /\ WindowKept'
    BY <2>2 DEF NearOrder, WindowKept
  <2>5. lab6_run_pool' \in Nodes /\ links' \in Heaps
    BY <2>3, HeapNodes
  <2>6. QED
    BY <1>0, <1>5, <1>7, <1>8, <2>1, <2>3, <2>4, <2>5 DEF Kept
<1>9. CASE next # NULL
  <2> PICK pass : pass = Pass(next)
    OBVIOUS
  <2> PICK advanced : advanced = [stride EXCEPT ![next] = (@ + pass) % Modulus]
    OBVIOUS
  <2> PICK new : new = skew_heap_remove(rq, advanced, next)
    OBVIOUS
  <2>1. lab6_run_pool' = new.root /\ links' = new.heap /\ lab6_stride' = advanced
    BY <1>9 DEF Schedule, SetRq
  <2>2. next \in Procs /\ pass \in 0 .. BIG_STRIDE
    BY <1>0, <1>6, <1>9, PassIsSmall
  <2>3. Heap(new.heap, new.root, T \ {next})
    BY <1>4, <1>9, RemoveKeeps
  <2>4. /\ advanced \in Strides
        /\ InWindow(T, stride) /\ NearOrder(rq.heap, stride, T) =>
             InWindow(T, advanced) /\ NearOrder(new.heap, advanced, T \ {next})
    <3>1. Heap(rq.heap, rq.root, T) /\ rq.root # NULL
      BY <1>4, <1>9
    <3>2. advanced = Advance(stride, rq.root, pass)
      BY DEF Advance
    <3>3. advanced \in Strides /\ Picked(rq, T, stride, advanced)
      <4>1. stride \in Strides /\ pass \in 0 .. BIG_STRIDE
        BY <2>2
      <4>2. advanced \in Strides
        BY ONLY <3>1, <3>2, <4>1, PickKeeps
      <4>3. Picked(rq, T, stride, advanced)
        BY ONLY <3>1, <3>2, <4>1, PickKeeps
      <4>4. QED
        BY <4>2, <4>3
    <3>4. QED
      BY <3>3 DEF Picked
  <2>5. (ordered => NearOrder(links, lab6_stride, Pool))' /\ WindowKept'
    <3>1. ASSUME ordered' PROVE InWindow(T, advanced) /\ NearOrder(new.heap, advanced, T \ {next})
      <4>1. Pool # {} => ordered
        BY <1>5, <3>1
      <4>2. QED
        BY <1>3, <1>4, <1>6, <1>9, <2>4, <4>1
    <3>2. QED
      BY <1>6, <2>1, <3>1 DEF WindowKept
  <2>6. lab6_run_pool' \in Nodes /\ links' \in Heaps
    BY <2>1, <2>3, HeapNodes
  <2>7. QED
    BY <1>0, <1>5, <1>6, <1>7, <2>1, <2>3, <2>4, <2>5, <2>6 DEF Kept
<1>10. QED
  BY <1>8, <1>9

LEMMA KeptIsInv ==
  ASSUME Kept', lab6_priority' \in [Procs -> 0 .. MaxPriority], runnable' \subseteq Procs,
         asleep' \subseteq Procs \ runnable'
  PROVE  StrideInv'
  BY DEF Kept, StrideInv, StrideTypeOK, Strides

LEMMA StrideInvInitially ==
  ASSUME StrideInit PROVE StrideInv
<1> DEFINE none == [p \in Nodes |-> NULL]
<1>0. initproc \in Procs /\ NULL \notin Procs /\ IsFiniteSet(Procs)
      /\ BIG_STRIDE \in Nat /\ MaxPriority \in Nat /\ 0 \in 0 .. Modulus - 1 /\ 0 \in 0 .. MaxPriority
  BY StrideAssumption, Constants
<1>1. Pool = {initproc}
  BY <1>0 DEF StrideInit, Pool
<1>2. links = [left |-> none, right |-> none, parent |-> none] /\ none \in [Nodes -> Nodes]
  BY DEF StrideInit, Nodes
<1>3. links \in Heaps /\ links.left = none /\ links.right = none /\ links.parent = none
  BY <1>2 DEF Heaps
<1>4. \A p \in Nodes : links.left[p] = NULL /\ links.right[p] = NULL /\ links.parent[p] = NULL
  BY <1>3
<1>5. Tree(links, initproc, {initproc})
  <2>1. Tree(links, NULL, {})
    BY EmptyTree
  <2>2. Splits(links, initproc, {initproc}, {}, {})
    BY <1>0, <1>4, <2>1 DEF Splits, Linked, Nodes
  <2>3. QED
    BY <1>0, <2>2, TreeJoins
<1>6. Heap(links, initproc, {initproc})
  BY <1>0, <1>3, <1>4, <1>5 DEF Heap, Nodes
<1>7. proc_num = Cardinality({initproc}) /\ proc_num \in Nat
  BY FS_Singleton DEF StrideInit
<1>8. lab6_stride \in Strides
  BY <1>0 DEF StrideInit, Strides
<1>9. NearOrder(links, lab6_stride, {initproc})
  BY <1>0, <1>4 DEF NearOrder, Nodes
<1>10. InWindow({initproc}, lab6_stride)
  BY <1>0, <1>8, SingleWindow
<1>11. WindowKept
  BY <1>10 DEF WindowKept, StrideInit
<1>12. StrideTypeOK
  BY <1>0, <1>3, <1>7, <1>8 DEF StrideInit, StrideTypeOK, Strides, Nodes
<1>13. QED
  BY <1>1, <1>6, <1>7, <1>9, <1>11, <1>12 DEF StrideInv, StrideInit

LEMMA StrideStep ==
  ASSUME StrideInv, [StrideNext]_stride_vars
  PROVE  StrideInv'
<1>0. /\ runnable \subseteq Procs /\ asleep \subseteq Procs \ runnable
      /\ current \in runnable \cup {NULL} /\ NULL \notin Procs
      /\ lab6_priority \in [Procs -> 0 .. MaxPriority] /\ lab6_stride \in Strides
      /\ 0 \in 0 .. MaxPriority /\ 1 \in 0 .. MaxPriority /\ 0 \in 0 .. Modulus - 1
  BY StrideAssumption, Constants DEF StrideInv, StrideTypeOK, Strides
<1>1. ASSUME NEW p \in Procs, Fork(p) PROVE StrideInv'
  <2> PICK stride : stride = [lab6_stride EXCEPT ![p] = 0]
    OBVIOUS
  <2>1. stride \in Strides /\ \A x \in runnable : stride[x] = lab6_stride[x]
    BY <1>0, <1>1 DEF Strides, Fork
  <2>2. /\ p \in Procs \ runnable /\ lab6_stride' = stride /\ runnable' = runnable \cup {p}
        /\ current' = current /\ asleep' = asleep /\ p \notin asleep
        /\ lab6_priority' = [lab6_priority EXCEPT ![p] = 0]
    BY <1>1 DEF Fork
  <2>3. Enqueue(p, stride)
    BY <1>1, <2>2 DEF Fork, Enqueue
  <2>4. Kept'
    BY <2>1, <2>2, <2>3, EnqueueKeeps
  <2>5. QED
    BY <1>0, <2>2, <2>4, KeptIsInv
<1>2. ASSUME NEW p \in Procs, Wakeup(p) PROVE StrideInv'
  <2>1. /\ p \in Procs \ runnable /\ lab6_stride' = lab6_stride /\ runnable' = runnable \cup {p}
        /\ current' = current /\ asleep' = asleep \ {p} /\ lab6_priority' = lab6_priority
        /\ Enqueue(p, lab6_stride)
    BY <1>0, <1>2 DEF Wakeup
  <2>2. Kept'
    BY <1>0, <2>1, EnqueueKeeps
  <2>3. QED
    BY <1>0, <2>1, <2>2, KeptIsInv
<1>3. CASE Yield
  <2>1. /\ Schedule(TRUE, lab6_stride) /\ runnable' = runnable
        /\ asleep' = asleep /\ lab6_priority' = lab6_priority
    BY <1>3 DEF Yield
  <2>2. Kept'
    BY <1>0, <2>1, ScheduleKeeps
  <2>3. QED
    BY <1>0, <2>1, <2>2, KeptIsInv
<1>4. CASE GoToSleep
  <2>1. /\ current # NULL /\ Schedule(FALSE, lab6_stride) /\ runnable' = runnable \ {current}
        /\ asleep' = asleep \cup {current} /\ lab6_priority' = lab6_priority
    BY <1>4 DEF GoToSleep
  <2>2. Kept'
    BY <1>0, <2>1, ScheduleKeeps
  <2>3. QED
    BY <1>0, <2>1, <2>2, KeptIsInv
<1>5. CASE Exit
  <2> PICK stride : stride = [lab6_stride EXCEPT ![current] = 0]
    OBVIOUS
  <2>1. /\ current # NULL /\ current \in Procs /\ runnable' = runnable \ {current}
        /\ asleep' = asleep /\ lab6_priority' = [lab6_priority EXCEPT ![current] = 0]
    BY <1>0, <1>5 DEF Exit
  <2>2. Schedule(FALSE, stride)
    BY <1>5 DEF Exit
  <2>3. stride \in Strides /\ \A x \in runnable \ {current} : stride[x] = lab6_stride[x]
    BY <1>0, <2>1 DEF Strides
  <2>4. Kept'
    BY <2>1, <2>2, <2>3, ScheduleKeeps
  <2>5. QED
    BY <1>0, <2>1, <2>4, KeptIsInv
<1>6. ASSUME NEW k \in 0 .. MaxPriority, SetPriority(k) PROVE StrideInv'
  <2>1. lab6_priority' \in [Procs -> 0 .. MaxPriority]
    BY <1>0, <1>6 DEF SetPriority
  <2>2. UNCHANGED <<lab6_run_pool, links, proc_num, lab6_stride, runnable, asleep, current, ordered>>
    BY <1>6 DEF SetPriority
  <2>3. QED
    BY <2>1, <2>2 DEF StrideInv, StrideTypeOK, Pool, WindowKept
<1>7. CASE UNCHANGED stride_vars
  BY <1>7 DEF stride_vars, StrideInv, StrideTypeOK, Pool, WindowKept
<1>8. QED
  BY <1>1, <1>2, <1>3, <1>4, <1>5, <1>6, <1>7 DEF StrideNext

-----------------------------------------------------------------------------
\* The nodes that Below finds level by level are those of the tree.
LEMMA BelowIsTree ==
  ASSUME NEW t, NEW T, Heap(links, t, T)
  PROVE  Below(t) = T
<1> DEFINE n == Cardinality(Procs)
           Children(set) == (UNION {{links.left[q], links.right[q]} : q \in set}) \ {NULL}
           Levels(f) == f = [d \in 0 .. n |-> IF d = 0 THEN {t} \ {NULL} ELSE Children(f[d - 1])]
           level == CHOOSE f : Levels(f)
<1>0. /\ T \subseteq Procs /\ t \in T \cup {NULL} /\ NULL \notin Procs /\ IsFiniteSet(Procs) /\ links \in Heaps
  BY StrideAssumption DEF Heap, Tree
<1>1. ASSUME NEW set, NEW c
       PROVE  c \in Children(set) <=> c # NULL /\ \E q \in set : c \in {links.left[q], links.right[q]}
  <2> DEFINE all == UNION {{links.left[q], links.right[q]} : q \in set}
  <2>1. c \in all <=> \E q \in set : c \in {links.left[q], links.right[q]}
    <3>1. c \in all <=> \E y \in {{links.left[q], links.right[q]} : q \in set} : c \in y
      BY Zenon
    <3>2. (\E y \in {{links.left[q], links.right[q]} : q \in set} : c \in y) <=>
            \E q \in set : c \in {links.left[q], links.right[q]}
      BY Zenon
    <3> HIDE DEF all
    <3>3. QED
      BY ONLY <3>1, <3>2, Zenon
  <2>2. Children(set) = all \ {NULL}
    OBVIOUS
  <2> HIDE DEF all, Children
  <2>3. QED
    BY ONLY <2>1, <2>2, Zenon
<1>2. n \in Nat
  BY <1>0, FS_CardinalityType
<1>3. \E f : Levels(f)
  <2> DEFINE step == [set \in SUBSET Procs |-> Children(set)]
  <2>1. ASSUME NEW set \in SUBSET Procs PROVE Children(set) \in SUBSET Procs
    <3>1. \A q \in Procs : links.left[q] \in Nodes /\ links.right[q] \in Nodes
      BY <1>0 DEF Heaps, Nodes
    <3> HIDE DEF Children
    <3>2. \A c \in Children(set) : c \in Procs
      BY <1>1, <3>1 DEF Nodes
    <3>3. QED
      BY <3>2
  <2>2. step \in [SUBSET Procs -> SUBSET Procs]
    <3> HIDE DEF Children
    <3>1. QED
      BY <2>1
  <2>3. {t} \ {NULL} \in SUBSET Procs
    BY <1>0
  <2>4. PICK g \in [0 .. n -> SUBSET Procs] : Iterates(g, n, {t} \ {NULL}, step)
    <3> HIDE DEF step, n
    <3>1. QED
      BY <1>2, <2>2, <2>3, IterationExists
  <2>5. ASSUME NEW d \in 0 .. n, d # 0 PROVE step[g[d - 1]] = Children(g[d - 1])
    <3>1. g[d - 1] \in SUBSET Procs
      BY <1>2, <2>5
    <3> HIDE DEF Children
    <3>2. QED
      BY <3>1
  <2> HIDE DEF step, n, Children
  <2>6. Levels(g)
    BY <2>4, <2>5 DEF Iterates
  <2>7. QED
    BY <2>6
<1>4. Levels(level)
  <2> HIDE DEF Levels
  <2>1. QED
    BY <1>3
<1>5. Below(t) = UNION {level[d] : d \in DOMAIN level}
  BY DEF Below
<1> HIDE DEF level, n
<1>6. \A d \in 0 .. n : level[d] = IF d = 0 THEN {t} \ {NULL} ELSE Children(level[d - 1])
  BY <1>4
<1>7. DOMAIN level = 0 .. n
  BY <1>4
<1> HIDE DEF Levels, Children
<1>8. 0 \in 0 .. n /\ level[0] = {t} \ {NULL}
  <2>1. 0 \in 0 .. n
    BY <1>2
  <2>2. QED
    BY ONLY <1>6, <2>1
<1>9. PICK down : Descends(down, links, T) /\ down[t] = T
  BY DEF Heap, Tree
<1>10. \A x \in T : links.left[x] \in T \cup {NULL} /\ links.right[x] \in T \cup {NULL}
  BY <1>9 DEF Descends
\* no other node is found
<1> DEFINE K == {d \in Nat : d <= n => level[d] \subseteq T}
<1>11. 0 \in K
  BY <1>0, <1>2, <1>8
<1>12. ASSUME NEW d \in Nat, d \in K PROVE d + 1 \in K
  <2> SUFFICES ASSUME d + 1 <= n PROVE level[d + 1] \subseteq T
    OBVIOUS
  <2>1. d + 1 \in 0 .. n /\ d + 1 # 0 /\ (d + 1) - 1 = d /\ d <= n
    BY <1>2
  <2>2. level[d + 1] = Children(level[d]) /\ level[d] \subseteq T
    BY <1>6, <1>12, <2>1
  <2>3. \A c \in Children(level[d]) : c \in T
    BY <1>10, <1>1, <2>2
  <2>4. QED
    BY <2>2, <2>3
<1> HIDE DEF K
<1>13. Nat \subseteq K
  BY <1>11, <1>12, NatSetInduction
<1>14. Below(t) \subseteq T
  BY <1>2, <1>5, <1>7, <1>13 DEF K
\* and every one of them
<1> DEFINE M == {m \in Nat : \A x \in T : \A d \in 0 .. n :
                    x \in level[d] /\ Cardinality(down[x]) <= m /\ d + m <= n => down[x] \subseteq Below(t)}
<1>15. ASSUME NEW x \in T
       PROVE  /\ x \in down[x] /\ IsFiniteSet(down[x]) /\ Cardinality(down[x]) \in Nat \ {0}
              /\ Cardinality(down[x]) <= n
  <2>1. x \in down[x] /\ down[x] \subseteq Procs
    BY <1>0, <1>9 DEF Descends
  <2>2. IsFiniteSet(down[x]) /\ Cardinality(down[x]) <= n
    BY <1>0, <2>1, FS_Subset DEF n
  <2>3. Cardinality(down[x]) \in Nat /\ Cardinality(down[x]) # 0
    BY <2>1, <2>2, FS_CardinalityType, FS_EmptySet
  <2>4. QED
    BY <2>1, <2>2, <2>3
<1>16. 0 \in M
  BY <1>15
<1>17. ASSUME NEW m \in Nat, m \in M PROVE m + 1 \in M
  <2> SUFFICES ASSUME NEW x \in T, NEW d \in 0 .. n, x \in level[d],
                      Cardinality(down[x]) <= m + 1, d + (m + 1) <= n
               PROVE  down[x] \subseteq Below(t)
    OBVIOUS
  <2>1. x \in Below(t)
    BY <1>5, <1>7
  <2>2. ASSUME NEW c \in T, c \in {links.left[x], links.right[x]} PROVE down[c] \subseteq Below(t)
    <3>1. d + 1 \in 0 .. n /\ d + 1 # 0 /\ (d + 1) - 1 = d
      BY <1>2
    <3>2. c \in level[d + 1]
      <4>1. level[d + 1] = Children(level[d])
        BY <1>6, <3>1
      <4>2. c # NULL
        BY <1>0
      <4>3. QED
        BY <1>1, <2>2, <4>1, <4>2
    <3>3. down[c] \subseteq down[x] \ {x}
      BY <1>9, <2>2 DEF Descends
    <3>4. Cardinality(down[c]) <= m
      <4>1. IsFiniteSet(down[x] \ {x}) /\ Cardinality(down[x] \ {x}) = Cardinality(down[x]) - 1
        BY <1>15, FS_RemoveElement
      <4>2. Cardinality(down[c]) <= Cardinality(down[x] \ {x})
        BY <3>3, <4>1, FS_Subset
      <4>3. Cardinality(down[x]) \in Nat /\ Cardinality(down[c]) \in Nat
        BY <1>15
      <4>4. QED
        BY ONLY <4>1, <4>2, <4>3, Cardinality(down[x]) <= m + 1, m \in Nat
    <3>5. (d + 1) + m <= n
      BY <1>2
    <3>6. QED
      BY <1>17, <3>1, <3>2, <3>4, <3>5
  <2>3. down[x] = {x} \cup down[links.left[x]] \cup down[links.right[x]] /\ down[NULL] = {}
    BY <1>9 DEF Descends
  <2>4. QED
    BY <1>10, <2>1, <2>2, <2>3
<1> HIDE DEF M
<1>18. n \in M
  BY <1>2, <1>16, <1>17, NatSetInduction
<1>19. T \subseteq Below(t)
  <2>1. CASE T = {}
    BY <2>1
  <2>2. CASE T # {}
    <3>1. t \in T
      <4>1. t # NULL
        BY <1>9, <2>2 DEF Descends
      <4>2. QED
        BY <1>0, <4>1
    <3>2. t \in level[0] /\ 0 \in 0 .. n /\ 0 + n <= n
      BY <1>0, <1>2, <1>8, <3>1
    <3>3. down[t] \subseteq Below(t)
      BY <1>15, <1>18, <3>1, <3>2 DEF M
    <3>4. QED
      BY <1>9, <3>3
  <2>3. QED
    BY <2>1, <2>2
<1>20. QED
  BY <1>14, <1>19

LEMMA HeapIsExact ==
  ASSUME StrideInv PROVE HeapExact
<1>1. /\ Heap(links, lab6_run_pool, Pool) /\ proc_num = Cardinality(Pool)
      /\ Tree(links, lab6_run_pool, Pool) /\ NULL \notin Pool
  BY TreeIsEmpty DEF StrideInv, Heap
<1>2. Below(lab6_run_pool) = Pool
  BY <1>1, BelowIsTree
<1>3. PICK down : Descends(down, links, Pool)
  BY <1>1 DEF Tree
<1>4. ASSUME NEW p \in Pool
      PROVE  /\ links.left[p] # NULL => links.parent[links.left[p]] = p
             /\ links.right[p] # NULL => links.parent[links.right[p]] = p
             /\ links.left[p] # NULL => links.left[p] # links.right[p]
  <2>1. Linked(links, p)
    BY <1>1 DEF Tree
  <2>2. links.left[p] # NULL => links.left[p] \in down[links.left[p]]
    BY <1>3 DEF Descends
  <2>3. down[links.left[p]] \cap down[links.right[p]] = {}
    BY <1>3 DEF Descends
  <2>4. QED
    BY <2>1, <2>2, <2>3 DEF Linked
<1>5. lab6_run_pool # NULL => links.parent[lab6_run_pool] = NULL
  BY <1>1 DEF Heap
<1>6. QED
  BY <1>1, <1>2, <1>4, <1>5 DEF HeapExact

LEMMA RootIsMinimum ==
  ASSUME StrideInv PROVE PicksMinimum
<1> SUFFICES ASSUME ordered, NEW p \in Pool
             PROVE  Ahead(lab6_stride, p, lab6_run_pool) <= BIG_STRIDE
  BY DEF PicksMinimum
<1>1. /\ Heap(links, lab6_run_pool, Pool) /\ Tree(links, lab6_run_pool, Pool)
      /\ lab6_stride \in Strides /\ runnable \in SUBSET Procs /\ Pool \in SUBSET Procs
      /\ Pool \subseteq runnable /\ NearOrder(links, lab6_stride, Pool) /\ runnable # {}
  BY DEF StrideInv, StrideTypeOK, Heap, Pool, Strides
<1>2. InWindow(runnable, lab6_stride)
  BY <1>1 DEF StrideInv, WindowKept
<1>3. PICK r, offset : From(lab6_stride, r, offset, runnable)
  BY <1>1, <1>2, WindowHasOffsets
<1>4. offset \in Offsets
  BY <1>3 DEF From
<1>5. Closed(links, Pool)
  BY <1>1, TreeCloses
<1>6. HeapOrder(links, offset, Pool)
  BY <1>1, <1>3, <1>5, NearIsHeapOrder
<1>7. offset[lab6_run_pool] <= offset[p]
  BY <1>1, <1>4, <1>6, RootIsLeast
<1>8. lab6_run_pool \in Pool
  BY <1>1, TreeIsEmpty
<1>9. QED
  BY <1>1, <1>3, <1>7, <1>8, WindowOrders

\* Every reachable state is one of the inductive invariant.
THEOREM StrideSafe == StrideSpec => []StrideInv
<1>1. QED
  BY StrideInvInitially, StrideStep, PTL DEF StrideSpec

\* The variables of the scheduling class keep their types.
THEOREM StrideTypeCorrect == StrideSpec => []StrideTypeOK
<1>1. StrideInv => StrideTypeOK
  BY DEF StrideInv
<1>2. QED
  BY <1>1, StrideSafe, PTL

\* skew_heap_insert, skew_heap_remove and the merging under them lose no
\* process, link none twice and keep the upward links true.
THEOREM SkewHeapIsExact == StrideSpec => []HeapExact
<1>1. StrideInv => HeapExact
  BY HeapIsExact
<1>2. QED
  BY <1>1, StrideSafe, PTL

\* stride_pick_next returns a process with the smallest stride although strides
\* wrap, as long as every process came in within BIG_STRIDE of the others.
THEOREM PicksTheMinimum == StrideSpec => []PicksMinimum
<1>1. StrideInv => PicksMinimum
  BY RootIsMinimum
<1>2. QED
  BY <1>1, StrideSafe, PTL

\* Scheduling keeps the strides of the runnable processes within BIG_STRIDE,
\* whatever the priorities are and whenever they change.
THEOREM WindowIsKept == StrideSpec => []WindowKept
<1>1. StrideInv => WindowKept
  BY DEF StrideInv
<1>2. QED
  BY <1>1, StrideSafe, PTL
=============================================================================
