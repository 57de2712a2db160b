------------------------------ MODULE TimerList ------------------------------
(***************************************************************************)
(* The timer list of kern/schedule/sched.c: timer_list is sorted by time   *)
(* of expiry, and every entry stores only its distance to the entry before *)
(* it, so that a tick touches the head alone.  add_timer splits a distance,*)
(* del_timer gives the distance of the deleted timer to its successor, and *)
(* run_timer_list removes all the timers that expire at the same tick.     *)
(* do_sleep starts a timer, is woken by it or by do_kill, and deletes it.  *)
(***************************************************************************)
EXTENDS Integers, Sequences, FiniteSets, SequencesExt

CONSTANTS
  Sleepers,
  MaxSleep

ASSUME TimerListAssumption == MaxSleep \in Nat \ {0}

VARIABLES
  timer_list,   \* the timers in list order: [proc, expires]
  in_sleep,     \* the processes between add_timer and del_timer of do_sleep
  asked,        \* n if the latest step was an add_timer for n ticks, else 0
  woken         \* the processes woken by the latest run_timer_list

timer_vars == <<timer_list, in_sleep, asked, woken>>

TimerInit ==
  /\ timer_list = <<>>
  /\ in_sleep = {}
  /\ asked = 0
  /\ woken = {}

-----------------------------------------------------------------------------
\* The ticks that pass until each timer of the list expires, by its position;
\* 0 before the first.
Ticks(list) ==
  LET sum[i \in 0 .. Len(list)] == IF i = 0 THEN 0 ELSE sum[i - 1] + list[i].expires
  IN sum

\* add_timer: the loop passes every timer that expires no later than the new
\* one, subtracting their distances from it, and stops at the first that
\* expires later, whose distance it reduces.
AddTimer(p, n) ==
  LET until == Ticks(timer_list)
      pos == Min({i \in 1 .. Len(timer_list) + 1 : i > Len(timer_list) \/ n < until[i]})
      timer == [proc |-> p, expires |-> n - until[pos - 1]]
      rest == IF pos > Len(timer_list) THEN timer_list
              ELSE [timer_list EXCEPT ![pos].expires = @ - timer.expires]
  IN
  /\ p \notin in_sleep
  /\ timer_list' = InsertAt(rest, pos, timer)
  /\ in_sleep' = in_sleep \cup {p}
  /\ asked' = n
  /\ woken' = {}

\* Mutant: the successor does not inherit the distance.
Unlink_NoInherit(i) == RemoveAt(timer_list, i)

\* timer_list without its i-th timer, whose distance goes to its successor.
Unlink(i) ==
  LET rest == IF i = Len(timer_list) THEN timer_list
              ELSE [timer_list EXCEPT ![i + 1].expires = @ + timer_list[i].expires]
  IN RemoveAt(rest, i)

\* do_sleep runs again, because of its timer or of do_kill, and calls
\* del_timer, which does nothing if the timer has left the list.
DelTimer(p) ==
  /\ p \in in_sleep
  /\ \/ \E i \in DOMAIN timer_list : timer_list[i].proc = p /\ timer_list' = Unlink(i)
     \/ (\A i \in DOMAIN timer_list : timer_list[i].proc # p) /\ UNCHANGED timer_list
  /\ in_sleep' = in_sleep \ {p}
  /\ asked' = 0
  /\ woken' = {}

\* run_timer_list: the head loses a tick; every timer at distance 0 from the
\* front wakes its process and is deleted.
RunTimerList ==
  /\ IF timer_list = <<>>
       THEN timer_list' = timer_list /\ woken' = {}
       ELSE LET list == [timer_list EXCEPT ![1].expires = @ - 1]
                due == {i \in DOMAIN list : \A j \in 1 .. i : list[j].expires = 0}
            IN /\ timer_list' = SubSeq(list, Cardinality(due) + 1, Len(list))
               /\ woken' = {list[i].proc : i \in due}
  /\ asked' = 0
  /\ UNCHANGED in_sleep

TimerNext ==
  \/ \E p \in Sleepers, n \in 1 .. MaxSleep : AddTimer(p, n)
  \/ \E p \in Sleepers : DelTimer(p)
  \/ RunTimerList

TimerSpec == TimerInit /\ [][TimerNext]_timer_vars

-----------------------------------------------------------------------------
TimerTypeOK ==
  /\ timer_list \in Seq([proc : Sleepers, expires : 0 .. MaxSleep])
  /\ in_sleep \subseteq Sleepers
  /\ asked \in 0 .. MaxSleep
  /\ woken \subseteq Sleepers

\* The ticks left of a process are the distances up to its timer.
TicksLeft == [p \in Sleepers |->
  LET mine == {i \in DOMAIN timer_list : timer_list[i].proc = p}
  IN IF mine = {} THEN 0 ELSE Ticks(timer_list)[CHOOSE i \in mine : TRUE]]

Abstract == INSTANCE Timers WITH left <- TicksLeft

\* The list of distances implements one countdown per process: every sleeper
\* is woken at its own tick, and no other timer is moved by an insertion or a
\* deletion in the middle of the list.
ImplementsTimers == Abstract!Spec
=============================================================================
