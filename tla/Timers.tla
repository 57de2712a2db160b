------------------------------- MODULE Timers -------------------------------
(***************************************************************************)
(* What the kernel timers promise to do_sleep (kern/schedule/sched.c): a   *)
(* timer started for n ticks wakes its process at the n-th tick, unless it *)
(* is deleted before.  Module Proc relies on exactly this.                 *)
(***************************************************************************)
EXTENDS Naturals

CONSTANTS
  Sleepers,     \* processes inside do_sleep, each with one timer on its stack
  MaxSleep      \* bound: longest sleep, in ticks

VARIABLES
  left,         \* ticks left; 0 when the process has no running timer
  asked,        \* n if the latest step started a timer for n ticks, else 0
  woken         \* the processes woken by the latest tick

Init ==
  /\ left = [p \in Sleepers |-> 0]
  /\ asked = 0
  /\ woken = {}

Start(p, n) ==
  /\ left[p] = 0
  /\ left' = [left EXCEPT ![p] = n]
  /\ asked' = n
  /\ woken' = {}

Stop(p) ==
  /\ left' = [left EXCEPT ![p] = 0]
  /\ asked' = 0
  /\ woken' = {}

Tick ==
  /\ left' = [p \in Sleepers |-> IF left[p] > 0 THEN left[p] - 1 ELSE 0]
  /\ asked' = 0
  /\ woken' = {p \in Sleepers : left[p] = 1}

Next ==
  \/ \E p \in Sleepers, n \in 1 .. MaxSleep : Start(p, n)
  \/ \E p \in Sleepers : Stop(p)
  \/ Tick

Spec == Init /\ [][Next]_<<left, asked, woken>>
=============================================================================
