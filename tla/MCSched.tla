------------------------------ MODULE MCSched ------------------------------
(***************************************************************************)
(* Model checking of the pid allocator and of how processes wait:          *)
(* the semaphores with their philosophers, and the timer list (MCStride    *)
(* has the rest).  They share no state; one of them moves in each          *)
(* behaviour.                                                              *)
(***************************************************************************)
EXTENDS Pid, Philosophers, TimerList

VARIABLE part   \* what moves: "pids", "semaphores" or "timers"

all_vars == <<pid_vars, vars, timer_vars, part>>

SchedInit ==
  /\ PidInit /\ Init /\ TimerInit
  /\ part \in {"pids", "semaphores", "timers"}

SchedNext ==
  /\ UNCHANGED part
  /\ \/ part = "pids" /\ PidNext /\ UNCHANGED <<vars, timer_vars>>
     \/ part = "semaphores" /\ Next /\ UNCHANGED <<pid_vars, timer_vars>>
     \/ part = "timers" /\ TimerNext /\ UNCHANGED <<pid_vars, vars>>

\* The fairness of PidFairSpec and of FairSpec, for the behaviours in which the
\* part moves that it is about (get_pid never starts in the others).
SchedSpec ==
  /\ SchedInit /\ [][SchedNext]_all_vars
  /\ WF_pid_vars(Scan) /\ WF_pid_vars(SetLinks)
  /\ \A i \in Threads :
       /\ WF_vars(part = "semaphores" /\ philosopher_using_semaphore(i))
       /\ WF_vars(part = "semaphores" /\ TimerExpires(i))
=============================================================================
