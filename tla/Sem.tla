--------------------------------- MODULE Sem ---------------------------------
(***************************************************************************)
(* Semaphores (kern/sync/sem.c) on wait queues (kern/sync/wait.c), for     *)
(* threads that call them from inside the kernel.                          *)
(*                                                                         *)
(* up and down run with interrupts off and are one step each, except that  *)
(* down may sleep: in_down are the threads behind the schedule() of        *)
(* __down.  Which runnable thread runs next is left open, and it may       *)
(* change between any two steps, which is more than the kernel does (it    *)
(* only switches in schedule()).  up does not increment the value when     *)
(* somebody waits: the unit is handed over to the first waiter.            *)
(* try_down is left out, it has no caller.                                 *)
(***************************************************************************)
EXTENDS Naturals, Sequences, SequencesExt

CONSTANTS
  Threads,
  Sems

VARIABLES
  value,        \* of every semaphore
  wait_queue,   \* of every semaphore: the waiting threads in the order they came
  state,        \* "RUNNABLE" or "SLEEPING"
  wait_state,   \* "0", "WT_KSEM" or "WT_TIMER"
  wakeup_flags, \* of the wait_t of the latest __down: "WT_INTERRUPTED" or "WT_KSEM"
  in_down,
  panicked      \* an assertion has failed

sem_vars == <<value, wait_queue, state, wait_state, wakeup_flags, in_down, panicked>>

\* Mutant: a wait for a semaphore can be interrupted like any other.
Interruptible_All == {"WT_TIMER", "WT_KSEM"}

\* The wait states that carry WT_INTERRUPTED.
Interruptible == {"WT_TIMER"}

\* sem_init for every semaphore; all the threads can run.
SemInit(initial) ==
  /\ value = initial
  /\ wait_queue = [s \in Sems |-> <<>>]
  /\ state = [t \in Threads |-> "RUNNABLE"]
  /\ wait_state = [t \in Threads |-> "0"]
  /\ wakeup_flags = [t \in Threads |-> "WT_INTERRUPTED"]
  /\ in_down = {}
  /\ panicked = FALSE

\* wakeup_proc.
WakeupProc(t) ==
  /\ state' = [state EXCEPT ![t] = "RUNNABLE"]
  /\ wait_state' = [wait_state EXCEPT ![t] = "0"]

-----------------------------------------------------------------------------
\* Mutant: the value is incremented although the unit is handed over.
Up_Increment(s) ==
  IF wait_queue[s] = <<>>
    THEN /\ value' = [value EXCEPT ![s] = @ + 1]
         /\ UNCHANGED <<wait_queue, state, wait_state, wakeup_flags, in_down, panicked>>
    ELSE LET first == Head(wait_queue[s]) IN
         /\ value' = [value EXCEPT ![s] = @ + 1]
         /\ wait_queue' = [wait_queue EXCEPT ![s] = Tail(@)]
         /\ wakeup_flags' = [wakeup_flags EXCEPT ![first] = "WT_KSEM"]
         /\ WakeupProc(first)
         /\ panicked' = (wait_state[first] # "WT_KSEM")
         /\ UNCHANGED in_down

\* up(s).
Up(s) ==
  IF wait_queue[s] = <<>>
    THEN /\ value' = [value EXCEPT ![s] = @ + 1]
         /\ UNCHANGED <<wait_queue, state, wait_state, wakeup_flags, in_down, panicked>>
    ELSE LET first == Head(wait_queue[s]) IN
         /\ wait_queue' = [wait_queue EXCEPT ![s] = Tail(@)]
         /\ wakeup_flags' = [wakeup_flags EXCEPT ![first] = "WT_KSEM"]
         /\ WakeupProc(first)
         /\ panicked' = (wait_state[first] # "WT_KSEM")
         /\ UNCHANGED <<value, in_down>>

\* down(s) that does not have to wait.
DownTake(t, s) ==
  /\ state[t] = "RUNNABLE" /\ t \notin in_down
  /\ value[s] > 0
  /\ value' = [value EXCEPT ![s] = @ - 1]
  /\ UNCHANGED <<wait_queue, state, wait_state, wakeup_flags, in_down, panicked>>

\* down(s) up to its schedule().
DownSleep(t, s) ==
  /\ state[t] = "RUNNABLE" /\ t \notin in_down
  /\ value[s] = 0
  /\ wait_queue' = [wait_queue EXCEPT ![s] = Append(@, t)]
  /\ state' = [state EXCEPT ![t] = "SLEEPING"]
  /\ wait_state' = [wait_state EXCEPT ![t] = "WT_KSEM"]
  /\ wakeup_flags' = [wakeup_flags EXCEPT ![t] = "WT_INTERRUPTED"]
  /\ in_down' = in_down \cup {t}
  /\ UNCHANGED <<value, panicked>>

\* wait_current_del: the wait_t of t leaves the queue if it is still there.
wait_current_del(q, t) ==
  LET mine == {k \in DOMAIN q : q[k] = t} IN
  IF mine = {} THEN q ELSE RemoveAt(q, CHOOSE k \in mine : TRUE)

\* The rest of down(s), with its assertion.
DownResume(t, s) ==
  /\ state[t] = "RUNNABLE" /\ t \in in_down
  /\ wait_queue' = [wait_queue EXCEPT ![s] = wait_current_del(@, t)]
  /\ in_down' = in_down \ {t}
  /\ panicked' = (wakeup_flags[t] # "WT_KSEM")
  /\ UNCHANGED <<value, state, wait_state, wakeup_flags>>

-----------------------------------------------------------------------------
\* do_sleep, up to its schedule().
Sleep(t) ==
  /\ state[t] = "RUNNABLE" /\ t \notin in_down
  /\ state' = [state EXCEPT ![t] = "SLEEPING"]
  /\ wait_state' = [wait_state EXCEPT ![t] = "WT_TIMER"]
  /\ UNCHANGED <<value, wait_queue, wakeup_flags, in_down, panicked>>

\* The timer of do_sleep expires.
Expire(t) ==
  /\ wait_state[t] = "WT_TIMER"
  /\ WakeupProc(t)
  /\ UNCHANGED <<value, wait_queue, wakeup_flags, in_down, panicked>>

\* do_kill of a sleeping thread.  A kernel thread does not look at PF_EXITING, so
\* the wake-up is all it does.
Kill(t) ==
  /\ wait_state[t] \in Interruptible
  /\ WakeupProc(t)
  /\ UNCHANGED <<value, wait_queue, wakeup_flags, in_down, panicked>>

-----------------------------------------------------------------------------
SemTypeOK ==
  /\ value \in [Sems -> Nat]
  /\ wait_queue \in [Sems -> Seq(Threads)]
  /\ state \in [Threads -> {"RUNNABLE", "SLEEPING"}]
  /\ wait_state \in [Threads -> {"0", "WT_KSEM", "WT_TIMER"}]
  /\ wakeup_flags \in [Threads -> {"WT_INTERRUPTED", "WT_KSEM"}]
  /\ in_down \subseteq Threads
  /\ panicked \in BOOLEAN

\* The thread was given the unit it waits for and has not run since.
HandedOver(t) == t \in in_down /\ wakeup_flags[t] = "WT_KSEM"
=============================================================================
