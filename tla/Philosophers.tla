---------------------------- MODULE Philosophers ----------------------------
(***************************************************************************)
(* The philosophers of kern/sync/check_sync.c that use semaphores: the     *)
(* kernel's own test of up and down.  A step is one call of up or down,    *)
(* one assignment to state_sema, one phi_test_sema or one do_sleep.        *)
(***************************************************************************)
EXTENDS Sem, FiniteSets

CONSTANTS
  N,            \* philosophers
  TIMES         \* meals of each

ASSUME PhilosophersAssumption ==
  /\ N \in Nat \ {0, 1} /\ TIMES \in Nat
  /\ Threads = 0 .. N - 1
  /\ Sems = 0 .. N

VARIABLES
  state_sema,   \* "THINKING", "HUNGRY" or "EATING"
  iter,         \* meals begun
  pc            \* the place in philosopher_using_semaphore

vars == <<sem_vars, state_sema, iter, pc>>

LEFT(i) == (i - 1 + N) % N
RIGHT(i) == (i + 1) % N

mutex == N
s(i) == i

\* check_sync.
Init ==
  /\ SemInit([x \in Sems |-> IF x = mutex THEN 1 ELSE 0])
  /\ state_sema = [i \in Threads |-> "THINKING"]
  /\ iter = [i \in Threads |-> 0]
  /\ pc = [i \in Threads |-> "loop"]

At(i, place) ==
  /\ pc[i] = place
  /\ state[i] = "RUNNABLE" /\ i \notin in_down
  /\ ~panicked

Goto(i, place) == pc' = [pc EXCEPT ![i] = place]

-----------------------------------------------------------------------------
\* The loop condition, and the do_sleep that is thinking.
Think(i) ==
  /\ At(i, "loop")
  /\ iter[i] < TIMES
  /\ iter' = [iter EXCEPT ![i] = @ + 1]
  /\ Sleep(i)
  /\ Goto(i, "thought")
  /\ UNCHANGED state_sema

Quit(i) ==
  /\ At(i, "loop")
  /\ iter[i] = TIMES
  /\ Goto(i, "quit")
  /\ UNCHANGED <<sem_vars, state_sema, iter>>

\* A down(sem) that leads from one place to the next; the thread stays at the
\* first one while it waits.
DownAt(i, from, sem, to) ==
  /\ pc[i] = from /\ ~panicked
  /\ \/ DownTake(i, sem) /\ Goto(i, to)
     \/ DownSleep(i, sem) /\ UNCHANGED pc
     \/ DownResume(i, sem) /\ Goto(i, to)
  /\ UNCHANGED <<state_sema, iter>>

UpMutex(i, from, to) ==
  /\ At(i, from)
  /\ Up(mutex)
  /\ Goto(i, to)
  /\ UNCHANGED <<state_sema, iter>>

Enter(i, from, new, to) ==
  /\ At(i, from)
  /\ state_sema' = [state_sema EXCEPT ![i] = new]
  /\ Goto(i, to)
  /\ UNCHANGED <<sem_vars, iter>>

\* Mutant: only the left neighbour is looked at.
phi_test_sema_LeftOnly(i) ==
  IF state_sema[i] = "HUNGRY" /\ state_sema[LEFT(i)] # "EATING"
    THEN state_sema' = [state_sema EXCEPT ![i] = "EATING"] /\ Up(s(i))
    ELSE UNCHANGED <<sem_vars, state_sema>>

phi_test_sema(i) ==
  IF state_sema[i] = "HUNGRY" /\ state_sema[LEFT(i)] # "EATING" /\ state_sema[RIGHT(i)] # "EATING"
    THEN state_sema' = [state_sema EXCEPT ![i] = "EATING"] /\ Up(s(i))
    ELSE UNCHANGED <<sem_vars, state_sema>>

Test(i, from, whom, to) ==
  /\ At(i, from)
  /\ phi_test_sema(whom)
  /\ Goto(i, to)
  /\ UNCHANGED iter

phi_take_forks_sema(i) ==
  \/ DownAt(i, "thought", mutex, "hungry")
  \/ Enter(i, "hungry", "HUNGRY", "test")
  \/ Test(i, "test", i, "tested")
  \/ UpMutex(i, "tested", "wait")
  \/ DownAt(i, "wait", s(i), "eat")

\* The do_sleep that is eating.
Eat(i) ==
  /\ At(i, "eat")
  /\ Sleep(i)
  /\ Goto(i, "ate")
  /\ UNCHANGED <<state_sema, iter>>

\* Mutant: the right neighbour is forgotten.
phi_put_forks_sema_NoRight(i) ==
  \/ DownAt(i, "ate", mutex, "full")
  \/ Enter(i, "full", "THINKING", "left")
  \/ Test(i, "left", LEFT(i), "put")
  \/ UpMutex(i, "put", "loop")

phi_put_forks_sema(i) ==
  \/ DownAt(i, "ate", mutex, "full")
  \/ Enter(i, "full", "THINKING", "left")
  \/ Test(i, "left", LEFT(i), "right")
  \/ Test(i, "right", RIGHT(i), "put")
  \/ UpMutex(i, "put", "loop")

philosopher_using_semaphore(i) ==
  Think(i) \/ phi_take_forks_sema(i) \/ Eat(i) \/ phi_put_forks_sema(i) \/ Quit(i)

TimerExpires(i) == Expire(i) /\ UNCHANGED <<state_sema, iter, pc>>

Killed(i) == Kill(i) /\ UNCHANGED <<state_sema, iter, pc>>

\* do_wait in check_sync has reaped all the philosophers.
Finished == (\A i \in Threads : pc[i] = "quit") /\ UNCHANGED vars

Next ==
  \/ \E i \in Threads : philosopher_using_semaphore(i) \/ TimerExpires(i) \/ Killed(i)
  \/ Finished

Spec == Init /\ [][Next]_vars

\* A runnable thread runs (all the threads give up the CPU again and again) and
\* a sleep ends (run proc).
FairSpec ==
  /\ Spec
  /\ \A i \in Threads : WF_vars(philosopher_using_semaphore(i)) /\ WF_vars(TimerExpires(i))

-----------------------------------------------------------------------------
TypeOK ==
  /\ SemTypeOK
  /\ state_sema \in [Threads -> {"THINKING", "HUNGRY", "EATING"}]
  /\ iter \in [Threads -> 0 .. TIMES]
  /\ pc \in [Threads -> {"loop", "thought", "hungry", "test", "tested", "wait", "eat", "ate",
                         "full", "left", "right", "put", "quit"}]

\* The philosophers between down(mutex) and up(mutex), the one that has been
\* given the mutex and has not run yet among them.
Inside == {i \in Threads :
             \/ pc[i] \in {"hungry", "test", "tested", "full", "left", "right", "put"}
             \/ pc[i] \in {"thought", "ate"} /\ HandedOver(i)}

\* The unit of mutex is never lost and never doubled by the hand-over of up: it
\* is in the value exactly when nobody is inside.
MutexConserved == value[mutex] + Cardinality(Inside) = 1

\* Two neighbours never have their forks at the same time, and each philosopher
\* has at most one permission to eat outstanding, which is in its semaphore, or
\* on the way to it, exactly while it is EATING and has not begun.
ForksExclusive ==
  \A i \in Threads :
    /\ state_sema[i] = "EATING" => state_sema[RIGHT(i)] # "EATING"
    /\ value[s(i)] + (IF pc[i] = "wait" /\ HandedOver(i) THEN 1 ELSE 0) =
         IF state_sema[i] = "EATING" /\ pc[i] \in {"tested", "wait"} THEN 1 ELSE 0

\* The assertions of up and down hold: a wait for a semaphore is ended by up
\* alone, although do_kill wakes sleeping threads.
NoAssertionFails == ~panicked

\* Nobody starves and nobody waits for ever: whoever is hungry eats.
HungryEats ==
  \A i \in Threads : state_sema[i] = "HUNGRY" ~> state_sema[i] = "EATING"
=============================================================================
