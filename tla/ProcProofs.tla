----------------------------- MODULE ProcProofs -----------------------------
(***************************************************************************)
(* Proofs about Proc, for any number of processes and any bounds.          *)
(***************************************************************************)
EXTENDS Proc, TLAPS

\* Which process can be where.  A process is at "dead" exactly when it is a
\* zombie or free, and the process that executes is runnable, except between
\* the assignment of its state and its call of schedule().
Places ==
  /\ kpc[idleproc] = "idle"
  /\ state[idleproc] = "RUNNABLE"
  /\ kpc[initproc] \in {"boot", "wait", "waited", "reaped", "quit", "exit"}
  /\ \A p \in Slots : kpc[p] \in {"user", "kthread", "trapret", "wait", "waited",
                                  "slept", "typed", "reading", "exit", "dead"}
  /\ \A p \in Procs : state[p] \in {"FREE", "ZOMBIE"} <=> kpc[p] = "dead"
  /\ in_schedule \/ state[current] = "RUNNABLE"
  /\ waitpid[initproc] = NULL
  /\ \A p \in Procs : kpc[p] \in {"reading", "typed"} => want[p] > 0

\* The process tree: initproc is the only child of idleproc, nobody is its own
\* parent, and no set of live processes is closed under parent, so that every
\* chain of parents ends at initproc.
Tree ==
  /\ parent[initproc] = idleproc
  /\ \A p \in Slots : state[p] # "FREE" => parent[p] \notin {p, idleproc}
  /\ \A S \in SUBSET Slots :
       S # {} /\ (\A p \in S : state[p] # "FREE") => \E p \in S : parent[p] \notin S

\* initproc is on its way to exit only if it was killed or all others are gone.
EndOnly ==
  kpc[initproc] = "exit" => initproc \in exiting \/ \A p \in Slots : state[p] = "FREE"

IInv ==
  /\ TypeOK
  /\ Places
  /\ RunPoolExact
  /\ WaitStateMatches
  /\ NoDanglingNode
  /\ NoLostChar
  /\ NoLostTimer
  /\ NoLostChild
  /\ ParentAlive
  /\ Tree
  /\ QuitClean
  /\ EndOnly
  /\ PanicOnlyAtEnd

\* A step that wakes processes keeps the tree: it changes no parent, and no
\* process becomes or ceases to be free or a zombie.
LEMMA WakeKeepsTree ==
  ASSUME IInv, parent' = parent,
         \A p \in Procs : /\ state'[p] = "FREE" <=> state[p] = "FREE"
                          /\ state'[p] = "ZOMBIE" <=> state[p] = "ZOMBIE",
         state' \in [Procs -> {"FREE", "SLEEPING", "RUNNABLE", "ZOMBIE"}]
  PROVE  ParentAlive' /\ Tree'
  BY DEF IInv, ParentAlive, Tree, TypeOK, Procs

\* schedule() keeps the invariant: the pool gains current and loses next.
LEMMA ScheduleStep ==
  ASSUME IInv, NEW next \in Procs, Schedule(next)
  PROVE  IInv'
<1>1. TypeOK'
  BY ProcAssumption DEF IInv, TypeOK, KernelPoints, WaitStates, Schedule,
     Procs, At, Goto, Return, procVars, schedVars, kbdVars
<1>2. Places' /\ RunPoolExact' /\ WaitStateMatches' /\ NoDanglingNode'
  BY ProcAssumption DEF IInv, TypeOK, Places, WaitStateMatches,
     NoDanglingNode, RunPoolExact, Schedule, Procs, At, Goto, Return,
     procVars, schedVars, kbdVars
<1>3. NoLostChar' /\ NoLostTimer' /\ NoLostChild'
  BY ProcAssumption DEF IInv, TypeOK, Places, NoLostChar, WaitStateMatches,
     NoLostTimer, NoLostChild, NoDanglingNode, Tree, WaitedFor, Children,
     Schedule, Procs, At, Goto, Return, procVars, schedVars, kbdVars
<1>4. ParentAlive' /\ Tree'
  BY ProcAssumption DEF IInv, TypeOK, Places, ParentAlive, WaitStateMatches,
     NoDanglingNode, Tree, Schedule, Procs, At, Goto, Return, procVars,
     schedVars, kbdVars
<1>5. QuitClean' /\ EndOnly' /\ PanicOnlyAtEnd'
  BY ProcAssumption DEF IInv, TypeOK, Places, QuitClean, ParentAlive, Tree,
     WaitStateMatches, NoDanglingNode, WaitedFor, Children, EndOnly,
     PanicOnlyAtEnd, Schedule, Procs, At, Goto, Return, procVars, schedVars,
     kbdVars
<1> QED
  BY <1>1, <1>2, <1>3, <1>4, <1>5 DEF IInv

\* The timer interrupt keeps the invariant: it wakes only sleepers.
LEMMA TickStep ==
  ASSUME IInv, NEW c \in BOOLEAN, Tick(c)
  PROVE  IInv'
<1>1. TypeOK'
  BY ProcAssumption DEF IInv, TypeOK, KernelPoints, WaitStates, Tick,
     KernelThread, RunTimers, Expired, ProcTick, WakeupProcs, Procs, At, Goto,
     Return, procVars, schedVars, kbdVars
<1>2. Places' /\ RunPoolExact' /\ WaitStateMatches' /\ NoDanglingNode'
  BY ProcAssumption DEF IInv, TypeOK, Places, WaitStateMatches,
     NoDanglingNode, RunPoolExact, Tick, KernelThread, RunTimers, Expired,
     ProcTick, WakeupProcs, Procs, At, Goto, Return, procVars, schedVars,
     kbdVars
<1>3. NoLostChar' /\ NoLostTimer' /\ NoLostChild'
  BY ProcAssumption DEF IInv, TypeOK, Places, NoLostChar, WaitStateMatches,
     NoLostTimer, NoLostChild, NoDanglingNode, Tree, WaitedFor, Children,
     Tick, KernelThread, RunTimers, Expired, ProcTick, WakeupProcs, Procs, At,
     Goto, Return, procVars, schedVars, kbdVars
<1>4. ParentAlive' /\ Tree'
  <2>1. parent' = parent
    BY DEF Tick
  <2>2. \A p \in Procs : /\ state'[p] = "FREE" <=> state[p] = "FREE"
                         /\ state'[p] = "ZOMBIE" <=> state[p] = "ZOMBIE"
    BY ProcAssumption DEF IInv, Tick, WakeupProcs, Expired, TypeOK,
       NoDanglingNode, Procs
  <2> QED
    BY <1>1, <2>1, <2>2, WakeKeepsTree DEF TypeOK
<1>5. QuitClean' /\ EndOnly' /\ PanicOnlyAtEnd'
  BY ProcAssumption DEF IInv, TypeOK, Places, QuitClean, ParentAlive, Tree,
     WaitStateMatches, NoDanglingNode, WaitedFor, Children, EndOnly,
     PanicOnlyAtEnd, Tick, KernelThread, RunTimers, Expired, ProcTick,
     WakeupProcs, Procs, At, Goto, Return, procVars, schedVars, kbdVars
<1> QED
  BY <1>1, <1>2, <1>3, <1>4, <1>5 DEF IInv

\* do_kill keeps the invariant: it wakes only an interruptible sleeper.
LEMMA SysKillStep ==
  ASSUME IInv, NEW q \in Procs, SysKill(q)
  PROVE  IInv'
<1>1. TypeOK'
  BY ProcAssumption DEF IInv, TypeOK, KernelPoints, WaitStates, SysKill,
     WakeupProcs, Interruptible, Procs, At, Goto, Return, procVars, schedVars,
     kbdVars
<1>2. Places' /\ RunPoolExact' /\ WaitStateMatches' /\ NoDanglingNode'
  BY ProcAssumption DEF IInv, TypeOK, Places, WaitStateMatches,
     NoDanglingNode, RunPoolExact, SysKill, WakeupProcs, Interruptible, Procs,
     At, Goto, Return, procVars, schedVars, kbdVars
<1>3. NoLostChar' /\ NoLostTimer' /\ NoLostChild'
  BY ProcAssumption DEF IInv, TypeOK, Places, NoLostChar, WaitStateMatches,
     NoLostTimer, NoLostChild, NoDanglingNode, Tree, WaitedFor, Children,
     SysKill, WakeupProcs, Interruptible, Procs, At, Goto, Return, procVars,
     schedVars, kbdVars
<1>4. ParentAlive' /\ Tree'
  <2>1. parent' = parent
    BY DEF SysKill
  <2>2. \A p \in Procs : /\ state'[p] = "FREE" <=> state[p] = "FREE"
                         /\ state'[p] = "ZOMBIE" <=> state[p] = "ZOMBIE"
    BY ProcAssumption DEF IInv, SysKill, WakeupProcs, Interruptible, TypeOK,
       WaitStateMatches, Procs
  <2> QED
    BY <1>1, <2>1, <2>2, WakeKeepsTree DEF TypeOK
<1>5. QuitClean' /\ EndOnly' /\ PanicOnlyAtEnd'
  BY ProcAssumption DEF IInv, TypeOK, Places, QuitClean, ParentAlive, Tree,
     WaitStateMatches, NoDanglingNode, WaitedFor, Children, EndOnly,
     PanicOnlyAtEnd, SysKill, WakeupProcs, Interruptible, Procs, At, Goto,
     Return, procVars, schedVars, kbdVars
<1> QED
  BY <1>1, <1>2, <1>3, <1>4, <1>5 DEF IInv

\* do_fork keeps the invariant: the child hangs below a live process.
LEMMA DoForkStep ==
  ASSUME IInv, NEW child \in Slots, DoFork(child)
  PROVE  IInv'
<1>1. TypeOK'
  BY ProcAssumption DEF IInv, TypeOK, KernelPoints, WaitStates, DoFork, Procs,
     At, Goto, Return, procVars, schedVars, kbdVars
<1>2. Places' /\ RunPoolExact' /\ WaitStateMatches' /\ NoDanglingNode'
  BY ProcAssumption DEF IInv, TypeOK, Places, WaitStateMatches,
     NoDanglingNode, RunPoolExact, DoFork, Procs, At, Goto, Return, procVars,
     schedVars, kbdVars
<1>3. NoLostChar' /\ NoLostTimer' /\ NoLostChild'
  BY ProcAssumption DEF IInv, TypeOK, Places, NoLostChar, WaitStateMatches,
     NoLostTimer, NoLostChild, NoDanglingNode, Tree, WaitedFor, Children,
     DoFork, Procs, At, Goto, Return, procVars, schedVars, kbdVars
<1>4. ParentAlive' /\ Tree'
  <2>1. ParentAlive'
    BY ProcAssumption DEF IInv, DoFork, ParentAlive, TypeOK, Places, Procs,
       At, Goto, Return, procVars, schedVars, kbdVars
  <2>2. /\ parent'[initproc] = idleproc
        /\ \A p \in Slots : state'[p] # "FREE" => parent'[p] \notin {p, idleproc}
    BY ProcAssumption DEF IInv, DoFork, Tree, TypeOK, Places, Procs, At, Goto,
       Return, procVars, schedVars, kbdVars
  <2>3. ASSUME NEW S \in SUBSET Slots, S # {}, \A p \in S : state'[p] # "FREE"
        PROVE  \E p \in S : parent'[p] \notin S
    <3>1. /\ parent' = [parent EXCEPT ![child] = current]
          /\ state' = [state EXCEPT ![child] = "RUNNABLE"]
          /\ state[child] = "FREE" /\ current # child
      BY ProcAssumption DEF IInv, DoFork, Places, TypeOK, Procs, At, Goto,
         Return, procVars, schedVars, kbdVars
    <3>2. CASE S = {child}
      BY <3>1, <3>2, ProcAssumption DEF IInv, TypeOK, Procs
    <3>3. CASE S # {child}
      <4> DEFINE T == S \ {child}
      <4>1. T \in SUBSET Slots /\ T # {} /\ \A p \in T : state[p] # "FREE"
        BY <2>3, <3>1, <3>3 DEF IInv, TypeOK, Procs
      <4>2. PICK p \in T : parent[p] \notin T
        BY <4>1 DEF IInv, Tree
      <4>3. parent[p] # child
        BY <3>1, <4>1, ProcAssumption DEF IInv, ParentAlive, Procs
      <4> QED
        BY <3>1, <4>2, <4>3 DEF IInv, TypeOK, Procs
    <3> QED
      BY <3>2, <3>3
  <2> QED
    BY <2>1, <2>2, <2>3 DEF Tree
<1>5. QuitClean' /\ EndOnly' /\ PanicOnlyAtEnd'
  BY ProcAssumption DEF IInv, TypeOK, Places, QuitClean, ParentAlive, Tree,
     WaitStateMatches, NoDanglingNode, WaitedFor, Children, EndOnly,
     PanicOnlyAtEnd, DoFork, Procs, At, Goto, Return, procVars, schedVars,
     kbdVars
<1> QED
  BY <1>1, <1>2, <1>3, <1>4, <1>5 DEF IInv

\* do_exit keeps the invariant: every child finds a live parent, and everybody
\* who waits for this death is woken.
LEMMA DoExitStep ==
  ASSUME IInv, DoExit
  PROVE  IInv'
<1> DEFINE W == ExitWakes(current)
<1>a. /\ W \subseteq Procs
      /\ \A q \in W : state[q] = "SLEEPING" /\ q \notin {current, idleproc}
  BY ProcAssumption DEF IInv, DoExit, ExitWakes, At, Places, TypeOK,
     ParentAlive, WaitStateMatches, Procs
<1>b. /\ state' = [q \in Procs |-> IF q = current THEN "ZOMBIE"
                                   ELSE IF q \in W THEN "RUNNABLE" ELSE state[q]]
      /\ wait_state' = [q \in Procs |-> IF q \in W THEN "0" ELSE wait_state[q]]
      /\ run_pool' = run_pool \cup W
      /\ parent' = Adopt(current)
      /\ current \in Slots /\ state[current] = "RUNNABLE"
  BY ProcAssumption DEF IInv, DoExit, At, Places, TypeOK, Procs
<1>1. TypeOK'
  BY ProcAssumption, <1>a, <1>b DEF IInv, TypeOK, KernelPoints, WaitStates,
     DoExit, Adopt, Procs, Goto, kbdVars
<1>2. Places' /\ RunPoolExact' /\ WaitStateMatches' /\ NoDanglingNode'
  <2>1. RunPoolExact'
    BY <1>a, <1>b, ProcAssumption DEF IInv, DoExit, RunPoolExact, TypeOK,
       Procs
  <2>2. Places' /\ WaitStateMatches' /\ NoDanglingNode'
    BY <1>a, <1>b, ProcAssumption DEF IInv, DoExit, Places, WaitStateMatches,
       NoDanglingNode, TypeOK, Procs, At, Goto, kbdVars
  <2> QED
    BY <2>1, <2>2
<1>3. NoLostChar' /\ NoLostTimer' /\ NoLostChild'
  BY ProcAssumption DEF IInv, TypeOK, Places, NoLostChar, WaitStateMatches,
     NoLostTimer, NoLostChild, NoDanglingNode, Tree, WaitedFor, Children,
     DoExit, ExitWakes, Adopt, Procs, At, Goto, Return, procVars, schedVars,
     kbdVars
<1>4. ParentAlive' /\ Tree'
  <2>1. ParentAlive'
    BY <1>a, <1>b, ProcAssumption DEF IInv, ParentAlive, Adopt, Children,
       Places, WaitStateMatches, TypeOK, Procs
  <2>2. /\ parent'[initproc] = idleproc
        /\ \A p \in Slots : state'[p] # "FREE" => parent'[p] \notin {p, idleproc}
    BY <1>a, <1>b, ProcAssumption DEF IInv, Tree, Adopt, Children, TypeOK,
       Procs
  <2>3. ASSUME NEW S \in SUBSET Slots, S # {}, \A p \in S : state'[p] # "FREE"
        PROVE  \E p \in S : parent'[p] \notin S
    <3>1. \A p \in S : state[p] # "FREE"
      BY <2>3, <1>a, <1>b DEF Procs
    <3>2. PICK p \in S : parent[p] \notin S
      BY <2>3, <3>1 DEF IInv, Tree
    <3> QED
      BY <1>b, <3>2, ProcAssumption DEF Adopt, Procs
  <2> QED
    BY <2>1, <2>2, <2>3 DEF Tree
<1>5. QuitClean' /\ EndOnly' /\ PanicOnlyAtEnd'
  BY ProcAssumption DEF IInv, TypeOK, Places, QuitClean, ParentAlive, Tree,
     WaitStateMatches, NoDanglingNode, WaitedFor, Children, EndOnly,
     PanicOnlyAtEnd, DoExit, ExitWakes, Adopt, Procs, At, Goto, Return,
     procVars, schedVars, kbdVars
<1> QED
  BY <1>1, <1>2, <1>3, <1>4, <1>5 DEF IInv

\* do_wait with nothing to wait for keeps the invariant: when initproc has no
\* child left, the whole tree is gone.
LEMMA WaitNoChildStep ==
  ASSUME IInv, WaitNoChild
  PROVE  IInv'
<1>1. TypeOK'
  BY ProcAssumption DEF IInv, TypeOK, KernelPoints, WaitStates, WaitNoChild,
     WaitReturn, WaitedFor, Children, Procs, At, Goto, Return, procVars,
     schedVars, kbdVars
<1>2. Places' /\ RunPoolExact' /\ WaitStateMatches' /\ NoDanglingNode'
  BY ProcAssumption DEF IInv, TypeOK, Places, WaitStateMatches,
     NoDanglingNode, RunPoolExact, WaitNoChild, WaitReturn, WaitedFor,
     Children, Procs, At, Goto, Return, procVars, schedVars, kbdVars
<1>3. NoLostChar' /\ NoLostTimer' /\ NoLostChild'
  BY ProcAssumption DEF IInv, TypeOK, Places, NoLostChar, WaitStateMatches,
     NoLostTimer, NoLostChild, NoDanglingNode, Tree, WaitedFor, Children,
     WaitNoChild, WaitReturn, Procs, At, Goto, Return, procVars, schedVars,
     kbdVars
<1>4. ParentAlive' /\ Tree'
  BY ProcAssumption DEF IInv, TypeOK, Places, ParentAlive, WaitStateMatches,
     NoDanglingNode, Tree, WaitNoChild, WaitReturn, WaitedFor, Children,
     Procs, At, Goto, Return, procVars, schedVars, kbdVars
<1>5. QuitClean' /\ EndOnly' /\ PanicOnlyAtEnd'
  <2>1. ASSUME current = initproc
        PROVE  \A p \in Slots : state[p] = "FREE"
    <3> DEFINE S == {p \in Slots : state[p] # "FREE"}
    <3>1. \A p \in Procs : state[p] # "FREE" => parent[p] # initproc
      BY <2>1 DEF IInv, WaitNoChild, WaitedFor, Children, Places
    <3>2. SUFFICES ASSUME S # {} PROVE FALSE
      OBVIOUS
    <3>3. PICK p \in S : parent[p] \notin S
      BY <3>2 DEF IInv, Tree
    <3>4. parent[p] \in Slots /\ state[parent[p]] # "FREE"
      BY <3>1, <3>3, ProcAssumption DEF IInv, Tree, ParentAlive, Procs
    <3> QED
      BY <3>3, <3>4
  <2> QED
    BY <2>1, ProcAssumption DEF IInv, TypeOK, Places, QuitClean, ParentAlive,
       Tree, WaitStateMatches, NoDanglingNode, WaitedFor, Children, EndOnly,
       PanicOnlyAtEnd, WaitNoChild, WaitReturn, Procs, At, Goto, Return,
       procVars, schedVars, kbdVars
<1> QED
  BY <1>1, <1>2, <1>3, <1>4, <1>5 DEF IInv

\* Every other action of the kernel and of the user programs keeps the
\* invariant: apart from what it does to current it only puts one process to
\* sleep or frees one zombie.
LEMMA OtherStep ==
  ASSUME IInv,
         \/ CpuIdle
         \/ TrapReturn
         \/ BootFails
         \/ FaultPanics
         \/ ExecOpenFails
         \/ ExecLoadFails
         \/ Exec
         \/ SysExit
         \/ ExitPanics
         \/ \E q \in Slots \cup {NULL} : SysWait(q)
         \/ \E q \in Slots : WaitReap(q)
         \/ WaitSleep
         \/ WaitResume
         \/ InitLoop
         \/ InitReturns
         \/ \E n \in 1 .. MaxSleep : SysSleep(n)
         \/ SleepResume
         \/ SysYield
         \/ SysOther
         \/ \E n \in 1 .. MaxRead : SysRead(n)
         \/ ReadTake
         \/ ReadSleep
         \/ ReadResume
  PROVE  IInv'
<1>1. CASE CpuIdle
  BY <1>1, ProcAssumption DEF IInv, TypeOK, KernelPoints, WaitStates, Places,
     WaitStateMatches, NoDanglingNode, RunPoolExact, NoLostChar, NoLostTimer,
     NoLostChild, Tree, WaitedFor, Children, ParentAlive, QuitClean, EndOnly,
     PanicOnlyAtEnd, CpuIdle, Procs, At, Goto, Return, procVars, schedVars,
     kbdVars
<1>2. CASE TrapReturn
  <2>1. in_schedule' \in BOOLEAN
    <3>1. CASE current \in exiting
      BY <1>2, <3>1 DEF IInv, TypeOK, TrapReturn
    <3>2. CASE current \notin exiting
      <4>1. in_schedule' = (current \in need_resched)
        BY <1>2, <3>2, Zenon DEF TrapReturn
      <4>2. (current \in need_resched) \in BOOLEAN
        OBVIOUS
      <4> QED
        BY <4>1, <4>2, Zenon
    <3> QED
      BY <3>1, <3>2
  <2> QED
    BY <1>2, <2>1, ProcAssumption DEF IInv, TypeOK, KernelPoints, WaitStates,
       Places, WaitStateMatches, NoDanglingNode, RunPoolExact, NoLostChar,
       NoLostTimer, NoLostChild, Tree, WaitedFor, Children, ParentAlive,
       QuitClean, EndOnly, PanicOnlyAtEnd, TrapReturn, Procs, At, Goto,
       Return, procVars, schedVars, kbdVars
<1>3. CASE BootFails
  BY <1>3, ProcAssumption DEF IInv, TypeOK, KernelPoints, WaitStates, Places,
     WaitStateMatches, NoDanglingNode, RunPoolExact, NoLostChar, NoLostTimer,
     NoLostChild, Tree, WaitedFor, Children, ParentAlive, QuitClean, EndOnly,
     PanicOnlyAtEnd, BootFails, Procs, At, Goto, Return, procVars, schedVars,
     kbdVars
<1>4. CASE FaultPanics
  BY <1>4, ProcAssumption DEF IInv, TypeOK, KernelPoints, WaitStates, Places,
     WaitStateMatches, NoDanglingNode, RunPoolExact, NoLostChar, NoLostTimer,
     NoLostChild, Tree, WaitedFor, Children, ParentAlive, QuitClean, EndOnly,
     PanicOnlyAtEnd, FaultPanics, Procs, At, Goto, Return, procVars,
     schedVars, kbdVars
<1>5. CASE ExecOpenFails
  BY <1>5, ProcAssumption DEF IInv, TypeOK, KernelPoints, WaitStates, Places,
     WaitStateMatches, NoDanglingNode, RunPoolExact, NoLostChar, NoLostTimer,
     NoLostChild, Tree, WaitedFor, Children, ParentAlive, QuitClean, EndOnly,
     PanicOnlyAtEnd, ExecOpenFails, Procs, At, Goto, Return, procVars,
     schedVars, kbdVars
<1>6. CASE ExecLoadFails
  BY <1>6, ProcAssumption DEF IInv, TypeOK, KernelPoints, WaitStates, Places,
     WaitStateMatches, NoDanglingNode, RunPoolExact, NoLostChar, NoLostTimer,
     NoLostChild, Tree, WaitedFor, Children, ParentAlive, QuitClean, EndOnly,
     PanicOnlyAtEnd, ExecLoadFails, Procs, At, Goto, Return, procVars,
     schedVars, kbdVars
<1>7. CASE Exec
  BY <1>7, ProcAssumption DEF IInv, TypeOK, KernelPoints, WaitStates, Places,
     WaitStateMatches, NoDanglingNode, RunPoolExact, NoLostChar, NoLostTimer,
     NoLostChild, Tree, WaitedFor, Children, ParentAlive, QuitClean, EndOnly,
     PanicOnlyAtEnd, Exec, Procs, At, Goto, Return, procVars, schedVars,
     kbdVars
<1>8. CASE SysExit
  BY <1>8, ProcAssumption DEF IInv, TypeOK, KernelPoints, WaitStates, Places,
     WaitStateMatches, NoDanglingNode, RunPoolExact, NoLostChar, NoLostTimer,
     NoLostChild, Tree, WaitedFor, Children, ParentAlive, QuitClean, EndOnly,
     PanicOnlyAtEnd, SysExit, Procs, At, Goto, Return, procVars, schedVars,
     kbdVars
<1>9. CASE ExitPanics
  BY <1>9, ProcAssumption DEF IInv, TypeOK, KernelPoints, WaitStates, Places,
     WaitStateMatches, NoDanglingNode, RunPoolExact, NoLostChar, NoLostTimer,
     NoLostChild, Tree, WaitedFor, Children, ParentAlive, QuitClean, EndOnly,
     PanicOnlyAtEnd, ExitPanics, Procs, At, Goto, Return, procVars, schedVars,
     kbdVars
<1>10. ASSUME NEW q \in Slots \cup {NULL}, SysWait(q) PROVE IInv'
  BY <1>10, ProcAssumption DEF IInv, TypeOK, KernelPoints, WaitStates, Places,
     WaitStateMatches, NoDanglingNode, RunPoolExact, NoLostChar, NoLostTimer,
     NoLostChild, Tree, WaitedFor, Children, ParentAlive, QuitClean, EndOnly,
     PanicOnlyAtEnd, SysWait, Procs, At, Goto, Return, procVars, schedVars,
     kbdVars
<1>11. ASSUME NEW q \in Slots, WaitReap(q) PROVE IInv'
  BY <1>11, ProcAssumption DEF IInv, TypeOK, KernelPoints, WaitStates, Places,
     WaitStateMatches, NoDanglingNode, RunPoolExact, NoLostChar, NoLostTimer,
     NoLostChild, Tree, WaitedFor, Children, ParentAlive, QuitClean, EndOnly,
     PanicOnlyAtEnd, WaitReap, WaitReturn, Procs, At, Goto, Return, procVars,
     schedVars, kbdVars
<1>12. CASE WaitSleep
  BY <1>12, ProcAssumption DEF IInv, TypeOK, KernelPoints, WaitStates, Places,
     WaitStateMatches, NoDanglingNode, RunPoolExact, NoLostChar, NoLostTimer,
     NoLostChild, Tree, WaitedFor, Children, ParentAlive, QuitClean, EndOnly,
     PanicOnlyAtEnd, WaitSleep, SleepOn, Procs, At, Goto, Return, procVars,
     schedVars, kbdVars
<1>13. CASE WaitResume
  BY <1>13, ProcAssumption DEF IInv, TypeOK, KernelPoints, WaitStates, Places,
     WaitStateMatches, NoDanglingNode, RunPoolExact, NoLostChar, NoLostTimer,
     NoLostChild, Tree, WaitedFor, Children, ParentAlive, QuitClean, EndOnly,
     PanicOnlyAtEnd, WaitResume, Procs, At, Goto, Return, procVars, schedVars,
     kbdVars
<1>14. CASE InitLoop
  BY <1>14, ProcAssumption DEF IInv, TypeOK, KernelPoints, WaitStates, Places,
     WaitStateMatches, NoDanglingNode, RunPoolExact, NoLostChar, NoLostTimer,
     NoLostChild, Tree, WaitedFor, Children, ParentAlive, QuitClean, EndOnly,
     PanicOnlyAtEnd, InitLoop, Procs, At, Goto, Return, procVars, schedVars,
     kbdVars
<1>15. CASE InitReturns
  BY <1>15, ProcAssumption DEF IInv, TypeOK, KernelPoints, WaitStates, Places,
     WaitStateMatches, NoDanglingNode, RunPoolExact, NoLostChar, NoLostTimer,
     NoLostChild, Tree, WaitedFor, Children, ParentAlive, QuitClean, EndOnly,
     PanicOnlyAtEnd, InitReturns, Procs, At, Goto, Return, procVars,
     schedVars, kbdVars
<1>16. ASSUME NEW n \in 1 .. MaxSleep, SysSleep(n) PROVE IInv'
  BY <1>16, ProcAssumption DEF IInv, TypeOK, KernelPoints, WaitStates, Places,
     WaitStateMatches, NoDanglingNode, RunPoolExact, NoLostChar, NoLostTimer,
     NoLostChild, Tree, WaitedFor, Children, ParentAlive, QuitClean, EndOnly,
     PanicOnlyAtEnd, SysSleep, SleepOn, Procs, At, Goto, Return, procVars,
     schedVars, kbdVars
<1>17. CASE SleepResume
  BY <1>17, ProcAssumption DEF IInv, TypeOK, KernelPoints, WaitStates, Places,
     WaitStateMatches, NoDanglingNode, RunPoolExact, NoLostChar, NoLostTimer,
     NoLostChild, Tree, WaitedFor, Children, ParentAlive, QuitClean, EndOnly,
     PanicOnlyAtEnd, SleepResume, Procs, At, Goto, Return, procVars,
     schedVars, kbdVars
<1>18. CASE SysYield
  BY <1>18, ProcAssumption DEF IInv, TypeOK, KernelPoints, WaitStates, Places,
     WaitStateMatches, NoDanglingNode, RunPoolExact, NoLostChar, NoLostTimer,
     NoLostChild, Tree, WaitedFor, Children, ParentAlive, QuitClean, EndOnly,
     PanicOnlyAtEnd, SysYield, Procs, At, Goto, Return, procVars, schedVars,
     kbdVars
<1>19. CASE SysOther
  BY <1>19, ProcAssumption DEF IInv, TypeOK, KernelPoints, WaitStates, Places,
     WaitStateMatches, NoDanglingNode, RunPoolExact, NoLostChar, NoLostTimer,
     NoLostChild, Tree, WaitedFor, Children, ParentAlive, QuitClean, EndOnly,
     PanicOnlyAtEnd, SysOther, Procs, At, Goto, Return, procVars, schedVars,
     kbdVars
<1>20. ASSUME NEW n \in 1 .. MaxRead, SysRead(n) PROVE IInv'
  BY <1>20, ProcAssumption DEF IInv, TypeOK, KernelPoints, WaitStates, Places,
     WaitStateMatches, NoDanglingNode, RunPoolExact, NoLostChar, NoLostTimer,
     NoLostChild, Tree, WaitedFor, Children, ParentAlive, QuitClean, EndOnly,
     PanicOnlyAtEnd, SysRead, Procs, At, Goto, Return, procVars, schedVars,
     kbdVars
<1>21. CASE ReadTake
  BY <1>21, ProcAssumption DEF IInv, TypeOK, KernelPoints, WaitStates, Places,
     WaitStateMatches, NoDanglingNode, RunPoolExact, NoLostChar, NoLostTimer,
     NoLostChild, Tree, WaitedFor, Children, ParentAlive, QuitClean, EndOnly,
     PanicOnlyAtEnd, ReadTake, Procs, At, Goto, Return, procVars, schedVars,
     kbdVars
<1>22. CASE ReadSleep
  BY <1>22, ProcAssumption DEF IInv, TypeOK, KernelPoints, WaitStates, Places,
     WaitStateMatches, NoDanglingNode, RunPoolExact, NoLostChar, NoLostTimer,
     NoLostChild, Tree, WaitedFor, Children, ParentAlive, QuitClean, EndOnly,
     PanicOnlyAtEnd, ReadSleep, SleepOn, Procs, At, Goto, Return, procVars,
     schedVars, kbdVars
<1>23. CASE ReadResume
  BY <1>23, ProcAssumption DEF IInv, TypeOK, KernelPoints, WaitStates, Places,
     WaitStateMatches, NoDanglingNode, RunPoolExact, NoLostChar, NoLostTimer,
     NoLostChild, Tree, WaitedFor, Children, ParentAlive, QuitClean, EndOnly,
     PanicOnlyAtEnd, ReadResume, Procs, At, Goto, Return, procVars, schedVars,
     kbdVars
<1> QED
  BY <1>1, <1>2, <1>3, <1>4, <1>5, <1>6, <1>7, <1>8, <1>9, <1>10, <1>11,
     <1>12, <1>13, <1>14, <1>15, <1>16, <1>17, <1>18, <1>19, <1>20, <1>21,
     <1>22, <1>23

-----------------------------------------------------------------------------
\* The state that proc_init leaves satisfies the invariant.
LEMMA ProcInvInit == Init => IInv
<1> SUFFICES ASSUME Init PROVE IInv
  OBVIOUS
<1>1. TypeOK
  <2>1. /\ state \in [Procs -> {"FREE", "SLEEPING", "RUNNABLE", "ZOMBIE"}]
        /\ wait_state \in [Procs -> WaitStates]
    BY DEF Init, WaitStates
  <2>2. kpc \in [Procs -> KernelPoints]
    BY DEF Init, KernelPoints
  <2>3. /\ parent \in [Procs -> Procs \cup {NULL}]
        /\ waitpid \in [Procs -> Procs \cup {NULL}]
    BY DEF Init, Procs
  <2>4. /\ timer \in [Procs -> 0 .. MaxSleep]
        /\ want \in [Procs -> 0 .. MaxRead]
        /\ avail \in 0 .. MaxBuf
    BY ProcAssumption DEF Init
  <2> QED
    BY <2>1, <2>2, <2>3, <2>4 DEF Init, TypeOK, Procs
<1>2. Places /\ WaitStateMatches /\ NoDanglingNode /\ RunPoolExact
  <2>1. WaitStateMatches /\ NoDanglingNode
    BY DEF Init, WaitStateMatches, NoDanglingNode
  <2>2. RunPoolExact
    BY ProcAssumption DEF Init, RunPoolExact, Procs
  <2>3. \A p \in Procs : state[p] \in {"FREE", "ZOMBIE"} <=> kpc[p] = "dead"
    BY ProcAssumption DEF Init, Procs
  <2> QED
    BY <2>1, <2>2, <2>3, ProcAssumption DEF Init, Places, Procs
<1>3. NoLostChar /\ NoLostTimer /\ NoLostChild
  BY ProcAssumption DEF Init, NoLostChar, NoLostTimer, NoLostChild, Procs
<1>4. ParentAlive /\ Tree
  BY ProcAssumption DEF Init, ParentAlive, Tree, Procs
<1>5. QuitClean /\ EndOnly /\ PanicOnlyAtEnd
  BY ProcAssumption DEF Init, QuitClean, EndOnly, PanicOnlyAtEnd, Procs
<1> QED
  BY <1>1, <1>2, <1>3, <1>4, <1>5 DEF IInv

\* The invariant is inductive.
LEMMA ProcInvNext == IInv /\ [Next]_vars => IInv'
<1> SUFFICES ASSUME IInv, [Next]_vars PROVE IInv'
  OBVIOUS
<1>1. CASE UNCHANGED vars
  BY <1>1 DEF IInv, vars, procVars, schedVars, kbdVars, TypeOK, Places, RunPoolExact,
     WaitStateMatches, NoDanglingNode, NoLostChar, NoLostTimer, NoLostChild, WaitedFor,
     Children, ParentAlive, Tree, QuitClean, EndOnly, PanicOnlyAtEnd
<1>2. CASE \E next \in Procs : Schedule(next)
  BY <1>2, ScheduleStep
<1>3. CASE \E c \in BOOLEAN : Tick(c)
  BY <1>3, TickStep
<1>4. CASE KernelStep
  BY <1>4, DoForkStep, DoExitStep, WaitNoChildStep, OtherStep DEF KernelStep
<1>5. CASE SysCall
  BY <1>5, DoForkStep, SysKillStep, OtherStep DEF SysCall
<1>6. CASE BootFails \/ FaultPanics
  BY <1>6, OtherStep
<1>7. CASE Panic
  BY <1>1, <1>7 DEF Panic
<1> QED
  BY <1>1, <1>2, <1>3, <1>4, <1>5, <1>6, <1>7 DEF Next

LEMMA ProcInv == Spec => []IInv
  BY ProcInvInit, ProcInvNext, PTL DEF Spec

-----------------------------------------------------------------------------
\* Every variable of the process and scheduler state keeps its type.
THEOREM ProcTypeCorrect == Spec => []TypeOK
<1>1. IInv => TypeOK
  BY DEF IInv
<1> QED
  BY <1>1, ProcInv, PTL

\* wakeup_proc and schedule() keep the run pool exact: a runnable process is
\* never forgotten, nor inserted twice.
THEOREM ProcRunPool == Spec => []RunPoolExact
<1>1. IInv => RunPoolExact
  BY DEF IInv
<1> QED
  BY <1>1, ProcInv, PTL

\* Timers and wait-queue entries live on kernel stacks; none outlives the call
\* that put it there.
THEOREM ProcNoDangling == Spec => []NoDanglingNode
<1>1. IInv => NoDanglingNode
  BY DEF IInv
<1> QED
  BY <1>1, ProcInv, PTL

\* wait_state is set exactly while a process sleeps in the call that set it.
THEOREM ProcWaitState == Spec => []WaitStateMatches
<1>1. IInv => WaitStateMatches
  BY DEF IInv
<1> QED
  BY <1>1, ProcInv, PTL

\* No wake-up is lost in do_wait, do_sleep and dev_stdin_read.
THEOREM ProcNoLostWakeup == Spec => []NoLostWakeup
<1>1. IInv => NoLostWakeup
  BY DEF IInv, NoLostWakeup
<1> QED
  BY <1>1, ProcInv, PTL

\* do_exit leaves no orphan, and when init_main leaves its loop every process
\* is gone.
THEOREM ProcTreeClean == Spec => [](ParentAlive /\ QuitClean)
<1>1. IInv => ParentAlive /\ QuitClean
  BY DEF IInv
<1> QED
  BY <1>1, ProcInv, PTL

\* The panics of do_exit are only reached when the system ends.
THEOREM ProcPanicOnlyAtEnd == Spec => []PanicOnlyAtEnd
<1>1. IInv => PanicOnlyAtEnd
  BY DEF IInv
<1> QED
  BY <1>1, ProcInv, PTL

\* No step makes a zombie runnable; only its parent, in do_wait, frees it.
THEOREM ProcZombieFinal == Spec => ZombieFinal
<1> DEFINE A == \A p \in Procs : state[p] = "ZOMBIE" =>
                   \/ state'[p] = "ZOMBIE"
                   \/ state'[p] = "FREE" /\ current = parent[p]
<1>1. IInv /\ [Next]_vars => [A]_vars
  <2> SUFFICES ASSUME IInv, Next PROVE A
    OBVIOUS
  <2>1. CASE UNCHANGED state
    BY <2>1
  <2>2. CASE \E c \in BOOLEAN : Tick(c)
    BY <2>2, ProcAssumption DEF IInv, Tick, WakeupProcs, Expired, NoDanglingNode, TypeOK
  <2>3. CASE \E q \in Procs : SysKill(q)
    BY <2>3 DEF IInv, SysKill, WakeupProcs, Interruptible, WaitStateMatches, TypeOK
  <2>4. CASE \E child \in Slots : DoFork(child)
    BY <2>4 DEF IInv, DoFork, TypeOK
  <2>5. CASE DoExit
    BY <2>5, ProcAssumption DEF IInv, DoExit, ExitWakes, WaitStateMatches, ParentAlive,
       TypeOK, Procs
  <2>6. CASE \E q \in Slots : WaitReap(q)
    BY <2>6 DEF IInv, WaitReap, WaitedFor, Children, TypeOK
  <2>7. CASE WaitSleep \/ ReadSleep \/ \E n \in 1 .. MaxSleep : SysSleep(n)
    BY <2>7 DEF IInv, WaitSleep, ReadSleep, SysSleep, SleepOn, At, Places, TypeOK
  <2> QED
    BY <2>1, <2>2, <2>3, <2>4, <2>5, <2>6, <2>7 DEF Next, KernelStep, SysCall, Schedule,
       BootFails, FaultPanics, Panic, CpuIdle, TrapReturn, ExitPanics, WaitNoChild,
       WaitResume, InitLoop, InitReturns, SleepResume, ReadTake, ReadResume,
       ExecOpenFails, ExecLoadFails, Exec, SysExit, SysWait, SysRead, SysYield, SysOther,
       procVars, vars
<1>2. ZombieFinal <=> [][A]_vars
  BY DEF ZombieFinal
<1> QED
  BY <1>1, <1>2, ProcInv, PTL DEF Spec


=============================================================================
