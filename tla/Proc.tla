-------------------------------- MODULE Proc --------------------------------
(***************************************************************************)
(* The life of processes in the lab8 kernel: do_fork, do_execve, do_exit,  *)
(* do_wait, do_kill, do_sleep and do_yield (kern/process/proc.c), the      *)
(* blocking read of the keyboard device (kern/fs/devs/dev_stdin.c), the    *)
(* scheduler core wakeup_proc/schedule/run_timer_list                      *)
(* (kern/schedule/sched.c) and the trap path that enters and leaves them   *)
(* (kern/trap/trap.c).                                                     *)
(*                                                                         *)
(* There is one CPU.  A system call runs with interrupts off from the trap *)
(* to its return, so the only points where processes interleave are the    *)
(* calls of schedule(); the timer interrupt is taken in user mode and in   *)
(* the kernel threads (idleproc, initproc, user_main before its execve).   *)
(* kpc[p] says where process p is, and where it resumes when it is chosen  *)
(* again; in_schedule says that current has called schedule().             *)
(*                                                                         *)
(* Abstractions.  A pid is the slot of its process (module Pid shows that  *)
(* pids are unique).  The scheduling class is left open: pick_next returns *)
(* any process of the run pool.  A timer is the number of ticks left       *)
(* and the keyboard buffer the number of unread characters.  The children  *)
(* of a process are the slots whose parent it is; the order of the sibling *)
(* list, which only decides which of several zombies is reaped first, is   *)
(* left open.                                                              *)
(***************************************************************************)
EXTENDS Naturals

CONSTANTS
  Slots,        \* proc_structs that do_fork can allocate (MAX_PROCESS - 2)
  idleproc, initproc,
  NULL,
  MaxSleep,     \* bound: longest sleep, in ticks
  MaxRead,      \* bound: longest read of the keyboard
  MaxBuf        \* STDIN_BUFSIZE

ASSUME ProcAssumption ==
  /\ idleproc # initproc
  /\ idleproc \notin Slots /\ initproc \notin Slots
  /\ NULL \notin Slots \cup {idleproc, initproc}
  /\ MaxSleep \in Nat \ {0} /\ MaxRead \in Nat \ {0} /\ MaxBuf \in Nat \ {0}

Procs == Slots \cup {idleproc, initproc}

VARIABLES
  state,        \* proc->state; "FREE" is a slot that is not allocated
  wait_state,   \* proc->wait_state; "0" when the process waits for nothing
  exiting,      \* the processes with PF_EXITING in proc->flags
  parent,       \* proc->parent
  mm,           \* the processes with proc->mm # NULL
  filesp,       \* the processes that hold a files_struct in proc->filesp
  need_resched, \* the processes with proc->need_resched set
  run_pool,     \* the processes in the run queue
  current,
  in_schedule,  \* current is about to execute schedule()
  kpc,          \* where the process is, see KernelPoints
  waitpid,      \* argument of do_wait: a process, or NULL for pid 0 (any child)
  timer,        \* ticks left of the timer of do_sleep; 0: not in timer_list
  wait_queue,   \* wait queue of the keyboard device
  wakeup_flags, \* the processes whose wait_t has wakeup_flags = WT_KBD
  want,         \* characters the read in progress still wants
  avail,        \* p_wpos - p_rpos
  panicked      \* the kernel is in panic()

procVars == <<state, wait_state, exiting, parent, mm, filesp>>
schedVars == <<need_resched, run_pool, current, in_schedule>>
kbdVars == <<wait_queue, wakeup_flags, want, avail>>
vars == <<procVars, schedVars, kpc, waitpid, timer, kbdVars, panicked>>

-----------------------------------------------------------------------------
\* Places in the code.  "user": user mode; "kthread": user_main before its
\* execve; "boot": start of init_main; "quit": init_main after its loop;
\* "idle": cpu_idle; "trapret": end of trap() for a trap from user mode;
\* "wait": label repeat of do_wait; "waited", "slept", "typed": just after the
\* schedule() of do_wait, do_sleep and dev_stdin_read; "reading": label
\* try_again of dev_stdin_read; "reaped": after do_wait = 0 in init_main;
\* "exit": entry of do_exit; "dead": after the schedule() of do_exit.
KernelPoints == {"user", "kthread", "boot", "quit", "idle", "trapret", "wait",
                 "waited", "slept", "typed", "reading", "reaped", "exit", "dead"}

WaitStates == {"0", "WT_CHILD", "WT_TIMER", "WT_KBD"}

\* All of these wait states carry the bit WT_INTERRUPTED.
Interruptible == {"WT_CHILD", "WT_TIMER", "WT_KBD"}

\* Kernel threads run with interrupts on; a system call runs with them off.
KernelThread(p) == p \in {idleproc, initproc} \/ kpc[p] = "kthread"

\* current executes kernel code at place l (and is not inside schedule()).
At(l) == ~panicked /\ ~in_schedule /\ kpc[current] = l

Children(p) == {q \in Procs : state[q] # "FREE" /\ parent[q] = p}

Goto(l) == kpc' = [kpc EXCEPT ![current] = l]

\* Where a system call of current goes when it is done: to the end of trap().
Return == Goto("trapret")

\* proc_init, up to the moment idleproc enters cpu_idle: initproc has been
\* forked and waits in the run pool.
Init ==
  /\ state = [p \in Procs |-> IF p \in Slots THEN "FREE" ELSE "RUNNABLE"]
  /\ wait_state = [p \in Procs |-> "0"]
  /\ exiting = {}
  /\ parent = [p \in Procs |-> IF p = initproc THEN idleproc ELSE NULL]
  /\ mm = {}
  /\ filesp = {idleproc, initproc}
  /\ need_resched = {idleproc}
  /\ run_pool = {initproc}
  /\ current = idleproc
  /\ in_schedule = FALSE
  /\ kpc = [p \in Procs |-> IF p = idleproc THEN "idle"
                            ELSE IF p = initproc THEN "boot" ELSE "dead"]
  /\ waitpid = [p \in Procs |-> NULL]
  /\ timer = [p \in Procs |-> 0]
  /\ wait_queue = {}
  /\ wakeup_flags = {}
  /\ want = [p \in Procs |-> 0]
  /\ avail = 0
  /\ panicked = FALSE

-----------------------------------------------------------------------------
\* Mutant: wakeup_proc forgets to clear wait_state.
WakeupProcs_KeepWaitState(W) ==
  LET asleep == {p \in W : state[p] # "RUNNABLE"} IN
  /\ state' = [p \in Procs |-> IF p \in asleep THEN "RUNNABLE" ELSE state[p]]
  /\ wait_state' = wait_state
  /\ run_pool' = run_pool \cup (asleep \ {current, idleproc})

\* wakeup_proc for every process of W (its assertion that none is a zombie
\* follows from NoDanglingNode and WaitStateMatches).  Waking a runnable
\* process only prints a warning, and the current process is not put into the
\* run pool.
WakeupProcs(W) ==
  LET asleep == {p \in W : state[p] # "RUNNABLE"} IN
  /\ state' = [p \in Procs |-> IF p \in asleep THEN "RUNNABLE" ELSE state[p]]
  /\ wait_state' = [p \in Procs |-> IF p \in asleep THEN "0" ELSE wait_state[p]]
  /\ run_pool' = run_pool \cup (asleep \ {current, idleproc})

\* The current process goes to sleep: state, wait_state, call of schedule().
SleepOn(ws) ==
  /\ state' = [state EXCEPT ![current] = "SLEEPING"]
  /\ wait_state' = [wait_state EXCEPT ![current] = ws]
  /\ in_schedule' = TRUE

\* Mutant: a current process that can still run is not put back.
Schedule_NoEnqueue(next) ==
  /\ ~panicked /\ in_schedule
  /\ next \in (IF run_pool = {} THEN {idleproc} ELSE run_pool)
  /\ need_resched' = need_resched \ {current}
  /\ run_pool' = run_pool \ {next}
  /\ current' = next
  /\ in_schedule' = FALSE
  /\ UNCHANGED <<procVars, kpc, waitpid, timer, kbdVars, panicked>>

\* schedule(): a current process that can still run goes back to the pool,
\* then the scheduling class picks from the pool; idleproc runs when the pool
\* is empty, and is never in it.
Schedule(next) ==
  LET pool == IF state[current] = "RUNNABLE" THEN run_pool \cup ({current} \ {idleproc})
                                              ELSE run_pool
  IN
  /\ ~panicked /\ in_schedule
  /\ next \in (IF pool = {} THEN {idleproc} ELSE pool)
  /\ need_resched' = need_resched \ {current}
  /\ run_pool' = pool \ {next}
  /\ current' = next
  /\ in_schedule' = FALSE
  /\ UNCHANGED <<procVars, kpc, waitpid, timer, kbdVars, panicked>>

\* cpu_idle: the loop of idleproc.
CpuIdle ==
  /\ At("idle")
  /\ idleproc \in need_resched
  /\ in_schedule' = TRUE
  /\ UNCHANGED <<procVars, need_resched, run_pool, current, kpc, waitpid, timer,
                 kbdVars, panicked>>

\* Mutant: the tick is only counted when the machine idles.
RunTimers_IdleOnly ==
  IF current = idleproc
    THEN [p \in Procs |-> IF timer[p] > 0 THEN timer[p] - 1 ELSE 0]
    ELSE timer

\* run_timer_list takes a tick off every timer (on the head of the list, whose
\* entries are differences).
RunTimers == [p \in Procs |-> IF timer[p] > 0 THEN timer[p] - 1 ELSE 0]

Expired == {p \in Procs : timer[p] = 1}

\* Mutant: idleproc is treated like any other process.
ProcTick_NoIdle == need_resched

\* sched_class_proc_tick: idleproc is asked to reschedule at every tick; the
\* stride class never asks a process to.
ProcTick == need_resched \cup ({current} \cap {idleproc})

\* The timer interrupt: run_timer_list counts the timers down and wakes the
\* processes whose timer expires, proc_tick is called for current, and if a
\* character arrived (c) it is put into the keyboard buffer and wakes every
\* reader.
Tick(c) ==
  /\ ~panicked
  /\ KernelThread(current) \/ (~in_schedule /\ kpc[current] = "user")
  /\ timer' = RunTimers
  /\ need_resched' = ProcTick
  /\ WakeupProcs(Expired \cup (IF c THEN wait_queue ELSE {}))
  /\ IF c
       THEN /\ avail' = IF avail < MaxBuf THEN avail + 1 ELSE avail
            /\ wakeup_flags' = wakeup_flags \cup wait_queue
            /\ wait_queue' = {}
       ELSE UNCHANGED <<avail, wakeup_flags, wait_queue>>
  /\ IF kpc[current] = "user" THEN Goto("trapret") ELSE UNCHANGED kpc
  /\ UNCHANGED <<exiting, parent, mm, filesp, current, in_schedule,
                 waitpid, want, panicked>>

\* The end of trap() for a trap from user mode.
TrapReturn ==
  /\ At("trapret")
  /\ IF current \in exiting
       THEN Goto("exit") /\ UNCHANGED in_schedule
       ELSE Goto("user") /\ in_schedule' = (current \in need_resched)
  /\ UNCHANGED <<procVars, need_resched, run_pool, current, waitpid, timer, kbdVars,
                 panicked>>

-----------------------------------------------------------------------------
\* do_fork by a process in user mode, or by init_main to start user_main.
\* With no free slot, or when an allocation fails, it undoes what it has done
\* and returns an error: SysOther; init_main panics then (BootFails).
DoFork(child) ==
  /\ At("user") \/ At("boot")
  /\ state[child] = "FREE"
  /\ state' = [state EXCEPT ![child] = "RUNNABLE"]
  /\ wait_state' = [wait_state EXCEPT ![child] = "0"]
  /\ exiting' = exiting \ {child}
  /\ parent' = [parent EXCEPT ![child] = current]
  /\ mm' = IF current \in mm THEN mm \cup {child} ELSE mm
  /\ filesp' = filesp \cup {child}
  /\ run_pool' = run_pool \cup {child}
  /\ need_resched' = need_resched \ {child}
  /\ kpc' = IF kpc[current] = "user"
              THEN [kpc EXCEPT ![current] = "trapret", ![child] = "user"]
              ELSE [kpc EXCEPT ![current] = "wait", ![child] = "kthread"]
  /\ UNCHANGED <<current, in_schedule, waitpid, timer, kbdVars, panicked>>

\* init_main: panic("create user_main failed."); user_main: do_execve returns
\* an error, panic("user_main execve failed.").
BootFails ==
  /\ At("boot") \/ At("kthread")
  /\ panicked' = TRUE
  /\ UNCHANGED <<procVars, schedVars, kpc, waitpid, timer, kbdVars>>

\* do_execve.  If the file cannot be opened the process exits with its old
\* address space; if load_icode fails the old one is gone and current->mm is
\* NULL already.  Wrong arguments are an error return: SysOther.
ExecOpenFails ==
  /\ At("user") \/ At("kthread")
  /\ Goto("exit")
  /\ UNCHANGED <<procVars, schedVars, waitpid, timer, kbdVars, panicked>>

ExecLoadFails ==
  /\ At("user") \/ At("kthread")
  /\ mm' = mm \ {current}
  /\ Goto("exit")
  /\ UNCHANGED <<state, wait_state, exiting, parent, filesp, schedVars,
                 waitpid, timer, kbdVars, panicked>>

Exec ==
  /\ At("user") \/ At("kthread")
  /\ mm' = mm \cup {current}
  /\ IF kpc[current] = "user" THEN Goto("trapret") ELSE Goto("user")
  /\ UNCHANGED <<state, wait_state, exiting, parent, filesp, schedVars,
                 waitpid, timer, kbdVars, panicked>>

\* sys_exit.
SysExit ==
  /\ At("user")
  /\ Goto("exit")
  /\ UNCHANGED <<procVars, schedVars, waitpid, timer, kbdVars, panicked>>

\* Who is woken by do_exit of p: its parent, if it waits for a child, and
\* initproc, if it does and a child that it inherits is a zombie.
ExitWakes(p) ==
  {q \in {parent[p]} : wait_state[q] = "WT_CHILD"}
    \cup {q \in {initproc} : /\ wait_state[q] = "WT_CHILD"
                             /\ \E o \in Children(p) : state[o] = "ZOMBIE"}

\* Mutant: only the zombies among the children are given away.
Adopt_ZombiesOnly(p) ==
  [q \in Procs |-> IF q \in Children(p) /\ state[q] = "ZOMBIE"
                     THEN initproc ELSE parent[q]]

\* The children of p become children of initproc.
Adopt(p) == [q \in Procs |-> IF q \in Children(p) THEN initproc ELSE parent[q]]

\* do_exit.  Only a process with an mm gives its files_struct back.
DoExit ==
  /\ At("exit") /\ current # initproc
  /\ LET W == ExitWakes(current) IN
     /\ state' = [q \in Procs |-> IF q = current THEN "ZOMBIE"
                                  ELSE IF q \in W THEN "RUNNABLE" ELSE state[q]]
     /\ wait_state' = [q \in Procs |-> IF q \in W THEN "0" ELSE wait_state[q]]
     /\ run_pool' = run_pool \cup W
  /\ parent' = Adopt(current)
  /\ filesp' = IF current \in mm THEN filesp \ {current} ELSE filesp
  /\ mm' = mm \ {current}
  /\ Goto("dead")
  /\ in_schedule' = TRUE
  /\ UNCHANGED <<exiting, need_resched, current, waitpid, timer, kbdVars, panicked>>

\* A page fault that do_pgfault cannot resolve, and a system call with an
\* undefined number, panic the kernel.
FaultPanics ==
  /\ At("user")
  /\ panicked' = TRUE
  /\ UNCHANGED <<procVars, schedVars, kpc, waitpid, timer, kbdVars>>

\* do_exit by initproc panics; so does a dead process that runs again.
ExitPanics ==
  /\ (At("exit") /\ current = initproc) \/ At("dead")
  /\ panicked' = TRUE
  /\ UNCHANGED <<procVars, schedVars, kpc, waitpid, timer, kbdVars>>

-----------------------------------------------------------------------------
\* sys_wait: any pid may be asked for; NULL stands for pid 0.
SysWait(q) ==
  /\ At("user")
  /\ waitpid' = [waitpid EXCEPT ![current] = q]
  /\ Goto("wait")
  /\ UNCHANGED <<procVars, schedVars, timer, kbdVars, panicked>>

\* The children do_wait is interested in.
WaitedFor(p) == {q \in Children(p) : waitpid[p] \in {NULL, q}}

\* do_wait returns to its caller: init_main at l, or the end of the trap.
WaitReturn(l) ==
  /\ IF current = initproc THEN Goto(l) ELSE Goto("trapret")
  /\ waitpid' = [waitpid EXCEPT ![current] = NULL]

\* do_wait finds a zombie and frees what is left of it.
WaitReap(q) ==
  /\ At("wait")
  /\ q \in WaitedFor(current) /\ state[q] = "ZOMBIE"
  /\ state' = [state EXCEPT ![q] = "FREE"]
  /\ parent' = [parent EXCEPT ![q] = NULL]
  /\ filesp' = filesp \ {q}
  /\ WaitReturn("reaped")
  /\ UNCHANGED <<wait_state, exiting, mm, schedVars, timer, kbdVars, panicked>>

\* do_wait finds no zombie among its children and goes to sleep.
WaitSleep ==
  /\ At("wait")
  /\ WaitedFor(current) # {}
  /\ \A q \in WaitedFor(current) : state[q] # "ZOMBIE"
  /\ SleepOn("WT_CHILD")
  /\ Goto("waited")
  /\ UNCHANGED <<exiting, parent, mm, filesp, need_resched, run_pool,
                 current, waitpid, timer, kbdVars, panicked>>

\* do_wait has nothing to wait for: -E_BAD_PROC.
WaitNoChild ==
  /\ At("wait")
  /\ WaitedFor(current) = {}
  /\ WaitReturn("quit")
  /\ UNCHANGED <<procVars, schedVars, timer, kbdVars, panicked>>

\* do_wait runs again: exit if killed, else look again.
WaitResume ==
  /\ At("waited")
  /\ IF current \in exiting
       THEN Goto("exit") /\ waitpid' = [waitpid EXCEPT ![current] = NULL]
       ELSE Goto("wait") /\ UNCHANGED waitpid
  /\ UNCHANGED <<procVars, schedVars, timer, kbdVars, panicked>>

\* Mutant: init_main waits for one child only.
InitLoop_Once ==
  /\ At("reaped")
  /\ Goto("quit")
  /\ UNCHANGED <<procVars, schedVars, waitpid, timer, kbdVars, panicked>>

\* init_main: schedule() after each child it has reaped, then do_wait again.
InitLoop ==
  /\ At("reaped")
  /\ in_schedule' = TRUE
  /\ Goto("wait")
  /\ UNCHANGED <<procVars, need_resched, run_pool, current, waitpid, timer, kbdVars,
                 panicked>>

\* init_main returns, and kernel_thread_entry calls do_exit.
InitReturns ==
  /\ At("quit")
  /\ Goto("exit")
  /\ UNCHANGED <<procVars, schedVars, waitpid, timer, kbdVars, panicked>>

-----------------------------------------------------------------------------
\* Mutant: do_kill wakes its victim whatever it is doing.
SysKill_WakeAny(q) ==
  /\ At("user")
  /\ state[q] # "FREE" /\ q # idleproc /\ q \notin exiting
  /\ exiting' = exiting \cup {q}
  /\ WakeupProcs({q})
  /\ Return
  /\ UNCHANGED <<parent, mm, filesp, need_resched, current, in_schedule,
                 waitpid, timer, kbdVars, panicked>>

\* do_kill on a process that is not yet PF_EXITING (otherwise: SysOther).
SysKill(q) ==
  /\ At("user")
  /\ state[q] # "FREE" /\ q # idleproc /\ q \notin exiting
  /\ exiting' = exiting \cup {q}
  /\ WakeupProcs({p \in {q} : wait_state[p] \in Interruptible})
  /\ Return
  /\ UNCHANGED <<parent, mm, filesp, need_resched, current, in_schedule,
                 waitpid, timer, kbdVars, panicked>>

\* Mutant: do_sleep forgets add_timer.
SysSleep_NoTimer(n) ==
  /\ At("user")
  /\ SleepOn("WT_TIMER")
  /\ Goto("slept")
  /\ UNCHANGED <<exiting, parent, mm, filesp, need_resched, run_pool,
                 current, waitpid, timer, kbdVars, panicked>>

\* do_sleep for n > 0 ticks: a timer on the kernel stack, then schedule().
SysSleep(n) ==
  /\ At("user")
  /\ timer' = [timer EXCEPT ![current] = n]
  /\ SleepOn("WT_TIMER")
  /\ Goto("slept")
  /\ UNCHANGED <<exiting, parent, mm, filesp, need_resched, run_pool,
                 current, waitpid, kbdVars, panicked>>

\* Mutant: do_sleep forgets del_timer.
SleepResume_NoDel ==
  /\ At("slept")
  /\ Return
  /\ UNCHANGED <<procVars, schedVars, waitpid, timer, kbdVars, panicked>>

\* do_sleep runs again and takes its timer off the list.
SleepResume ==
  /\ At("slept")
  /\ timer' = [timer EXCEPT ![current] = 0]
  /\ Return
  /\ UNCHANGED <<procVars, schedVars, waitpid, kbdVars, panicked>>

\* do_yield.
SysYield ==
  /\ At("user")
  /\ need_resched' = need_resched \cup {current}
  /\ Return
  /\ UNCHANGED <<procVars, run_pool, current, in_schedule, waitpid, timer, kbdVars,
                 panicked>>

\* Every system call that changes nothing here: the queries, the file calls,
\* and the error returns of the calls above.
SysOther ==
  /\ At("user")
  /\ Return
  /\ UNCHANGED <<procVars, schedVars, waitpid, timer, kbdVars, panicked>>

-----------------------------------------------------------------------------
\* sys_read of n > 0 characters from the keyboard device.
SysRead(n) ==
  /\ At("user")
  /\ want' = [want EXCEPT ![current] = n]
  /\ Goto("reading")
  /\ UNCHANGED <<procVars, schedVars, waitpid, timer, wait_queue, wakeup_flags, avail,
                 panicked>>

\* dev_stdin_read takes one character; with the last one the read is done.
ReadTake ==
  /\ At("reading")
  /\ avail > 0
  /\ avail' = avail - 1
  /\ want' = [want EXCEPT ![current] = @ - 1]
  /\ IF want[current] = 1 THEN Return ELSE UNCHANGED kpc
  /\ UNCHANGED <<procVars, schedVars, waitpid, timer, wait_queue, wakeup_flags, panicked>>

\* The buffer is empty: wait_current_set (wakeup_flags starts as
\* WT_INTERRUPTED), then schedule().
ReadSleep ==
  /\ At("reading")
  /\ avail = 0
  /\ wait_queue' = wait_queue \cup {current}
  /\ wakeup_flags' = wakeup_flags \ {current}
  /\ SleepOn("WT_KBD")
  /\ Goto("typed")
  /\ UNCHANGED <<exiting, parent, mm, filesp, need_resched, run_pool,
                 current, waitpid, timer, want, avail, panicked>>

\* The reader runs again: wait_current_del, then try again if a character woke
\* it, or give up with what it has if it was interrupted.
ReadResume ==
  /\ At("typed")
  /\ wait_queue' = wait_queue \ {current}
  /\ IF current \in wakeup_flags
       THEN Goto("reading") /\ UNCHANGED want
       ELSE Return /\ want' = [want EXCEPT ![current] = 0]
  /\ wakeup_flags' = wakeup_flags \ {current}
  /\ UNCHANGED <<procVars, schedVars, waitpid, timer, avail, panicked>>

-----------------------------------------------------------------------------
\* panic() never returns: it shuts the machine down, or stays in the monitor.
Panic == panicked /\ UNCHANGED vars

\* Steps that the kernel takes by itself, without a choice of the user program.
KernelStep ==
  \/ CpuIdle \/ TrapReturn \/ DoExit \/ ExitPanics
  \/ (\E child \in Slots : kpc[current] = "boot" /\ DoFork(child))
  \/ (\E q \in Slots : WaitReap(q)) \/ WaitSleep \/ WaitNoChild \/ WaitResume
  \/ InitLoop \/ InitReturns
  \/ SleepResume \/ ReadTake \/ ReadSleep \/ ReadResume

SysCall ==
  \/ \E child \in Slots : DoFork(child)
  \/ ExecOpenFails \/ ExecLoadFails \/ Exec
  \/ SysExit
  \/ \E q \in Slots \cup {NULL} : SysWait(q)
  \/ \E q \in Procs : SysKill(q)
  \/ \E n \in 1 .. MaxSleep : SysSleep(n)
  \/ \E n \in 1 .. MaxRead : SysRead(n)
  \/ SysYield \/ SysOther

Next ==
  \/ \E next \in Procs : Schedule(next)
  \/ \E c \in BOOLEAN : Tick(c)
  \/ KernelStep \/ SysCall \/ BootFails \/ FaultPanics \/ Panic

Spec == Init /\ [][Next]_vars

\* The timer interrupt stays pending until it is taken, so it cannot be missed
\* each time interrupts are on; kernel code runs on by itself.
FairSpec ==
  /\ Spec
  /\ WF_vars(KernelStep)
  /\ WF_vars(\E next \in Procs : Schedule(next))
  /\ SF_vars(\E c \in BOOLEAN : Tick(c))

-----------------------------------------------------------------------------
TypeOK ==
  /\ state \in [Procs -> {"FREE", "SLEEPING", "RUNNABLE", "ZOMBIE"}]
  /\ wait_state \in [Procs -> WaitStates]
  /\ exiting \subseteq Procs
  /\ parent \in [Procs -> Procs \cup {NULL}]
  /\ mm \subseteq Procs
  /\ filesp \subseteq Procs
  /\ need_resched \subseteq Procs
  /\ run_pool \subseteq Procs
  /\ current \in Procs
  /\ in_schedule \in BOOLEAN
  /\ kpc \in [Procs -> KernelPoints]
  /\ waitpid \in [Procs -> Procs \cup {NULL}]
  /\ timer \in [Procs -> 0 .. MaxSleep]
  /\ wait_queue \subseteq Procs
  /\ wakeup_flags \subseteq Procs
  /\ want \in [Procs -> 0 .. MaxRead]
  /\ avail \in 0 .. MaxBuf
  /\ panicked \in BOOLEAN

\* The run pool holds exactly the runnable processes that are not running:
\* none is forgotten, and none is inserted twice by wakeup_proc and schedule
\* (a second skew_heap_insert of a node would corrupt the heap).
RunPoolExact ==
  run_pool = {p \in Procs \ {idleproc, current} : state[p] = "RUNNABLE"}

\* The timer of do_sleep and the wait_t of dev_stdin_read live on the kernel
\* stack of the sleeper: as long as one is linked into a list, its process is
\* still inside that call, so the tick never follows a pointer into a stack
\* that was left or freed, nor wakes a zombie (assertion in wakeup_proc).
NoDanglingNode ==
  \A p \in Procs :
    /\ timer[p] > 0 => kpc[p] = "slept" /\ state[p] \in {"SLEEPING", "RUNNABLE"}
    /\ p \in wait_queue => kpc[p] = "typed" /\ state[p] \in {"SLEEPING", "RUNNABLE"}

\* A process that waits for something is asleep in the call that set its
\* wait_state (do_fork asserts that the caller waits for nothing, wakeup_proc
\* that it is not a zombie).
WaitStateMatches ==
  \A p \in Procs :
    /\ wait_state[p] # "0" <=> state[p] = "SLEEPING"
    /\ wait_state[p] = "WT_CHILD" => kpc[p] = "waited"
    /\ wait_state[p] = "WT_TIMER" => kpc[p] = "slept"
    /\ wait_state[p] = "WT_KBD" => kpc[p] = "typed"

\* In do_wait: while a process sleeps there, none of the children it waits for
\* is a zombie, whichever way they died and whoever was their parent then.
NoLostChild ==
  \A p \in Procs :
    wait_state[p] = "WT_CHILD" => \A q \in WaitedFor(p) : state[q] # "ZOMBIE"

\* In dev_stdin_read: nobody sleeps on the keyboard while there are characters
\* to read.
NoLostChar ==
  \A p \in Procs : wait_state[p] = "WT_KBD" => avail = 0 /\ p \in wait_queue

\* In do_sleep: whoever sleeps there has a timer running.
NoLostTimer ==
  \A p \in Procs : wait_state[p] = "WT_TIMER" => timer[p] > 0

\* No wake-up is lost in do_wait, dev_stdin_read or do_sleep: nobody sleeps
\* there although what it waits for has happened already.
NoLostWakeup == NoLostChild /\ NoLostChar /\ NoLostTimer

\* do_exit leaves no orphan behind: the parent of a process is neither dead
\* nor freed, so somebody can always reap it.
ParentAlive ==
  \A p \in Procs \ {idleproc} : state[p] # "FREE" =>
    /\ parent[p] \in Procs
    /\ state[parent[p]] \in {"SLEEPING", "RUNNABLE"}

\* When init_main leaves its loop all user-mode processes have quit; these are
\* the assertions at its end (no child, nr_process = 2).
QuitClean ==
  kpc[initproc] = "quit" => \A p \in Slots : state[p] = "FREE"

\* The panics of process management are never reached while user programs
\* run: no dead process is scheduled ("do_exit will not return!!"), and
\* initproc only exits when it was killed or everybody has quit.  What is left
\* is a failing start, a page fault that cannot be resolved and an undefined
\* system call.
PanicOnlyAtEnd ==
  panicked =>
    \/ kpc[current] \in {"boot", "kthread", "user"}
    \/ /\ current = initproc
       /\ initproc \in exiting \/ \A p \in Slots : state[p] = "FREE"

\* A zombie is never made runnable again; it stays until its parent reaps it.
ZombieFinal ==
  [][\A p \in Procs : state[p] = "ZOMBIE" =>
        \/ state'[p] = "ZOMBIE"
        \/ state'[p] = "FREE" /\ current = parent[p]]_vars

\* The machine does not idle while there is work: the tick makes idleproc
\* reschedule.
IdleYields ==
  current = idleproc /\ run_pool # {} ~> current # idleproc

\* A sleep ends, whatever the other processes do.
SleepEnds ==
  \A p \in Slots : timer[p] > 0 ~> timer[p] = 0 \/ panicked

-----------------------------------------------------------------------------
\* What the code's comments say and the code does not keep.

\* A process whose time slice is used up makes room: whoever is in the run
\* pool runs some day, even if the others never call the kernel.
RunnableRuns ==
  \A p \in Slots : p \in run_pool ~> current = p \/ panicked

\* The scheduling class itself is fair.
PoolFairSpec ==
  FairSpec /\ \A p \in Slots : SF_vars(Schedule(p))
=============================================================================
