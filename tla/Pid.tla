--------------------------------- MODULE Pid ---------------------------------
(***************************************************************************)
(* The process-identifier allocator of the ucore kernel (get_pid in        *)
(* kern/process/proc.c) together with the two operations on proc_list it   *)
(* depends on: the tail of do_fork that links a new process, and the tail  *)
(* of do_wait that unlinks a reaped one.                                   *)
(*                                                                         *)
(* get_pid keeps two static integers between calls.  The pids in the open  *)
(* interval (last_pid, next_safe) are believed to be free, so most calls   *)
(* return ++last_pid without looking at the process list; only when the    *)
(* interval is used up does the function scan the list again, restarting   *)
(* ("goto repeat") whenever the candidate runs into the end of the         *)
(* interval.  The scan is modelled one list element per step.  It runs     *)
(* with interrupts off (local_intr_save in do_fork), so nothing interleaves*)
(* with it: stage is the program counter of that critical section.         *)
(***************************************************************************)
EXTENDS Integers, Sequences, SequencesExt

CONSTANTS
  MAX_PID,      \* pids are 1 .. MAX_PID - 1; idleproc has pid 0 and is not listed
  MAX_PROCESS   \* do_fork refuses to exceed this many processes, idleproc included

\* static_assert(MAX_PID > MAX_PROCESS) in get_pid; the kernel boots with two
\* processes (idleproc and initproc).
ASSUME PidAssumption ==
  /\ MAX_PID \in Nat
  /\ MAX_PROCESS \in Nat
  /\ MAX_PID > MAX_PROCESS
  /\ MAX_PROCESS >= 2

VARIABLES
  proc_list,    \* the pids on proc_list, in list order
  last_pid,     \* static int last_pid
  next_safe,    \* static int next_safe
  le,           \* position of the scan in proc_list; past the end when done
  stage         \* "idle": outside do_fork's critical section; "scan": in the
                \* while loop of get_pid; "got": get_pid has returned last_pid

pid_vars == <<proc_list, last_pid, next_safe, le, stage>>

Pids == 1 .. MAX_PID - 1

\* nr_process counts idleproc, which proc_init adds by hand.
nr_process == Len(proc_list) + 1

PidInit ==
  /\ proc_list = <<>>
  /\ last_pid = MAX_PID
  /\ next_safe = MAX_PID
  /\ le = 1
  /\ stage = "idle"

-----------------------------------------------------------------------------
\* Mutant: the comparison with next_safe is off by one.
GetPidFast_OffByOne ==
  /\ stage = "idle"
  /\ nr_process < MAX_PROCESS
  /\ last_pid + 1 < MAX_PID
  /\ last_pid + 1 <= next_safe
  /\ last_pid' = last_pid + 1
  /\ stage' = "got"
  /\ UNCHANGED <<proc_list, next_safe, le>>

\* The fast path: the incremented last_pid is still inside the safe interval.
GetPidFast ==
  /\ stage = "idle"
  /\ nr_process < MAX_PROCESS
  /\ last_pid + 1 < MAX_PID
  /\ last_pid + 1 < next_safe
  /\ last_pid' = last_pid + 1
  /\ stage' = "got"
  /\ UNCHANGED <<proc_list, next_safe, le>>

\* Mutant: do_fork does not look at MAX_PROCESS.
GetPidInside_NoLimit ==
  /\ stage = "idle"
  /\ last_pid + 1 >= MAX_PID \/ last_pid + 1 >= next_safe
  /\ last_pid' = IF last_pid + 1 >= MAX_PID THEN 1 ELSE last_pid + 1
  /\ next_safe' = MAX_PID
  /\ le' = 1
  /\ stage' = "scan"
  /\ UNCHANGED proc_list

\* The slow path: wrap to 1 at MAX_PID, forget the interval and start a scan.
GetPidInside ==
  /\ stage = "idle"
  /\ nr_process < MAX_PROCESS
  /\ last_pid + 1 >= MAX_PID \/ last_pid + 1 >= next_safe
  /\ last_pid' = IF last_pid + 1 >= MAX_PID THEN 1 ELSE last_pid + 1
  /\ next_safe' = MAX_PID
  /\ le' = 1
  /\ stage' = "scan"
  /\ UNCHANGED proc_list

\* The candidate is taken and its successor is beyond the interval: repeat.
ScanRepeat ==
  /\ stage = "scan" /\ le <= Len(proc_list)
  /\ proc_list[le] = last_pid
  /\ last_pid + 1 >= next_safe
  /\ last_pid' = IF last_pid + 1 >= MAX_PID THEN 1 ELSE last_pid + 1
  /\ next_safe' = MAX_PID
  /\ le' = 1
  /\ UNCHANGED <<proc_list, stage>>

\* The candidate is taken; go on with its successor and the rest of the list.
ScanBump ==
  /\ stage = "scan" /\ le <= Len(proc_list)
  /\ proc_list[le] = last_pid
  /\ last_pid + 1 < next_safe
  /\ last_pid' = last_pid + 1
  /\ le' = le + 1
  /\ UNCHANGED <<proc_list, next_safe, stage>>

\* Mutant: the last pid seen above the candidate wins, not the smallest.
ScanOther_NoMin ==
  /\ stage = "scan" /\ le <= Len(proc_list)
  /\ proc_list[le] # last_pid
  /\ next_safe' = IF proc_list[le] > last_pid THEN proc_list[le] ELSE next_safe
  /\ le' = le + 1
  /\ UNCHANGED <<proc_list, last_pid, stage>>

\* A live pid above the candidate can only lower the end of the interval.
ScanOther ==
  /\ stage = "scan" /\ le <= Len(proc_list)
  /\ proc_list[le] # last_pid
  /\ next_safe' = IF proc_list[le] > last_pid /\ next_safe > proc_list[le]
                    THEN proc_list[le] ELSE next_safe
  /\ le' = le + 1
  /\ UNCHANGED <<proc_list, last_pid, stage>>

\* le = list: the whole list was visited, last_pid is returned.
ScanEnd ==
  /\ stage = "scan" /\ le > Len(proc_list)
  /\ stage' = "got"
  /\ UNCHANGED <<proc_list, last_pid, next_safe, le>>

\* The rest of do_fork's critical section: hash_proc and set_links put the
\* new process at the head of proc_list.
SetLinks ==
  /\ stage = "got"
  /\ proc_list' = <<last_pid>> \o proc_list
  /\ stage' = "idle"
  /\ UNCHANGED <<last_pid, next_safe, le>>

\* do_wait reaps a zombie: unhash_proc and remove_links.  It panics on
\* initproc (pid 1), which therefore never leaves the list.
RemoveLinks(i) ==
  /\ stage = "idle"
  /\ proc_list[i] # 1
  /\ proc_list' = RemoveAt(proc_list, i)
  /\ UNCHANGED <<last_pid, next_safe, le, stage>>

GetPid == GetPidFast \/ GetPidInside
Scan == ScanRepeat \/ ScanBump \/ ScanOther \/ ScanEnd

PidNext ==
  \/ GetPid
  \/ Scan
  \/ SetLinks
  \/ \E i \in DOMAIN proc_list : RemoveLinks(i)

PidSpec == PidInit /\ [][PidNext]_pid_vars

\* get_pid is straight-line code with interrupts off: once entered it keeps
\* executing, and so does the critical section of do_fork around it.
PidFairSpec == PidSpec /\ WF_pid_vars(Scan) /\ WF_pid_vars(SetLinks)

-----------------------------------------------------------------------------
PidTypeOK ==
  /\ proc_list \in Seq(Pids)
  /\ last_pid \in 1 .. MAX_PID
  /\ next_safe \in 1 .. MAX_PID
  /\ le \in Nat \ {0}
  /\ stage \in {"idle", "scan", "got"}

\* Whenever get_pid returns, the pid it hands to do_fork is in range and no
\* listed process has it ("alloc a unique pid for process").
FreshPid ==
  stage = "got" => /\ last_pid \in Pids
                   /\ \A i \in DOMAIN proc_list : proc_list[i] # last_pid

\* No two processes on proc_list share a pid, so find_proc, and with it
\* do_wait and do_kill, designate at most one process.
UniquePids ==
  \A i, j \in DOMAIN proc_list : i # j => proc_list[i] # proc_list[j]

\* What the two static variables of get_pid stand for between calls: every
\* pid strictly between them is free, whatever was forked and reaped since.
SafeInterval ==
  stage \in {"idle", "got"} =>
    \A i \in DOMAIN proc_list : ~(last_pid < proc_list[i] /\ proc_list[i] < next_safe)

\* A call of get_pid returns: the restarts of the scan cannot go round for
\* ever, because do_fork leaves some pid free (MAX_PID > MAX_PROCESS).
GetPidReturns == stage = "scan" ~> stage = "got"

\* The first pid handed out is initproc's, and proc_init asserts that it is 1.
InitprocIsOne == proc_list # <<>> => proc_list[Len(proc_list)] = 1
=============================================================================
