# Verification of the NKU-OS (ucore) kernel

The repository holds a series of kernels built on each other: `lab0` and `lab1` boot
and take traps, `lab2` manages physical pages, `lab3` swaps, `lab4` has kernel threads,
`lab5_with_COW` user processes and copy on write, and `lab8code/lab8` is the final
kernel with the scheduler, synchronisation, the VFS and the simple file system. Almost
everything of an earlier lab is in lab8 in its last form, so the models are translated
from lab8, and from an earlier lab only where lab8 does not have the part (best fit and
buddy of lab2, clock and LRU of lab3, copy on write of lab5).

## 1. Inventory

| part | state | operations | hard behaviour |
|---|---|---|---|
| pid allocator (`proc.c: get_pid`) | `last_pid`, `next_safe`, `proc_list` | `get_pid`, link, unlink | wrap at `MAX_PID`, cached interval, restarting scan |
| process life cycle (`proc.c`) | `proc_struct`: state, wait_state, flags, parent, children, mm, filesp | fork, execve, exit, wait, kill, sleep, yield, init_main, cpu_idle | wake-up racing a sleep, orphans, kill at any moment, failure after the old address space is gone |
| scheduler core (`sched.c`) | run queue, `current`, `need_resched`, `timer_list` | `wakeup_proc`, `schedule`, `add_timer`, `del_timer`, `run_timer_list` | double insertion, forgotten processes, distances in the timer list, nodes on kernel stacks |
| stride class (`default_sched_stride.c`, `skew_heap.h`) | strides, skew heap | enqueue, dequeue, pick_next, proc_tick | 32-bit wrap of strides, no preemption |
| traps (`trap.c`, `syscall.c`) | trap frame, interrupt flag | interrupt, system call, return to user mode | when PF_EXITING and need_resched are looked at |
| keyboard (`dev_stdin.c`, `wait.c`) | ring buffer, wait queue | write by interrupt, blocking read | interrupt between queueing and schedule, killed readers, full buffer |
| semaphores, monitors (`sem.c`, `monitor.c`, `check_sync.c`) | value, wait queue | up, down, try_down, cond_wait, cond_signal | hand-over without increment, monitor bodies are empty |
| page allocators (`default_pmm.c`, `best_fit_pmm.c`, `buddy.c`) | free list(s), flags, `nr_free` | init_memmap, alloc_pages, free_pages | merging in any order of frees, links that a missing `break` damages, splitting, lost blocks |
| kernel heap (`kmalloc.c`) | SLOB list, big blocks | kmalloc, kfree | coalescing, order of large requests |
| virtual memory (`vmm.c`, `pmm.c`) | vma list, `mmap_cache`, page tables, reference counts | mm_map, find_vma, insert, do_pgfault, copy_range, page_insert/remove | stale cache, overlap, copy on write sharing |
| swapping (`swap.c`, `swap_fifo.c`, `swap_clock.c`, `swap_lru.c`) | FIFO list, clock hand, swap slots | swap_in, swap_out, map_swappable | the hand on an unlinked node |
| file table (`file.c`, `sysfile.c`, `fs.c`) | fd_array, status, open_count | open, close, read, write, dup, fork/exec of tables | a descriptor used across a sleep |
| VFS (`vfsfile.c`, `inode.c`, ...) | ref_count, open_count, device list | open, close, lookup | error paths that keep references, counts that have a bound |
| SFS (`sfs_inode.c`, `bitmap.c`, ...) | inode cache, block bitmap, superblock, block map, file size | load, reclaim, read, write, seek, truncate, fsync | full disk in the middle of a call, stale offsets, reads past the end, write-back |

Interaction. There is one CPU. A system call runs with interrupts off from the trap to
its return (`trapentry.S` does not enable them), so user processes interleave only where
kernel code calls `schedule()`. The timer interrupt is taken in user mode and in the
kernel threads (idleproc, initproc, user_main before its execve). It is the only
source of asynchrony: it runs the timer list, the tick of the scheduling class and puts
characters into the keyboard buffer, and each of these wakes processes. Components call
each other downwards: `do_sleep` -> `add_timer`/`schedule`; `dev_stdin_read` -> wait
queue/`schedule`; `do_exit`/`do_wait` <-> each other through `state`, `wait_state` and
`parent`; the allocators are called with interrupts off from everywhere.

Correctness. Processes: no lost wake-up, no orphan, no zombie that runs, exact run pool, no
stack node left in a list, every sleep ends. Pids: unique. Timers: everyone is woken at its own
tick. Scheduling class: the smallest stride runs although strides wrap. Semaphores: no unit lost
or doubled. Pages: nobody gets a page that is in use, none is lost, a request fails only if it
must. User memory: exact reference counts, and every process sees a memory of its own, through
copy on write as through the swap disk. Files: exact reference and open counts, characters
delivered once, every disk block with one owner, contents changed by writes only.

## 2. Modules

Which module stands on which:

```
Lemmas <- SchedProofs, PmmProofs, FilesProofs, VmmProofs, SwapProofs, SfsProofs
Pid, Philosophers, TimerList, Stride <- SchedProofs
Sem    <- Philosophers               Proc <- ProcProofs
Proc ..> Timers <.. TimerList        Vmm <- VmmProofs
FreeList <- FirstFit, BestFit <- Pmm <- MCPmm <- PmmProofs
Pmm  ..> PagePool                    Vmm ..> PrivateMem <.. Swap <- SwapProofs
Buddy, Kmalloc <.. MCPmm             Files <- FilesProofs
ByteFile <.. Sfs <- SfsProofs
```

`<-` is EXTENDS, `..>` uses or implements by INSTANCE. The `MC` module of each gives constants
that a cfg cannot write, symmetry sets and views. Three put together what shares no state, and one part moves in each
behaviour: `MCSched` has Pid, Philosophers and TimerList, `MCPmm` puts Buddy behind `pmm_manager` and
checks Kmalloc beside them, and `MCFiles` checks Files under two sets of bounds.
The abstract specifications are `Timers`, `PagePool`, `PrivateMem` and `ByteFile`. Where a name of
the code is a legal name here it is kept. An operator whose name has a suffix
(`Pass_Double`, `block_alloc_NoClear`, ...) is the faulty version of the definition after it:
every property of a passing run has one under which TLC finds it violated.

### Pid

`get_pid` with its two static variables. One step of the model is one turn of its loop
over `proc_list`; `stage` is the place in do_fork's critical section. `SetLinks` is the
linking of the new process, `RemoveLinks` the unlinking in do_wait. The other labs have
the same function.

### Proc

The composition of process management, scheduler core, trap path and keyboard device,
because their properties are about each other. `kpc[p]` says where process `p` is in the
kernel, and where it resumes: an action is the code from one such point to the next, and
points are exactly the entry and return of traps, the labels that code jumps back to, and
the calls of `schedule()`. `in_schedule` separates the assignments before `schedule()` from
`schedule()` itself, so that the interrupt can come in between in a kernel thread.

| code | actions |
|---|---|
| `schedule`, `cpu_idle` | `Schedule`, `CpuIdle` |
| `interrupt_handler`, `run_timer_list`, `dev_stdin_write` | `Tick` |
| end of `trap` | `TrapReturn` |
| `do_fork`, `do_execve`, `do_exit` | `DoFork`, `Exec`, `ExecOpenFails`, `ExecLoadFails`, `SysExit`, `DoExit`, `ExitPanics` |
| `do_wait` | `SysWait`, `WaitReap`, `WaitSleep`, `WaitNoChild`, `WaitResume` |
| `init_main`, `user_main` | `DoFork` at "boot", `InitLoop`, `InitReturns`, `BootFails` |
| `do_kill`, `do_sleep`, `do_yield` | `SysKill`, `SysSleep`, `SleepResume`, `SysYield` |
| `dev_stdin_read` | `SysRead`, `ReadTake`, `ReadSleep`, `ReadResume` |
| page faults that cannot be resolved, undefined system calls | `FaultPanics` |
| all other system calls and error returns | `SysOther` |

Left open: which process of the pool runs next (any; see Stride), which zombie is reaped first
(any), pids (a process is its slot, see Pid), the contents of memory (Vmm) and files (Files,
Sfs). A user program may make any system call at any time, or none.

### Timers and TimerList

`Timers` is the promise to do_sleep, one countdown per sleeper, and what Proc uses.
`TimerList` is the list of distances of sched.c. `TicksLeft` maps it to the countdowns (the
sum of the distances up to the sleeper's timer).

### Page allocators: PagePool, FreeList, FirstFit, BestFit, Pmm, Buddy

`PagePool` is the promise of a `pmm_manager`: contiguous pages nobody else has, refusal
only if no free run is long enough, and a true `nr_free`. `FreeList` is the sorted list with
cutting and merging that default_pmm.c and best_fit_pmm.c share; `FirstFit` and `BestFit`
add the search, and `Pmm` the call through the pointer.

The list has its `next` and `prev` links, because they go wrong. The loop of free_pages that looks for the
place of a block (default_pmm.c:141-150, best_fit_pmm.c:163-171) has no `break` after the list_add at
the end of the list: it goes on to the block it has just put there and runs `list_add(base, base)`
(`Link`). From then on that block is its own `prev`. What follows is modelled as the code does it: `list_prev` of
the block is not the block before it, so the two are not merged (`GiveBack`), list_del does not unlink it
(`Take`), and list_add_before closes a circle around it; a loop that never comes back to the head is the state
"hangs" (`Reached`, `Places`). Two history variables tell how far it has gone: `appended` is TRUE once
a block was put behind the last one, and `broken` counts the calls since list_del or list_add_before met an entry
that is its own `prev`.

`Buddy` is lab2's buddy.c. It has the
list links themselves too, because the code unlinks entries that are on no list. After `GoWild` the
C code has left the memory it manages and nothing more is said.

### Kmalloc

kmalloc and kfree of kmalloc.c. The ring of free blocks keeps its `units` and `next` fields and its moving
start `slobfree`; `slob_free` searches the place, joins neighbours, and also takes in a new page.
Large requests get pages of their own and a `bigblock` record that is a small block itself. Pages
come from the page pool with any choice of page, and other customers take and return pages between any two
calls. default_pmm is such a pool only until its list is damaged (section 5), and nothing is said of the heap after that. `live` is a history variable: what was handed out and for which size.

### Sem and Philosophers

`Sem`: `up` and `down` with the wait queue; `up` hands the unit to the first waiter instead of
counting it. `in_down` are the threads behind the `schedule()` in `__down`, and `wakeup_flags`
the field of their `wait_t` that the assertion reads. `Philosophers` is check_sync.c's client,
one step per call or assignment, with sleeps that end and kills at any moment (a kernel
thread that is killed only wakes up, since it never returns to user mode). Threads may be
switched between any two steps, more often than the kernel does. `try_down` has no caller; the
monitor's `cond_wait`, `cond_signal` and philosophers have empty bodies in this repository.

### Stride

stride_enqueue, stride_dequeue and stride_pick_next under `wakeup_proc` and `schedule`, on a
skew heap with its links, and strides that wrap at `Modulus`, twice `BIG_STRIDE` + 2 (2^32 in the
code), compared by the sign of their difference.
`merge` is skew_heap_merge with the parent pointers set on the way back.

### Vmm and PrivateMem

`Vmm` is lab5_with_COW. `m` is the machine: free frames, and each frame's `ref` and contents,
each process's page table. Operators are named as the functions: `page_insert`,
`page_remove_pte`, `copy_range`, `mm_map`, `insert_vma_struct`, `find_vma` with `mmap_cache`,
`dup_mmap`, `exit_mmap`, `load_icode`, `do_pgfault`. The actions are the calls a
process can make: execve, fork, exit, a store, a page fault, a checked user buffer. `PrivateMem`
says what they promise: a memory per process. It is honest about two things: a page touched
first shows what its frame held (nothing clears it), and so does a new stack.

### Swap

swap.c with FIFO and clock, for `check_mm_struct`. The policy's list is kept as next and prev
pointers, because the clock hand stays on the node that list_del takes out. It implements
`PrivateMem` for one process, so the program cannot see pages leave and come back.
swap_lru.c is FIFO but for `tick_event`, which nothing calls.

### Files

The file tables of all processes, the reference and open counts of the inodes in memory, and
the keyboard's ring buffer with its contents. A read that sleeps keeps its table entry acquired
(`reading`), and the reader may be woken by a key or killed. `vop_call` is what `__vop_op` and
`inode_check` do before every function of an inode; `panic` tells which of their assertions failed: "assert", "missing
vop" (the inode has no such function) or "count" (a count has reached `MAX_INODE_COUNT`).
A process whose load_icode fails has no mm any more, so do_exit passes over put_files (`Abandon`).
`typed`, `delivered`, `overrun`, `lost` and `abandoned` are history variables; the last two count, by inode, the
references that vfs_open and do_exit lose and the entries in tables nobody will ever put.

### Sfs and ByteFile

Block bitmap, direct and indirect blocks, reads and writes split into head, whole blocks and
tail, seeks and truncation that grow a file, and the inode's copy in memory with its dirty flag.
A failing assertion or a panic on the path of a file's data is recorded in `panic`; names, and the assertion about
their length (sfs_inode.c:442), are not modelled. `ByteFile` is the promise: files
are sequences of words that only a write, a growth with zeros or O_TRUNC through an open file
changes. `short` is a history variable, see section 5.

## 3. Runs

| run | what it asks | bounds, and why they are enough |
|---|---|---|
| `sched` | pids are unique, the interval is free, get_pid returns; the unit of the mutex is conserved, neighbours exclude each other, no assertion of sem.c fails, the hungry eat; TimerList implements Timers | 5 pids, 4 listed processes: wrap-around and full list both happen; 3 philosophers (each has two distinct neighbours), two meals each, so a fork is given up and taken again; 3 sleepers, up to 4 ticks: equal expiry, deletion at the head, in the middle and at the end |
| `proc` | no lost wake-up, no dangling stack node, exact run pool, every parent alive, panic only at the end, zombies stay dead; idle yields, sleeps end | two user processes beside idle and init: parent and child, siblings, killer and victim, two readers; sleeps of up to 2 ticks, reads of up to 2 characters, a buffer of 1. Every safety property is proved for any number |
| `proc_spin` | violation, section 5 | the same, sleeps and reads of 1 |
| `pmm` | until a call meets an entry that is its own `prev`, the list has every free block by address, each page is held or free once, all loops end, and first and best fit implement PagePool (merging and refusal as far as no block was put behind the last one); buddy never hands a page out twice while nothing is freed; the heap's ring is exact | 6 pages, requests up to 7, frees of any part: enough for a block before, between and behind two others; buddy: 16 pages that start at an odd index, so splits climb over several orders; heap: 4 pages of 4 units, blocks of 2 and 3 units (which cross page borders when pages join, and start at one), large ones of 1 and 2 pages, and both edge sizes |
| `pmm_twice` | violation, section 5 | 5 pages |
| `buddy_twice` | violation, section 5 | 8 pages that start at an odd index |
| `stride` | heap exact, the minimum is picked, the window is kept, nobody is overtaken for ever | 3 processes, the fewest for which a root with two subtrees is removed; strides of 3 bits that wrap every few picks; priorities up to 2 |
| `vmm` | reference counts exact, no writable sharing, vmas sorted and pages inside them, user_mem_check exact, OwnMemory | 2 processes, 3 pages, 5 frames: sharing, breaking, sole ownership again, and running out of frames; four programs, among them two that overlap |
| `swap` | the list is exact, the oldest page goes, contents survive | 5 pages, 3 frames: pages come back in other frames; the hand goes round |
| `files` | counts exact, no assertion fails but two, characters delivered once | 2 processes, 3 descriptors (one beyond those execve keeps), 3 entries in use in all, counts below 9. In one set of bounds a call loses references and no key is typed; in the other nothing is lost, and 3 characters are typed into a buffer of 2 (so it overruns), with reads of up to 2 |
| `files_bound` | violation, section 5 | 1 process, counts below 6, up to 6 lost references |
| `sfs` | one owner per block, of the assertions a file's data meets only three fail, what lies past the end is zero, KeepsBytes | 2 files, 2 open files, blocks of 3 words, 1 direct block and 1 entry in the indirect block, 3 blocks on the disk: two files cannot both use their entry block, so the disk runs full inside a call; offsets 0 and 4, moves of 2 words, so ranges start in the middle of a block, cross into the next, and end inside; `MaxSize` 7 lies past what the block map reaches |

The numbers that bound the state space and have no counterpart in the code are `MaxSleep`,
`MaxRead`, `MaxPriority`, `MaxTyped`, `MaxWant`, `MaxOpen`, `MaxLost`, `MaxBroken` (calls on a damaged list), `Offsets` and
`Lengths`; the others are the code's own constants made small.

`sfs` and `vmm` use symmetry: the code treats files, descriptors and processes alike (`Min` is
taken of frames and blocks only, which are not permuted), and neither run has a liveness property.
`sfs` also uses a view that drops what no later step reads: the disk's copy of an inode while
the one in memory is dirty, the contents of free blocks (cleared when allocated), and everything
but `panic` once the kernel has stopped. The invariants and `FileContents` read nothing else, and the
step that stops the kernel leaves all they read as it was. `MCSfs` moreover has TLC evaluate, as an assumption, that the
pieces of a range cover it exactly, for ranges of up to nine words.

`pmm` uses a view as well: no code reads the links and the length of a page to which no link leads from
`free_list` (`Known` in MCPmm), and the properties read neither.

CHECK_DEADLOCK is FALSE in `vmm`, `sfs` and the two runs of Files only: there the model stops where the kernel
panics, and in Files also where a bound is reached. Elsewhere TLC looks for deadlock;
`Philosophers` and `Pmm` name their ends (`Finished`, `Stopped`).

Fairness. In `proc`, kernel code runs on by itself once it is on the CPU: `WF` on `KernelStep`
and on `Schedule`. The timer interrupt stays pending until it is taken, so it gets `SF`: it
may find interrupts off again and again, but it is taken some day if they are on infinitely
often. Nothing is assumed of user programs. `proc_spin` adds that the scheduling
class itself is fair (`SF` on `Schedule(p)`), so that its counterexample cannot be blamed on
the open choice of the next process. In `sched`, `WF` on each philosopher and on its timer: every
philosopher keeps giving up the CPU, the run `stride` shows that a runnable process is
picked in the end, and `proc` that sleeps end. Also `WF` on the loop of get_pid, which runs with interrupts off.
`stride` assumes no fairness: its liveness property carries its conditions itself (processes
are picked again and again, no end of new ones is made).

## 4. Proofs

Proved for every value of the constants, by module; the run of the same component shows the
same property on a small instance:

| module | component | theorems about properties of a run |
|---|---|---|
| `SchedProofs` | Pid | `UniquePids`, `SafeInterval` |
| | Sem, Philosophers | `MutexConserved`, `ForksExclusive`, `NoAssertionFails` |
| | TimerList | the refinement `ImplementsTimers` |
| | Stride | `HeapExact`, `PicksMinimum`, `WindowKept` |
| `ProcProofs` | Proc | `RunPoolExact`, `NoDanglingNode`, `WaitStateMatches`, `NoLostWakeup`, `ParentAlive`, `PanicOnlyAtEnd`, the action property `ZombieFinal` |
| `PmmProofs` | FreeList, FirstFit, BestFit, Pmm | `FreeListExact`, the refinement `ImplementsPool` |
| | Buddy, without frees | `BuddyDisjoint` |
| `FilesProofs` | Files | `CountsExact`, `NoAssertionFails`, `TypedOnce` |
| `VmmProofs` | Vmm | `RefCountsExact`, `NoWritableShare`, `VmasBound`, `MemCheckExact`, the refinement `OwnMemory` |
| `SwapProofs` | Swap | `ListExact`, the action property `OldestGoes`, the refinement `SurvivesSwap` |
| `SfsProofs` | Sfs | `BlocksExact`, `OnlyKnownPanics`, `TailIsZero`, the refinement `KeepsBytes` |

The only assumptions are those on the constants, named in the module that declares them and
evaluated by TLC in the runs: distinct names, positive sizes, finite sets of processes. Four say
what the code fixes elsewhere. `FilesAssumption` has `NFd` above 2 and lets the marks for "no table"
and "no read" be none of the values they stand beside. `VmmAssumption` takes a program to be any sequence of
segments inside the user's pages, of any length and order, overlapping or empty as they come
(mm_map has to refuse those), and the stack to be smaller than the user's memory. `SwapAssumption`
has a slot of the disk for every page, and lets the marks for "no entry" and "no contents" be none of
the entries and contents. `SfsAssumption` bounds the entries of an indirect block by its words, and a read or a
write by a block (sysfile.c cuts longer ones up); the offsets seeked to lie below `MaxSize`, as sfs_tryseek demands. How
many blocks, entries and words there are is open.

**Pid.** The inductive invariant adds `Scanned`: the part of the list the scan has passed holds
neither the candidate nor a pid inside the interval found so far. Without it nothing is known in
the middle of a scan. `BeforeInitproc` pins down the first call.

**Proc.** The properties are proved together as `IInv`, because they need each other, with three additions:

- `Places`: who can be where; a process is at "dead" exactly when it is a zombie or free,
  and the executing process is runnable outside `schedule()`;
- `Tree`: no set of live processes is closed under `parent`. This is what carries
  `QuitClean`: when initproc has no child, the set of all live user processes would be such
  a set, so it is empty. That every process has a live parent would not exclude a cycle;
- `EndOnly`: initproc is on its way to exit only if it was killed or everybody is gone.

There is one lemma per action that changes several parts (`ScheduleStep`, `TickStep`, `SysKillStep`,
`DoForkStep`, `DoExitStep`, `WaitNoChildStep`) and one for the rest.

**Semaphores.** `SemInv` is about sem.c alone: whoever is in a queue waits for that semaphore, once, and has
not been given its unit (`WaitersBlocked`, `QueuesDistinct`), and a thread in `__down` without its
unit sleeps (`DownSleeps`). That is why `up` may skip the value: the first waiter is certain to take what it is
handed. `PhilInv` adds what the place of a philosopher says of its entry in `state_sema` (`Phases`),
and that at most one thread is `Inside` (`OneOwner`), without which an `up` of the mutex
could make the value 2. `UpCases` and `DownCases` say what the two calls do, and the actions use only these.

**Timer list.** `Ticks` is the function of prefix sums of the list, and `TicksUnique` says that any function with its two
equations is it; so a new list's sums can be stated first and checked afterwards. `ListOK` is the invariant:
every sleeper at most once, only between its add_timer and its del_timer, and the first distance above 0. That is
inductive only because run_timer_list takes all timers that are due off in one tick. `InsertKeepsTicks`,
`RemoveKeepsTicks` and `TickKeepsTicks` say for each of the three operations that it changes one countdown, or
lowers all by one, and leaves the others alone; the distance that an inserted timer takes from its
successor, and a removed one leaves to it, is where these lemmas do their work.

**Stride.** `Tree(h, t, T)` says that the links from `t` down form a tree of exactly the processes `T`: a function `down` gives the
nodes below each one, a node is not below itself, and the two subtrees of a node have nothing in common. Trees
split at their root and join again (`TreeSplits`, `TreeJoins`), and a change outside a tree leaves it one (`TreeStays`).
`MergeMerges` is skew_heap_merge: of two disjoint trees it makes one of all their nodes. It recurses along two
right spines at once, so the induction is on the sum of their ranks, and that the recursion has a result at all
comes from the same ranks. From it follow insertion and removal, and the inductive invariant `StrideInv`: the waiting
processes form such a tree, and dead links are cut.
The order is harder, because the comparison of wrapping strides is no order. Inside a window (`InWindow`) it is one:
there are offsets from the stride furthest behind, at most `BIG_STRIDE` each, and the comparison is that of the
offsets (`WindowHasOffsets`, `WindowOrders`), so heap order can be told in plain numbers (`NearIsHeapOrder`). A pick advances the smallest
by at most `BIG_STRIDE`, and `PickKeeps` finds the window after it. `NearOrder` of the heap alone would not be inductive.

**First fit and best fit.** `PmmInv` has two halves. What holds of a damaged list too is that links and lengths lead
nowhere outside the range (`TypeOK`). What holds while `broken` is 0 is `Intact`: the entries are a `Chain` (`next` goes
round by address, and an entry that is not its own `prev` has the one before it there), the blocks have no page in common
(`Blocks`), every page is held once or free once, and `nr_free` counts the free ones. As long as no block was put behind the last
one, also every `prev` is that of the list (`LinkedBack`) and no two blocks touch (`Tight`); then list_del and list_add_before
can meet no entry that is its own `prev`, so `broken` stays 0. That the loops come back to the head is read off the ring that
`next` makes (`ReachedAll`, from `WalkComesBack` in `Lemmas`), and with it where free_pages links a block (`PlaceFound`,
`LinkInserts`). Inserting, joining with the previous and with the next block, and cutting a block are lemmas about chains and
about sets of blocks (`InsertKeepsChain`, `DeleteKeepsChain`, `BlockAdded`, `BlocksJoined`, `BlockCut`). The
refinement needs one thing more of each search: when it finds no block, no
run of free pages is long enough. That is so because no two blocks touch, so a run of free pages cannot
cross a border between blocks (`NoBlockNoRun`).

**Buddy.** Theorems are about callers that give nothing back, as in the run, because frees do break the allocator
(section 5). `Linked(l, X, f)` says that the links of the nodes `X` are those of circular lists, each of one order; list_del and
list_add keep it (`DelKeepsLinks`, `AddKeepsLinks`). So the block that a list of order k begins with has 2^k pages,
and halving it moves two blocks to the list below. `BuddyInv` adds that free and held blocks have no page in common
and that a list is not empty when its first block is about to be taken, from which it also follows that buddy_split never
takes a list head for a page (`BuddyListsAreSound`: `GoWild` needs a free). That a request below `nr_free` has an order at all is arithmetic
of powers of two, which the provers know only as the number of subsets (`PowerIsCount`, `PowerDoubles` in `Lemmas`).

**Files.** The invariant adds `AtRest`: between calls an entry is free, or opened and counted once,
and once more while its process sleeps in a read of it. An execve, or the exit of a killed reader, closes entries
in loops, in the middle of which the counts of the inodes and the references of the callers do not agree; `Good(s, p, R)`
is what holds there: an inode is open as often as entries hold it or held it when they were abandoned, and `R` says how many
references it has besides. It is kept by each operation on one entry, and so by the loops, and by each call of a function of
an inode, which can stop the kernel but changes no count (`GoodVopCall`, `GoodLookup`, `GoodVisit`). `AbandonKeeps` is the exit
without put_files: the entries the process had become abandoned ones, and its pwd a lost reference, so the sums stay the same.
`KeysInv` does the same for the keyboard: what was
delivered, what is in the ring and what was overrun are together what was typed.

**Page tables and copy on write.** `VmmInv` is `Good(m)` and, per process, `Sorted` vmas, pages inside
them (`Mapped`), and `mmap_cache` on the list. `Good` is what `page_insert`, `page_remove_pte` and
`alloc_page` keep: exact counts, free frames unmapped, and a frame with a writable entry named by no other one. All
edits of one entry go through one lemma, `EditGood`; `page_insert` of a frame that was mapped already, which counts up and
down again, is a case of it. `copy_range`, `unmap_range`, `load_segment` and `dup_mmap` are loops over
such edits. `NoWritableShare` alone is not inductive: a store would need to know that its frame is not
another one's. The lemmas per action (`ExecveKeeps`, `ForkKeeps`, `ExitKeeps`, `StoreKeeps`, `FaultKeeps`,
`MemCheckKeeps`) each give the invariant and the effect on what processes see (`Cell`); `PrivateStep` reads the steps of `PrivateMem` off these effects.
`MemCheckExact` is about a recursion that jumps from vma to vma. `MemCheckIsExact` proves it from the end of the buffer downwards.

**Page replacement.** `SwapInv` says that frames, page table and disk fit together (`Fits`), that `come` lists the
resident pages (`Resides`), that the links make a ring of their frames (`Ring`), and where the clock hand rests
(`Hand`): on the head while no page was ever evicted, when every visited bit is set, and later on the newest page,
the only one whose bit is set. `Hand` is what `OldestGoes` needs. From either place the hand clears its way round
and stops at the oldest page (`TurnGoesOn`, `SweepEnds`), within the two rounds the model gives it, since a list
has no more nodes than there are frames. It stops on the node that leaves; `Ready` describes that
moment, in which the hand is on no list, and `Installs` ends it: the frame freed is the only free one, so it is
the one that comes back. Ring and `Order` are written for the direction from oldest to newest, so one argument
serves both policies, which link at opposite ends. `ListExact`, which walks the links, follows from the ring.

**SFS.** An inode has `Places` for block numbers: its direct ones, the entries of its indirect block, and the indirect
block itself. `Sound(s, others, before)` is what holds in the middle of a call on one file: no block stands at two places
(`Mapped`), every block is free, at a place of this file, or one of the `others`, and what the others
hold is what it was `before`. Each operation on the block map keeps it and says what it does to the file's words, `Data`
(`BmapLoad`, `BmapTruncate`); so do the loops over them (`Truncfile`, and `IoNolock`, for
which `PiecesInOrder` shows that the pieces of a range cover it without gap or overlap). A failing
block_alloc in the middle of bmap_get_sub gives the entry block back (`GivenBack`): without that `Mapped` still holds
and the block is lost.
The invariant of the file system, `SfsInv`, puts the files together again (`Owned`) and adds two things. `Copies`: the
inode on disk may differ from a clean one in memory in the count of its blocks only, because `blocks ++` alone makes
nothing dirty. So when a clean inode is dropped no block is lost, although the count is. `Tails`: while `short` is FALSE
the blocks reach every size and hold zeros past it, and the size on disk is reached by the count on disk also; this is what makes
the lost count harmless. From these follow the refinement's cases: `IoShows`, `GrowthShows` and `EmptyShows` say which step of `ByteFile` a call is,
`CallShown` that no other file's words change.

**Loops and induction.** The provers cannot take a predicate as a parameter, so `Lemmas` states induction over numbers with
sets (`NatSetInduction`), gets from it that a recursion on the subsets of an interval exists
(`RecursionOnSubsets`, `LoopRecursion`), and from that the rules by which a loop of the code, written
as a fold, keeps an invariant (`LoopInvariant` over an interval, `SetLoopInvariant` over a finite
set), and that a loop of a given number of rounds has a result (`IterationExists`). It also says what `Min`, `Max`, `RemoveAt` and `InsertAt` of the community modules return.

Only model-checked:

- the liveness properties: temporal reasoning under fairness is out of the prover's reach;
- `SlobExact`: the ring is walked by its links, so a proof first needs what those links reach, as an invariant of its own.

`TypeOK`, where a module has one, is there for proofs to start from and is not part of a run.

## 5. What the runs show about the code

The process life cycle holds up: no interleaving of system calls, kills, ticks and key
strokes loses a wake-up, leaves a stack node in a list or orphans a process. So do the timer list,
the semaphores, the skew heap, copy on write, replacement with a hand on an unlinked
node, the heap on a page pool that keeps its promise, and the counts of the file layer but for two leaks. What does not
hold is listed here. The first four items have a run that ends in a violation:

1. `proc_spin`: `stride_proc_tick` never sets `need_resched`, so one spinning process
   starves all others. The test program `user/spin.c` expects otherwise.
2. `buddy_twice`: buddy_free_pages merges a block and links it nowhere (buddy.c:143); the flag
   of its first page stays set, so a later free follows its old links, and a page is handed out twice.
   Until then the merged block's pages are counted in `nr_free` and are lost.
3. `pmm_twice`: free_pages of first fit and best fit has no `break` where it puts a block behind the last one
   (default_pmm.c:147, best_fit_pmm.c:168), and the block becomes its own `prev`. When alloc_pages takes it, list_del
   does not unlink it from the entry before it, and the next caller gets the same pages.
4. `files_bound`: open of an existing file with O_CREAT and O_EXCL keeps the lookup's reference (vfsfile.c:46). The
   losses add up until inode_check finds the count at `MAX_INODE_COUNT` (inode.c:114) and the next call on the inode stops
   the kernel; the 65536 of the code are 6 in the run.

The others are behaviour of the models, at the place named; the properties are stated so that they
hold beside it, and say where they make the exception.

Processes and scheduling:

5. trap.c:287 tests PF_EXITING before it gives up the CPU: a process killed while it waits in the run
   pool can go to sleep interruptibly afterwards, and a second kill is refused (-E_KILLED).
6. A process whose execve fails after its address space is gone exits without `put_files`
   (proc.c:569, 892): its files stay open and its pwd referred to (`abandoned` and `lost` in Files).
7. `lab6_set_priority` takes any priority; one above BIG_STRIDE gives a pass of 0, and the process is
   picked at every `schedule()`. `StrideAssumption` excludes it.
8. A forked process starts with stride 0, wherever the others are; if that is further than BIG_STRIDE away
   the comparison is no order any more (`ordered` in Stride is FALSE from there on). A sleeper that comes
   back has the same effect.

Memory:

9. The missing `break` of item 3 does more. A block behind the last one is not merged with the block before it: hold
   everything, free two neighbouring pages in ascending order, and a request for two pages in a row is refused
   (`appended` in `ImplementsPool`). And when a block is to be linked before such an entry, list_add_before closes a
   circle without `free_list`, and the next search through the list never ends, with interrupts off ("hangs"). lab2 to
   lab8 all have this loop.
10. buddy_alloc_pages compares the request with `nr_free` only, so one that no single block can
   serve makes `buddy_split` climb past `max_order` (buddy.c:97; `Climb`, `pc = "panic"`).
11. `copy_range` allocates a frame for a private copy before it looks whether the page is shared, and never
   uses or frees it (pmm.c:369): each fork leaks a frame for every mapped page.
12. `do_pgfault` never looks at the kind of access, as the comment at vmm.c:408-413 says it does. A store to a
   page that is mapped but may not be written is answered by mapping it again with the same rights,
   and faults again. An address outside every vma is not an error of the process: the kernel panics.
13. Out of frames: alloc_pages calls swap_out with `check_mm_struct`, which is NULL by then, and the
    kernel faults. `mm_map` compares with the vma of the first page only; a range that runs into a later
    one reaches the assertion of insert_vma_struct.
14. Nothing ever sets a visited bit but `map_swappable`, so clock evicts what FIFO does (`OldestGoes`),
    and swap_lru.c, whose `tick_event` nobody calls, too.

15. kmalloc of PAGE_SIZE - 2 * SLOB_UNIT up to PAGE_SIZE - SLOB_UNIT - 1 bytes (4064 to 4079) passes the test in
    __kmalloc (kmalloc.c:224) and fails the assertion of slob_alloc (100), because both add the header.
    `find_order` (213) shifts remainders out: 8193 bytes get two pages. No caller asks for such sizes today.

Files:

16. Operations that an inode has no function for are called through a NULL pointer test that panics:
    creating a file (no `vop_create`), seek, read or write on a directory, `getdirentry` on a
    file, fsync on a device, O_CREAT or O_TRUNC on a directory. In Files this is `panic = "missing vop"`.
17. O_CREAT alone truncates an existing file (vfsfile.c:57).
18. A character typed into a full buffer overwrites the oldest unread one and stands before the others
    (dev_stdin.c:27-30).
19. Three assertions on the path of a file's data are reachable in sfs_inode.c: a stale offset after another process's O_TRUNC
   (line 356), blocks that a failed enlargement on a full disk left (939), and a size between what the block map
   reaches and SFS_MAX_FILE_SIZE (286). A fourth is outside the model: the length of a name (442), since copy_path lets in
   a path of 256 to 4095 bytes and sfs_lookup passes it on in one piece.
20. `sfs_io_nolock` sets the size to the offset although nothing was moved (643), and `blocks ++` does
    not make the inode dirty (354-371): a truncation can miss a block afterwards, and a growth
    show its old data. `short` marks where this can begin; `TailIsZero` and `KeepsBytes` hold until then.
21. A read past the end grows the file, because the lines that clamp it are commented out (569-578).

## 6. What is not modelled

- kmalloc in the other models: they take it to succeed, so the error paths for a failing kmalloc are not there
  (a single page that cannot be had stops the kernel anyway, item 13).
- Monitors: the bodies of `cond_wait`, `cond_signal` and their clients are empty.
- Path names, directories, the device list and mounting: set up once at boot and only read after it;
  there is no call that changes a directory.
- A failing disk: ide.c copies an image in memory and cannot fail.
- Boot code, device drivers, console output, string and printf libraries, the debugger, `tools/`: no
  protocol state of the kernel. User programs are the environment of the models.
- The copies. The repository has five full kernels and their generated `obj/` trees, and most files occur in
  all of them (the linked list, the register headers and the drivers nine times over). Each part is modelled once, in its last form.
  The share of lines that the models stand for is therefore small, and would be so if
  everything were modelled.

## 7. Plan

Every component of section 1 that changes state is modelled, and every safety property and refinement of a
passing run is proved, but for one. What could come next:

1. `SlobExact`: the blocks that `next` reaches from `slobfree` as an invariant, as `Ring` is one in SwapProofs.
2. Directories, once the kernel can change one.
