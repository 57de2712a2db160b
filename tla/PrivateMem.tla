----------------------------- MODULE PrivateMem -----------------------------
(***************************************************************************)
(* What fork, execve, exit and the page fault handler of lab5_with_COW     *)
(* promise to user programs: every process has a memory of its own.  A     *)
(* page a process never touched has no contents yet (Undef); its first     *)
(* fault shows it what its frame held before, since no one clears it.      *)
(***************************************************************************)
CONSTANTS Procs, Pages, Values, Undef, Program, Leftover,
          Images   \* [image, stack]: the pages execve fills, the stack pages
VARIABLE memory

NoMemory == [a \in Pages |-> Undef]

Init == memory = [p \in Procs |-> NoMemory]

Store(p, a, v) == /\ memory[p][a] # Undef
                  /\ memory' = [memory EXCEPT ![p][a] = v]

Materialise(p, a) == /\ memory[p][a] = Undef
                     /\ memory' = [memory EXCEPT ![p][a] = Leftover]

Fork(p, c) == /\ memory[c] = NoMemory
              /\ memory' = [memory EXCEPT ![c] = memory[p]]

\* the program's bytes in the pages of its image, leftovers on the stack
Execve(p, i) == memory' = [memory EXCEPT ![p] =
                  [a \in Pages |-> CASE a \in i.image -> Program
                                     [] a \in i.stack -> Leftover
                                     [] OTHER -> Undef]]

Exit(p) == memory' = [memory EXCEPT ![p] = NoMemory]

Next == \E p \in Procs :
          \/ \E a \in Pages : Materialise(p, a) \/ \E v \in Values : Store(p, a, v)
          \/ \E c \in Procs : Fork(p, c)
          \/ \E i \in Images : Execve(p, i)
          \/ Exit(p)

Spec == Init /\ [][Next]_memory
=============================================================================
