------------------------------- MODULE Files -------------------------------
(***************************************************************************)
(* The open files of the processes of lab8: the file table of each         *)
(* files_struct (kern/fs/file.c, fs.c), the reference and open counts of   *)
(* the inodes in memory (vfs/inode.c, vfsfile.c, vfslookup.c, vfspath.c),  *)
(* and the keyboard device, the only file a read of which sleeps           *)
(* (devs/dev_stdin.c).                                                     *)
(*                                                                         *)
(* A system call runs from its entry to its end or to schedule() without   *)
(* interruption (one CPU, interrupts off), so it is one action; a read of  *)
(* the keyboard is as many actions as it takes wake-ups.  fork gives the   *)
(* child a files_struct of its own (sys_fork passes no CLONE_FS).  File    *)
(* offsets, access modes and contents are left to module Sfs: on a regular *)
(* file the calls that take an open file acquire and release its entry and *)
(* leave everything here as it was.                                        *)
(***************************************************************************)
EXTENDS Integers, Sequences, FiniteSets, FiniteSetsExt, SequencesExt

CONSTANTS Procs,      \* processes
          InitProc,   \* the one that is there at first
          NFd,        \* FILES_STRUCT_NENTRY; descriptors are 0 .. NFd - 1
          BufSize,    \* STDIN_BUFSIZE
          MaxTyped,   \* bound: characters typed, named 1, 2, ...
          MaxWant,    \* bound: characters one read asks for
          MaxOpen,    \* bound: entries in use in all tables together
          MaxInodeCount,  \* MAX_INODE_COUNT
          MaxLost,    \* bound: a call that leaks is the last one once so many
                      \* references and entries are lost
          NoFiles, NoRead

VARIABLES files,      \* each process's pwd and fd_array
          inode,      \* ref_count and open_count; not in memory if both are 0
          reading,    \* the keyboard read a process sleeps in
          unread,     \* stdin_buffer from p_rpos to p_wpos
          typed,      \* history: how many characters were typed
          delivered,  \* history: the characters in the order readers got them
          overrun,    \* history: characters overwritten before they were read
          lost,       \* history: references no one will give back, and
          abandoned,  \* entries of tables that no one will put, by inode
          panic       \* "no", or what stopped the kernel

leaks == <<lost, abandoned>>
vars == <<files, inode, reading, unread, typed, delivered, overrun, lost, abandoned, panic>>
console == <<reading, unread, typed, delivered, overrun>>

Fds == 0 .. NFd - 1
Inodes == {"stdin", "root", "file"}
\* the reference vfs_add_dev keeps of a device; those of bootfs_node
Base == [i \in Inodes |-> IF i = "file" THEN 0 ELSE 1]

\* the functions each kind of inode has, as far as calls here come to them
Every == {"open", "close", "reclaim", "gettype", "lookup", "fstat"}
Vops == [stdin |-> (Every \ {"reclaim"}) \cup {"read", "write", "ioctl", "tryseek"},
         root  |-> Every \cup {"fsync", "namefile", "getdirentry"},
         file  |-> (Every \ {"lookup"}) \cup {"read", "write", "fsync", "tryseek", "truncate"}]

\* whether the path of an inode has names to look up in a directory, or is
\* that of a device or of the root itself
Named == [stdin |-> {FALSE}, root |-> BOOLEAN, file |-> {TRUE}]

\* an entry of an fd_array; open_count counts the dups and calls on it
Entry == [status : {"NONE", "INIT", "OPENED", "CLOSED"}, node : Inodes, open_count : Int]
Empty == [status |-> "NONE", node |-> "root", open_count |-> 0]

ASSUME FilesAssumption ==
  /\ IsFiniteSet(Procs) /\ InitProc \in Procs
  /\ NFd \in Nat \ (0 .. 2) /\ BufSize \in Nat \ {0} /\ MaxWant \in Nat
  /\ MaxInodeCount \in Nat
  /\ NoFiles \notin [pwd : Inodes, fd : [Fds -> Entry]]
  /\ NoRead \notin [fd : Fds, want : Int]

(* ------------------------- counts and entries -------------------------- *)
\* These operators act on a record with fields fd (one fd_array), inode and
\* panic.  The first assertion that fails sets panic, after which no process
\* runs any more: what the operators go on to compute is never used.
Ensure(s, cond, why) == IF cond \/ s.panic # "no" THEN s ELSE [s EXCEPT !.panic = why]
Check(s, cond) == Ensure(s, cond, "assert")

Shift(s, i, r, o) == [s EXCEPT !.inode[i] = [ref |-> @.ref + r, open |-> @.open + o]]

\* __vop_op with inode_check, before a function of the inode is called
vop_call(s, i, op) ==
  LET c == s.inode[i]
      t == Check(Ensure(s, op \in Vops[i], "missing vop"), c.ref >= c.open /\ c.open >= 0)
  IN Ensure(t, c.ref < MaxInodeCount /\ c.open < MaxInodeCount, "count")

\* with the last opener the inode is closed
inode_open_dec(s, i) ==
  LET t == Shift(Check(s, s.inode[i].open > 0), i, 0, -1)
  IN IF t.inode[i].open = 0 THEN vop_call(t, i, "close") ELSE t

\* with the last reference it is reclaimed, and inode_kill asserts that no one
\* has it open
inode_ref_dec(s, i) ==
  LET t == Shift(Check(s, s.inode[i].ref > 0), i, -1, 0)
  IN IF t.inode[i].ref = 0 THEN Check(vop_call(t, i, "reclaim"), t.inode[i].open = 0) ELSE t

vfs_close(s, i) == inode_ref_dec(inode_open_dec(s, i), i)

\* a call of a function of d by someone who holds d for as long as it takes
visit(s, d, op) == inode_ref_dec(vop_call(Shift(s, d, 1, 0), d, op), d)

\* vfs_lookup of a path of inode i: its caller gets a reference
vfs_lookup(s, i, named) ==
  Shift(IF named THEN visit(s, "root", "lookup") ELSE s, i, 1, 0)

fd_array_free(s, fd) ==
  LET e == s.fd[fd]
      t == Check(s, e.status \in {"INIT", "CLOSED"} /\ e.open_count = 0)
  IN [(IF e.status = "CLOSED" THEN vfs_close(t, e.node) ELSE t)
        EXCEPT !.fd[fd] = Empty]

fd_array_acquire(s, fd) ==
  [Check(s, s.fd[fd].status = "OPENED") EXCEPT !.fd[fd].open_count = @ + 1]

fd_array_release(s, fd) ==
  LET t == [Check(s, s.fd[fd].status \in {"OPENED", "CLOSED"}
                      /\ s.fd[fd].open_count > 0)
              EXCEPT !.fd[fd].open_count = @ - 1]
  IN IF t.fd[fd].open_count = 0 THEN fd_array_free(t, fd) ELSE t

fd_array_close(s, fd) ==
  LET t == [Check(s, s.fd[fd].status = "OPENED" /\ s.fd[fd].open_count > 0)
              EXCEPT !.fd[fd].open_count = @ - 1, !.fd[fd].status = "CLOSED"]
  IN IF t.fd[fd].open_count = 0 THEN fd_array_free(t, fd) ELSE t

\* fd_array_alloc has set the entry to INIT; it is opened on node i
fd_array_open(s, fd, i) ==
  [s EXCEPT !.fd[fd] = [status |-> "OPENED", node |-> i, open_count |-> 1]]

\* the new entry is not counted among the node's openers
fd_array_dup_NoOpen(s, fd, i) == fd_array_open(Shift(s, i, 1, 0), fd, i)

fd_array_dup(s, fd, i) == fd_array_open(Shift(s, i, 1, 1), fd, i)

\* copy_files: the new table s gets the open entries and the pwd of from
dup_files(s, from) ==
  FoldSet(LAMBDA fd, t : fd_array_dup(t, fd, from.fd[fd].node), Shift(s, from.pwd, 1, 0),
          {fd \in Fds : from.fd[fd].status = "OPENED"})

CloseFrom(s, first) ==
  FoldLeft(LAMBDA t, k : IF t.fd[k - 1].status = "OPENED"
                         THEN fd_array_close(t, k - 1) ELSE t,
           s, [k \in 1 .. NFd - first |-> first + k])

\* pwd is forgotten
files_destroy_KeepPwd(s, pwd) ==
  LET t == CloseFrom(s, 0)
  IN Check(t, \A fd \in Fds : t.fd[fd].status = "NONE")

\* files_destroy: every entry must be NONE in the end, then pwd goes
files_destroy(s, pwd) ==
  LET t == CloseFrom(inode_ref_dec(s, pwd), 0)
  IN Check(t, \A fd \in Fds : t.fd[fd].status = "NONE")

(* ------------------------------- actions ------------------------------- *)
Init ==
  /\ files = [p \in Procs |-> IF p = InitProc
                THEN [pwd |-> "root", fd |-> [fd \in Fds |-> Empty]] ELSE NoFiles]
  /\ inode = [i \in Inodes |->
                [ref |-> Base[i] + (IF i = "root" THEN 1 ELSE 0), open |-> 0]]
  /\ reading = [p \in Procs |-> NoRead]
  /\ unread = <<>> /\ typed = 0 /\ delivered = <<>> /\ overrun = {}
  /\ lost = [i \in Inodes |-> 0] /\ abandoned = lost
  /\ panic = "no"

State(p) == [fd |-> files[p].fd, inode |-> inode, panic |-> panic]

\* p, the process that runs, leaves the file tables in state s
Settle(p, s) == /\ files' = [files EXCEPT ![p].fd = s.fd]
                /\ inode' = s.inode /\ panic' = s.panic

Running(p) == files[p] # NoFiles /\ reading[p] = NoRead

MayLeak == MapThenSumSet(LAMBDA j : lost[j] + abandoned[j], Inodes) < MaxLost

\* the entries in use, and whether the bound lets n more be used
Used == {pf \in Procs \X Fds : /\ files[pf[1]] # NoFiles
                                   /\ files[pf[1]].fd[pf[2]].status # "NONE"}
Spare(n) == Cardinality(Used) + n <= MaxOpen

Opened(p, fd) == files[p].fd[fd].status = "OPENED"
FreeFds(p) == {fd \in Fds : files[p].fd[fd].status = "NONE"}

\* what vop_open lets through: the keyboard plain read-only, a directory
\* read-only and not to append
vop_open(i, flags) ==
  CASE i = "stdin" -> flags = {}
    [] i = "root"  -> flags \cap {"write", "append"} = {}
    [] i = "file"  -> TRUE

\* open of an existing path (flags is a subset of write, creat, excl, trunc,
\* append).  With O_CREAT and O_EXCL the reference the lookup took is not
\* given back; O_CREAT truncates what is there, as O_TRUNC does, and O_APPEND
\* asks for the size.
file_open(s, i, named, flags) ==
  LET fd     == Min({k \in Fds : s.fd[k].status = "NONE"})
      found  == vop_call(vfs_lookup(s, i, named), i, "open")
      opened == fd_array_open(Shift(found, i, 0, 1), fd, i)
      cut    == IF flags \cap {"creat", "trunc"} = {} THEN opened
                ELSE vop_call(opened, i, "truncate")
  IN IF ~vop_open(i, flags) THEN inode_ref_dec(found, i)
     ELSE IF "append" \in flags THEN vop_call(cut, i, "fstat") ELSE cut

sys_open(p, i, named, flags) ==
  /\ Running(p) /\ FreeFds(p) # {} /\ Spare(1)
  /\ ~("trunc" \in flags /\ "write" \notin flags)
  /\ IF {"creat", "excl"} \subseteq flags
     THEN /\ MayLeak
          /\ Settle(p, vfs_lookup(State(p), i, named))
          /\ lost' = [lost EXCEPT ![i] = @ + 1]
     ELSE Settle(p, file_open(State(p), i, named, flags)) /\ UNCHANGED lost
  /\ UNCHANGED <<console, abandoned>>

\* open of a path that is not there, in d; no directory has a vop_create
sys_open_absent(p, d, creat) ==
  LET s == visit(State(p), d, "lookup")
  IN /\ Running(p) /\ FreeFds(p) # {}
     /\ Settle(p, IF creat THEN visit(s, d, "create") ELSE s)
     /\ UNCHANGED <<console, leaks>>

sys_close(p, fd) ==
  /\ Running(p) /\ Opened(p, fd)
  /\ Settle(p, fd_array_close(State(p), fd))
  /\ UNCHANGED <<console, leaks>>

\* file_dup to a given descriptor or to the lowest free one
sys_dup(p, from, to) ==
  /\ Running(p) /\ Opened(p, from) /\ to \in FreeFds(p) /\ Spare(1)
  /\ Settle(p, fd_array_dup(State(p), to, files[p].fd[from].node))
  /\ UNCHANGED <<console, leaks>>

\* a call on an open file that does not sleep: read (but of the keyboard), seek,
\* fstat, fsync, getdirentry; write, which only a regular file lets through, does
\* to the entry and the inode what read does
sys_file(p, fd, op) ==
  LET i == files[p].fd[fd].node
  IN /\ Running(p) /\ Opened(p, fd) /\ <<i, op>> # <<"stdin", "read">>
     /\ Settle(p, fd_array_release(vop_call(fd_array_acquire(State(p), fd), i, op), fd))
     /\ UNCHANGED <<console, leaks>>

\* a table of its own with the same entries and the same pwd
do_fork(p, c) ==
  LET t == dup_files([fd |-> [fd \in Fds |-> Empty], inode |-> inode, panic |-> panic],
                     files[p])
  IN /\ Running(p) /\ files[c] = NoFiles /\ Spare(NFd - Cardinality(FreeFds(p)))
     /\ files' = [files EXCEPT ![c] = [pwd |-> files[p].pwd, fd |-> t.fd]]
     /\ inode' = t.inode /\ panic' = t.panic
     /\ UNCHANGED <<console, leaks>>

\* put_files, starting from state s
Leave(p, s) == LET t == files_destroy(s, files[p].pwd)
               IN /\ files' = [files EXCEPT ![p] = NoFiles]
                  /\ inode' = t.inode /\ panic' = t.panic

\* do_exit without put_files: neither the entries nor the pwd of table s are
\* ever given back
Abandon(p, s) ==
  /\ MayLeak
  /\ files' = [files EXCEPT ![p] = NoFiles] /\ inode' = s.inode /\ panic' = s.panic
  /\ lost' = [lost EXCEPT ![files[p].pwd] = @ + 1]
  /\ abandoned' = [i \in Inodes |-> abandoned[i] +
       Cardinality({fd \in Fds : s.fd[fd].status # "NONE" /\ s.fd[fd].node = i})]

\* execve closes all but descriptors 0 and 1.  If the program cannot be opened,
\* the process exits.  Then its mm goes and load_icode reads the program, which
\* may be anything that can be opened for reading; when it fails the process
\* exits too, but do_exit puts the files only of a process that has an mm.
do_execve_absent(p, d) ==
  LET s == CloseFrom(State(p), 2)
  IN /\ Running(p)
     /\ Leave(p, s) \/ Leave(p, visit(s, d, "lookup"))
     /\ UNCHANGED <<console, leaks>>

do_execve(p, i, named) ==
  LET s    == CloseFrom(State(p), 2)
      fd   == Min({k \in Fds : s.fd[k].status = "NONE"})
      t    == file_open(s, i, named, {})
      sought == vop_call(t, i, "tryseek")
      read == vop_call(sought, i, "read")
  IN /\ Running(p)
     /\ \/ /\ i = "file"
           /\ Settle(p, fd_array_close(read, fd)) /\ UNCHANGED leaks
        \/ \E u \in {t, sought, read} : Abandon(p, u)
     /\ UNCHANGED console

do_exit(p) == Running(p) /\ Leave(p, State(p)) /\ UNCHANGED <<console, leaks>>

\* chdir: what is no directory is refused; there is only one directory
sys_chdir(p, i, named) ==
  LET old     == files[p].pwd
      found   == vfs_lookup(State(p), i, named)
      checked == IF i = old THEN found ELSE vop_call(found, i, "gettype")
      new     == IF i = "root" THEN i ELSE old
      set     == IF new = old THEN checked ELSE inode_ref_dec(Shift(checked, new, 1, 0), old)
      s       == inode_ref_dec(set, i)
  IN /\ Running(p)
     /\ files' = [files EXCEPT ![p].pwd = new]
     /\ inode' = s.inode /\ panic' = s.panic
     /\ UNCHANGED <<console, leaks>>

sys_getcwd(p) ==
  /\ Running(p)
  /\ Settle(p, visit(State(p), files[p].pwd, "namefile"))
  /\ UNCHANGED <<console, leaks>>

(* ------------------------------ the keyboard ---------------------------- *)
\* one character too many is handed out twice
TakeChars_Stuck(want) ==
  LET n == Min({want, Len(unread)})
  IN /\ delivered' = delivered \o SubSeq(unread, 1, n)
     /\ unread' = SubSeq(unread, IF n = want THEN n ELSE n + 1, Len(unread))

\* the reader takes what there is, at most what it still wants
TakeChars(want) ==
  LET n == Min({want, Len(unread)})
  IN /\ delivered' = delivered \o SubSeq(unread, 1, n)
     /\ unread' = SubSeq(unread, n + 1, Len(unread))

\* dev_stdin_read with so many characters to go: either they are all there
\* and the read ends, or the process sleeps on, its entry still acquired
Proceed(p, s, fd, want) ==
  /\ TakeChars(want)
  /\ IF want <= Len(unread)
     THEN /\ Settle(p, fd_array_release(s, fd))
          /\ reading' = [reading EXCEPT ![p] = NoRead]
     ELSE /\ Settle(p, s)
          /\ reading' = [reading EXCEPT ![p] = [fd |-> fd, want |-> want - Len(unread)]]
  /\ UNCHANGED <<typed, overrun, leaks>>

sys_read(p, fd, want) ==
  /\ Running(p) /\ Opened(p, fd) /\ files[p].fd[fd].node = "stdin"
  /\ Proceed(p, vop_call(fd_array_acquire(State(p), fd), "stdin", "read"), fd, want)

\* a reader that a key woke (it was taken off the queue; if another reader
\* was faster it queues up again)
ReadOn(p) ==
  /\ reading[p] # NoRead /\ unread # <<>>
  /\ Proceed(p, State(p), reading[p].fd, reading[p].want)

\* a reader that do_kill woke: the read ends short and the process exits
ReadKilled(p) ==
  /\ reading[p] # NoRead
  /\ Leave(p, fd_array_release(State(p), reading[p].fd))
  /\ reading' = [reading EXCEPT ![p] = NoRead]
  /\ UNCHANGED <<unread, typed, delivered, overrun, leaks>>

\* dev_stdin_write: in a full buffer the slot of the newest character is
\* that of the oldest unread one, and p_wpos stays
dev_stdin_write ==
  /\ typed < MaxTyped
  /\ typed' = typed + 1
  /\ IF Len(unread) < BufSize
     THEN unread' = Append(unread, typed + 1) /\ UNCHANGED overrun
     ELSE /\ unread' = [unread EXCEPT ![1] = typed + 1]
          /\ overrun' = overrun \cup {unread[1]}
  /\ UNCHANGED <<files, inode, reading, delivered, leaks, panic>>

Call(p) ==
  \/ \E i \in Inodes, flags \in SUBSET {"write", "creat", "excl", "trunc", "append"} :
       \E named \in Named[i] : sys_open(p, i, named, flags)
  \/ \E d \in {"root", "stdin"}, creat \in BOOLEAN : sys_open_absent(p, d, creat)
  \/ \E fd \in Fds : sys_close(p, fd)
  \/ \E from, to \in Fds : sys_dup(p, from, to)
  \/ \E fd \in Fds, op \in {"read", "tryseek", "fstat", "fsync", "getdirentry"} :
       sys_file(p, fd, op)
  \/ \E c \in Procs : do_fork(p, c)
  \/ \E d \in {"root", "stdin"} : do_execve_absent(p, d)
  \/ \E i \in Inodes : \E named \in Named[i] :
       do_execve(p, i, named) \/ sys_chdir(p, i, named)
  \/ do_exit(p)
  \/ sys_getcwd(p)
  \/ \E fd \in Fds, want \in 1 .. MaxWant : sys_read(p, fd, want)
  \/ ReadOn(p)
  \/ ReadKilled(p)

Next == panic = "no" /\ (dev_stdin_write \/ \E p \in Procs : Call(p))

Spec == Init /\ [][Next]_vars

(* ------------------------------ properties ----------------------------- *)
Holders(i) == {pf \in Used : files[pf[1]].fd[pf[2]].node = i}

\* open_count of an inode is the number of table entries that hold it, over
\* all processes and the tables of those that exited without put_files
\* (proc.c:892); ref_count adds to these the working directories, the
\* kernel's own reference and what vfs_open lost on O_CREAT with O_EXCL
\* (vfsfile.c:46): nothing is freed in use, and nothing else is lost.
CountsExact ==
  \A i \in Inodes :
    /\ inode[i].open = Cardinality(Holders(i)) + abandoned[i]
    /\ inode[i].ref = inode[i].open + Base[i] + lost[i]
                      + Cardinality({p \in Procs : files[p] # NoFiles /\ files[p].pwd = i})

\* However the processes use their tables while one of them sleeps in a read,
\* of the assertions of file.c, fs.c and inode.c none fails but two: that the
\* inode has a function for the call, and that its counts are below
\* MAX_INODE_COUNT (inode.c:114; see CountsBounded).
NoAssertionFails == panic # "assert"

\* inode_check asserts that no inode is referred to or open MAX_INODE_COUNT
\* times (inode.c:114).  It fails: what vfs_open loses adds up.
CountsBounded == panic # "count"

\* Readers together get what was typed, in order and each character once --
\* unless the buffer ran over; and even then no character is made up,
\* doubled, or lost in any other way.
TypedOnce ==
  /\ IsInjective(delivered \o unread)
  /\ ToSet(delivered \o unread) \cup overrun = 1 .. typed
  /\ ToSet(delivered \o unread) \cap overrun = {}
  /\ overrun = {} => delivered \o unread = [k \in 1 .. typed |-> k]
=============================================================================
