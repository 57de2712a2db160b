------------------------------ MODULE ByteFile ------------------------------
(***************************************************************************)
(* What a file system promises of the contents of its files: each is a     *)
(* sequence of words, and only one who has the file open changes it, by a  *)
(* write or a growth with zeros; an open may empty it.  A close changes    *)
(* nothing, nor does whatever the file system does behind its users' back. *)
(***************************************************************************)
EXTENDS Integers, Sequences

CONSTANTS FileIds, Fds, NoFd, Values, Lengths, MaxLen

VARIABLES contents,  \* of each file
          users      \* the file each descriptor is open on, or NoFd

Init == /\ contents \in [FileIds -> Seq(Values \cup {0})]
        /\ users = [d \in Fds |-> NoFd]

Word(s, k) == IF k <= Len(s) THEN s[k] ELSE 0
Grown(s, len) == [k \in 1 .. len |-> Word(s, k)]

\* n words of value v from offset off on; a gap before them reads as zeros
Written(s, off, n, v) ==
  [k \in 1 .. (IF off + n > Len(s) THEN off + n ELSE Len(s)) |->
     IF k > off /\ k <= off + n THEN v ELSE Word(s, k)]

\* a user of f brings its contents from s to t
Use(f, s, t) ==
  /\ \E d \in Fds : users[d] = f
  /\ UNCHANGED users
  /\ \/ \E off \in 0 .. MaxLen, n \in Lengths, v \in Values : t = Written(s, off, n, v)
     \/ \E len \in Len(s) .. MaxLen : t = Grown(s, len)

Open(f, s, t) == \E d \in Fds : /\ users[d] = NoFd
                                /\ users' = [users EXCEPT ![d] = f]
                                /\ t = s \/ t = <<>>

Close(f, s, t) == \E d \in Fds : /\ users[d] = f
                                 /\ users' = [users EXCEPT ![d] = NoFd]
                                 /\ t = s

Next == LET old == contents  new == contents'
        IN \E f \in FileIds :
             /\ \A g \in FileIds \ {f} : new[g] = old[g]
             /\ \/ Use(f, old[f], new[f])
                \/ Open(f, old[f], new[f])
                \/ Close(f, old[f], new[f])

Spec == Init /\ [][Next]_<<contents, users>>
=============================================================================
