------------------------------ MODULE MCFiles ------------------------------
(***************************************************************************)
(* Model checking of Files with two sets of bounds, one for the counts of  *)
(* inodes and one for the contents of the keyboard buffer: a behaviour has *)
(* the one or the other.                                                   *)
(***************************************************************************)
EXTENDS Files

CONSTANTS p1, p2,
          KeyBufSize, KeyMaxTyped, KeyMaxWant   \* the second set

VARIABLE bounds   \* "tables" or "keys"

\* Nothing is lost while many keys are typed.
Keys == INSTANCE Files WITH BufSize <- KeyBufSize, MaxTyped <- KeyMaxTyped,
                            MaxWant <- KeyMaxWant, MaxLost <- 0

MCInit == Init /\ bounds \in {"tables", "keys"}

MCNext ==
  /\ UNCHANGED bounds
  /\ \/ bounds = "tables" /\ Next
     \/ bounds = "keys" /\ Keys!Next

MCSpec == MCInit /\ [][MCNext]_<<vars, bounds>>
============================================================================
