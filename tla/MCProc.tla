------------------------------- MODULE MCProc -------------------------------
(***************************************************************************)
(* Model checking of Proc.  The runs check liveness, so they declare no    *)
(* symmetry of the slots.                                                  *)
(***************************************************************************)
EXTENDS Proc
=============================================================================
