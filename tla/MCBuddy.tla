------------------------------ MODULE MCBuddy ------------------------------
(***************************************************************************)
(* Model checking of Buddy.                                                *)
(***************************************************************************)
EXTENDS Buddy
=============================================================================
