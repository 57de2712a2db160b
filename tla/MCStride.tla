------------------------------ MODULE MCStride ------------------------------
(***************************************************************************)
(* Model checking of Stride.                                               *)
(***************************************************************************)
EXTENDS Stride
=============================================================================
