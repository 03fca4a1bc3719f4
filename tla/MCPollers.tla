------------------------------ MODULE MCPollers ------------------------------
(* Model-checking instance of the two pollers. *)
EXTENDS Pollers

ThreeFds == 0..2
TwoEvents == {"IN", "OUT"}
=============================================================================
