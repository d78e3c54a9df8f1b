------------------------------- MODULE MCTimer -------------------------------
(* Instances of Timer for TLC are given by the configurations alone.         *)
EXTENDS Timer
=============================================================================
