------------------------------- MODULE MCDelay -------------------------------
(* Instances of Delay for TLC are given by the configurations alone.         *)
EXTENDS Delay
=============================================================================
