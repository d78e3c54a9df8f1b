------------------------------ MODULE MCPhysMem ------------------------------
(* Instances of PhysMem for TLC: a machine of a few pages, where the record *)
(* array has a few entries.                                                  *)
EXTENDS PhysMem

CONSTANTS t1, t2

(* The tasks differ in nothing but their names.                              *)
Tasks == Permutations({t1, t2})
=============================================================================
