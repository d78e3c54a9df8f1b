----------------------------- MODULE MCSemaphore -----------------------------
(* Instances of Semaphore for TLC.                                           *)
EXTENDS Semaphore

(* memcmp distinguishes every two pids.                                      *)
Distinct == {<<p, p>> : p \in Pid}
=============================================================================
