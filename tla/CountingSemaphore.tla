-------------------------- MODULE CountingSemaphore --------------------------
(***************************************************************************)
(* What a semaphore of BeWos promises its users, after the introduction of *)
(* task/semaphores.c: the units of a resource are lent to tasks, a unit in *)
(* use is lent to nobody else, and it stays with its task until that task  *)
(* gives it back.                                                          *)
(***************************************************************************)
EXTENDS Naturals, FiniteSets

CONSTANTS
  Task,    (* the tasks that use the resource *)
  Units    (* the units of the resource       *)

VARIABLE holders   (* the tasks that hold a unit *)

Init == holders = {}

Acquire(t) ==
  /\ t \notin holders
  /\ Cardinality(holders) < Units
  /\ holders' = holders \cup {t}

Release(t) ==
  /\ t \in holders
  /\ holders' = holders \ {t}

Next == \E t \in Task : Acquire(t) \/ Release(t)

Spec == Init /\ [][Next]_holders
=============================================================================
