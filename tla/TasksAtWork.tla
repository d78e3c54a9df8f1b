----------------------------- MODULE TasksAtWork -----------------------------
(***************************************************************************)
(* A system at work, for the modules about what programs sleep on: every   *)
(* task of module Scheduler has been created, some execute shell and the   *)
(* others programs, which the shells may kill.                             *)
(***************************************************************************)
EXTENDS Scheduler

CONSTANTS
  Shells,    (* the tasks that execute shell and read the keyboard          *)
  Victims    (* the tasks the shells may be asked to kill                   *)

ASSUME WorkAssumption ==
  /\ Shells \subseteq Pid \ {0}
  /\ Victims \subseteq Pid

(* The tasks that may sleep: every one but the idle task and the shells.    *)
Program == {p \in Pid : p # 0 /\ p \notin Shells}

(* Nothing has run; of the shells only the one on the screen is awake.      *)
WorkInit ==
  /\ cur_console = 0
  /\ pid_task_shell \in [Consoles -> Shells \cup {0}]
  /\ pid_task_shell[0] # 0
  /\ shells = Shells
  /\ state = [p \in Pid |-> IF p \in Shells \ {pid_task_shell[0]}
                            THEN "BLOCKED" ELSE "READY"]
  /\ privilege = [p \in Pid |-> IF p = 0 THEN "SUPERVISOR" ELSE "USER"]
  /\ quantum = [p \in Pid |-> 0]
  /\ free_pid = TaskBound
  /\ pid_cur_task = 0
  /\ scheduler_active = FALSE
  /\ pc = [p \in Pid |-> IF p = 0 THEN "idle" ELSE "run"]
  /\ target = [p \in Pid |-> 0]

(* The steps of the shells' kill commands, in one or two of which a program *)
(* dies, wherever it is.                                                    *)
shell_kills ==
  \E p \in Shells : kill_process(p) \/ \E q \in Victims : kill_check(p, q)
=============================================================================
