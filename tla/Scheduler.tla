------------------------------ MODULE Scheduler ------------------------------
(***************************************************************************)
(* The process table and the preemptive round robin of BeWos:              *)
(* task/scheduler.c, task/task.c, task/signals.c, the tail of              *)
(* interrupt/irq.c, sys_kill_process of kernel/syscall.c, and what         *)
(* switch_to_console of driver/console.c does to the table.                *)
(*                                                                         *)
(* There is one processor.  It executes the code of task pid_cur_task,     *)
(* whatever the state field of that task says, until an interrupt arrives; *)
(* every interrupt ends with a call of scheduler().  A section that the    *)
(* code brackets with cli and restore_flags is one action, because no      *)
(* interrupt can arrive inside it; between two such sections any interrupt *)
(* may arrive, so control that leaves a section with work still to do is   *)
(* at a named point of pc.                                                 *)
(***************************************************************************)
EXTENDS Naturals

CONSTANTS
  SUPERVISOR_QUANTUM,  (* quantum of a SUPERVISOR task, 10 in set_quantum   *)
  USER_QUANTUM,        (* quantum of a USER task, 8 in set_quantum          *)
  UINT_MAX,            (* what an unsigned int holds after 0 is decremented *)
  N_CONSOLES,          (* how many virtual consoles there are               *)
  TaskBound            (* bound: how many tasks a behaviour ever creates;   *)
                       (* create_task itself has no limit                   *)

ASSUME SchedulerAssumption ==
  /\ TaskBound \in Nat \ {0}
  /\ SUPERVISOR_QUANTUM \in Nat
  /\ USER_QUANTUM \in Nat
  /\ UINT_MAX \in Nat
  /\ N_CONSOLES \in Nat \ {0}

VARIABLES
  state,             (* process_table[p].state                               *)
  privilege,         (* process_table[p].privilege                           *)
  quantum,           (* process_table[p].quantum, timer ticks left           *)
  free_pid,          (* the pid create_task gives to the next task           *)
  pid_cur_task,      (* the task the processor executes                      *)
  scheduler_active,  (* whether scheduler() does anything when called        *)
  cur_console,       (* the number of the console on the screen              *)
  pid_task_shell,    (* console[n].pid_task_shell                            *)
  pc,                (* where the code of each task is                       *)
  target,            (* the pid a kill command has tested and will kill      *)
  shells             (* history: the tasks that execute the function shell   *)

table == <<privilege, free_pid, cur_console, pid_task_shell, shells>>
vars == <<state, quantum, pid_cur_task, scheduler_active, pc, target, table>>

Pid      == 0 .. TaskBound - 1
Consoles == 0 .. N_CONSOLES - 1
State    == {"RUNNING", "READY", "BLOCKED", "KILLED"}

(* round_robin found no READY task and loops with the interrupts disabled.  *)
Spinning == TaskBound

(* Points of a task's code: main before it creates the first shell; after   *)
(* the restore_flags of create_task; main in its last loop; a task's own    *)
(* code; the loop of sleep_task; the loop of end_task; a shell between the  *)
(* test of the kill command and sys_kill_process.                           *)
Point == {"start", "create", "idle", "run", "sleep", "end", "kill"}

-----------------------------------------------------------------------------
(* init_scheduler: an empty table in which create_task has put the idle     *)
(* task.  main goes on executing as pid 0: it has just enabled interrupts.  *)
Init ==
  /\ state = [p \in Pid |-> IF p = 0 THEN "READY" ELSE "KILLED"]
  /\ privilege = [p \in Pid |-> IF p = 0 THEN "SUPERVISOR" ELSE "USER"]
  /\ quantum = [p \in Pid |-> 0]
  /\ free_pid = 1
  /\ pid_cur_task = 0
  /\ scheduler_active = FALSE
  /\ cur_console = 0
  /\ pid_task_shell = [n \in Consoles |-> 0]
  /\ pc = [p \in Pid |-> IF p = 0 THEN "start" ELSE "run"]
  /\ target = [p \in Pid |-> 0]
  /\ shells = {}

(* The ticks set_quantum gives to a task, which the handler of the same     *)
(* interrupt may have created.                                              *)
set_quantum(p) ==
  IF privilege'[p] = "SUPERVISOR" THEN SUPERVISOR_QUANTUM ELSE USER_QUANTUM

(* In which order round_robin looks at entry p: pid_cur_task + 1 first.  It *)
(* wraps at free_pid; the entries from there on are KILLED, so that passing *)
(* them too finds the same task.                                            *)
Passed(p) == (p + TaskBound - (pid_cur_task + 1)) % TaskBound

Ready(st) == {p \in Pid : st[p] = "READY"}

(* Faulty variant: the search always starts from entry 0.                   *)
round_robin_from_zero(st, next) ==
  \/ /\ next \in Ready(st)
     /\ \A p \in Ready(st) : next <= p
  \/ Ready(st) = {} /\ next = Spinning

(* round_robin over the table st: next is the first READY entry met.        *)
round_robin(st, next) ==
  \/ /\ next \in Ready(st)
     /\ \A p \in Ready(st) : Passed(next) <= Passed(p)
  \/ Ready(st) = {} /\ next = Spinning

(* Faulty variant: the outgoing task is left RUNNING.                       *)
Preempted_left_running(st) == st

(* The outgoing task is READY again only if nobody blocked or killed it.    *)
Preempted(st) ==
  [st EXCEPT ![pid_cur_task] = IF @ = "RUNNING" THEN "READY" ELSE @]

(* scheduler(), called at the end of every interrupt with the table st and  *)
(* the flag active as the interrupt's handler left them.                    *)
KeepTask(st, active) ==
  /\ ~active
  /\ state' = st
  /\ scheduler_active' = active
  /\ UNCHANGED <<quantum, pid_cur_task>>

(* Faulty variant: the quantum is decremented before it is compared.        *)
CountTick_unchecked(st, active) ==
  /\ active
  /\ quantum' = [quantum EXCEPT ![pid_cur_task] = @ - 1]
  /\ state' = st
  /\ scheduler_active' = active
  /\ UNCHANGED pid_cur_task

CountTick(st, active) ==
  /\ active
  /\ quantum[pid_cur_task] > 0
  /\ quantum' = [quantum EXCEPT ![pid_cur_task] = @ - 1]
  /\ state' = st
  /\ scheduler_active' = active
  /\ UNCHANGED pid_cur_task

(* Faulty variant: set_quantum is not called for the chosen task.           *)
SwitchTask_keeps_quantum(st, active) ==
  /\ active
  /\ quantum[pid_cur_task] = 0
  /\ \E next \in Pid \cup {Spinning} :
       /\ round_robin(Preempted(st), next)
       /\ pid_cur_task' = next
       /\ quantum' = [quantum EXCEPT ![pid_cur_task] = UINT_MAX]
       /\ state' = [Preempted(st) EXCEPT ![next] = "RUNNING"]
       /\ scheduler_active' = (next = Spinning)

SwitchTask(st, active) ==
  /\ active
  /\ quantum[pid_cur_task] = 0
  /\ \E next \in Pid \cup {Spinning} :
       /\ round_robin(Preempted(st), next)
       /\ pid_cur_task' = next
       /\ quantum' = [quantum EXCEPT ![pid_cur_task] = UINT_MAX,
                                     ![next] = set_quantum(next)]
       /\ state' = [Preempted(st) EXCEPT ![next] = "RUNNING"]
       /\ scheduler_active' = (next = Spinning)

scheduler(st, active) ==
  /\ pid_cur_task \in Pid
  /\ \/ KeepTask(st, active)
     \/ CountTick(st, active)
     \/ SwitchTask(st, active)
  /\ UNCHANGED <<pc, target>>

(* Faulty variant: wakeup_task does not look at the state.                  *)
Woken_unconditionally(st, W) ==
  [p \in Pid |-> IF p \in W THEN "READY" ELSE st[p]]

(* wakeup_task applied to every task of the set W.                          *)
Woken(st, W) ==
  [p \in Pid |-> IF p \in W /\ st[p] = "BLOCKED" THEN "READY" ELSE st[p]]

-----------------------------------------------------------------------------
(* gestisci_irq for the timer: isr_timer runs the handlers of the timers    *)
(* that expire, which wake some sleeping tasks, and enables the scheduler.  *)
timer_irq ==
  /\ UNCHANGED table
  /\ \E W \in SUBSET {p \in Pid : pc[p] = "sleep"} :
       scheduler(Woken(state, W), TRUE)

(* The console has no shell, or its shell was killed.                       *)
NeedsShell(n) ==
  pid_task_shell[n] = 0 \/ state[pid_task_shell[n]] = "KILLED"

ShellOf(n) == IF NeedsShell(n) THEN free_pid ELSE pid_task_shell[n]

(* The table after create_task or wakeup_task on the shell of n and the     *)
(* assignment of BLOCKED to the shell of the console that leaves the screen.*)
Switched(n) ==
  [[state EXCEPT ![ShellOf(n)] =
      IF NeedsShell(n) \/ @ = "BLOCKED" THEN "READY" ELSE @]
    EXCEPT ![pid_task_shell[cur_console]] = "BLOCKED"]

(* The keyboard interrupt that brings console n to the screen; wakeup_task  *)
(* is called for a shell just created too, and enables the scheduler.       *)
switch_to_console(n) ==
  /\ NeedsShell(n) => free_pid \in Pid
  /\ IF NeedsShell(n)
     THEN /\ privilege' = [privilege EXCEPT ![free_pid] = "USER"]
          /\ free_pid' = free_pid + 1
          /\ shells' = shells \cup {free_pid}
     ELSE UNCHANGED <<privilege, free_pid, shells>>
  /\ cur_console' = n
  /\ pid_task_shell' = [pid_task_shell EXCEPT ![n] = ShellOf(n)]
  /\ scheduler(Switched(n), TRUE)

(* gestisci_irq for any other interrupt: scheduler() is called even if the  *)
(* handler (another key, the floppy drive) leaves the table alone.          *)
other_irq ==
  \/ UNCHANGED table /\ scheduler(state, scheduler_active)
  \/ \E n \in Consoles \ {cur_console} : switch_to_console(n)

(* The code of task p proceeds only while p has the processor.              *)
Executes(p, point) == pid_cur_task = p /\ pc[p] = point

GoesTo(p, point) == pc' = [pc EXCEPT ![p] = point]

(* create_task up to restore_flags: main creates the first shell, and the   *)
(* system call sys_fork creates a task for any other caller.                *)
create_task(p, priv) ==
  /\ Executes(p, IF p = 0 THEN "start" ELSE "run")
  /\ p = 0 => priv = "USER"
  /\ free_pid \in Pid
  /\ state' = [state EXCEPT ![free_pid] = "READY"]
  /\ privilege' = [privilege EXCEPT ![free_pid] = priv]
  /\ quantum' = [quantum EXCEPT ![free_pid] = 0]
  /\ free_pid' = free_pid + 1
  /\ shells' = IF p = 0 THEN shells \cup {free_pid} ELSE shells
  /\ GoesTo(p, "create")
  /\ UNCHANGED <<pid_cur_task, scheduler_active, cur_console, pid_task_shell,
                 target>>

(* create_task's return statement, with the interrupts enabled again, reads *)
(* the pid of entry free_pid - 1.  main stores it and loops for ever;       *)
(* sys_fork drops it.                                                       *)
CreatedPid == free_pid - 1

create_task_return(p) ==
  /\ Executes(p, "create")
  /\ pid_task_shell' = IF p = 0
                       THEN [pid_task_shell EXCEPT ![cur_console] = CreatedPid]
                       ELSE pid_task_shell
  /\ GoesTo(p, IF p = 0 THEN "idle" ELSE "run")
  /\ UNCHANGED <<state, quantum, pid_cur_task, scheduler_active, target,
                 privilege, free_pid, cur_console, shells>>

(* No command of the shell sleeps, wakes or ends.                           *)
IsProgram(p) == p \in Pid \ {0} /\ p \notin shells

(* sleep_task on the calling task; no caller passes another pid.            *)
sleep_task(p) ==
  /\ IsProgram(p)
  /\ Executes(p, "run")
  /\ state' = [state EXCEPT ![p] = "BLOCKED"]
  /\ scheduler_active' = TRUE
  /\ GoesTo(p, "sleep")
  /\ UNCHANGED <<quantum, pid_cur_task, target, table>>

(* The loop of sleep_task ends when the task reads a state not BLOCKED.     *)
sleep_task_return(p) ==
  /\ Executes(p, "sleep")
  /\ state[p] # "BLOCKED"
  /\ GoesTo(p, "run")
  /\ UNCHANGED <<state, quantum, pid_cur_task, scheduler_active, target, table>>

(* wakeup_task called by a task, as up() does for one that called down().   *)
wakeup_task(p, q) ==
  /\ IsProgram(p) /\ IsProgram(q)
  /\ Executes(p, "run")
  /\ state' = Woken(state, {q})
  /\ scheduler_active' = TRUE
  /\ UNCHANGED <<quantum, pid_cur_task, pc, target, table>>

(* end_task: the task kills itself and loops for the rest of its quantum.   *)
end_task(p) ==
  /\ IsProgram(p)
  /\ Executes(p, "run")
  /\ state' = [state EXCEPT ![p] = "KILLED"]
  /\ GoesTo(p, "end")
  /\ UNCHANGED <<quantum, pid_cur_task, scheduler_active, target, table>>

(* Faulty variant: the kill command may name the idle task.                 *)
Killable_idle_too(q) == state[q] \in {"READY", "BLOCKED"}

(* The tasks the shell's kill and killall commands accept to kill.          *)
Killable(q) == q # 0 /\ state[q] \in {"READY", "BLOCKED"}

(* The test of kill and killall.  A shell that a switch has blocked and     *)
(* that still has the processor may name itself.                            *)
kill_check(p, q) ==
  /\ p \in shells
  /\ Executes(p, "run")
  /\ Killable(q)
  /\ target' = [target EXCEPT ![p] = q]
  /\ GoesTo(p, "kill")
  /\ UNCHANGED <<state, quantum, pid_cur_task, scheduler_active, table>>

(* sys_kill_process, whatever the state of the target has become.           *)
kill_process(p) ==
  /\ Executes(p, "kill")
  /\ state' = [state EXCEPT ![target[p]] = "KILLED"]
  /\ target' = [target EXCEPT ![p] = 0]
  /\ GoesTo(p, "run")
  /\ UNCHANGED <<quantum, pid_cur_task, scheduler_active, table>>

-----------------------------------------------------------------------------
Next ==
  \/ timer_irq
  \/ other_irq
  \/ \E p \in Pid :
       \/ \E priv \in {"SUPERVISOR", "USER"} : create_task(p, priv)
       \/ create_task_return(p)
       \/ sleep_task(p)
       \/ sleep_task_return(p)
       \/ \E q \in Pid : wakeup_task(p, q)
       \/ end_task(p)
       \/ \E q \in Pid : kill_check(p, q)
       \/ kill_process(p)

Spec == Init /\ [][Next]_vars

(* The PIT raises its interrupt for ever, and no section of the code keeps  *)
(* the interrupts disabled for ever but a round_robin that finds nobody;    *)
(* there timer_irq is not enabled, and fairness asks nothing of it.         *)
FairSpec == Spec /\ WF_vars(timer_irq)

-----------------------------------------------------------------------------
TypeOK ==
  /\ state \in [Pid -> State]
  /\ privilege \in [Pid -> {"SUPERVISOR", "USER"}]
  /\ quantum \in [Pid -> Nat]
  /\ free_pid \in 1 .. TaskBound
  /\ pid_cur_task \in Pid \cup {Spinning}
  /\ scheduler_active \in BOOLEAN
  /\ cur_console \in Consoles
  /\ pid_task_shell \in [Consoles -> Pid]
  /\ pc \in [Pid -> Point]
  /\ target \in [Pid -> Pid]
  /\ shells \subseteq Pid

(* Only the task that has the processor is ever RUNNING: a switch takes     *)
(* RUNNING from the outgoing task, and a task that is woken, created or     *)
(* interrupted in the meantime cannot take it (scheduler.c, signals.c).     *)
RunningHasProcessor ==
  \A p \in Pid : state[p] = "RUNNING" => p = pid_cur_task

(* The search of round_robin, made with interrupts disabled, always ends,   *)
(* whatever is killed, blocked or ended, because it finds the idle task;    *)
(* unless a key blocked that one too: console.c:169 blocks entry 0 if a     *)
(* console is chosen before main has stored the pid of the first shell.     *)
RoundRobinEnds == pid_cur_task = Spinning => state[0] = "BLOCKED"

(* The quantum of a task that loses the processor wraps below zero; no task *)
(* ever runs on such a wrapped counter, which would never expire.           *)
QuantumOfCurrentIsFresh ==
  pid_cur_task # Spinning =>
    \/ quantum[pid_cur_task] <= SUPERVISOR_QUANTUM
    \/ quantum[pid_cur_task] <= USER_QUANTUM

(* A task that was killed stays killed, although timers, semaphores and its *)
(* own last instructions may still act on it (wakeup_task's guard); what    *)
(* brings it back is only the assignment of console.c:169, if it is the     *)
(* shell of the console that leaves the screen, and then it is BLOCKED.     *)
KilledStaysKilled ==
  [][\A p \in Pid :
       p < free_pid /\ state[p] = "KILLED" /\ state'[p] # "KILLED" =>
         /\ cur_console' # cur_console
         /\ p = pid_task_shell[cur_console]
         /\ state'[p] = "BLOCKED"]_vars

(* Why the three invariants above are kept: only a switch can take the idle *)
(* task from round_robin, no kill command has it as its target, and nothing *)
(* beyond free_pid is ever chosen; a killed task that has the processor is  *)
(* in the loop of end_task, or is a shell that killed itself.               *)
SchedulerInv ==
  /\ TypeOK
  /\ RunningHasProcessor
  /\ RoundRobinEnds
  /\ QuantumOfCurrentIsFresh
  /\ state[0] # "KILLED"
  /\ \A p \in Pid : p >= free_pid => state[p] = "KILLED" /\ p # pid_cur_task
  /\ \A n \in Consoles : pid_task_shell[n] < free_pid
  /\ \A p \in Pid : pc[p] = "kill" =>
       p \in shells /\ target[p] # 0 /\ target[p] < free_pid
  /\ pid_cur_task # Spinning /\ state[pid_cur_task] = "KILLED"
       => pc[pid_cur_task] = "end" \/ pid_cur_task \in shells

(* Round robin starves nobody: a READY task gets the processor, unless it   *)
(* is killed first, or put to sleep because its console leaves the screen,  *)
(* whatever the other tasks do (scheduler.c, round_robin).                  *)
ReadyTaskRuns ==
  \A p \in Pid : (p < free_pid /\ state[p] = "READY")
                   ~> (pid_cur_task = p \/ state[p] \in {"KILLED", "BLOCKED"})
=============================================================================
