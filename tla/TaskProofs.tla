------------------------------- MODULE TaskProofs -------------------------------
(***************************************************************************)
(* Proofs about tasks.  First the scheduler (module Scheduler), for every  *)
(* size of the process table and every pair of quanta.  Then what tasks    *)
(* sleep on: the semaphore (module Semaphore), for any number of tasks and *)
(* of units, whatever memcmp answers and whoever is killed; the software   *)
(* timers (module Timer) and delay, which is built of them and of the      *)
(* scheduler (module Delay), for any number of timers and tasks, any       *)
(* delays and any width of the tick counter.                               *)
(***************************************************************************)
EXTENDS Semaphore, Delay, SequenceLemmas, FiniteSetTheorems

(* The table st that an interrupt handler leaves to scheduler(): some       *)
(* entries made READY or BLOCKED, perhaps one created, and the rest of the  *)
(* table still of its type.                                                 *)
HandlerResult(st) ==
  /\ st \in [Pid -> State]
  /\ \A p \in Pid : st[p] = state[p] \/ st[p] \in {"READY", "BLOCKED"}
  /\ free_pid' \in free_pid .. TaskBound
  /\ privilege' \in [Pid -> {"SUPERVISOR", "USER"}]
  /\ cur_console' \in Consoles
  /\ pid_task_shell' \in [Consoles -> Pid]
  /\ shells \subseteq shells' /\ shells' \subseteq Pid

(* A handler that wakes sleepers leaves a table scheduler may be given,     *)
LEMMA WokenIsHandlerResult ==
  ASSUME TypeOK, UNCHANGED table, NEW W
  PROVE  HandlerResult(Woken(state, W))
<1>1. free_pid' \in free_pid .. TaskBound
  BY SchedulerAssumption DEF SchedulerAssumption, TypeOK, table
<1> QED
  BY <1>1 DEF TypeOK, table, HandlerResult, Woken, State

(* so does one that changes nothing,                                        *)
LEMMA StateIsHandlerResult ==
  ASSUME TypeOK, UNCHANGED table
  PROVE  HandlerResult(state)
<1>1. free_pid' \in free_pid .. TaskBound
  BY SchedulerAssumption DEF SchedulerAssumption, TypeOK, table
<1> QED
  BY <1>1 DEF TypeOK, table, HandlerResult

(* and so does the handler that switches consoles.                          *)
LEMMA SwitchedIsHandlerResult ==
  ASSUME TypeOK, NEW n \in Consoles, switch_to_console(n)
  PROVE  /\ HandlerResult(Switched(n))
         /\ ShellOf(n) \in Pid /\ pid_task_shell[cur_console] \in Pid
<1>1. free_pid \in 1 .. TaskBound /\ TaskBound \in Nat
  BY SchedulerAssumption DEF SchedulerAssumption, TypeOK
<1>2. ShellOf(n) \in Pid /\ pid_task_shell[cur_console] \in Pid
  BY DEF switch_to_console, ShellOf, TypeOK
<1>3. /\ Switched(n) \in [Pid -> State]
      /\ \A p \in Pid : Switched(n)[p] = state[p] \/ Switched(n)[p] \in {"READY", "BLOCKED"}
  BY <1>2 DEF Switched, TypeOK, State
<1>4. free_pid' \in free_pid .. TaskBound
  <2>1. NeedsShell(n) => free_pid \in Pid
    BY DEF switch_to_console
  <2>2. free_pid' = free_pid \/ (free_pid \in Pid /\ free_pid' = free_pid + 1)
    BY <2>1 DEF switch_to_console
  <2> QED
    BY <1>1, <2>2 DEF Pid
<1>5. /\ privilege' \in [Pid -> {"SUPERVISOR", "USER"}]
      /\ shells \subseteq shells' /\ shells' \subseteq Pid
  BY DEF switch_to_console, TypeOK
<1>6. cur_console' \in Consoles /\ pid_task_shell' \in [Consoles -> Pid]
  BY <1>2 DEF switch_to_console, TypeOK
<1> QED
  BY <1>2, <1>3, <1>4, <1>5, <1>6 DEF HandlerResult

(* The entries round_robin may choose are entries of the table.             *)
LEMMA ReadyIsEntry ==
  ASSUME NEW st, NEW p \in Ready(st)
  PROVE  p \in Pid /\ p # Spinning /\ st[p] = "READY"
BY SchedulerAssumption DEF SchedulerAssumption, Ready, Pid, Spinning

(* The table in which the running task is ready again is a table.           *)
LEMMA PreemptedType ==
  ASSUME TypeOK, pid_cur_task \in Pid, NEW st \in [Pid -> State]
  PROVE  Preempted(st) \in [Pid -> State]
BY DEF Preempted, State

(* scheduler() changes no entry that is BLOCKED or KILLED in the table its  *)
(* handler left.                                                            *)
LEMMA SchedulerLeavesAlone ==
  ASSUME TypeOK, NEW st \in [Pid -> State], NEW active, scheduler(st, active),
         NEW p \in Pid, st[p] \in {"BLOCKED", "KILLED"}
  PROVE  state'[p] = st[p]
<1>1. CASE KeepTask(st, active) \/ CountTick(st, active)
  BY <1>1 DEF KeepTask, CountTick
<1>2. CASE SwitchTask(st, active)
  <2>1. PICK next \in Pid \cup {Spinning} :
          /\ round_robin(Preempted(st), next)
          /\ state' = [Preempted(st) EXCEPT ![next] = "RUNNING"]
    BY <1>2 DEF SwitchTask
  <2>2. Preempted(st)[p] = st[p]
    BY DEF Preempted
  <2>3. next # p
    <3>1. next \in Ready(Preempted(st)) \/ next = Spinning
      BY <2>1 DEF round_robin
    <3> QED
      BY <2>2, <3>1, ReadyIsEntry, SchedulerAssumption
      DEF Pid, Spinning, SchedulerAssumption
  <2>4. Preempted(st) \in [Pid -> State]
    BY PreemptedType DEF scheduler
  <2> QED
    BY <2>1, <2>2, <2>3, <2>4
<1> QED
  BY <1>1, <1>2 DEF scheduler

-----------------------------------------------------------------------------
(* Type correctness.                                                        *)

(* The boot state has its type.                                             *)
LEMMA InitTypeOK == Init => TypeOK
<1> SUFFICES ASSUME Init
             PROVE  TypeOK
  OBVIOUS
<1>1. /\ TaskBound \in Nat \ {0} /\ 0 \in Pid
      /\ N_CONSOLES \in Nat \ {0} /\ 0 \in Consoles
  BY SchedulerAssumption DEF SchedulerAssumption, Pid, Consoles
<1>2. state \in [Pid -> State] /\ pc \in [Pid -> Point]
  BY DEF Init, State, Point
<1>3. quantum \in [Pid -> Nat] /\ target \in [Pid -> Pid]
  BY <1>1 DEF Init
<1>4. privilege \in [Pid -> {"SUPERVISOR", "USER"}]
  BY DEF Init
<1>5. free_pid \in 1 .. TaskBound /\ pid_cur_task \in Pid
  BY <1>1 DEF Init
<1>6. cur_console \in Consoles /\ pid_task_shell \in [Consoles -> Pid]
  BY <1>1 DEF Init
<1> QED
  BY <1>2, <1>3, <1>4, <1>5, <1>6 DEF Init, TypeOK

(* The table and the task that scheduler leaves have their types.           *)
LEMMA SchedulerTypeOK ==
  ASSUME TypeOK, NEW st, HandlerResult(st), NEW active \in BOOLEAN,
         scheduler(st, active)
  PROVE  TypeOK'
<1> USE SchedulerAssumption DEF SchedulerAssumption
<1>1. st \in [Pid -> State] /\ pid_cur_task \in Pid
  BY DEF HandlerResult, scheduler
<1>2. /\ privilege' \in [Pid -> {"SUPERVISOR", "USER"}]
      /\ free_pid' \in 1 .. TaskBound
      /\ cur_console' \in Consoles /\ pid_task_shell' \in [Consoles -> Pid]
      /\ pc' \in [Pid -> Point] /\ target' \in [Pid -> Pid]
      /\ shells' \subseteq Pid
  BY DEF scheduler, HandlerResult, TypeOK
<1>3. CASE KeepTask(st, active)
  BY <1>1, <1>2, <1>3 DEF KeepTask, TypeOK
<1>4. CASE CountTick(st, active)
  <2>1. quantum' \in [Pid -> Nat]
    BY <1>1, <1>4 DEF CountTick, TypeOK
  <2> QED
    BY <1>1, <1>2, <1>4, <2>1 DEF CountTick, TypeOK
<1>5. CASE SwitchTask(st, active)
  <2>1. PICK next \in Pid \cup {Spinning} :
          /\ round_robin(Preempted(st), next)
          /\ pid_cur_task' = next
          /\ quantum' = [quantum EXCEPT ![pid_cur_task] = UINT_MAX,
                                        ![next] = set_quantum(next)]
          /\ state' = [Preempted(st) EXCEPT ![next] = "RUNNING"]
          /\ scheduler_active' = (next = Spinning)
    BY <1>5 DEF SwitchTask
  <2>2. set_quantum(next) \in Nat
    BY DEF set_quantum
  <2>3. quantum' \in [Pid -> Nat]
    BY <2>1, <2>2 DEF TypeOK
  <2>4. state' \in [Pid -> State]
    BY <1>1, <2>1, PreemptedType DEF State
  <2>5. scheduler_active' \in BOOLEAN
    BY <2>1
  <2> QED
    BY <1>2, <2>1, <2>3, <2>4, <2>5 DEF TypeOK
<1> QED
  BY <1>3, <1>4, <1>5 DEF scheduler

(* Whatever the interrupt, its handler leaves a table for scheduler().      *)
LEMMA IrqCallsScheduler ==
  ASSUME TypeOK, timer_irq \/ other_irq
  PROVE  \E st : \E active \in BOOLEAN :
           HandlerResult(st) /\ scheduler(st, active)
<1>1. CASE timer_irq
  <2>1. PICK W : UNCHANGED table /\ scheduler(Woken(state, W), TRUE)
    BY <1>1 DEF timer_irq
  <2> QED
    BY <2>1, WokenIsHandlerResult
<1>2. CASE UNCHANGED table /\ scheduler(state, scheduler_active)
  BY <1>2, StateIsHandlerResult DEF TypeOK
<1>3. ASSUME NEW n \in Consoles, switch_to_console(n)
      PROVE  HandlerResult(Switched(n)) /\ scheduler(Switched(n), TRUE)
  BY <1>3, SwitchedIsHandlerResult DEF switch_to_console
<1> QED
  BY <1>1, <1>2, <1>3 DEF other_irq

(* Every step keeps the type.                                               *)
LEMMA NextTypeOK == TypeOK /\ [Next]_vars => TypeOK'
<1> SUFFICES ASSUME TypeOK, [Next]_vars
             PROVE  TypeOK'
  OBVIOUS
<1> USE SchedulerAssumption DEF SchedulerAssumption
<1>1. CASE timer_irq \/ other_irq
  BY <1>1, IrqCallsScheduler, SchedulerTypeOK
<1>2. ASSUME NEW p \in Pid, NEW priv \in {"SUPERVISOR", "USER"},
             create_task(p, priv)
      PROVE  TypeOK'
  <2>1. free_pid \in Pid /\ free_pid' = free_pid + 1
    BY <1>2 DEF create_task
  <2>2. free_pid' \in 1 .. TaskBound
    BY <1>2, <2>1 DEF TypeOK, Pid
  <2>3. state' \in [Pid -> State] /\ pc' \in [Pid -> Point]
    BY <1>2 DEF create_task, GoesTo, TypeOK, State, Point
  <2>4. quantum' \in [Pid -> Nat] /\ shells' \subseteq Pid
    BY <1>2, <2>1 DEF create_task, TypeOK
  <2>5. privilege' \in [Pid -> {"SUPERVISOR", "USER"}]
    BY <1>2 DEF create_task, TypeOK
  <2> QED
    BY <1>2, <2>2, <2>3, <2>4, <2>5 DEF create_task, TypeOK
<1>3. ASSUME NEW p \in Pid, create_task_return(p)
      PROVE  TypeOK'
  <2>1. CreatedPid \in Pid
    BY DEF CreatedPid, TypeOK, Pid
  <2> QED
    BY <1>3, <2>1 DEF create_task_return, GoesTo, TypeOK, Point
<1>4. ASSUME NEW p \in Pid, sleep_task(p)
      PROVE  TypeOK'
  BY <1>4 DEF sleep_task, GoesTo, table, TypeOK, State, Point
<1>5. ASSUME NEW p \in Pid, sleep_task_return(p)
      PROVE  TypeOK'
  BY <1>5 DEF sleep_task_return, GoesTo, table, TypeOK, Point
<1>6. ASSUME NEW p \in Pid, NEW q \in Pid, wakeup_task(p, q)
      PROVE  TypeOK'
  BY <1>6 DEF wakeup_task, Woken, table, TypeOK, State
<1>7. ASSUME NEW p \in Pid, end_task(p)
      PROVE  TypeOK'
  BY <1>7 DEF end_task, GoesTo, table, TypeOK, State, Point
<1>8. ASSUME NEW p \in Pid, NEW q \in Pid, kill_check(p, q)
      PROVE  TypeOK'
  BY <1>8 DEF kill_check, GoesTo, table, TypeOK, Point
<1>9. ASSUME NEW p \in Pid, kill_process(p)
      PROVE  TypeOK'
  <2>1. 0 \in Pid
    BY DEF Pid
  <2> QED
    BY <1>9, <2>1 DEF kill_process, GoesTo, table, TypeOK, State, Point
<1>10. CASE UNCHANGED vars
  BY <1>10 DEF vars, table, TypeOK
<1> QED
  BY <1>1, <1>2, <1>3, <1>4, <1>5, <1>6, <1>7, <1>8, <1>9, <1>10 DEF Next

(* Every variable keeps its type.                                           *)
THEOREM TypeCorrect == Spec => []TypeOK
BY InitTypeOK, NextTypeOK, PTL DEF Spec
-----------------------------------------------------------------------------
(* Safety.                                                                  *)

(* The boot state satisfies the invariant.                                  *)
LEMMA InitInv == Init => SchedulerInv
<1> SUFFICES ASSUME Init
             PROVE  SchedulerInv
  OBVIOUS
<1>1. TaskBound \in Nat \ {0} /\ 0 \in Pid
  BY SchedulerAssumption DEF SchedulerAssumption, Pid
<1>2. TypeOK
  BY InitTypeOK
<1>3. /\ state[0] = "READY" /\ \A p \in Pid : state[p] # "RUNNING"
      /\ \A p \in Pid : p >= free_pid => state[p] = "KILLED" /\ p # pid_cur_task
  BY <1>1 DEF Init
<1>4. RoundRobinEnds
  BY <1>1 DEF Init, RoundRobinEnds, Spinning
<1>5. QuantumOfCurrentIsFresh
  BY <1>1, SchedulerAssumption
  DEF Init, QuantumOfCurrentIsFresh, SchedulerAssumption
<1>6. /\ \A n \in Consoles : pid_task_shell[n] < free_pid
      /\ \A p \in Pid : pc[p] # "kill"
  BY DEF Init
<1> QED
  BY <1>2, <1>3, <1>4, <1>5, <1>6
  DEF SchedulerInv, RunningHasProcessor, Init

(* Entry 0 and the entry after the last one created are not the same.       *)
LEMMA Entries ==
  ASSUME SchedulerInv
  PROVE  /\ TaskBound \in Nat \ {0} /\ free_pid \in 1 .. TaskBound
         /\ 0 \in Pid /\ Pid \subseteq Nat /\ Spinning \notin Pid
         /\ pid_cur_task \in Pid => pid_cur_task < free_pid /\ pid_cur_task # Spinning
         /\ pid_cur_task # Spinning => pid_cur_task \in Pid
<1>1. /\ TaskBound \in Nat \ {0} /\ free_pid \in 1 .. TaskBound
      /\ pid_cur_task \in Pid \cup {Spinning}
  BY SchedulerAssumption DEF SchedulerAssumption, SchedulerInv, TypeOK
<1>2. 0 \in Pid /\ Pid \subseteq Nat /\ Spinning \notin Pid
  BY <1>1 DEF Pid, Spinning
<1>3. pid_cur_task \in Pid => pid_cur_task < free_pid
  <2>1. \A p \in Pid : p >= free_pid => p # pid_cur_task
    BY DEF SchedulerInv
  <2> QED
    BY <1>1, <1>2, <2>1
<1> QED
  BY <1>1, <1>2, <1>3

(* round_robin fails only if the handler left the idle task BLOCKED.        *)
LEMMA RoundRobinFinds ==
  ASSUME SchedulerInv, NEW st, HandlerResult(st), pid_cur_task \in Pid,
         NEW next, round_robin(Preempted(st), next)
  PROVE  \/ next \in Ready(Preempted(st))
         \/ next = Spinning /\ Preempted(st)[0] = "BLOCKED"
<1>1. 0 \in Pid
  BY Entries
<1>2. st \in [Pid -> State] /\ st[0] # "KILLED"
  BY <1>1 DEF HandlerResult, SchedulerInv
<1>3. st[0] = "RUNNING" => pid_cur_task = 0
  BY <1>1 DEF HandlerResult, SchedulerInv, RunningHasProcessor
<1>4. Preempted(st)[0] \in {"READY", "BLOCKED"}
  BY <1>1, <1>2, <1>3 DEF Preempted, State
<1>5. Preempted(st)[0] = "READY" => 0 \in Ready(Preempted(st))
  BY <1>1 DEF Ready
<1> QED
  BY <1>4, <1>5 DEF round_robin

(* scheduler keeps the invariant, if the handler gave it an entry for every *)
(* pid below free_pid only, and left the consoles shells that exist.        *)
LEMMA SchedulerKeepsInv ==
  ASSUME SchedulerInv, NEW st, HandlerResult(st), NEW active \in BOOLEAN,
         scheduler(st, active),
         \A p \in Pid : p >= free_pid' => st[p] = "KILLED",
         \A n \in Consoles : pid_task_shell'[n] < free_pid'
  PROVE  SchedulerInv'
<1> USE Entries
<1>1. TypeOK /\ TypeOK' /\ pid_cur_task \in Pid
  BY SchedulerTypeOK DEF SchedulerInv, scheduler
<1>2. UNCHANGED <<pc, target>> /\ free_pid \in Nat /\ free_pid' \in Nat /\ free_pid <= free_pid'
  BY <1>1 DEF scheduler, HandlerResult, TypeOK
<1>3. \A p \in Pid : pc'[p] = "kill" =>
             p \in shells' /\ target'[p] # 0 /\ target'[p] < free_pid'
  <2>1. ASSUME NEW p \in Pid, pc[p] = "kill"
        PROVE  p \in shells' /\ target[p] # 0 /\ target[p] < free_pid'
    <3>1. /\ target[p] \in Nat /\ target[p] < free_pid /\ target[p] # 0
          /\ p \in shells /\ shells \subseteq shells'
      BY <1>1, <2>1 DEF SchedulerInv, TypeOK, HandlerResult
    <3> QED
      BY <1>2, <3>1
  <2> QED
    BY <1>2, <2>1
<1>4. CASE KeepTask(st, active) \/ CountTick(st, active)
  <2>1. state' = st /\ pid_cur_task' = pid_cur_task
    BY <1>4 DEF KeepTask, CountTick
  <2>2. RunningHasProcessor'
    BY <2>1 DEF RunningHasProcessor, SchedulerInv, HandlerResult
  <2>3. state'[0] # "KILLED"
    BY <2>1 DEF SchedulerInv, HandlerResult
  <2>4. (pid_cur_task # Spinning /\ state[pid_cur_task] = "KILLED"
           => pc[pid_cur_task] = "end" \/ pid_cur_task \in shells)'
    BY <1>1, <1>2, <2>1 DEF SchedulerInv, HandlerResult
  <2>5. QuantumOfCurrentIsFresh'
    <3>1. quantum'[pid_cur_task] <= quantum[pid_cur_task]
      BY <1>1, <1>4 DEF KeepTask, CountTick, TypeOK
    <3>2. quantum'[pid_cur_task] \in Nat /\ quantum[pid_cur_task] \in Nat
      BY <1>1 DEF TypeOK
    <3>3. \/ quantum[pid_cur_task] <= SUPERVISOR_QUANTUM
          \/ quantum[pid_cur_task] <= USER_QUANTUM
      BY <1>1 DEF SchedulerInv, QuantumOfCurrentIsFresh
    <3> QED
      BY <2>1, <3>1, <3>2, <3>3, SchedulerAssumption
      DEF QuantumOfCurrentIsFresh, SchedulerAssumption
  <2>6. RoundRobinEnds'
    BY <1>1, <2>1 DEF RoundRobinEnds
  <2>7. \A p \in Pid : p >= free_pid' => state'[p] = "KILLED" /\ p # pid_cur_task'
    BY <1>1, <1>2, <2>1
  <2> QED
    BY <1>1, <1>3, <2>2, <2>3, <2>4, <2>5, <2>6, <2>7 DEF SchedulerInv
<1>5. CASE SwitchTask(st, active)
  <2>1. PICK next \in Pid \cup {Spinning} :
          /\ round_robin(Preempted(st), next)
          /\ pid_cur_task' = next
          /\ quantum' = [quantum EXCEPT ![pid_cur_task] = UINT_MAX,
                                        ![next] = set_quantum(next)]
          /\ state' = [Preempted(st) EXCEPT ![next] = "RUNNING"]
    BY <1>5 DEF SwitchTask
  <2>2. st \in [Pid -> State] /\ Preempted(st) \in [Pid -> State]
    BY <1>1, PreemptedType DEF HandlerResult
  <2>3. \A p \in Pid : Preempted(st)[p] # "RUNNING"
    BY <2>2 DEF Preempted, HandlerResult, SchedulerInv, RunningHasProcessor
  <2>4. /\ \A p \in Pid : st[p] = "KILLED" => Preempted(st)[p] = "KILLED"
        /\ Preempted(st)[0] # "KILLED"
    BY <2>2 DEF Preempted, HandlerResult, SchedulerInv
  <2>5. RunningHasProcessor' /\ state'[0] # "KILLED"
    BY <2>1, <2>2, <2>3, <2>4 DEF RunningHasProcessor
  <2>6. \/ next \in Ready(Preempted(st))
        \/ next = Spinning /\ Preempted(st)[0] = "BLOCKED"
    BY <1>1, <2>1, RoundRobinFinds
  <2>7. CASE next = Spinning /\ Preempted(st)[0] = "BLOCKED"
    <3>1. state' = Preempted(st)
      BY <2>1, <2>2, <2>7
    <3>2. RoundRobinEnds' /\ QuantumOfCurrentIsFresh'
      BY <2>1, <2>7, <3>1 DEF RoundRobinEnds, QuantumOfCurrentIsFresh, Spinning
    <3>3. \A p \in Pid : p >= free_pid' => state'[p] = "KILLED" /\ p # pid_cur_task'
      BY <2>1, <2>4, <2>7, <3>1
    <3> QED
      BY <1>1, <1>3, <2>1, <2>5, <2>7, <3>2, <3>3 DEF SchedulerInv, Spinning
  <2>8. CASE next \in Ready(Preempted(st))
    <3>1. next \in Pid /\ next # Spinning /\ Preempted(st)[next] = "READY"
      BY <2>8, ReadyIsEntry
    <3>2. state'[next] = "RUNNING" /\ ~(next >= free_pid')
      BY <2>1, <2>2, <2>4, <3>1
    <3>3. QuantumOfCurrentIsFresh'
      <4>1. quantum'[next] = set_quantum(next)
        BY <1>1, <2>1, <3>1 DEF TypeOK
      <4>2. set_quantum(next) \in {SUPERVISOR_QUANTUM, USER_QUANTUM}
        BY DEF set_quantum
      <4> QED
        BY <2>1, <4>1, <4>2, SchedulerAssumption
        DEF QuantumOfCurrentIsFresh, SchedulerAssumption
    <3>4. \A p \in Pid : p >= free_pid' => state'[p] = "KILLED" /\ p # pid_cur_task'
      BY <2>1, <2>2, <2>4, <3>2
    <3>5. RoundRobinEnds'
      BY <2>1, <3>1 DEF RoundRobinEnds, Spinning
    <3> QED
      BY <1>1, <1>3, <2>1, <2>5, <3>2, <3>3, <3>4, <3>5 DEF SchedulerInv
  <2> QED
    BY <2>6, <2>7, <2>8
<1> QED
  BY <1>4, <1>5 DEF scheduler

(* A switch leaves no entry beyond free_pid alive, and no other killed task.*)
LEMMA SwitchedTable ==
  ASSUME SchedulerInv, NEW n \in Consoles, switch_to_console(n)
  PROVE  /\ \A p \in Pid : p >= free_pid' => Switched(n)[p] = "KILLED"
         /\ \A m \in Consoles : pid_task_shell'[m] < free_pid'
         /\ \A p \in Pid :
              p < free_pid /\ state[p] = "KILLED" /\ p # pid_task_shell[cur_console]
                => Switched(n)[p] = "KILLED"
<1> DEFINE old == pid_task_shell[cur_console]
<1>1. /\ TypeOK /\ ShellOf(n) \in Pid /\ old \in Pid /\ old < free_pid
      /\ free_pid \in Nat /\ Pid \subseteq Nat
      /\ \A m \in Consoles : pid_task_shell[m] \in Nat /\ pid_task_shell[m] < free_pid
  BY SwitchedIsHandlerResult, Entries DEF SchedulerInv, TypeOK
<1>2. /\ ShellOf(n) < free_pid' /\ free_pid <= free_pid' /\ free_pid' \in Nat
      /\ ShellOf(n) < free_pid => state[ShellOf(n)] # "KILLED"
  <2>1. CASE NeedsShell(n)
    BY <1>1, <2>1 DEF switch_to_console, ShellOf
  <2>2. CASE ~NeedsShell(n)
    BY <1>1, <2>2 DEF switch_to_console, ShellOf, NeedsShell
  <2> QED
    BY <2>1, <2>2
<1>3. ASSUME NEW p \in Pid, p # ShellOf(n), p # old
      PROVE  Switched(n)[p] = state[p]
  BY <1>1, <1>3 DEF Switched, TypeOK
<1>4. ASSUME NEW p \in Pid, p >= free_pid' PROVE Switched(n)[p] = "KILLED"
  <2>1. p # ShellOf(n) /\ p # old /\ p >= free_pid
    BY <1>1, <1>2, <1>4
  <2> QED
    BY <1>3, <2>1 DEF SchedulerInv
<1>5. ASSUME NEW m \in Consoles PROVE pid_task_shell'[m] < free_pid'
  <2>1. pid_task_shell'[m] \in {pid_task_shell[m], ShellOf(n)}
    BY <1>1 DEF switch_to_console, TypeOK
  <2> QED
    BY <1>1, <1>2, <2>1
<1>6. ASSUME NEW p \in Pid, p < free_pid, state[p] = "KILLED", p # old
      PROVE  Switched(n)[p] = "KILLED"
  <2>1. p # ShellOf(n)
    BY <1>2, <1>6
  <2> QED
    BY <1>3, <1>6, <2>1
<1> QED
  BY <1>4, <1>5, <1>6

(* Every interrupt keeps the invariant, and the killed tasks killed but for *)
(* the one a switch blocks.                                                 *)
LEMMA IrqKeepsInv ==
  ASSUME SchedulerInv, timer_irq \/ other_irq
  PROVE  /\ SchedulerInv'
         /\ \A p \in Pid :
              p < free_pid /\ state[p] = "KILLED" /\ state'[p] # "KILLED" =>
                /\ cur_console' # cur_console
                /\ p = pid_task_shell[cur_console]
                /\ state'[p] = "BLOCKED"
<1>1. TypeOK /\ state \in [Pid -> State]
  BY DEF SchedulerInv, TypeOK
<1>2. ASSUME UNCHANGED table, NEW st, HandlerResult(st), NEW active \in BOOLEAN,
             scheduler(st, active), \A p \in Pid : state[p] = "KILLED" => st[p] = "KILLED"
      PROVE  /\ SchedulerInv'
             /\ \A p \in Pid : state[p] = "KILLED" => state'[p] = "KILLED"
  <2>1. /\ \A p \in Pid : p >= free_pid' => st[p] = "KILLED"
        /\ \A n \in Consoles : pid_task_shell'[n] < free_pid'
    BY <1>2 DEF SchedulerInv, table
  <2>2. st \in [Pid -> State]
    BY <1>2 DEF HandlerResult
  <2> QED
    BY <1>1, <1>2, <2>1, <2>2, SchedulerKeepsInv, SchedulerLeavesAlone
<1>3. CASE timer_irq
  <2>1. PICK W : UNCHANGED table /\ scheduler(Woken(state, W), TRUE)
    BY <1>3 DEF timer_irq
  <2>2. HandlerResult(Woken(state, W))
    BY <1>1, <2>1, WokenIsHandlerResult
  <2>3. \A p \in Pid : state[p] = "KILLED" => Woken(state, W)[p] = "KILLED"
    BY DEF Woken
  <2> QED
    BY <1>2, <2>1, <2>2, <2>3
<1>4. CASE UNCHANGED table /\ scheduler(state, scheduler_active)
  <2>1. HandlerResult(state) /\ scheduler_active \in BOOLEAN
    BY <1>1, <1>4, StateIsHandlerResult DEF TypeOK
  <2> QED
    BY <1>2, <1>4, <2>1
<1>5. ASSUME NEW n \in Consoles \ {cur_console}, switch_to_console(n)
      PROVE  /\ SchedulerInv'
             /\ \A p \in Pid :
                  p < free_pid /\ state[p] = "KILLED" /\ state'[p] # "KILLED" =>
                    /\ cur_console' # cur_console
                    /\ p = pid_task_shell[cur_console]
                    /\ state'[p] = "BLOCKED"
  <2>1. HandlerResult(Switched(n)) /\ pid_task_shell[cur_console] \in Pid
    BY <1>1, <1>5, SwitchedIsHandlerResult
  <2>2. scheduler(Switched(n), TRUE) /\ cur_console' = n
    BY <1>5 DEF switch_to_console
  <2>3. Switched(n) \in [Pid -> State] /\ Switched(n)[pid_task_shell[cur_console]] = "BLOCKED"
    BY <1>1, <2>1 DEF HandlerResult, Switched
  <2>4. SchedulerInv'
    BY <1>5, <2>1, <2>2, SwitchedTable, SchedulerKeepsInv
  <2>5. ASSUME NEW p \in Pid, p < free_pid, state[p] = "KILLED", state'[p] # "KILLED"
        PROVE  p = pid_task_shell[cur_console] /\ state'[p] = "BLOCKED"
    <3>1. p = pid_task_shell[cur_console]
      BY <1>1, <1>5, <2>2, <2>3, <2>5, SwitchedTable, SchedulerLeavesAlone
    <3> QED
      BY <1>1, <2>2, <2>3, <3>1, SchedulerLeavesAlone
  <2> QED
    BY <1>5, <2>2, <2>4, <2>5
<1> QED
  BY <1>3, <1>4, <1>5 DEF other_irq

(* A task that is not a shell is alive whenever it executes its own code.   *)
LEMMA ProgramLives ==
  ASSUME SchedulerInv, NEW p \in Pid, pid_cur_task = p, pc[p] # "end", p \notin shells
  PROVE  state[p] # "KILLED"
BY Entries DEF SchedulerInv

(* Every step keeps the invariant.                                          *)
LEMMA NextInv == SchedulerInv /\ [Next]_vars => SchedulerInv'
<1> SUFFICES ASSUME SchedulerInv, [Next]_vars
             PROVE  SchedulerInv'
  OBVIOUS
<1> USE Entries
<1>1. TypeOK /\ TypeOK'
  BY NextTypeOK DEF SchedulerInv
<1>2. CASE timer_irq \/ other_irq
  BY <1>2, IrqKeepsInv
<1>3. ASSUME NEW p \in Pid, NEW priv \in {"SUPERVISOR", "USER"},
             create_task(p, priv)
      PROVE  SchedulerInv'
  <2>1. /\ free_pid # pid_cur_task /\ free_pid # 0 /\ free_pid \in Pid
        /\ pid_cur_task = p /\ pc[p] \in {"start", "run"}
        /\ pc' = [pc EXCEPT ![p] = "create"] /\ target' = target
        /\ pid_task_shell' = pid_task_shell
        /\ shells \subseteq shells' /\ free_pid' = free_pid + 1
    BY <1>3 DEF create_task, Executes, GoesTo
  <2>2. /\ state'[0] = state[0]
        /\ state'[pid_cur_task] = state[pid_cur_task]
        /\ quantum'[pid_cur_task] = quantum[pid_cur_task]
        /\ pid_cur_task' = pid_cur_task
    BY <1>1, <1>3, <2>1 DEF create_task, TypeOK
  <2>3. RunningHasProcessor'
    BY <1>1, <1>3, <2>1
    DEF create_task, RunningHasProcessor, SchedulerInv, TypeOK
  <2>4. \A q \in Pid : q >= free_pid' => state'[q] = "KILLED" /\ q # pid_cur_task'
    <3>1. \A q \in Pid : q >= free_pid' => q >= free_pid /\ q # free_pid
      BY <2>1
    <3>2. \A q \in Pid : q # free_pid => state'[q] = state[q]
      BY <1>1, <1>3 DEF create_task, TypeOK
    <3>3. \A q \in Pid : q >= free_pid => state[q] = "KILLED" /\ q # pid_cur_task
      BY DEF SchedulerInv
    <3>4. ASSUME NEW q \in Pid, q >= free_pid'
          PROVE  state'[q] = "KILLED" /\ q # pid_cur_task
      BY <3>1, <3>2, <3>3, <3>4
    <3> QED
      BY <2>2, <3>4
  <2>5. \A n \in Consoles : pid_task_shell'[n] < free_pid'
    <3>1. ASSUME NEW n \in Consoles
          PROVE  pid_task_shell[n] < free_pid /\ pid_task_shell[n] \in Nat
      BY <1>1 DEF SchedulerInv, TypeOK, Pid
    <3> QED
      BY <2>1, <3>1
  <2>6. \A q \in Pid : pc'[q] = "kill" =>
             q \in shells' /\ target'[q] # 0 /\ target'[q] < free_pid'
    <3>1. ASSUME NEW q \in Pid, pc'[q] = "kill"
          PROVE  /\ target[q] # 0 /\ target[q] < free_pid /\ target[q] \in Nat
                 /\ q \in shells
      BY <1>1, <2>1, <3>1 DEF SchedulerInv, TypeOK
    <3> QED
      BY <2>1, <3>1
  <2>7. RoundRobinEnds' /\ QuantumOfCurrentIsFresh'
    BY <2>2 DEF SchedulerInv, RoundRobinEnds, QuantumOfCurrentIsFresh
  <2>8. pid_cur_task' # Spinning /\ state'[pid_cur_task'] = "KILLED"
          => pc'[pid_cur_task'] = "end" \/ pid_cur_task' \in shells'
    BY <2>1, <2>2 DEF SchedulerInv
  <2> QED
    BY <1>1, <2>2, <2>3, <2>4, <2>5, <2>6, <2>7, <2>8 DEF SchedulerInv
<1>4. ASSUME NEW p \in Pid,
             create_task_return(p) \/ sleep_task_return(p) \/ \E q \in Pid : kill_check(p, q)
      PROVE  SchedulerInv'
  <2>1. /\ UNCHANGED <<state, quantum, pid_cur_task, free_pid, shells>>
        /\ pid_cur_task = p /\ pc[p] # "end"
        /\ \E point : pc' = [pc EXCEPT ![p] = point]
    BY <1>4 DEF create_task_return, sleep_task_return, kill_check, Executes, GoesTo, table
  <2>2. \A n \in Consoles : pid_task_shell'[n] < free_pid'
    <3>1. CreatedPid < free_pid
      BY DEF CreatedPid
    <3>2. \A n \in Consoles : pid_task_shell'[n] \in {pid_task_shell[n], CreatedPid}
      BY <1>1, <1>4 DEF create_task_return, sleep_task_return, kill_check, table, TypeOK
    <3> QED
      BY <2>1, <3>1, <3>2 DEF SchedulerInv
  <2>3. \A q \in Pid : pc'[q] = "kill" =>
             q \in shells' /\ target'[q] # 0 /\ target'[q] < free_pid'
    <3>1. CASE create_task_return(p) \/ sleep_task_return(p)
      BY <1>1, <2>1, <3>1
      DEF create_task_return, sleep_task_return, GoesTo, SchedulerInv, TypeOK
    <3>2. ASSUME NEW q \in Pid, kill_check(p, q)
          PROVE  \A r \in Pid : pc'[r] = "kill" =>
                   r \in shells' /\ target'[r] # 0 /\ target'[r] < free_pid'
      <4>1. q # 0 /\ q < free_pid /\ p \in shells
        BY <3>2 DEF kill_check, Killable, SchedulerInv
      <4> QED
        BY <1>1, <2>1, <3>2, <4>1 DEF kill_check, GoesTo, SchedulerInv, TypeOK
    <3> QED
      BY <1>4, <3>1, <3>2
  <2>4. RunningHasProcessor' /\ RoundRobinEnds' /\ QuantumOfCurrentIsFresh'
    BY <2>1 DEF SchedulerInv, RunningHasProcessor, RoundRobinEnds, QuantumOfCurrentIsFresh
  <2>5. state'[pid_cur_task'] = "KILLED" => pid_cur_task' \in shells'
    BY <2>1 DEF SchedulerInv
  <2> QED
    BY <1>1, <2>1, <2>2, <2>3, <2>4, <2>5 DEF SchedulerInv
<1>5. ASSUME NEW p \in Pid, NEW s \in State \ {"RUNNING"},
             p # 0, pid_cur_task = p, p < free_pid,
             state' = [state EXCEPT ![p] = s],
             s = "KILLED" => pc'[p] = "end" \/ p \in shells,
             UNCHANGED <<quantum, pid_cur_task, table, target>>,
             pc[p] # "kill" /\ \E point \in Point \ {"kill"} : pc' = [pc EXCEPT ![p] = point]
      PROVE  SchedulerInv'
  <2>1. /\ state'[p] = s /\ \A q \in Pid : q # p => state'[q] = state[q]
        /\ \A q \in Pid : pc'[q] = "kill" => pc[q] = "kill"
        /\ UNCHANGED <<free_pid, pid_task_shell, shells>>
    BY <1>1, <1>5 DEF TypeOK, table
  <2>2. RunningHasProcessor' /\ RoundRobinEnds' /\ QuantumOfCurrentIsFresh'
    BY <1>5, <2>1
    DEF SchedulerInv, RunningHasProcessor, RoundRobinEnds, QuantumOfCurrentIsFresh
  <2> QED
    BY <1>1, <1>5, <2>1, <2>2 DEF SchedulerInv
<1>6. ASSUME NEW p \in Pid, sleep_task(p) \/ end_task(p)
      PROVE  SchedulerInv'
  <2>1. p # 0 /\ pid_cur_task = p /\ p < free_pid /\ pc[p] = "run"
    BY <1>6 DEF sleep_task, end_task, IsProgram, Executes
  <2>2. CASE sleep_task(p)
    BY <1>1, <1>5, <2>1, <2>2 DEF sleep_task, GoesTo, State, Point
  <2>3. CASE end_task(p)
    <3>1. pc'[p] = "end"
      BY <1>1, <2>3 DEF end_task, GoesTo, TypeOK
    <3> QED
      BY <1>5, <2>1, <2>3, <3>1 DEF end_task, GoesTo, State, Point
  <2> QED
    BY <1>6, <2>2, <2>3
<1>7. ASSUME NEW p \in Pid, NEW q \in Pid, wakeup_task(p, q)
      PROVE  SchedulerInv'
  <2>1. /\ state' = Woken(state, {q}) /\ UNCHANGED <<quantum, pid_cur_task, pc, target, table>>
        /\ \A r \in Pid : state'[r] = state[r] \/ (state[r] = "BLOCKED" /\ r = q /\ state'[r] = "READY")
        /\ q # 0 /\ pid_cur_task = p
    BY <1>7 DEF wakeup_task, Woken, IsProgram, Executes
  <2>2. UNCHANGED <<free_pid, pid_task_shell, shells>>
    BY <2>1 DEF table
  <2>3. RunningHasProcessor' /\ RoundRobinEnds' /\ QuantumOfCurrentIsFresh'
    BY <2>1 DEF SchedulerInv, RunningHasProcessor, RoundRobinEnds, QuantumOfCurrentIsFresh
  <2> QED
    BY <1>1, <2>1, <2>2, <2>3 DEF SchedulerInv
<1>8. ASSUME NEW p \in Pid, kill_process(p)
      PROVE  SchedulerInv'
  <2> DEFINE q == target[p]
  <2>1. /\ pid_cur_task = p /\ pc[p] = "kill" /\ q \in Pid /\ q # 0 /\ q < free_pid
    BY <1>1, <1>8 DEF kill_process, Executes, SchedulerInv, TypeOK
  <2>2. /\ state' = [state EXCEPT ![q] = "KILLED"]
        /\ target' = [target EXCEPT ![p] = 0] /\ pc' = [pc EXCEPT ![p] = "run"]
        /\ UNCHANGED <<quantum, pid_cur_task, free_pid, pid_task_shell, shells>>
    BY <1>8 DEF kill_process, GoesTo, table
  <2> HIDE DEF q
  <2>3. /\ state'[q] = "KILLED" /\ \A r \in Pid : r # q => state'[r] = state[r]
        /\ \A r \in Pid : pc'[r] = "kill" => pc[r] = "kill" /\ target'[r] = target[r]
    BY <1>1, <2>1, <2>2 DEF TypeOK
  <2>4. RunningHasProcessor' /\ RoundRobinEnds' /\ QuantumOfCurrentIsFresh'
    BY <2>1, <2>2, <2>3
    DEF SchedulerInv, RunningHasProcessor, RoundRobinEnds, QuantumOfCurrentIsFresh
  <2>5. p \in shells
    BY <2>1 DEF SchedulerInv
  <2> QED
    BY <1>1, <2>1, <2>2, <2>3, <2>4, <2>5 DEF SchedulerInv
<1>9. CASE UNCHANGED vars
  BY <1>1, <1>9
  DEF vars, table, SchedulerInv, RoundRobinEnds, QuantumOfCurrentIsFresh,
      RunningHasProcessor, Spinning
<1> QED
  BY <1>2, <1>3, <1>4, <1>6, <1>7, <1>8, <1>9 DEF Next

(* The invariant holds in every behaviour.                                  *)
LEMMA InvHolds == Spec => []SchedulerInv
BY InitInv, NextInv, PTL DEF Spec

(* At most one task is RUNNING, and it is the one that has the processor.   *)
THEOREM RunningIsCurrent == Spec => []RunningHasProcessor
<1>1. SchedulerInv => RunningHasProcessor
  BY DEF SchedulerInv
<1> QED
  BY <1>1, InvHolds, PTL

(* The search of round_robin ends at every switch of every behaviour in     *)
(* which no key blocked the idle task while main was starting the first     *)
(* shell (scheduler.c:143, console.c:169).                                  *)
THEOREM RoundRobinAlwaysEnds == Spec => []RoundRobinEnds
<1>1. SchedulerInv => RoundRobinEnds
  BY DEF SchedulerInv
<1> QED
  BY <1>1, InvHolds, PTL

(* No task ever runs on the wrapped counter of an expired quantum.          *)
THEOREM QuantumFresh == Spec => []QuantumOfCurrentIsFresh
<1>1. SchedulerInv => QuantumOfCurrentIsFresh
  BY DEF SchedulerInv
<1> QED
  BY <1>1, InvHolds, PTL

(* A killed task is never given another state but by the switch that takes  *)
(* its console from the screen, and then it is BLOCKED (console.c:169).     *)
THEOREM KilledForEver == Spec => KilledStaysKilled
<1> DEFINE Stays == \A p \in Pid :
                      p < free_pid /\ state[p] = "KILLED" /\ state'[p] # "KILLED" =>
                        /\ cur_console' # cur_console
                        /\ p = pid_task_shell[cur_console]
                        /\ state'[p] = "BLOCKED"
<1>1. SchedulerInv /\ [Next]_vars => [Stays]_vars
  <2> SUFFICES ASSUME SchedulerInv, Next
               PROVE  Stays
    OBVIOUS
  <2>1. TypeOK
    BY DEF SchedulerInv
  <2>2. CASE timer_irq \/ other_irq
    BY <2>2, IrqKeepsInv
  <2>3. ASSUME NEW p \in Pid, NEW priv \in {"SUPERVISOR", "USER"},
               create_task(p, priv)
        PROVE  Stays
    BY <2>1, <2>3, Entries DEF create_task, TypeOK
  <2>4. ASSUME NEW p \in Pid,
               create_task_return(p) \/ sleep_task_return(p) \/ \E q \in Pid : kill_check(p, q)
        PROVE  Stays
    BY <2>4 DEF create_task_return, sleep_task_return, kill_check
  <2>5. ASSUME NEW p \in Pid, sleep_task(p)
        PROVE  Stays
    <3>1. state[p] # "KILLED"
      BY <2>5, ProgramLives DEF sleep_task, IsProgram, Executes
    <3> QED
      BY <2>1, <2>5, <3>1 DEF sleep_task, TypeOK
  <2>6. ASSUME NEW p \in Pid, NEW q \in Pid, wakeup_task(p, q)
        PROVE  Stays
    BY <2>1, <2>6 DEF wakeup_task, Woken, TypeOK
  <2>7. ASSUME NEW p \in Pid, end_task(p) \/ kill_process(p)
        PROVE  Stays
    BY <2>1, <2>7 DEF end_task, kill_process, TypeOK
  <2> QED
    BY <2>2, <2>3, <2>4, <2>5, <2>6, <2>7 DEF Next
<1> QED
  BY <1>1, InvHolds, PTL DEF Spec, KilledStaysKilled

-----------------------------------------------------------------------------
(* A system at work.                                                        *)

(* Every task has been created, and the consoles belong to the shells.      *)
WorkInv ==
  /\ SchedulerInv
  /\ shells = Shells
  /\ free_pid = TaskBound
  /\ pid_task_shell \in [Consoles -> Shells \cup {0}]
  /\ pid_task_shell[cur_console] \in Shells

(* The system starts so.                                                    *)
LEMMA InitWork == WorkInit => WorkInv
<1> SUFFICES ASSUME WorkInit
             PROVE  WorkInv
  OBVIOUS
<1>1. /\ TaskBound \in Nat \ {0} /\ 0 \in Pid /\ Pid \subseteq 0 .. TaskBound - 1
      /\ N_CONSOLES \in Nat \ {0} /\ 0 \in Consoles /\ Spinning = TaskBound
      /\ Shells \subseteq Pid \ {0}
  BY SchedulerAssumption, WorkAssumption
  DEF SchedulerAssumption, WorkAssumption, Pid, Consoles, Spinning
<1>2. /\ \A p \in Pid : state[p] = "BLOCKED" \/ state[p] = "READY"
      /\ state \in [Pid -> State] /\ pc \in [Pid -> Point]
  BY DEF WorkInit, State, Point
<1>3. /\ privilege \in [Pid -> {"SUPERVISOR", "USER"}]
      /\ quantum \in [Pid -> Nat] /\ target \in [Pid -> Pid]
      /\ pid_task_shell \in [Consoles -> Pid]
      /\ pid_task_shell[0] \in Shells
  BY <1>1 DEF WorkInit
<1>4. TypeOK
  <2>1. free_pid \in 1 .. TaskBound /\ pid_cur_task \in Pid /\ cur_console \in Consoles
    BY <1>1 DEF WorkInit
  <2>2. scheduler_active \in BOOLEAN /\ shells \subseteq Pid
    BY <1>1 DEF WorkInit
  <2> QED
    BY <1>2, <1>3, <2>1, <2>2 DEF TypeOK
<1>5. /\ RunningHasProcessor /\ RoundRobinEnds /\ state[0] # "KILLED"
      /\ pid_cur_task # Spinning => state[pid_cur_task] # "KILLED"
  BY <1>1, <1>2 DEF WorkInit, RunningHasProcessor, RoundRobinEnds
<1>6. QuantumOfCurrentIsFresh
  BY <1>1, SchedulerAssumption
  DEF WorkInit, QuantumOfCurrentIsFresh, SchedulerAssumption
<1>7. /\ \A p \in Pid : ~(p >= free_pid) /\ pc[p] # "kill"
      /\ \A n \in Consoles : pid_task_shell[n] < free_pid
  <2>1. \A p \in Pid : p \in Nat /\ p < TaskBound
    BY <1>1
  <2>2. \A n \in Consoles : pid_task_shell[n] \in Pid
    BY <1>3
  <2>3. free_pid = TaskBound /\ \A p \in Pid : pc[p] # "kill"
    BY DEF WorkInit
  <2>4. \A p \in Pid : ~(p >= free_pid)
    BY <1>1, <2>1, <2>3
  <2>5. \A n \in Consoles : pid_task_shell[n] < free_pid
    BY <2>1, <2>2, <2>3
  <2> QED
    BY <2>3, <2>4, <2>5
<1>8. SchedulerInv
  BY <1>4, <1>5, <1>6, <1>7 DEF SchedulerInv
<1> QED
  BY <1>3, <1>8 DEF WorkInit, WorkInv

(* The programs are tasks of the table, and none of them is a shell or has  *)
(* the number that stands for nobody.                                       *)
LEMMA Programs ==
  ASSUME WorkInv
  PROVE  /\ Program \subseteq Pid /\ Shells \subseteq Pid
         /\ \A p \in Program : p # 0 /\ p \notin shells /\ IsProgram(p)
         /\ state \in [Pid -> State] /\ free_pid \notin Pid
<1>1. Shells \subseteq Pid /\ Program \subseteq Pid
  BY WorkAssumption DEF WorkAssumption, Program
<1>2. \A p \in Program : p # 0 /\ p \notin shells /\ IsProgram(p)
  BY DEF Program, WorkInv, IsProgram
<1>3. free_pid \notin Pid
  BY SchedulerAssumption DEF SchedulerAssumption, WorkInv, Pid
<1> QED
  BY <1>1, <1>2, <1>3 DEF WorkInv, SchedulerInv, TypeOK

(* A step that leaves the rest of the table alone keeps it so.              *)
LEMMA WorkAlone ==
  ASSUME WorkInv, [Next]_vars, UNCHANGED table
  PROVE  WorkInv'
<1>1. SchedulerInv'
  BY NextInv DEF WorkInv
<1> QED
  BY <1>1 DEF WorkInv, table

(* The other interrupts keep it too; a switch writes no entry of a program. *)
LEMMA OtherIrqWork ==
  ASSUME WorkInv, other_irq
  PROVE  /\ WorkInv'
         /\ \E st \in [Pid -> State], active \in BOOLEAN :
              /\ scheduler(st, active)
              /\ \A p \in Program : st[p] = state[p]
<1>1. SchedulerInv' /\ TypeOK
  BY NextInv DEF Next, WorkInv, SchedulerInv
<1>2. CASE UNCHANGED table /\ scheduler(state, scheduler_active)
  <2>1. WorkInv'
    BY <1>1, <1>2 DEF WorkInv, table
  <2> QED
    BY <1>1, <1>2, <2>1 DEF TypeOK
<1>3. ASSUME NEW n \in Consoles, switch_to_console(n)
      PROVE  /\ WorkInv'
             /\ \E st \in [Pid -> State], active \in BOOLEAN :
                  /\ scheduler(st, active)
                  /\ \A p \in Program : st[p] = state[p]
  <2>1. ~NeedsShell(n) /\ ShellOf(n) = pid_task_shell[n]
    BY <1>3, Programs DEF switch_to_console, ShellOf
  <2>2. pid_task_shell[n] \in Shells
    BY <2>1 DEF NeedsShell, WorkInv
  <2>3. /\ UNCHANGED <<free_pid, shells>>
        /\ pid_task_shell' = [pid_task_shell EXCEPT ![n] = pid_task_shell[n]]
        /\ cur_console' = n /\ scheduler(Switched(n), TRUE)
    BY <1>3, <2>1 DEF switch_to_console
  <2>4. WorkInv'
    BY <1>1, <2>2, <2>3 DEF WorkInv
  <2>5. Switched(n) \in [Pid -> State]
    BY <1>1, <1>3, SwitchedIsHandlerResult DEF HandlerResult
  <2>6. ASSUME NEW p \in Program PROVE Switched(n)[p] = state[p]
    <3>1. p \in Pid /\ p # ShellOf(n) /\ p # pid_task_shell[cur_console]
      BY <2>1, <2>2, Programs DEF WorkInv, Program
    <3> QED
      BY <3>1, Programs DEF Switched
  <2> QED
    BY <2>3, <2>4, <2>5, <2>6
<1> QED
  BY <1>2, <1>3 DEF other_irq

(* A kill command keeps it, and of the programs it changes only one that it *)
(* kills.                                                                   *)
LEMMA KillsWork ==
  ASSUME WorkInv, shell_kills
  PROVE  /\ WorkInv' /\ UNCHANGED <<pid_cur_task, table>>
         /\ \A p \in Pid : state'[p] = state[p] \/ state'[p] = "KILLED"
         /\ \A p \in Program : pc'[p] = pc[p]
<1>1. PICK p \in Shells : kill_process(p) \/ \E q \in Victims : kill_check(p, q)
  BY DEF shell_kills
<1>2. p \in Pid /\ p \notin Program /\ Victims \subseteq Pid /\ Program \subseteq Pid
  BY Programs, WorkAssumption DEF WorkAssumption, Program
<1>3. [Next]_vars
  BY <1>1, <1>2 DEF Next
<1>4. UNCHANGED <<pid_cur_task, table>>
  BY <1>1 DEF kill_process, kill_check
<1>5. WorkInv'
  BY <1>3, <1>4, WorkAlone
<1>6. state \in [Pid -> State] /\ pc \in [Pid -> Point] /\ target \in [Pid -> Pid]
  BY DEF WorkInv, SchedulerInv, TypeOK
<1>7. \A q \in Pid : state'[q] = state[q] \/ state'[q] = "KILLED"
  BY <1>1, <1>2, <1>6 DEF kill_process, kill_check
<1>8. \A q \in Program : pc'[q] = pc[q]
  BY <1>1, <1>2, <1>6 DEF kill_process, kill_check, GoesTo
<1> QED
  BY <1>4, <1>5, <1>7, <1>8

-----------------------------------------------------------------------------
(* The semaphore.                                                          *)

(* The counter and the points of the tasks have their types and agree.      *)
CounterInv ==
  /\ resources \in Int
  /\ sem_pc \in [Pid -> SemPoint]
  /\ UnitsAccounted
  /\ MutualExclusion

(* There are finitely many programs.                                        *)
LEMMA ProgramsFinite == IsFiniteSet(Program)
<1>1. IsFiniteSet(0 .. TaskBound - 1)
  BY FS_Interval, SchedulerAssumption DEF SchedulerAssumption
<1>2. Program \in SUBSET (0 .. TaskBound - 1)
  BY DEF Program, Pid
<1> QED
  BY <1>1, <1>2, FS_Subset

(* A set of tasks that are at some point has a natural number as its size.  *)
LEMMA PartOfPrograms ==
  ASSUME NEW S \in SUBSET Program
  PROVE  IsFiniteSet(S) /\ Cardinality(S) \in Nat
<1>1. IsFiniteSet(S)
  BY ProgramsFinite, FS_Subset
<1> QED
  BY <1>1, FS_CardinalityType

(* So holders and refused ones can be counted.                              *)
LEMMA HoldersAndRefused ==
  /\ IsFiniteSet(Holders) /\ Cardinality(Holders) \in Nat
  /\ IsFiniteSet(Refused) /\ Cardinality(Refused) \in Nat
<1>1. Holders \in SUBSET Program /\ Refused \in SUBSET Program
  BY DEF Holders, Refused
<1> QED
  BY <1>1, PartOfPrograms

-----------------------------------------------------------------------------
(* What each kind of step does to the two sets.                             *)

(* A user that acquires is one holder more,                                 *)
LEMMA Acquires ==
  ASSUME CounterInv, NEW p \in Program, ~At(p, "held"), ~At(p, "refused"),
         GoTo(p, "held")
  PROVE  /\ Holders' = Holders \cup {p} /\ p \notin Holders
         /\ Cardinality(Holders') = Cardinality(Holders) + 1
         /\ Refused' = Refused
<1>1. /\ Holders' = Holders \cup {p} /\ p \notin Holders
      /\ Refused' = Refused
  BY DEF CounterInv, At, GoTo, Holders, Refused, Program
<1> QED
  BY <1>1, HoldersAndRefused, FS_AddElement

(* one that is refused is one refused more,                                 *)
LEMMA IsRefused ==
  ASSUME CounterInv, NEW p \in Program, ~At(p, "held"), ~At(p, "refused"),
         GoTo(p, "refused")
  PROVE  /\ Holders' = Holders
         /\ Cardinality(Refused') = Cardinality(Refused) + 1
<1>1. /\ Refused' = Refused \cup {p} /\ p \notin Refused
      /\ Holders' = Holders
  BY DEF CounterInv, At, GoTo, Holders, Refused, Program
<1> QED
  BY <1>1, HoldersAndRefused, FS_AddElement

(* one that takes its refusal back one less,                                *)
LEMMA UndoesRefusal ==
  ASSUME CounterInv, NEW p \in Program, At(p, "refused"), GoTo(p, "queued")
  PROVE  /\ Holders' = Holders
         /\ Cardinality(Refused') = Cardinality(Refused) - 1
<1>1. /\ Refused' = Refused \ {p} /\ p \in Refused
      /\ Holders' = Holders
  BY DEF CounterInv, At, GoTo, Holders, Refused, Program
<1> QED
  BY <1>1, HoldersAndRefused, FS_RemoveElement

(* and one that releases is one holder less.                                *)
LEMMA Releases ==
  ASSUME CounterInv, NEW p \in Program, At(p, "held"), GoTo(p, "released")
  PROVE  /\ Holders' = Holders \ {p} /\ p \in Holders
         /\ Cardinality(Holders') = Cardinality(Holders) - 1
         /\ Refused' = Refused
<1>1. /\ Holders' = Holders \ {p} /\ p \in Holders
      /\ Refused' = Refused
  BY DEF CounterInv, At, GoTo, Holders, Refused, Program
<1> QED
  BY <1>1, HoldersAndRefused, FS_RemoveElement

(* The steps of down and up that touch neither the counter nor the sets.    *)
Elsewhere == SemPoint \ {"held", "refused"}

(* Any other move of a user changes neither.                                *)
LEMMA MovesElsewhere ==
  ASSUME CounterInv, NEW p \in Program, NEW point \in Elsewhere,
         sem_pc[p] \in Elsewhere, GoTo(p, point)
  PROVE  /\ Holders' = Holders /\ Refused' = Refused
         /\ sem_pc' \in [Pid -> SemPoint]
BY DEF CounterInv, GoTo, Holders, Refused, Program, Elsewhere, SemPoint

-----------------------------------------------------------------------------
(* The counter starts at the number of places.                              *)
LEMMA InitCounter == SemInit => CounterInv
<1> SUFFICES ASSUME SemInit
             PROVE  CounterInv
  OBVIOUS
<1>1. Holders = {} /\ Refused = {}
  BY DEF SemInit, Holders, Refused, Program
<1>2. Cardinality(Holders) = 0 /\ Cardinality(Refused) = 0
  BY <1>1, FS_EmptySet
<1> QED
  BY <1>2, SemaphoreAssumption
     DEF SemaphoreAssumption, SemInit, CounterInv, SemPoint, UnitsAccounted,
         MutualExclusion

(* The three kinds of step as seen by the users of the semaphore.           *)
AcquireStep(p) == p \notin Holders /\ Cardinality(Holders) < Units
                    /\ Holders' = Holders \cup {p}
ReleaseStep(p) == p \in Holders /\ Holders' = Holders \ {p}

(* Every step keeps the counter, and changes the holders as a counting      *)
(* semaphore does.                                                          *)
LEMMA NextCounter ==
  ASSUME CounterInv, [SemNext]_semvars
  PROVE  /\ CounterInv'
         /\ \/ \E p \in Program : AcquireStep(p) \/ ReleaseStep(p)
            \/ Holders' = Holders
<1> USE SemaphoreAssumption, HoldersAndRefused DEF SemaphoreAssumption
<1>1. CASE UNCHANGED <<resources, sem_pc>>
  <2>1. Holders' = Holders /\ Refused' = Refused
    BY <1>1 DEF Holders, Refused
  <2> QED
    BY <1>1, <2>1 DEF CounterInv, UnitsAccounted, MutualExclusion
<1>2. ASSUME NEW p \in Program, down_dec(p)
      PROVE  /\ CounterInv'
             /\ AcquireStep(p) \/ Holders' = Holders
  <2>1. ~At(p, "held") /\ ~At(p, "refused") /\ resources' = resources - 1
    BY <1>2 DEF down_dec, At
  <2>2. sem_pc' \in [Pid -> SemPoint]
    BY <1>2 DEF CounterInv, down_dec, GoTo, SemPoint
  <2>3. CASE resources - 1 < 0
    <3>1. GoTo(p, "refused")
      BY <1>2, <2>3 DEF down_dec
    <3> QED
      BY <2>1, <2>2, <3>1, IsRefused
         DEF CounterInv, UnitsAccounted, MutualExclusion
  <2>4. CASE ~(resources - 1 < 0)
    <3>1. GoTo(p, "held")
      BY <1>2, <2>4 DEF down_dec
    <3>2. /\ Holders' = Holders \cup {p} /\ p \notin Holders
          /\ Cardinality(Holders') = Cardinality(Holders) + 1
          /\ Refused' = Refused
      BY <2>1, <3>1, Acquires
    <3>3. Cardinality(Holders) < Units
      BY <2>4 DEF CounterInv, UnitsAccounted
    <3> QED
      BY <2>1, <2>2, <3>2, <3>3
         DEF CounterInv, UnitsAccounted, MutualExclusion, AcquireStep
  <2> QED
    BY <2>3, <2>4
<1>3. ASSUME NEW p \in Program, down_queue(p)
      PROVE  CounterInv' /\ Holders' = Holders
  <2>1. /\ At(p, "refused") /\ GoTo(p, "queued")
        /\ resources' = resources + 1
    BY <1>3 DEF down_queue
  <2>2. sem_pc' \in [Pid -> SemPoint]
    BY <2>1 DEF CounterInv, GoTo, SemPoint
  <2> QED
    BY <2>1, <2>2, UndoesRefusal DEF CounterInv, UnitsAccounted, MutualExclusion
<1>4. ASSUME NEW p \in Program, up_inc(p)
      PROVE  CounterInv' /\ ReleaseStep(p)
  <2>1. /\ At(p, "held") /\ GoTo(p, "released")
        /\ resources' = resources + 1
    BY <1>4 DEF up_inc
  <2>2. sem_pc' \in [Pid -> SemPoint]
    BY <2>1 DEF CounterInv, GoTo, SemPoint
  <2> QED
    BY <2>1, <2>2, Releases
       DEF CounterInv, UnitsAccounted, MutualExclusion, ReleaseStep
<1>5. ASSUME NEW p \in Program,
             down_sleep(p) \/ down_awake(p) \/ up_check(p) \/ up_wake(p)
      PROVE  CounterInv' /\ Holders' = Holders
  <2>1. /\ UNCHANGED resources
        /\ sem_pc[p] \in Elsewhere
        /\ \E point \in Elsewhere : GoTo(p, point)
    BY <1>5 DEF down_sleep, down_awake, up_check, up_wake, At, Elsewhere, SemPoint
  <2> QED
    BY <2>1, MovesElsewhere DEF CounterInv, UnitsAccounted, MutualExclusion
<1>6. UNCHANGED <<resources, sem_pc>> \/ \E p \in Program : TaskStep(p)
  BY DEF SemNext, semvars, sem_timer_irq, sem_other_irq, sem_kill
<1> QED
  BY <1>1, <1>2, <1>3, <1>4, <1>5, <1>6 DEF TaskStep

(* The counter invariant holds in every behaviour.                          *)
LEMMA CounterHolds == SemSpec => []CounterInv
<1>1. CounterInv /\ [SemNext]_semvars => CounterInv'
  BY NextCounter
<1> QED
  BY <1>1, InitCounter, PTL DEF SemSpec

(* The counter is exact in every state.                                     *)
THEOREM CounterIsExact == SemSpec => []UnitsAccounted
<1>1. CounterInv => UnitsAccounted
  BY DEF CounterInv
<1> QED
  BY <1>1, CounterHolds, PTL

(* Never more holders than units.                                           *)
THEOREM NeverOverlent == SemSpec => []MutualExclusion
<1>1. CounterInv => MutualExclusion
  BY DEF CounterInv
<1> QED
  BY <1>1, CounterHolds, PTL

(* down and up implement the counting semaphore: a down that finds a unit   *)
(* is its Acquire, the increment of up its Release, all else a stutter.     *)
THEOREM SemaphoreKeepsPromise == SemSpec => ImplementsPromise
<1>1. SemInit => Promise!Init
  BY DEF SemInit, Promise!Init, Holders, Program
<1>2. CounterInv /\ [SemNext]_semvars => [Promise!Next]_Holders
  <2> SUFFICES ASSUME CounterInv, [SemNext]_semvars
               PROVE  [Promise!Next]_Holders
    OBVIOUS
  <2>1. ASSUME NEW p \in Program, AcquireStep(p) \/ ReleaseStep(p)
        PROVE  Promise!Next
    <3>1. Promise!Cardinality(Holders) = Cardinality(Holders)
      BY DEF Promise!Cardinality, Cardinality
    <3>2. Promise!Acquire(p) \/ Promise!Release(p)
      BY <2>1, <3>1
         DEF AcquireStep, ReleaseStep, Promise!Acquire, Promise!Release
    <3> QED
      BY <3>2 DEF Promise!Next
  <2> QED
    BY <2>1, NextCounter
<1> QED
  BY <1>1, <1>2, CounterHolds, PTL DEF SemSpec, ImplementsPromise, Promise!Spec

-----------------------------------------------------------------------------
(* What is proved of the scheduler still holds under the semaphore: each of *)
(* its steps is a step of Scheduler, or leaves the process table alone.     *)
LEMMA SemStepsAreScheduled ==
  ASSUME WorkInv, waiting \in Seq(Program), [SemNext]_semvars
  PROVE  WorkInv'
<1>0. Program \subseteq Pid /\ TypeOK
  BY Programs DEF WorkInv, SchedulerInv
<1>1. CASE sem_timer_irq
  <2>1. Woken(state, {}) = state
    BY <1>0 DEF TypeOK, Woken
  <2>2. scheduler(Woken(state, {}), TRUE) /\ UNCHANGED table
    BY <1>1, <2>1 DEF sem_timer_irq
  <2>3. timer_irq
    BY <2>2 DEF timer_irq
  <2> QED
    BY <2>2, <2>3, WorkAlone DEF Next
<1>2. CASE sem_other_irq
  BY <1>2, OtherIrqWork DEF sem_other_irq
<1>3. ASSUME NEW p \in Program, TaskStep(p)
      PROVE  [Next]_vars /\ UNCHANGED table
  <2>1. p \in Pid
    BY <1>0
  <2>2. CASE UNCHANGED vars
    BY <2>2 DEF vars
  <2>3. CASE sleep_task(p) \/ sleep_task_return(p)
    BY <2>1, <2>3 DEF Next, sleep_task, sleep_task_return
  <2>4. CASE wait_wakeup_next(p)
    <3>1. waiting # <<>> => Head(waiting) \in Pid
      BY <1>0
    <3>2. \E q \in Pid : wakeup_task(p, q)
      BY <2>1, <2>4, <3>1 DEF wait_wakeup_next
    <3> QED
      BY <2>1, <3>2 DEF Next, wakeup_task
  <2> QED
    BY <1>3, <2>2, <2>3, <2>4
       DEF TaskStep, down_dec, down_queue, down_sleep, down_awake, up_inc,
           up_check, up_wake
<1>4. CASE sem_kill
  BY <1>4, KillsWork DEF sem_kill
<1>5. CASE UNCHANGED semvars
  <2>1. UNCHANGED vars
    BY <1>5 DEF semvars
  <2> QED
    BY <2>1, WorkAlone DEF vars
<1> QED
  BY <1>1, <1>2, <1>3, <1>4, <1>5, WorkAlone DEF SemNext

(* The wait list is always a list of users.                                 *)
LEMMA NextWaiting ==
  ASSUME waiting \in Seq(Program), [SemNext]_semvars
  PROVE  waiting' \in Seq(Program)
<1>1. CASE UNCHANGED waiting
  BY <1>1
<1>2. ASSUME NEW p \in Program, TaskStep(p), waiting' # waiting
      PROVE  waiting' \in Seq(Program)
  <2>1. wait_add_unique(p) \/ wait_wakeup_next(p)
    BY <1>2 DEF TaskStep, down_dec, down_queue, down_sleep, down_awake,
                up_inc, up_check, up_wake
  <2>2. waiting' = Append(waiting, p) \/ (waiting # <<>> /\ waiting' = Tail(waiting))
    BY <1>2, <2>1 DEF wait_add_unique, wait_wakeup_next
  <2> QED
    BY <2>2
<1> QED
  BY <1>1, <1>2 DEF SemNext, semvars, sem_timer_irq, sem_other_irq, sem_kill

(* The invariant of the scheduler holds under the semaphore too.            *)
LEMMA SemSchedulerHolds == SemSpec => [](WorkInv /\ waiting \in Seq(Program))
<1>1. SemInit => WorkInv /\ waiting \in Seq(Program)
  BY InitWork DEF SemInit
<1>2. WorkInv /\ waiting \in Seq(Program) /\ [SemNext]_semvars
        => (WorkInv /\ waiting \in Seq(Program))'
  BY SemStepsAreScheduled, NextWaiting
<1> QED
  BY <1>1, <1>2, PTL DEF SemSpec

(* The semaphore and the process table under it are type correct.           *)
THEOREM SemTypeCorrect == SemSpec => []SemTypeOK
<1>1. WorkInv /\ waiting \in Seq(Program) /\ CounterInv => SemTypeOK
  BY DEF WorkInv, SchedulerInv, CounterInv, SemTypeOK
<1> QED
  BY <1>1, SemSchedulerHolds, CounterHolds, PTL

-----------------------------------------------------------------------------
(* The wait list.                                                           *)

(* A task that sleeps is in the list only until somebody wakes it.          *)
AsleepInList ==
  \A i \in DOMAIN waiting :
    sem_pc[waiting[i]] = "asleep" => state[waiting[i]] \in {"BLOCKED", "KILLED"}

WaitInv == WaitersAreAsleep /\ AsleepInList

(* The types that the steps on the list need.                               *)
LEMMA ListTypes ==
  ASSUME waiting \in Seq(Program), WorkInv
  PROVE  /\ DOMAIN waiting = 1 .. Len(waiting) /\ Len(waiting) \in Nat
         /\ \A i \in DOMAIN waiting : waiting[i] \in Program /\ waiting[i] \in Pid
         /\ state \in [Pid -> State] /\ Program \subseteq Pid
BY Programs DEF WorkInv, SchedulerInv, TypeOK

(* A task that is neither about to sleep nor asleep is not in the list.     *)
LEMMA NotInList ==
  ASSUME WaitInv, NEW p, sem_pc[p] \notin {"queued", "asleep"}
  PROVE  \A i \in DOMAIN waiting : waiting[i] # p
BY DEF WaitInv, WaitersAreAsleep

(* A step that leaves the list and its tasks alone keeps the invariant.     *)
LEMMA ListAlone ==
  ASSUME WaitInv, waiting' = waiting,
         \A i \in DOMAIN waiting :
           /\ sem_pc'[waiting[i]] = sem_pc[waiting[i]]
           /\ state[waiting[i]] \in {"BLOCKED", "KILLED"}
                => state'[waiting[i]] \in {"BLOCKED", "KILLED"}
  PROVE  WaitInv'
BY DEF WaitInv, WaitersAreAsleep, AsleepInList

(* An interrupt wakes no task of the list.                                  *)
LEMMA IrqListAlone ==
  ASSUME WaitInv, WorkInv, waiting \in Seq(Program), sem_timer_irq \/ sem_other_irq
  PROVE  WaitInv'
<1>1. PICK st \in [Pid -> State], active \in BOOLEAN :
        scheduler(st, active) /\ \A p \in Program : st[p] = state[p]
  <2>1. CASE sem_timer_irq
    BY <2>1, ListTypes DEF sem_timer_irq
  <2>2. CASE sem_other_irq
    BY <2>2, OtherIrqWork DEF sem_other_irq
  <2> QED
    BY <2>1, <2>2
<1>2. waiting' = waiting /\ sem_pc' = sem_pc
  BY DEF sem_timer_irq, sem_other_irq
<1>3. ASSUME NEW i \in DOMAIN waiting, state[waiting[i]] \in {"BLOCKED", "KILLED"}
      PROVE  state'[waiting[i]] = state[waiting[i]]
  BY <1>1, <1>3, ListTypes, SchedulerLeavesAlone DEF WorkInv, SchedulerInv
<1> QED
  BY <1>2, <1>3, ListAlone

(* A task is put into the list once: it was not in it when it was refused.  *)
LEMMA QueueKeepsList ==
  ASSUME WaitInv, WorkInv, waiting \in Seq(Program), sem_pc \in [Pid -> SemPoint],
         NEW p \in Program, down_queue(p)
  PROVE  WaitInv'
<1>1. /\ sem_pc[p] = "refused" /\ p \in Pid /\ state' = state
      /\ sem_pc' = [sem_pc EXCEPT ![p] = "queued"]
      /\ waiting' = waiting \/ waiting' = Append(waiting, p)
  BY DEF down_queue, At, GoTo, wait_add_unique, Program, vars
<1>2. \A i \in DOMAIN waiting : waiting[i] # p
  BY <1>1, NotInList
<1>3. \A i \in DOMAIN waiting : sem_pc'[waiting[i]] = sem_pc[waiting[i]]
  BY <1>1, <1>2, ListTypes
<1>4. CASE waiting' = waiting
  BY <1>1, <1>3, <1>4, ListAlone
<1>5. CASE waiting' = Append(waiting, p)
  <2> DEFINE n == Len(waiting)
  <2>1. /\ n \in Nat /\ DOMAIN waiting = 1 .. n
        /\ DOMAIN waiting' = 1 .. n + 1
        /\ waiting'[n + 1] = p /\ \A i \in 1 .. n : waiting'[i] = waiting[i]
    BY <1>5, ListTypes, AppendProperties
  <2>2. \A i \in 1 .. n + 1 : i \in 1 .. n \/ i = n + 1
    BY <2>1
  <2>3. sem_pc'[p] = "queued"
    BY <1>1
  <2> HIDE DEF n
  <2>4. WaitersAreAsleep'
    BY <1>2, <1>3, <2>1, <2>2, <2>3 DEF WaitInv, WaitersAreAsleep
  <2>5. AsleepInList'
    BY <1>1, <1>3, <2>1, <2>2, <2>3 DEF WaitInv, AsleepInList
  <2> QED
    BY <2>4, <2>5 DEF WaitInv
<1> QED
  BY <1>1, <1>4, <1>5

(* The release removes the task it wakes, and no other is woken.            *)
LEMMA WakeKeepsList ==
  ASSUME WaitInv, WorkInv, waiting \in Seq(Program), sem_pc \in [Pid -> SemPoint],
         NEW p \in Program, up_wake(p)
  PROVE  WaitInv'
<1>1. /\ sem_pc[p] = "waking" /\ p \in Pid /\ sem_pc' = [sem_pc EXCEPT ![p] = "out"]
      /\ wait_wakeup_next(p)
  BY DEF up_wake, At, GoTo, Program
<1>2. \A i \in DOMAIN waiting : waiting[i] # p
  BY <1>1, NotInList
<1>3. \A i \in DOMAIN waiting : sem_pc'[waiting[i]] = sem_pc[waiting[i]]
  BY <1>1, <1>2, ListTypes
<1>4. CASE waiting = <<>>
  <2>1. waiting' = <<>>
    BY <1>1, <1>4 DEF wait_wakeup_next
  <2> QED
    BY <2>1 DEF WaitInv, WaitersAreAsleep, AsleepInList
<1>5. CASE waiting # <<>>
  <2> DEFINE n == Len(waiting)
  <2>1. waiting' = Tail(waiting) /\ state' = Woken(state, {Head(waiting)})
    BY <1>1, <1>5 DEF wait_wakeup_next, wakeup_task
  <2>2. /\ n \in Nat \ {0} /\ DOMAIN waiting = 1 .. n /\ Head(waiting) = waiting[1]
        /\ DOMAIN waiting' = 1 .. n - 1
        /\ \A i \in 1 .. n - 1 : waiting'[i] = waiting[i + 1]
    BY <1>5, <2>1, ListTypes, HeadTailProperties, EmptySeq
  <2> HIDE DEF n
  <2>3. \A i \in 1 .. n - 1 : i + 1 \in 1 .. n /\ i + 1 # 1
    BY <2>2
  <2>4. ASSUME NEW i \in 1 .. n - 1, NEW j \in 1 .. n - 1, i # j PROVE i + 1 # j + 1
    BY <2>2, <2>4
  <2>5. \A i \in 1 .. n - 1 : waiting[i + 1] # Head(waiting)
    BY <2>2, <2>3 DEF WaitInv, WaitersAreAsleep
  <2>6. \A i \in 1 .. n - 1 : state'[waiting[i + 1]] = state[waiting[i + 1]]
    BY <2>1, <2>2, <2>3, <2>5, ListTypes DEF Woken
  <2>7. ASSUME NEW i \in DOMAIN waiting'
        PROVE  /\ i \in 1 .. n - 1 /\ i + 1 \in DOMAIN waiting
               /\ waiting'[i] = waiting[i + 1]
               /\ sem_pc'[waiting'[i]] = sem_pc[waiting[i + 1]]
    <3>1. i \in 1 .. n - 1
      BY <2>2
    <3>2. i + 1 \in DOMAIN waiting /\ waiting'[i] = waiting[i + 1]
      BY <2>2, <2>3, <3>1
    <3> QED
      BY <1>3, <3>1, <3>2
  <2>8. WaitersAreAsleep'
    <3>1. ASSUME NEW i \in DOMAIN waiting'
          PROVE  sem_pc'[waiting'[i]] \in {"queued", "asleep"}
      BY <2>7 DEF WaitInv, WaitersAreAsleep
    <3>2. ASSUME NEW i \in DOMAIN waiting', NEW j \in DOMAIN waiting', waiting'[i] = waiting'[j]
          PROVE  i = j
      <4>1. i + 1 = j + 1
        BY <2>7, <3>2 DEF WaitInv, WaitersAreAsleep
      <4> QED
        BY <2>4, <2>7, <4>1
    <3> QED
      BY <3>1, <3>2 DEF WaitersAreAsleep
  <2>9. AsleepInList'
    <3>1. ASSUME NEW i \in DOMAIN waiting', sem_pc'[waiting'[i]] = "asleep"
          PROVE  state'[waiting'[i]] \in {"BLOCKED", "KILLED"}
      BY <2>6, <2>7, <3>1 DEF WaitInv, AsleepInList
    <3> QED
      BY <3>1 DEF AsleepInList
  <2> QED
    BY <2>8, <2>9 DEF WaitInv
<1> QED
  BY <1>4, <1>5

(* Every step keeps the invariant of the list.                              *)
LEMMA NextWaitInv ==
  ASSUME WaitInv, WorkInv, waiting \in Seq(Program), sem_pc \in [Pid -> SemPoint],
         [SemNext]_semvars
  PROVE  WaitInv'
<1>1. CASE UNCHANGED semvars
  BY <1>1, ListAlone DEF semvars, vars
<1>2. CASE sem_timer_irq \/ sem_other_irq
  BY <1>2, IrqListAlone
<1>3. ASSUME NEW p \in Program, down_dec(p) \/ up_inc(p) \/ up_check(p)
      PROVE  WaitInv'
  <2>1. /\ sem_pc[p] \notin {"queued", "asleep"} /\ UNCHANGED <<state, waiting>>
        /\ \E point : sem_pc' = [sem_pc EXCEPT ![p] = point]
    BY <1>3 DEF down_dec, up_inc, up_check, At, GoTo, vars
  <2>2. \A i \in DOMAIN waiting : waiting[i] # p
    BY <2>1, NotInList
  <2>3. \A i \in DOMAIN waiting : sem_pc'[waiting[i]] = sem_pc[waiting[i]]
    BY <2>1, <2>2, ListTypes
  <2> QED
    BY <2>1, <2>3, ListAlone
<1>4. ASSUME NEW p \in Program, down_sleep(p)
      PROVE  WaitInv'
  <2>1. /\ waiting' = waiting /\ p \in Pid
        /\ sem_pc' = [sem_pc EXCEPT ![p] = "asleep"]
        /\ state' = [state EXCEPT ![p] = "BLOCKED"]
    BY <1>4 DEF down_sleep, sleep_task, GoTo, Program
  <2>2. \A i \in DOMAIN waiting :
          IF waiting[i] = p
          THEN sem_pc'[waiting[i]] = "asleep" /\ state'[waiting[i]] = "BLOCKED"
          ELSE /\ sem_pc'[waiting[i]] = sem_pc[waiting[i]]
               /\ state'[waiting[i]] = state[waiting[i]]
    BY <2>1, ListTypes
  <2> QED
    BY <2>1, <2>2 DEF WaitInv, WaitersAreAsleep, AsleepInList
<1>5. ASSUME NEW p \in Program, down_awake(p)
      PROVE  WaitInv'
  <2>1. /\ waiting' = waiting /\ p \in Pid /\ state' = state
        /\ sem_pc[p] = "asleep" /\ sem_pc' = [sem_pc EXCEPT ![p] = "retry"]
        /\ pid_cur_task = p /\ pc[p] = "sleep" /\ state[p] # "BLOCKED"
    BY <1>5 DEF down_awake, sleep_task_return, Executes, At, GoTo, Program
  <2>2. state[p] # "KILLED"
    BY <2>1, ProgramLives, Programs DEF WorkInv
  <2>3. \A i \in DOMAIN waiting : waiting[i] # p
    BY <2>1, <2>2 DEF WaitInv, AsleepInList
  <2>4. \A i \in DOMAIN waiting : sem_pc'[waiting[i]] = sem_pc[waiting[i]]
    BY <2>1, <2>3, ListTypes
  <2> QED
    BY <2>1, <2>4, ListAlone
<1>6. CASE sem_kill
  <2>1. /\ waiting' = waiting /\ sem_pc' = sem_pc
        /\ \A p \in Pid : state'[p] = state[p] \/ state'[p] = "KILLED"
    BY <1>6, KillsWork DEF sem_kill
  <2>2. \A i \in DOMAIN waiting :
          state[waiting[i]] \in {"BLOCKED", "KILLED"}
            => state'[waiting[i]] \in {"BLOCKED", "KILLED"}
    BY <2>1, ListTypes
  <2> QED
    BY <2>1, <2>2, ListAlone
<1> QED
  BY <1>1, <1>2, <1>3, <1>4, <1>5, <1>6, QueueKeepsList, WakeKeepsList DEF SemNext, TaskStep

(* All the invariants of the semaphore together.                            *)
LEMMA WaitInvHolds == SemSpec => [](WaitInv /\ WorkInv /\ waiting \in Seq(Program))
<1>1. SemInit => WaitInv
  BY DEF SemInit, WaitInv, WaitersAreAsleep, AsleepInList
<1>2. CounterInv => sem_pc \in [Pid -> SemPoint]
  BY DEF CounterInv
<1>3. WaitInv /\ WorkInv /\ waiting \in Seq(Program) /\ CounterInv /\ [SemNext]_semvars
        => WaitInv'
  BY <1>2, NextWaitInv
<1> QED
  BY <1>1, <1>3, SemSchedulerHolds, CounterHolds, PTL DEF SemSpec

(* The wait list holds each task once, and only tasks that have not come    *)
(* back from the sleep they were queued for, whatever memcmp answers.       *)
THEOREM WaitersSleep == SemSpec => []WaitersAreAsleep
<1>1. WaitInv => WaitersAreAsleep
  BY DEF WaitInv
<1> QED
  BY <1>1, WaitInvHolds, PTL

(* A release takes the waiter that came first and does not leave it         *)
(* BLOCKED; nothing else takes a task from the list.                        *)
THEOREM WokenInOrder == SemSpec => WakesInOrder
<1> DEFINE Order == Len(waiting') < Len(waiting)
                      => waiting' = Tail(waiting) /\ state'[Head(waiting)] # "BLOCKED"
<1>1. WorkInv /\ waiting \in Seq(Program) /\ [SemNext]_semvars => [Order]_semvars
  <2> SUFFICES ASSUME WorkInv, waiting \in Seq(Program), SemNext,
                      Len(waiting') < Len(waiting)
               PROVE  waiting' = Tail(waiting) /\ state'[Head(waiting)] # "BLOCKED"
    OBVIOUS
  <2>1. Len(waiting) \in Nat /\ waiting' # waiting
    BY ListTypes
  <2>2. PICK p \in Program : down_queue(p) \/ up_wake(p)
    BY <2>1 DEF SemNext, TaskStep, sem_timer_irq, sem_other_irq, sem_kill, down_dec,
                down_sleep, down_awake, up_inc, up_check
  <2>3. CASE down_queue(p)
    <3>1. waiting' = Append(waiting, p)
      BY <2>1, <2>3 DEF down_queue, wait_add_unique
    <3>2. Len(waiting') = Len(waiting) + 1
      BY <3>1, AppendProperties
    <3> QED
      BY <2>1, <3>2
  <2>4. CASE up_wake(p)
    <3>1. waiting # <<>> /\ waiting' = Tail(waiting) /\ state' = Woken(state, {Head(waiting)})
      BY <2>1, <2>4 DEF up_wake, wait_wakeup_next, wakeup_task
    <3>2. Head(waiting) \in Pid
      BY <3>1, HeadTailProperties DEF Program
    <3> QED
      BY <3>1, <3>2 DEF Woken
  <2> QED
    BY <2>2, <2>3, <2>4
<1> QED
  BY <1>1, WaitInvHolds, PTL DEF SemSpec, WakesInOrder

-----------------------------------------------------------------------------
(* The software timers.                                                     *)

(* A handle is used once: those that add_timer has not returned yet have no *)
(* fate.                                                                    *)
HandlesOnce == \A h \in Timer : fate[h] # "unborn" => h < next_timer

(* A linked timer with a delay of 0 has not seen an interrupt yet.          *)
ZeroIsFresh == \A h \in Linked : delay[h] = 0 => passed[h] = 0

TimerInv ==
  TimerTypeOK /\ ListSound /\ DelayIsTimeLeft /\ ZeroIsFresh /\ HandlesOnce

-----------------------------------------------------------------------------
(* The tick counter.                                                        *)

(* What an interrupt does to a delay d of which e ticks have passed: their  *)
(* sum is the same, but for a delay of 0, which has the whole counter left. *)
LEMMA WrapTick ==
  ASSUME NEW d \in Ulong, NEW e \in Nat
  PROVE  /\ Wrap(d - 1) \in Ulong
         /\ d # 0 => Wrap(d - 1) + (e + 1) = d + e /\ Wrap(d - 1) # ULONG_MAX
         /\ d = 0 => Wrap(d - 1) + (e + 1) = ULONG_MAX + 1 + e /\ Wrap(d - 1) # 0
         /\ Wrap(d - 1) = 0 <=> d = 1
BY TimerAssumption DEF TimerAssumption, Wrap, Ulong

(* The ticks of a time are as many as fit in it.                            *)
LEMMA TicksFit ==
  ASSUME NEW a \in Nat, NEW m \in Nat \ {0}
  PROVE  /\ a \div m \in Nat
         /\ (a \div m) * m <= a /\ a < ((a \div m) + 1) * m
         /\ a \div m = 0 => a < m
OBVIOUS

(* A time in milliseconds is a number of ticks that fits a word.            *)
LEMMA TicksType ==
  ASSUME NEW ms \in Ms
  PROVE  msecs_to_ticks(ms) \in Ulong /\ msecs_to_ticks(ms) = ms \div MS_PIT
<1>1. ms \in Nat /\ MS_PIT \in Nat \ {0} /\ ms \div MS_PIT <= ULONG_MAX
  BY TimerAssumption DEF TimerAssumption
<1>2. ms \div MS_PIT \in Int /\ ms \div MS_PIT >= 0
  BY <1>1
<1> QED
  BY <1>1, <1>2, TimerAssumption DEF TimerAssumption, msecs_to_ticks, Ulong

-----------------------------------------------------------------------------
(* The invariant of the list.                                               *)

(* A handle is linked when some place of the list has it.                   *)
LEMMA LinkedIsRange ==
  ASSUME timer_list \in Seq(Timer)
  PROVE  /\ Linked \subseteq Timer
         /\ \A h : h \in Linked <=> \E i \in 1 .. Len(timer_list) : timer_list[i] = h
BY DEF Linked

(* The list starts empty.                                                   *)
LEMMA TimerInitInv == TimerInit => TimerInv
<1> SUFFICES ASSUME TimerInit PROVE TimerInv
  OBVIOUS
<1> USE TimerAssumption DEF TimerAssumption, TimerInit
<1>1. TimerTypeOK
  BY DEF TimerTypeOK, Timer, Ulong, Fate
<1>2. Linked = {} /\ DOMAIN timer_list = {}
  BY DEF Linked
<1> QED
  BY <1>1, <1>2 DEF TimerInv, ListSound, DelayIsTimeLeft, ZeroIsFresh, HandlesOnce

(* What the invariant says of the places of the list.                       *)
LEMMA ListFacts ==
  ASSUME TimerInv
  PROVE  /\ timer_list \in Seq(Timer) /\ Len(timer_list) \in Nat
         /\ DOMAIN timer_list = 1 .. Len(timer_list) /\ Timer \subseteq Nat
         /\ \A i \in 1 .. Len(timer_list) : timer_list[i] \in Timer /\ timer_list[i] \in Nat
         /\ \A i, j \in 1 .. Len(timer_list) : i < j => timer_list[i] < timer_list[j]
<1>1. timer_list \in Seq(Timer) /\ Timer \subseteq Nat
  BY DEF TimerInv, TimerTypeOK, Timer
<1>2. Len(timer_list) \in Nat /\ DOMAIN timer_list = 1 .. Len(timer_list)
  BY <1>1, LenProperties
<1>3. \A i \in 1 .. Len(timer_list) : timer_list[i] \in Timer
  BY <1>1, ElementOfSeq
<1> QED
  BY <1>1, <1>2, <1>3 DEF TimerInv, ListSound

(* A new timer comes into the list at its place, and no other leaves it.    *)
LEMMA AddTimerKeeps ==
  ASSUME TimerInv, NEW ms \in Ms, NEW timer, timer # NULL, add_timer(ms, timer)
  PROVE  /\ TimerInv' /\ Linked' = Linked \cup {next_timer}
         /\ timer = next_timer /\ timer \in Timer
<1> DEFINE h == next_timer
           n == Len(timer_list)
<1>1. /\ timer = h /\ h \in Timer /\ next_timer' = h + 1
      /\ h \in Nat /\ h < TimerBound /\ next_timer' \in 0 .. TimerBound
      /\ timer_list' = Append(timer_list, h) /\ UNCHANGED timer_ticks
      /\ delay' = [delay EXCEPT ![h] = msecs_to_ticks(ms)]
      /\ fate' = [fate EXCEPT ![h] = "armed"]
      /\ asked' = [asked EXCEPT ![h] = ms] /\ passed' = [passed EXCEPT ![h] = 0]
  <2>1. h \in 0 .. TimerBound /\ TimerBound \in Nat \ {0}
    BY TimerAssumption DEF TimerAssumption, TimerInv, TimerTypeOK
  <2> QED
    BY <2>1 DEF add_timer, Arm, Timer
<1>2. /\ delay \in [Timer -> Ulong] /\ fate \in [Timer -> Fate]
      /\ asked \in [Timer -> Nat] /\ passed \in [Timer -> Nat]
      /\ timer_ticks \in Ulong
  BY DEF TimerInv, TimerTypeOK
<1>3. /\ timer_list \in Seq(Timer) /\ n \in Nat
      /\ DOMAIN timer_list = 1 .. n /\ \A i \in 1 .. n : timer_list[i] \in Nat
      /\ \A i, j \in 1 .. n : i < j => timer_list[i] < timer_list[j]
  BY ListFacts
<1>4. /\ timer_list' \in Seq(Timer) /\ Len(timer_list') = n + 1
      /\ \A i \in 1 .. n : timer_list'[i] = timer_list[i]
      /\ timer_list'[n + 1] = h
  BY ONLY <1>1, <1>3, AppendProperties
<1> HIDE DEF h, n
<1>5. DOMAIN timer_list' = 1 .. n + 1
  BY <1>4, LenProperties
<1>6. Linked' = Linked \cup {h}
  <2>1. \A i \in 1 .. n + 1 : i \in 1 .. n \/ i = n + 1
    BY <1>3
  <2>2. \A i \in 1 .. n : i \in 1 .. n + 1
    BY <1>3
  <2>3. \A g : g \in Linked => g \in Linked'
    BY ONLY <1>3, <1>4, <1>5, <2>2 DEF Linked
  <2>4. n + 1 \in 1 .. n + 1
    BY <1>3
  <2>5. h \in Linked'
    BY ONLY <1>4, <1>5, <2>4 DEF Linked
  <2>6. \A g : g \in Linked' => g \in Linked \/ g = h
    BY ONLY <1>3, <1>4, <1>5, <2>1 DEF Linked
  <2> QED
    BY ONLY <2>3, <2>5, <2>6
<1>7. \A g \in Linked : g \in Timer /\ g < h /\ g # h /\ fate[g] = "armed"
  <2>1. Linked \subseteq Timer /\ Timer \subseteq Nat
    BY <1>3, LinkedIsRange DEF Timer
  <2>2. \A g \in Linked : g \in Timer /\ g \in Nat /\ g < h /\ fate[g] = "armed"
    BY <2>1 DEF TimerInv, ListSound, HandlesOnce, h
  <2> QED
    BY <1>1, <2>2
<1>8. ListSound'
  <2>1. \A g \in Linked' : fate'[g] = "armed"
    BY <1>1, <1>2, <1>6, <1>7
  <2>2. ASSUME NEW i \in 1 .. n + 1, NEW j \in 1 .. n + 1, i < j
        PROVE  timer_list'[i] < timer_list'[j]
    <3>1. i \in 1 .. n /\ (j \in 1 .. n \/ j = n + 1)
      BY <1>3, <2>2
    <3>2. timer_list'[i] = timer_list[i] /\ timer_list[i] \in Linked
      BY <1>3, <1>4, <3>1 DEF Linked
    <3> QED
      BY <1>3, <1>4, <1>7, <2>2, <3>1, <3>2
  <2> QED
    BY <1>5, <2>1, <2>2 DEF ListSound
<1>9. /\ msecs_to_ticks(ms) \in Ulong /\ msecs_to_ticks(ms) = ms \div MS_PIT
      /\ ULONG_MAX \in Nat /\ Ulong \subseteq Nat
  BY TicksType, TimerAssumption DEF TimerAssumption, Ulong
<1>10. /\ delay'[h] = ms \div MS_PIT /\ asked'[h] = ms /\ passed'[h] = 0
       /\ ms \div MS_PIT \in Nat
  BY <1>1, <1>2, <1>9
<1>11. DelayIsTimeLeft' /\ ZeroIsFresh'
  <2>1. delay'[h] + passed'[h] = asked'[h] \div MS_PIT
    BY ONLY <1>10
  <2>2. ASSUME NEW g \in Linked
        PROVE  /\ delay'[g] = delay[g] /\ passed'[g] = passed[g]
               /\ asked'[g] = asked[g]
    BY <1>1, <1>2, <1>7
  <2>3. ASSUME NEW g \in Linked
        PROVE  /\ \/ delay'[g] + passed'[g] = asked'[g] \div MS_PIT
                  \/ asked'[g] < MS_PIT /\ delay'[g] + passed'[g] = ULONG_MAX + 1
               /\ delay'[g] = 0 => passed'[g] = 0
    BY <2>2 DEF TimerInv, DelayIsTimeLeft, ZeroIsFresh, LessThanATick
  <2> QED
    BY <1>6, <1>10, <2>1, <2>3 DEF DelayIsTimeLeft, ZeroIsFresh, LessThanATick
<1>12. HandlesOnce'
  <2>1. ASSUME NEW g \in Timer, fate'[g] # "unborn" PROVE g < h + 1
    <3>1. g = h \/ g < h
      BY <1>1, <1>2, <2>1 DEF TimerInv, HandlesOnce, h
    <3> QED
      BY <1>1, <3>1 DEF Timer
  <2> QED
    BY <1>1, <2>1 DEF HandlesOnce
<1>13. TimerTypeOK'
  <2>1. ms \in Nat
    BY TimerAssumption DEF TimerAssumption
  <2> QED
    BY <1>1, <1>2, <1>4, <1>9, <2>1 DEF TimerTypeOK, Fate
<1> QED
  BY <1>1, <1>6, <1>8, <1>11, <1>12, <1>13 DEF TimerInv, h

(* A timer taken out gives its time to the one behind it.                   *)
LEMMA DelTimerKeeps ==
  ASSUME TimerInv, NEW h \in Timer, del_timer(h), Pending(h)
  PROVE  TimerInv' /\ Linked' = Linked \ {h}
<1> DEFINE n == Len(timer_list)
<1>1. /\ timer_list \in Seq(Timer) /\ n \in Nat /\ DOMAIN timer_list = 1 .. n
      /\ \A i \in 1 .. n : timer_list[i] \in Timer /\ timer_list[i] \in Nat
      /\ \A i, j \in 1 .. n : i < j => timer_list[i] < timer_list[j]
      /\ Linked \subseteq Timer
  BY ListFacts, LinkedIsRange
<1>2. PICK k \in 1 .. n :
        timer_list[k] = h /\ timer_list' = RemoveAt(timer_list, k)
  BY <1>1 DEF del_timer
<1>3. /\ UNCHANGED <<delay, timer_ticks, next_timer, asked, passed>>
      /\ fate' = [fate EXCEPT ![h] = "deleted"]
  BY DEF del_timer
<1>4. /\ timer_list' \in Seq(Timer) /\ Len(timer_list') = n - 1
      /\ \A j \in 1 .. n - 1 :
           timer_list'[j] = IF j < k THEN timer_list[j] ELSE timer_list[j + 1]
  <2>1. timer_list \in Seq(Timer) /\ k \in 1 .. Len(timer_list)
    BY <1>1, <1>2
  <2> QED
    BY ONLY <1>2, <2>1, RemoveAtProperties DEF n
<1> HIDE DEF n
<1>5. DOMAIN timer_list' = 1 .. n - 1
  BY <1>4, LenProperties
<1> DEFINE old(m) == IF m < k THEN m ELSE m + 1
<1>6. /\ \A m \in 1 .. n - 1 : /\ old(m) \in 1 .. n /\ old(m) # k
                              /\ timer_list'[m] = timer_list[old(m)]
      /\ \A m, l \in 1 .. n - 1 : m < l => old(m) < old(l)
  BY <1>1, <1>2, <1>4
<1>7. \A i \in 1 .. n : i # k => \E m \in 1 .. n - 1 : old(m) = i
  <2>1. ASSUME NEW i \in 1 .. n, i < k PROVE i \in 1 .. n - 1 /\ old(i) = i
    BY <1>1, <1>2, <2>1
  <2>2. ASSUME NEW i \in 1 .. n, i > k PROVE i - 1 \in 1 .. n - 1 /\ old(i - 1) = i
    BY <1>1, <1>2, <2>2
  <2> HIDE DEF old
  <2> QED
    BY <1>1, <1>2, <2>1, <2>2
<1> HIDE DEF old
<1>8. ASSUME NEW g \in Linked' PROVE g \in Linked \ {h}
  <2>1. PICK j \in 1 .. n - 1 : timer_list'[j] = g
    BY <1>5 DEF Linked
  <2>2. old(j) \in 1 .. n /\ old(j) # k /\ timer_list[old(j)] = g
    BY <1>6, <2>1
  <2>3. g # h
    BY <1>1, <1>2, <2>2
  <2> QED
    BY <1>1, <2>2, <2>3 DEF Linked
<1>9. ASSUME NEW g \in Linked, g # h PROVE g \in Linked'
  <2>1. PICK i \in 1 .. n : i # k /\ timer_list[i] = g
    BY <1>1, <1>2, <1>9 DEF Linked
  <2>2. PICK m \in 1 .. n - 1 : old(m) = i
    BY <1>7, <2>1
  <2> QED
    BY <1>5, <1>6, <2>1, <2>2 DEF Linked
<1>10. Linked' = Linked \ {h}
  BY <1>8, <1>9
<1>11. ListSound'
  <2>1. \A g \in Linked' : fate'[g] = "armed"
    BY <1>1, <1>3, <1>10 DEF TimerInv, TimerTypeOK, ListSound
  <2>2. ASSUME NEW i \in 1 .. n - 1, NEW j \in 1 .. n - 1, i < j
        PROVE  timer_list'[i] < timer_list'[j]
    BY <1>1, <1>6, <2>2
  <2> QED
    BY <1>5, <2>1, <2>2 DEF ListSound
<1>12. DelayIsTimeLeft' /\ ZeroIsFresh' /\ HandlesOnce'
  BY <1>3, <1>10
  DEF TimerInv, TimerTypeOK, DelayIsTimeLeft, ZeroIsFresh, LessThanATick, HandlesOnce, Pending,
      ListSound
<1>13. TimerTypeOK'
  BY <1>3, <1>4 DEF TimerInv, TimerTypeOK, Fate
<1> QED
  BY <1>10, <1>11, <1>12, <1>13 DEF TimerInv

(* A timer that is set again leaves its place and comes back at another.    *)
LEMMA ModTimerKeeps ==
  ASSUME TimerInv, NEW h \in Timer, NEW ms \in Ms, mod_timer(h, ms), Pending(h)
  PROVE  TimerInv' /\ Linked' = Linked
<1> USE DEF mod_timer, TimerInv, TimerTypeOK
<1>1. /\ msecs_to_ticks(ms) \in Ulong /\ msecs_to_ticks(ms) = ms \div MS_PIT
      /\ delay' = [delay EXCEPT ![h] = msecs_to_ticks(ms)]
      /\ asked' = [asked EXCEPT ![h] = ms] /\ passed' = [passed EXCEPT ![h] = 0]
      /\ delay'[h] = ms \div MS_PIT /\ asked'[h] = ms /\ passed'[h] = 0
      /\ Linked \subseteq Timer
  BY TicksType, LinkedIsRange DEF Arm
<1>2. TimerTypeOK'
  <2>1. ms \in Nat
    BY TimerAssumption DEF TimerAssumption
  <2> QED
    BY <1>1, <2>1 DEF Arm
<1>3. Linked' = Linked
  BY DEF Linked
<1>4. DelayIsTimeLeft' /\ ZeroIsFresh'
  <2>1. delay'[h] + passed'[h] = asked'[h] \div MS_PIT
    BY <1>1, TicksType DEF Ulong
  <2>2. ASSUME NEW g \in Linked, g # h
        PROVE  /\ delay'[g] = delay[g] /\ passed'[g] = passed[g]
               /\ asked'[g] = asked[g]
    BY <1>1, <2>2, LinkedIsRange
  <2> QED
    BY <1>1, <1>3, <2>1, <2>2 DEF DelayIsTimeLeft, ZeroIsFresh, LessThanATick
<1>5. ListSound' /\ HandlesOnce'
  BY <1>3 DEF ListSound, HandlesOnce
<1> QED
  BY <1>2, <1>3, <1>4, <1>5

(* What an interrupt leaves linked: nothing that expires, and whatever is   *)
(* behind the last timer that does.                                         *)
LEMMA IsrTimerLinks ==
  ASSUME TimerInv, isr_timer
  PROVE  /\ timer_list' \in Seq(Timer)
         /\ Linked' \subseteq Linked \ Expiring
         /\ \A i, j \in DOMAIN timer_list' : i < j => timer_list'[i] < timer_list'[j]
         /\ \A h \in Linked : \/ h \in Linked' \/ h \in Expiring
                              \/ \E g \in Expiring : g > h
<1> DEFINE expired == {i \in DOMAIN timer_list : timer_list[i] \in Expiring}
           last == Max({0} \cup expired)
<1>1. timer_list \in Seq(Timer)
  BY DEF TimerInv, TimerTypeOK
<1>2. Len(timer_list) \in Nat /\ DOMAIN timer_list = 1 .. Len(timer_list)
  BY <1>1, LenProperties
<1>3. \A i \in 1 .. Len(timer_list) : timer_list[i] \in Timer
  BY <1>1, ElementOfSeq
<1>4. /\ last \in 0 .. Len(timer_list)
      /\ last = 0 \/ timer_list[last] \in Expiring
      /\ \A i \in 1 .. Len(timer_list) : timer_list[i] \in Expiring => i <= last
  <2>1. {0} \cup expired \subseteq 0 .. Len(timer_list) /\ {0} \cup expired # {}
    BY <1>2
  <2>2. last \in {0} \cup expired /\ \A i \in {0} \cup expired : i <= last
    <3> HIDE DEF expired
    <3> QED
      BY <1>2, <2>1, MaxIsGreatest
  <2> HIDE DEF last
  <2> QED
    BY <1>2, <2>1, <2>2
<1>5. timer_list' = SubSeq(timer_list, last + 1, Len(timer_list))
  BY DEF isr_timer
<1> HIDE DEF last, expired
<1>6. /\ timer_list' \in Seq(Timer) /\ Len(timer_list') = Len(timer_list) - last
      /\ \A i \in 1 .. Len(timer_list) - last : timer_list'[i] = timer_list[last + i]
  <2>1. \A i \in last + 1 .. Len(timer_list) : timer_list[i] \in Timer
    BY <1>2, <1>3, <1>4
  <2>2. /\ SubSeq(timer_list, last + 1, Len(timer_list)) \in Seq(Timer)
        /\ Len(SubSeq(timer_list, last + 1, Len(timer_list))) =
             IF last + 1 <= Len(timer_list) THEN Len(timer_list) - (last + 1) + 1 ELSE 0
        /\ \A i \in 1 .. Len(timer_list) - (last + 1) + 1 :
             SubSeq(timer_list, last + 1, Len(timer_list))[i] = timer_list[last + 1 + i - 1]
    BY <1>2, <1>4, <2>1, SubSeqProperties
  <2>3. \A i \in 1 .. Len(timer_list) - last : timer_list'[i] = timer_list[last + i]
    <3>1. ASSUME NEW i \in 1 .. Len(timer_list) - last
          PROVE  i \in 1 .. Len(timer_list) - (last + 1) + 1 /\ last + 1 + i - 1 = last + i
      BY <1>2, <1>4
    <3> QED
      BY <1>5, <2>2, <3>1
  <2>4. IF last + 1 <= Len(timer_list) THEN Len(timer_list) - (last + 1) + 1 = Len(timer_list) - last
                                       ELSE 0 = Len(timer_list) - last
    <3>1. Len(timer_list) \in Nat /\ last \in Nat /\ last <= Len(timer_list)
      BY <1>2, <1>4
    <3> QED
      BY ONLY <3>1
  <2> QED
    BY <1>5, <2>2, <2>3, <2>4
<1>7. DOMAIN timer_list' = 1 .. Len(timer_list) - last
  BY <1>6, LenProperties
<1>8. \A i, j \in 1 .. Len(timer_list) : i < j => timer_list[i] < timer_list[j]
  BY <1>2 DEF TimerInv, ListSound
<1>9. ASSUME NEW h \in Linked'
      PROVE  h \in Linked \ Expiring
  <2>1. PICK i \in 1 .. Len(timer_list) - last : timer_list[last + i] = h
    BY <1>6, <1>7 DEF Linked
  <2>2. last + i \in 1 .. Len(timer_list) /\ ~(last + i <= last)
    BY <1>2, <1>4, <2>1
  <2> QED
    BY <1>1, <1>4, <2>1, <2>2, LinkedIsRange
<1>10. ASSUME NEW i \in DOMAIN timer_list', NEW j \in DOMAIN timer_list', i < j
       PROVE  timer_list'[i] < timer_list'[j]
  BY <1>2, <1>4, <1>6, <1>7, <1>8, <1>10
<1>11. ASSUME NEW h \in Linked, h \notin Linked', h \notin Expiring
       PROVE  \E g \in Expiring : g > h
  <2>1. PICK i \in 1 .. Len(timer_list) : timer_list[i] = h
    BY <1>1, LinkedIsRange
  <2>2. i <= last
    <3> SUFFICES ASSUME i > last PROVE FALSE
      BY <1>4
    <3>1. i - last \in 1 .. Len(timer_list) - last /\ last + (i - last) = i
      BY <1>2, <1>4
    <3>2. timer_list'[i - last] = h
      BY <1>6, <2>1, <3>1
    <3> QED
      BY <1>7, <1>11, <3>1, <3>2 DEF Linked
  <2>3. i # last /\ timer_list[last] \in Expiring
    BY <1>4, <1>11, <2>1, <2>2
  <2>4. timer_list[i] < timer_list[last] /\ timer_list[i] \in Timer /\ timer_list[last] \in Timer
    BY <1>3, <1>4, <1>8, <2>2, <2>3
  <2> QED
    BY <2>1, <2>3, <2>4 DEF Timer
<1> QED
  BY <1>6, <1>9, <1>10, <1>11

(* A tick counts for the first timer, and takes out those it ends.          *)
LEMMA IsrTimerKeeps ==
  ASSUME TimerInv, isr_timer
  PROVE  TimerInv'
<1> USE DEF TimerInv, TimerTypeOK
<1>1. /\ timer_list' \in Seq(Timer)
      /\ Linked' \subseteq Linked \ Expiring /\ Linked \subseteq Timer
      /\ \A i, j \in DOMAIN timer_list' : i < j => timer_list'[i] < timer_list'[j]
  BY IsrTimerLinks, LinkedIsRange
<1>2. /\ timer_ticks' = Wrap(timer_ticks + 1) /\ next_timer' = next_timer /\ asked' = asked
      /\ delay' = [h \in Timer |-> IF h \in Linked THEN Wrap(delay[h] - 1) ELSE delay[h]]
      /\ passed' = [h \in Timer |-> IF h \in Linked THEN passed[h] + 1 ELSE passed[h]]
      /\ fate' = [h \in Timer |-> IF h \in Expiring THEN "fired" ELSE fate[h]]
  BY DEF isr_timer, Elapse
<1>3. ASSUME NEW h \in Linked
      PROVE  /\ h \in Timer /\ Wrap(delay[h] - 1) \in Ulong
             /\ delay'[h] = Wrap(delay[h] - 1) /\ passed'[h] \in Nat
             /\ \/ delay'[h] + passed'[h] = asked[h] \div MS_PIT
                \/ LessThanATick(h) /\ delay'[h] + passed'[h] = ULONG_MAX + 1
             /\ delay'[h] = 0 => h \in Expiring
  <2>1. /\ h \in Timer /\ delay[h] \in Ulong /\ passed[h] \in Nat
        /\ asked[h] \in Nat
        /\ delay'[h] = Wrap(delay[h] - 1) /\ passed'[h] = passed[h] + 1
    BY <1>1, <1>2
  <2>2. \/ delay[h] + passed[h] = asked[h] \div MS_PIT
        \/ LessThanATick(h) /\ delay[h] + passed[h] = ULONG_MAX + 1
    BY DEF DelayIsTimeLeft
  <2>3. /\ Wrap(delay[h] - 1) \in Ulong
        /\ delay[h] # 0 => delay'[h] + passed'[h] = delay[h] + passed[h]
        /\ delay[h] = 0 => delay'[h] + passed'[h] = ULONG_MAX + 1 + passed[h]
        /\ delay'[h] = 0 <=> delay[h] = 1
    BY <2>1, WrapTick
  <2>4. \/ delay'[h] + passed'[h] = asked[h] \div MS_PIT
        \/ LessThanATick(h) /\ delay'[h] + passed'[h] = ULONG_MAX + 1
    <3>1. CASE delay[h] # 0
      BY <2>2, <2>3, <3>1
    <3>2. CASE delay[h] = 0
      <4>1. passed[h] = 0 /\ asked[h] \in Nat /\ MS_PIT \in Nat \ {0} /\ ULONG_MAX \in Nat
        BY <2>1, <3>2, TimerAssumption DEF ZeroIsFresh, TimerAssumption
      <4>2. asked[h] \div MS_PIT = 0 \/ LessThanATick(h)
        BY <2>2, <3>2, <4>1
      <4>3. LessThanATick(h)
        BY <4>1, <4>2, TicksFit DEF LessThanATick
      <4> QED
        BY <2>3, <3>2, <4>1, <4>3
    <3> QED
      BY <3>1, <3>2
  <2> QED
    BY <2>1, <2>3, <2>4 DEF Expiring
<1>4. Wrap(timer_ticks + 1) \in Ulong
  BY TimerAssumption DEF TimerAssumption, Wrap, Ulong
<1>5. TimerTypeOK'
  BY <1>1, <1>2, <1>3, <1>4 DEF Fate
<1>6. ListSound'
  BY <1>1, <1>2 DEF ListSound
<1>7. DelayIsTimeLeft' /\ ZeroIsFresh'
  BY <1>1, <1>2, <1>3 DEF DelayIsTimeLeft, ZeroIsFresh, LessThanATick
<1>8. HandlesOnce'
  BY <1>2 DEF HandlesOnce, Expiring, ListSound
<1> QED
  BY <1>5, <1>6, <1>7, <1>8

(* The step of a timer function, whoever calls it.                          *)
LEMMA TimerStepKeeps == TimerInv /\ [TimerNext]_timervars => TimerInv'
<1> SUFFICES ASSUME TimerInv, [TimerNext]_timervars PROVE TimerInv'
  OBVIOUS
<1>1. CASE UNCHANGED timervars
  BY <1>1
  DEF timervars, history, TimerInv, TimerTypeOK, ListSound, DelayIsTimeLeft, ZeroIsFresh,
      LessThanATick, HandlesOnce, Linked
<1>2. CASE isr_timer
  BY <1>2, IsrTimerKeeps
<1>3. ASSUME NEW ms \in Ms, NEW timer, add_timer(ms, timer) PROVE TimerInv'
  <2>1. UNCHANGED timervars \/ timer # NULL
    BY <1>3 DEF add_timer, NULL, TimerInv, TimerTypeOK
  <2> QED
    BY <1>1, <1>3, <2>1, AddTimerKeeps
<1>4. \A h \in 0 .. next_timer - 1 : h \in Timer
  BY TimerAssumption DEF TimerInv, TimerTypeOK, TimerAssumption, Timer
<1>5. ASSUME NEW h \in 0 .. next_timer - 1, del_timer(h) PROVE TimerInv'
  BY <1>1, <1>4, <1>5, DelTimerKeeps DEF del_timer
<1>6. ASSUME NEW h \in 0 .. next_timer - 1, NEW ms \in Ms, mod_timer(h, ms) PROVE TimerInv'
  BY <1>1, <1>4, <1>6, ModTimerKeeps DEF mod_timer
<1> QED
  BY <1>1, <1>2, <1>3, <1>5, <1>6 DEF TimerNext

(* The invariant holds in every behaviour of the timers.                    *)
LEMMA TimerInvHolds == TimerSpec => []TimerInv
BY TimerInitInv, TimerStepKeeps, PTL DEF TimerSpec

(* The list of timers is type correct and sound, however the functions and  *)
(* the interrupt relink it (timer.c:36-225).                                *)
THEOREM TimersSound == TimerSpec => [](TimerTypeOK /\ ListSound)
<1>1. TimerInv => TimerTypeOK /\ ListSound
  BY DEF TimerInv
<1> QED
  BY <1>1, TimerInvHolds, PTL

(* The delay of every linked timer is the time left to it, for counters of  *)
(* any width that wrap at any time (timer.c:206).                           *)
THEOREM DelaysAreTimeLeft == TimerSpec => []DelayIsTimeLeft
<1>1. TimerInv => DelayIsTimeLeft
  BY DEF TimerInv
<1> QED
  BY <1>1, TimerInvHolds, PTL

(* A timer fires when the time asked for is over, to the tick, or a turn of *)
(* the counter after it if that was less than a tick (timer.c:201-213).     *)
THEOREM TimersFireWhenDue == TimerSpec => FiresWhenDue
<1> DEFINE Due(h) == \/ /\ passed'[h] * MS_PIT <= asked[h]
                        /\ asked[h] < (passed'[h] + 1) * MS_PIT
                     \/ LessThanATick(h) /\ passed'[h] = ULONG_MAX + 1
<1>1. ASSUME TimerInv, [TimerNext]_timervars
      PROVE  [\A h \in Timer : fate[h] = "armed" /\ fate'[h] = "fired" => Due(h)]_timervars
  <2> SUFFICES ASSUME TimerNext, NEW h \in Timer, fate[h] = "armed", fate'[h] = "fired"
               PROVE  Due(h)
    BY <1>1
  <2> USE <1>1 DEF TimerInv, TimerTypeOK
  <2>1. isr_timer
    BY DEF TimerNext, add_timer, del_timer, mod_timer, timervars, history
  <2>2. h \in Linked /\ delay[h] = 1
    BY <2>1 DEF isr_timer, Expiring
  <2>3. passed'[h] = passed[h] + 1 /\ passed[h] \in Nat
    BY <2>1, <2>2 DEF isr_timer, Elapse
  <2>4. \/ passed'[h] = asked[h] \div MS_PIT
        \/ LessThanATick(h) /\ passed'[h] = ULONG_MAX + 1
    <3>1. \/ delay[h] + passed[h] = asked[h] \div MS_PIT
          \/ LessThanATick(h) /\ delay[h] + passed[h] = ULONG_MAX + 1
      BY <2>2 DEF DelayIsTimeLeft
    <3>2. 1 + passed[h] = passed[h] + 1
      BY ONLY <2>3
    <3>3. delay[h] + passed[h] = passed'[h]
      BY ONLY <2>2, <2>3, <3>2
    <3> QED
      BY ONLY <3>1, <3>3 DEF LessThanATick
  <2>5. asked[h] \in Nat /\ MS_PIT \in Nat \ {0}
    BY TimerAssumption DEF TimerAssumption
  <2>6. /\ (asked[h] \div MS_PIT) * MS_PIT <= asked[h]
        /\ asked[h] < ((asked[h] \div MS_PIT) + 1) * MS_PIT
    BY <2>5, TicksFit
  <2> QED
    BY <2>4, <2>6
<1> QED
  BY <1>1, TimerInvHolds, PTL DEF TimerSpec, FiresWhenDue

(* A timer that leaves the list unfired and undeleted is lost to the expiry *)
(* of one registered after it (timer.c:211).                                *)
THEOREM TimersLostOnlyToLater == TimerSpec => LostOnlyToLater
<1>1. ASSUME TimerInv, [TimerNext]_timervars
      PROVE  [\A h \in Linked :
                \/ h \in Linked'
                \/ fate'[h] # "armed"
                \/ \E g \in Linked : g > h /\ fate'[g] = "fired"]_timervars
  <2> SUFFICES ASSUME TimerNext, NEW h \in Linked, h \notin Linked', fate'[h] = "armed"
               PROVE  \E g \in Linked : g > h /\ fate'[g] = "fired"
    BY <1>1
  <2>1. Linked \subseteq Timer
    BY <1>1, LinkedIsRange DEF TimerInv, TimerTypeOK
  <2>2. isr_timer
    <3>2. timer_list' # timer_list
      BY DEF Linked
    <3>1. ASSUME NEW ms \in Ms, NEW timer, add_timer(ms, timer) PROVE FALSE
      <4>1. timer # NULL
        BY <3>1, <3>2, TimerAssumption DEF add_timer, timervars, TimerAssumption, NULL
      <4> QED
        BY <1>1, <3>1, <4>1, AddTimerKeeps
    <3>3. ASSUME NEW g \in 0 .. next_timer - 1, del_timer(g) PROVE FALSE
      <4>1. Pending(g) /\ g \in Timer
        BY <2>1, <3>2, <3>3 DEF del_timer, timervars, Pending
      <4>2. Linked' = Linked \ {g} /\ fate'[g] = "deleted"
        BY <1>1, <3>3, <4>1, DelTimerKeeps DEF del_timer, TimerInv, TimerTypeOK
      <4> QED
        BY <4>2
    <3>4. ASSUME NEW g \in 0 .. next_timer - 1, NEW ms \in Ms, mod_timer(g, ms) PROVE FALSE
      BY <3>2, <3>4 DEF mod_timer, timervars
    <3> QED
      BY <3>1, <3>3, <3>4 DEF TimerNext
  <2>3. h \notin Expiring
    BY <2>1, <2>2 DEF isr_timer
  <2>4. PICK g \in Expiring : g > h
    BY <1>1, <2>2, <2>3, IsrTimerLinks
  <2>5. g \in Linked /\ g \in Timer
    BY <2>1, <2>4 DEF Expiring
  <2>6. fate'[g] = "fired"
    BY <2>2, <2>4, <2>5 DEF isr_timer
  <2> QED
    BY <2>4, <2>5, <2>6
<1> QED
  BY <1>1, TimerInvHolds, PTL DEF TimerSpec, LostOnlyToLater

-----------------------------------------------------------------------------
(* delay() on top of the timers and the scheduler.                          *)

(* Why no task wakes early: the only linked timer that names a task is the  *)
(* one of the call of delay it is in.                                       *)
TimersNameTheirCallers ==
  /\ \A h \in Linked : \A p \in Pid :
       owner[h] = p => delay_pc[p] # "out" /\ my_timer[p] = h
  /\ \A p \in Pid : delay_pc[p] # "out" => my_timer[p] < next_timer
  /\ \A h \in Timer : h >= next_timer => owner[h] = NoTask

(* What the calls of delay keep has its type.                               *)
CallsTypeOK ==
  /\ owner \in [Timer -> Pid \cup {NoTask}]
  /\ delay_pc \in [Pid -> DelayPoint]
  /\ my_timer \in [Pid -> Timer]
  /\ result \in [Pid -> Result]

DelayInv ==
  /\ WorkInv
  /\ TimerInv
  /\ CallsTypeOK
  /\ TimersNameTheirCallers
  /\ NeverEarly

(* No task sleeps at first, and no timer runs.                              *)
LEMMA DelayInitInv == DelayInit => DelayInv
<1> SUFFICES ASSUME DelayInit
             PROVE  DelayInv
  OBVIOUS
<1>1. WorkInv /\ TimerInv /\ timer_list = <<>>
  BY InitWork, TimerInitInv DEF DelayInit, TimerInit
<1>2. 0 \in Timer
  BY TimerAssumption DEF TimerAssumption, Timer
<1>3. CallsTypeOK
  BY <1>2 DEF DelayInit, CallsTypeOK, DelayPoint, Result
<1>4. Linked = {}
  BY <1>1 DEF Linked
<1>5. Program \subseteq Pid
  BY DEF Program
<1> QED
  BY <1>1, <1>3, <1>4, <1>5
  DEF DelayInit, DelayInv, TimersNameTheirCallers, NeverEarly

(* Every step of this system is a step of the timers or leaves them alone.  *)
LEMMA DelayStepIsTimerStep == [DelayNext]_delayvars => [TimerNext]_timervars
BY DEF DelayNext, delay_timer_irq, delay_other_irq, delay_kill, delay_register,
       delay_sleep, delay_return, console_printerr, delayvars, TimerNext

(* What the steps of this system do to the timers.                          *)
TimersMove ==
  isr_timer \/ UNCHANGED timervars \/ \E ms \in Ms, timer \in {NULL, next_timer} : add_timer(ms, timer)

(* At most the next handle comes into the list, and what has fired stays    *)
(* fired.                                                                   *)
LEMMA MovesKeep ==
  ASSUME TimerInv, TimersMove
  PROVE  /\ TimerInv' /\ next_timer \in Nat /\ next_timer' \in Nat /\ next_timer <= next_timer'
         /\ \A h \in Linked' : h \in Linked \/ h = next_timer
         /\ \A h \in Timer : fate[h] = "fired" => fate'[h] = "fired"
<1>1. TimerInv'
  BY TimerStepKeeps DEF TimersMove, TimerNext
<1>2. next_timer \in Nat /\ next_timer' \in Nat /\ fate \in [Timer -> Fate]
  BY <1>1 DEF TimerInv, TimerTypeOK
<1>3. CASE isr_timer
  <2>1. \A h \in Linked' : h \in Linked
    BY <1>3, IsrTimerLinks
  <2> QED
    BY <1>1, <1>2, <1>3, <2>1 DEF isr_timer
<1>4. CASE UNCHANGED timervars
  <2>1. Linked' = Linked
    BY <1>4 DEF timervars, Linked
  <2> QED
    BY <1>1, <1>2, <1>4, <2>1 DEF timervars, history
<1>5. ASSUME NEW ms \in Ms, NEW timer, timer # NULL, add_timer(ms, timer)
      PROVE  /\ next_timer <= next_timer'
             /\ \A h \in Linked' : h \in Linked \/ h = next_timer
             /\ \A h \in Timer : fate[h] = "fired" => fate'[h] = "fired"
  <2>1. Linked' = Linked \cup {next_timer} /\ next_timer \in Timer
    BY <1>5, AddTimerKeeps
  <2>2. fate' = [fate EXCEPT ![next_timer] = "armed"] /\ next_timer' = next_timer + 1
    BY <1>5 DEF add_timer
  <2>3. fate[next_timer] = "unborn"
    BY <1>2, <2>1 DEF TimerInv, HandlesOnce
  <2> QED
    BY <1>2, <2>1, <2>2, <2>3
<1>6. ASSUME NEW ms \in Ms, add_timer(ms, NULL)
      PROVE  UNCHANGED timervars
  BY <1>2, <1>6 DEF add_timer, NULL
<1> QED
  BY <1>1, <1>2, <1>3, <1>4, <1>5, <1>6 DEF TimersMove

(* A step outside delay keeps the invariant, if it lets no program out of   *)
(* its sleep but those whose timers it ends.                                *)
LEMMA OtherStepKeeps ==
  ASSUME DelayInv, WorkInv', TimersMove, UNCHANGED calls,
         \A p \in Program :
           \/ state[p] \notin {"BLOCKED", "KILLED"}
           \/ state'[p] \in {"BLOCKED", "KILLED"}
           \/ p \in Wakes /\ isr_timer
  PROVE  DelayInv'
<1>1. /\ TimerInv' /\ next_timer \in Nat /\ next_timer' \in Nat /\ next_timer <= next_timer'
      /\ \A h \in Linked' : h \in Linked \/ h = next_timer
      /\ \A h \in Timer : fate[h] = "fired" => fate'[h] = "fired"
  BY MovesKeep DEF DelayInv
<1>2. /\ CallsTypeOK' /\ CallsTypeOK /\ UNCHANGED <<owner, delay_pc, my_timer, result>>
      /\ Program \subseteq Pid /\ NoTask \notin Pid /\ Timer \subseteq Nat
  BY SchedulerAssumption
  DEF DelayInv, CallsTypeOK, calls, Program, NoTask, Pid, SchedulerAssumption, Timer
<1>3. TimersNameTheirCallers'
  <2>1. ASSUME NEW h \in Linked', NEW p \in Pid, owner[h] = p
        PROVE  delay_pc[p] # "out" /\ my_timer[p] = h
    <3>1. h \in Timer
      BY <1>1, LinkedIsRange DEF TimerInv, TimerTypeOK, Linked
    <3>2. h # next_timer
      BY <1>1, <1>2, <2>1, <3>1 DEF DelayInv, TimersNameTheirCallers
    <3> QED
      BY <1>1, <2>1, <3>2 DEF DelayInv, TimersNameTheirCallers
  <2>2. ASSUME NEW p \in Pid, delay_pc[p] # "out" PROVE my_timer[p] < next_timer'
    <3>1. my_timer[p] \in Nat /\ my_timer[p] < next_timer
      BY <1>2, <2>2 DEF DelayInv, TimersNameTheirCallers, CallsTypeOK
    <3> QED
      BY <1>1, <3>1
  <2>3. ASSUME NEW h \in Timer, h >= next_timer' PROVE owner[h] = NoTask
    <3>1. h >= next_timer
      BY <1>1, <1>2, <2>3
    <3> QED
      BY <3>1 DEF DelayInv, TimersNameTheirCallers
  <2> QED
    BY <1>2, <2>1, <2>2, <2>3 DEF TimersNameTheirCallers
<1>4. NeverEarly'
  <2>1. ASSUME NEW p \in Program, delay_pc[p] = "asleep", state'[p] \notin {"BLOCKED", "KILLED"}
        PROVE  fate'[my_timer[p]] = "fired"
    <3>1. p \in Pid /\ my_timer[p] \in Timer
      BY <1>2 DEF CallsTypeOK
    <3>2. CASE state[p] \notin {"BLOCKED", "KILLED"}
      BY <1>1, <2>1, <3>1, <3>2 DEF DelayInv, NeverEarly
    <3>3. CASE p \in Wakes /\ isr_timer
      <4>1. PICK h \in Expiring : owner[h] = p
        BY <3>3 DEF Wakes
      <4>2. my_timer[p] = h
        BY <3>1, <4>1 DEF DelayInv, TimersNameTheirCallers, Expiring
      <4> QED
        BY <3>1, <3>3, <4>1, <4>2 DEF isr_timer
    <3> QED
      BY <2>1, <3>2, <3>3
  <2>2. ASSUME NEW p \in Program, delay_pc[p] = "out", result[p] = "slept"
        PROVE  fate'[my_timer[p]] = "fired"
    BY <1>1, <1>2, <2>2 DEF DelayInv, NeverEarly, CallsTypeOK
  <2> QED
    BY <1>2, <2>1, <2>2 DEF NeverEarly
<1> QED
  BY <1>1, <1>2, <1>3, <1>4 DEF DelayInv

(* The timer interrupt wakes only the sleepers whose timers it ends.        *)
LEMMA DelayTimerIrqKeeps ==
  ASSUME DelayInv, delay_timer_irq
  PROVE  DelayInv'
<1>1. /\ isr_timer /\ UNCHANGED table /\ UNCHANGED calls
      /\ scheduler(Woken(state, Wakes), TRUE)
  BY DEF delay_timer_irq
<1>2. SchedulerInv /\ TypeOK /\ Program \subseteq Pid
  BY Programs DEF DelayInv, WorkInv, SchedulerInv
<1>3. HandlerResult(Woken(state, Wakes)) /\ Woken(state, Wakes) \in [Pid -> State]
  BY <1>1, <1>2, WokenIsHandlerResult DEF HandlerResult
<1>4. WorkInv'
  <2>1. /\ \A p \in Pid : p >= free_pid' => Woken(state, Wakes)[p] = "KILLED"
        /\ \A n \in Consoles : pid_task_shell'[n] < free_pid'
    BY <1>1, <1>2 DEF table, SchedulerInv, Woken
  <2>2. SchedulerInv'
    BY <1>1, <1>2, <1>3, <2>1, SchedulerKeepsInv
  <2> QED
    BY <1>1, <2>2 DEF DelayInv, WorkInv, table
<1>5. ASSUME NEW p \in Program, state[p] \in {"BLOCKED", "KILLED"}, p \notin Wakes
      PROVE  state'[p] \in {"BLOCKED", "KILLED"}
  <2>1. Woken(state, Wakes)[p] = state[p]
    BY <1>2, <1>5 DEF Woken
  <2> QED
    BY <1>1, <1>2, <1>3, <1>5, <2>1, SchedulerLeavesAlone
<1> QED
  BY <1>1, <1>4, <1>5, OtherStepKeeps DEF TimersMove

(* No other interrupt wakes a program, though a key may set a timer.        *)
LEMMA DelayOtherIrqKeeps ==
  ASSUME DelayInv, delay_other_irq
  PROVE  DelayInv'
<1>1. other_irq /\ TimersMove /\ UNCHANGED calls
  BY DEF delay_other_irq, console_printerr, other_irq, TimersMove
<1>2. WorkInv /\ TypeOK /\ Program \subseteq Pid
  BY Programs DEF DelayInv, WorkInv, SchedulerInv
<1>3. PICK st \in [Pid -> State], active \in BOOLEAN :
        scheduler(st, active) /\ \A p \in Program : st[p] = state[p]
  BY <1>1, <1>2, OtherIrqWork
<1>4. ASSUME NEW p \in Program, state[p] \in {"BLOCKED", "KILLED"}
      PROVE  state'[p] \in {"BLOCKED", "KILLED"}
  BY <1>2, <1>3, <1>4, SchedulerLeavesAlone
<1>5. WorkInv'
  BY <1>1, <1>2, OtherIrqWork
<1> QED
  BY <1>1, <1>4, <1>5, OtherStepKeeps

(* A sleeper that registers gets a timer of its own, or none.               *)
LEMMA DelayRegisterKeeps ==
  ASSUME DelayInv, NEW p \in Program, NEW ms \in Ms, NEW timer \in {NULL, next_timer},
         delay_register(p, ms, timer)
  PROVE  DelayInv'
<1>1. /\ p \in Pid /\ Program \subseteq Pid /\ delay_pc[p] = "out" /\ add_timer(ms, timer)
      /\ UNCHANGED vars
  BY DEF delay_register, Program
<1>2. TimersMove
  BY <1>1 DEF TimersMove
<1>3. /\ TimerInv' /\ next_timer \in Nat /\ next_timer' \in Nat /\ next_timer <= next_timer'
      /\ \A h \in Linked' : h \in Linked \/ h = next_timer
      /\ \A h \in Timer : fate[h] = "fired" => fate'[h] = "fired"
  BY <1>2, MovesKeep DEF DelayInv
<1>4. WorkInv'
  BY <1>1, WorkAlone DEF DelayInv, vars
<1>5. CallsTypeOK /\ Timer \subseteq Nat /\ UNCHANGED state
  BY <1>1 DEF DelayInv, Timer, vars
<1>6. CASE timer = NULL
  <2>1. /\ result' = [result EXCEPT ![p] = "failed"]
        /\ UNCHANGED <<owner, delay_pc, my_timer>>
    BY <1>6 DEF delay_register, Returns
  <2>2. UNCHANGED timervars
    BY <1>1, <1>3, <1>6 DEF add_timer, NULL
  <2>3. Linked' = Linked /\ UNCHANGED <<next_timer, fate>>
    BY <2>2 DEF timervars, history, Linked
  <2>4. CallsTypeOK'
    BY <1>5, <2>1 DEF CallsTypeOK, Result
  <2>5. TimersNameTheirCallers'
    BY <2>1, <2>3 DEF DelayInv, TimersNameTheirCallers
  <2>6. NeverEarly'
    BY <1>1, <1>5, <2>1, <2>3 DEF DelayInv, NeverEarly, CallsTypeOK
  <2> QED
    BY <1>3, <1>4, <2>4, <2>5, <2>6 DEF DelayInv
<1>7. CASE timer # NULL
  <2>1. /\ timer = next_timer /\ timer \in Timer /\ next_timer' = next_timer + 1
        /\ owner' = [owner EXCEPT ![timer] = p]
        /\ my_timer' = [my_timer EXCEPT ![p] = timer]
        /\ delay_pc' = [delay_pc EXCEPT ![p] = "registered"]
        /\ UNCHANGED result
    BY <1>1, <1>7, AddTimerKeeps DEF DelayInv, delay_register, MoveTo, add_timer
  <2>2. CallsTypeOK'
    BY <1>1, <1>5, <2>1 DEF CallsTypeOK, DelayPoint
  <2>3. TimersNameTheirCallers'
    <3>1. ASSUME NEW h \in Linked', NEW q \in Pid, owner'[h] = q
          PROVE  delay_pc'[q] # "out" /\ my_timer'[q] = h
      <4>1. CASE h = next_timer
        BY <1>1, <1>5, <2>1, <3>1, <4>1 DEF CallsTypeOK
      <4>2. CASE h # next_timer
        <5>1. h \in Linked /\ h \in Timer
          BY <1>3, <4>2, LinkedIsRange DEF DelayInv, TimerInv, TimerTypeOK
        <5>2. owner[h] = q
          BY <1>5, <2>1, <3>1, <4>2, <5>1 DEF CallsTypeOK
        <5>3. delay_pc[q] # "out" /\ my_timer[q] = h
          BY <5>1, <5>2 DEF DelayInv, TimersNameTheirCallers
        <5> QED
          BY <1>1, <1>5, <2>1, <5>3 DEF CallsTypeOK
      <4> QED
        BY <4>1, <4>2
    <3>2. ASSUME NEW q \in Pid, delay_pc'[q] # "out" PROVE my_timer'[q] < next_timer'
      <4>1. CASE q = p
        BY <1>1, <1>3, <1>5, <2>1, <4>1 DEF CallsTypeOK
      <4>2. CASE q # p
        <5>1. my_timer'[q] = my_timer[q] /\ my_timer[q] \in Nat /\ delay_pc[q] # "out"
          BY <1>5, <2>1, <3>2, <4>2 DEF CallsTypeOK
        <5>2. my_timer[q] < next_timer
          BY <5>1 DEF DelayInv, TimersNameTheirCallers
        <5> QED
          BY <1>3, <2>1, <5>1, <5>2
      <4> QED
        BY <4>1, <4>2
    <3>3. ASSUME NEW h \in Timer, h >= next_timer' PROVE owner'[h] = NoTask
      <4>1. h \in Nat /\ h >= next_timer /\ h # next_timer
        BY <1>3, <1>5, <2>1, <3>3
      <4>2. owner[h] = NoTask
        BY <4>1 DEF DelayInv, TimersNameTheirCallers
      <4> QED
        BY <1>5, <2>1, <4>1, <4>2 DEF CallsTypeOK
    <3> QED
      BY <3>1, <3>2, <3>3 DEF TimersNameTheirCallers
  <2>4. NeverEarly'
    <3>1. ASSUME NEW q \in Program, q # p
          PROVE  /\ delay_pc'[q] = delay_pc[q] /\ my_timer'[q] = my_timer[q]
                 /\ my_timer[q] \in Timer
      BY <1>1, <1>5, <2>1, <3>1 DEF CallsTypeOK
    <3>2. delay_pc'[p] = "registered"
      BY <1>1, <1>5, <2>1 DEF CallsTypeOK
    <3>3. ASSUME NEW q \in Program
          PROVE  /\ delay_pc'[q] = "asleep" /\ state[q] \notin {"BLOCKED", "KILLED"}
                      => fate'[my_timer'[q]] = "fired"
                 /\ delay_pc'[q] = "out" /\ result[q] = "slept"
                      => fate'[my_timer'[q]] = "fired"
      <4>1. CASE q = p
        BY <3>2, <4>1
      <4>2. CASE q # p
        <5>1. /\ delay_pc[q] = "asleep" /\ state[q] \notin {"BLOCKED", "KILLED"}
                   => fate[my_timer[q]] = "fired"
              /\ delay_pc[q] = "out" /\ result[q] = "slept" => fate[my_timer[q]] = "fired"
          BY DEF DelayInv, NeverEarly
        <5> QED
          BY <1>3, <3>1, <4>2, <5>1
      <4> QED
        BY <4>1, <4>2
    <3> QED
      BY <1>5, <2>1, <3>3 DEF NeverEarly
  <2> QED
    BY <1>3, <1>4, <2>2, <2>3, <2>4 DEF DelayInv
<1> QED
  BY <1>6, <1>7

(* Going to sleep leaves the timer alone.                                   *)
LEMMA DelaySleepKeeps ==
  ASSUME DelayInv, NEW p \in Program, delay_sleep(p)
  PROVE  DelayInv'
<1>1. /\ p \in Pid /\ Program \subseteq Pid
      /\ delay_pc[p] = "registered" /\ sleep_task(p)
      /\ delay_pc' = [delay_pc EXCEPT ![p] = "asleep"]
      /\ UNCHANGED <<timervars, owner, my_timer, result>>
  BY DEF delay_sleep, MoveTo, Program
<1>2. WorkInv'
  BY <1>1, WorkAlone DEF DelayInv, Next, sleep_task
<1>3. TimerInv' /\ Linked' = Linked /\ UNCHANGED <<next_timer, fate>>
  BY <1>1, TimerStepKeeps DEF DelayInv, timervars, history, Linked
<1>4. CallsTypeOK' /\ CallsTypeOK
  BY <1>1 DEF DelayInv, CallsTypeOK, DelayPoint
<1>5. TimersNameTheirCallers'
  BY <1>1, <1>3, <1>4 DEF DelayInv, CallsTypeOK, TimersNameTheirCallers
<1>6. NeverEarly'
  <2>1. state' = [state EXCEPT ![p] = "BLOCKED"] /\ state \in [Pid -> State]
    BY <1>1 DEF sleep_task, DelayInv, WorkInv, SchedulerInv, TypeOK
  <2>2. ASSUME NEW q \in Program, q # p
        PROVE  state'[q] = state[q] /\ delay_pc'[q] = delay_pc[q]
    BY <1>1, <1>4, <2>1, <2>2 DEF CallsTypeOK
  <2>3. state'[p] = "BLOCKED" /\ delay_pc'[p] = "asleep"
    BY <1>1, <1>4, <2>1 DEF CallsTypeOK
  <2> QED
    BY <1>1, <1>3, <2>2, <2>3 DEF DelayInv, NeverEarly
<1> QED
  BY <1>2, <1>3, <1>4, <1>5, <1>6 DEF DelayInv

(* A sleeper returns when its timer has run out.                            *)
LEMMA DelayReturnKeeps ==
  ASSUME DelayInv, NEW p \in Program, delay_return(p)
  PROVE  DelayInv'
<1>1. /\ p \in Pid /\ Program \subseteq Pid
      /\ delay_pc[p] = "asleep" /\ sleep_task_return(p)
      /\ delay_pc' = [delay_pc EXCEPT ![p] = "out"]
      /\ result' = [result EXCEPT ![p] = "slept"]
      /\ UNCHANGED <<timervars, owner, my_timer>>
  BY DEF delay_return, MoveTo, Returns, Program
<1>2. WorkInv' /\ UNCHANGED state
  BY <1>1, WorkAlone DEF DelayInv, Next, sleep_task_return
<1>3. TimerInv' /\ Linked' = Linked /\ UNCHANGED <<next_timer, fate>>
  BY <1>1, TimerStepKeeps DEF DelayInv, timervars, history, Linked
<1>4. CallsTypeOK' /\ CallsTypeOK
  BY <1>1 DEF DelayInv, CallsTypeOK, DelayPoint, Result
<1>5. fate[my_timer[p]] = "fired"
  <2>1. pid_cur_task = p /\ pc[p] = "sleep" /\ state[p] # "BLOCKED"
    BY <1>1 DEF sleep_task_return, Executes
  <2>2. state[p] # "KILLED"
    BY <1>1, <2>1, ProgramLives, Programs DEF DelayInv, WorkInv
  <2> QED
    BY <1>1, <2>1, <2>2 DEF DelayInv, NeverEarly
<1>6. \A h \in Linked : owner[h] # p
  <2> SUFFICES ASSUME NEW h \in Linked, owner[h] = p
               PROVE  FALSE
    OBVIOUS
  <2>1. my_timer[p] = h
    BY <1>1 DEF DelayInv, TimersNameTheirCallers
  <2>2. fate[h] = "armed"
    BY DEF DelayInv, TimerInv, ListSound
  <2> QED
    BY <1>5, <2>1, <2>2
<1>7. TimersNameTheirCallers'
  BY <1>1, <1>3, <1>4, <1>6
  DEF DelayInv, CallsTypeOK, TimersNameTheirCallers
<1>8. NeverEarly'
  <2>1. ASSUME NEW q \in Program, q # p
        PROVE  delay_pc'[q] = delay_pc[q] /\ result'[q] = result[q]
    BY <1>1, <1>4, <2>1 DEF CallsTypeOK
  <2> QED
    BY <1>1, <1>2, <1>3, <1>4, <1>5, <2>1 DEF DelayInv, NeverEarly, CallsTypeOK
<1> QED
  BY <1>2, <1>3, <1>4, <1>7, <1>8 DEF DelayInv

(* Every step of the sleepers and the interrupts keeps the invariant.       *)
LEMMA DelayNextInv == DelayInv /\ [DelayNext]_delayvars => DelayInv'
<1> SUFFICES ASSUME DelayInv, [DelayNext]_delayvars
             PROVE  DelayInv'
  OBVIOUS
<1>1. CASE UNCHANGED delayvars
  <2>1. UNCHANGED <<vars, timervars, calls>>
    BY <1>1 DEF delayvars
  <2>2. WorkInv'
    BY <2>1, WorkAlone DEF DelayInv, vars
  <2> QED
    BY <2>1, <2>2, OtherStepKeeps DEF TimersMove, vars
<1>2. CASE delay_kill
  <2>1. /\ WorkInv' /\ UNCHANGED <<timervars, calls>> /\ Program \subseteq Pid
        /\ \A p \in Pid : state'[p] = state[p] \/ state'[p] = "KILLED"
    BY <1>2, KillsWork, Programs DEF DelayInv, delay_kill
  <2> QED
    BY <2>1, OtherStepKeeps DEF TimersMove
<1> QED
  BY <1>1, <1>2, DelayTimerIrqKeeps, DelayOtherIrqKeeps, DelayRegisterKeeps, DelaySleepKeeps,
     DelayReturnKeeps
  DEF DelayNext

(* The system of sleeping tasks keeps the promise of the timers: whatever   *)
(* delay does to them is what some caller of timer.c may do (delay.c:28).   *)
THEOREM DelayUsesTimers == DelaySpec => TimerSpec
<1>1. DelayInit => TimerInit
  BY DEF DelayInit
<1> QED
  BY <1>1, DelayStepIsTimerStep, PTL DEF DelaySpec, TimerSpec

(* A task that nobody kills is let out of delay's sleep by the expiry of    *)
(* the timer it registered there and by nothing else, whatever other timers *)
(* and interrupts do (delay.c:26-30, signals.c).                            *)
THEOREM DelayNeverEarly == DelaySpec => []NeverEarly
<1>1. DelayInv => NeverEarly
  BY DEF DelayInv
<1> QED
  BY <1>1, DelayInitInv, DelayNextInv, PTL DEF DelaySpec
=============================================================================
