-------------------------- MODULE ConsoleSwitchProofs --------------------------
(***************************************************************************)
(* Proofs about the keyboard (module Keyboard) and the consoles (module    *)
(* ConsoleSwitch), for any number of consoles and tasks, any size of the   *)
(* buffer and any keys.                                                    *)
(***************************************************************************)
EXTENDS ConsoleSwitch, TLAPS

-----------------------------------------------------------------------------
(* The inductive invariant of the consoles.                                 *)

(* An entry that create_task has not filled is KILLED and has never run.    *)
TableTyped ==
  /\ state \in [Pid -> {"RUNNING", "READY", "BLOCKED", "KILLED"}]
  /\ pid_cur_task \in 0 .. free_pid - 1 \cup {Spinning}
  /\ free_pid \in 1 .. TaskBound
  /\ console \in [Pid -> Consoles]
  /\ cur_console \in Consoles
  /\ pid_task_shell \in [Consoles -> 0 .. free_pid - 1]
  /\ main_pc \in {"start", "created", "idle"}
  /\ getche_pc \in [Shell -> {"out", "called", "wait", "seen", "disabled", "read"}]
  /\ \A p \in Pid : p >= free_pid => state[p] = "KILLED"
  /\ \A p \in Shell : p >= free_pid => getche_pc[p] = "out"

(* Until main has stored the pid of the first shell there is no other, and  *)
(* only that shell touches the keyboard.                                    *)
StartUp ==
  /\ main_pc = "start" => free_pid = 1 /\ ~kbd_enabled
  /\ main_pc = "created" =>
       free_pid = 2 /\ console[1] = 0 /\ (getche_pc[1] = "wait" => kbd_enabled)
  /\ main_pc # "idle" => cur_console = 0 /\ \A c \in Consoles : pid_task_shell[c] = 0
  /\ main_pc = "idle" => pid_task_shell[cur_console] # 0

(* The idle task can always be given the processor.                         *)
IdleReady ==
  /\ state[0] = "READY" \/ (state[0] = "RUNNING" /\ pid_cur_task = 0)
  /\ pid_cur_task # Spinning

(* The shell of a console belongs to it and sleeps while another is on the  *)
(* screen.                                                                  *)
ShellsPlaced ==
  \A c \in Consoles : pid_task_shell[c] # 0 =>
    /\ console[pid_task_shell[c]] = c
    /\ c # cur_console => state[pid_task_shell[c]] \in {"BLOCKED", "KILLED"}

(* A shell that its console has replaced is dead, and if it still has the   *)
(* processor its successor has not run yet.                                 *)
ReplacedAreDead ==
  main_pc = "idle" =>
    \A p \in Shell : p < free_pid /\ p # pid_task_shell[console[p]] =>
      /\ pid_task_shell[console[p]] # 0
      /\ state[p] = "KILLED"
      /\ pid_cur_task = p => getche_pc[pid_task_shell[console[p]]] = "out"

ConsolesSound ==
  ~EarlySwitch => StartUp /\ IdleReady /\ ShellsPlaced /\ ReplacedAreDead

SwitchInv == TableTyped /\ ConsolesSound /\ DeafOnlyBehindAnother

-----------------------------------------------------------------------------
(* The scheduler and the switch, as functions of the table.                 *)

TaskState == {"RUNNING", "READY", "BLOCKED", "KILLED"}

Awake == {"READY", "RUNNING"}

(* What the assumptions say of the pids and the consoles: pid 0 is the idle *)
(* task, every other pid may be a shell.                                    *)
LEMMA TableSizes ==
  /\ TaskBound \in Nat \ {0, 1} /\ N_CONSOLES \in Nat \ {0}
  /\ 0 \in Pid /\ Spinning \notin Pid /\ Spinning \notin Shell /\ Shell \subseteq Pid
  /\ 0 \in Consoles /\ Reader = Shell
  /\ \A p \in Pid : p \in Nat /\ (p # 0 <=> p \in Shell)
BY ConsoleAssumption, KeyboardAssumption
DEF ConsoleAssumption, KeyboardAssumption, Pid, Spinning, Shell, Consoles

(* The scheduler moves entries between READY and RUNNING only, and takes    *)
(* a task that one of the two.                                              *)
LEMMA SchedulerTable ==
  ASSUME NEW st \in [Pid -> TaskState], pid_cur_task \in Pid, scheduler(st)
  PROVE  /\ state' \in [Pid -> TaskState]
         /\ \A p \in Pid : IF st[p] \in Awake THEN state'[p] \in Awake
                                              ELSE state'[p] = st[p]
         /\ \/ pid_cur_task' = pid_cur_task \/ pid_cur_task' = Spinning
            \/ pid_cur_task' \in Pid /\ st[pid_cur_task'] \in Awake
         /\ (st[0] = "READY" \/ (st[0] = "RUNNING" /\ pid_cur_task = 0)) => IdleReady'
<1> DEFINE pre == Preempted(st)
<1>1. /\ pre \in [Pid -> TaskState]
      /\ \A p \in Pid : IF st[p] \in Awake THEN pre[p] \in Awake
                                           ELSE pre[p] = st[p]
      /\ st[0] = "READY" => pre[0] = "READY"
      /\ st[0] = "RUNNING" /\ pid_cur_task = 0 => pre[0] = "READY"
  BY TableSizes DEF Preempted, TaskState, Awake
<1> HIDE DEF pre
<1>2. pid_cur_task # Spinning /\ 0 \in Pid /\ Spinning \notin Pid
  BY TableSizes
<1>3. CASE state' = st /\ UNCHANGED pid_cur_task
  BY <1>2, <1>3 DEF IdleReady, Awake
<1>4. ASSUME NEW next \in Ready(pre), pid_cur_task' = next,
             state' = [pre EXCEPT ![next] = "RUNNING"]
      PROVE  /\ state' \in [Pid -> TaskState]
             /\ \A p \in Pid : IF st[p] \in Awake THEN state'[p] \in Awake
                                                  ELSE state'[p] = st[p]
             /\ pid_cur_task' \in Pid /\ st[pid_cur_task'] \in Awake
             /\ (st[0] = "READY" \/ (st[0] = "RUNNING" /\ pid_cur_task = 0)) => IdleReady'
  <2>1. next \in Pid /\ pre[next] = "READY"
    BY DEF Ready
  <2>2. st[next] \in Awake
    BY <1>1, <2>1 DEF Awake, TaskState
  <2>3. /\ state' \in [Pid -> TaskState]
        /\ \A p \in Pid : state'[p] = IF p = next THEN "RUNNING" ELSE pre[p]
    BY <1>1, <1>4, <2>1 DEF TaskState
  <2>4. \A p \in Pid : IF st[p] \in Awake THEN state'[p] \in Awake
                                          ELSE state'[p] = st[p]
    BY <1>1, <2>2, <2>3 DEF Awake
  <2>5. (st[0] = "READY" \/ (st[0] = "RUNNING" /\ pid_cur_task = 0)) => IdleReady'
    BY <1>1, <1>2, <1>4, <2>1, <2>3 DEF IdleReady
  <2> QED
    BY <1>4, <2>1, <2>2, <2>3, <2>4, <2>5
<1>5. CASE Ready(pre) = {} /\ pid_cur_task' = Spinning /\ state' = pre
  <2>1. pre[0] # "READY"
    BY <1>2, <1>5 DEF Ready
  <2> QED
    BY <1>1, <1>5, <2>1
<1> QED
  BY <1>3, <1>4, <1>5 DEF scheduler, pre

(* The process table a switch leaves: the shell it comes from is blocked,   *)
(* the one it goes to is ready, and the others are as they were.            *)
LEMMA SwitchedTable ==
  ASSUME TableTyped, NEW n \in Consoles, n # cur_console,
         NeedsShell(n) => free_pid \in Pid
  PROVE  /\ Switched(n) \in [Pid -> TaskState]
         /\ ShellOf(n) \in Pid /\ pid_task_shell[cur_console] \in Pid
         /\ \A p \in Pid :
              Switched(n)[p] =
                IF p = pid_task_shell[cur_console] THEN "BLOCKED"
                ELSE IF p = ShellOf(n) /\ (NeedsShell(n) \/ state[p] = "BLOCKED")
                     THEN "READY" ELSE state[p]
<1>1. state \in [Pid -> TaskState]
  BY DEF TableTyped, TaskState
<1>2. \A c \in Consoles : pid_task_shell[c] \in Pid
  BY TableSizes DEF TableTyped, Pid
<1>3. ShellOf(n) \in Pid /\ pid_task_shell[cur_console] \in Pid
  BY <1>2 DEF ShellOf, TableTyped
<1> DEFINE woken == [state EXCEPT ![ShellOf(n)] =
                       IF NeedsShell(n) \/ @ = "BLOCKED" THEN "READY" ELSE @]
<1>4. /\ woken \in [Pid -> TaskState]
      /\ \A p \in Pid : woken[p] = IF p = ShellOf(n) /\ (NeedsShell(n) \/ state[p] = "BLOCKED")
                                   THEN "READY" ELSE state[p]
  BY <1>1, <1>3 DEF TaskState
<1>5. Switched(n) = [woken EXCEPT ![pid_task_shell[cur_console]] = "BLOCKED"]
  BY DEF Switched
<1> HIDE DEF woken
<1> QED
  BY <1>3, <1>4, <1>5 DEF TaskState

-----------------------------------------------------------------------------
(* What the steps do to what the consoles and the keyboard share.           *)

(* A keyboard interrupt is a switch to another console or a preemption.     *)
LEMMA KbdIrqSteps ==
  ASSUME console_kbd_irq
  PROVE  /\ pid_cur_task # Spinning
         /\ kbd_enabled /\ kbd_enabled' /\ UNCHANGED <<getche_pc, main_pc>>
         /\ \/ \E n \in Consoles : /\ n # cur_console
                                   /\ switch_to_console(n) /\ scheduler(Switched(n))
            \/ UNCHANGED <<cur_console, table_vars>> /\ scheduler(state)
<1>1. PICK sc \in Scancodes :
         /\ isr_kbd(sc)
         /\ IF Switches(sc)
            THEN switch_to_console(key' - 48) /\ scheduler(Switched(key' - 48))
            ELSE UNCHANGED <<cur_console, table_vars>> /\ scheduler(state)
  BY DEF console_kbd_irq
<1>2. kbd_enabled /\ kbd_enabled' /\ UNCHANGED getche_pc
  BY <1>1 DEF isr_kbd
<1>3. Switches(sc) => key' - 48 \in Consoles /\ key' - 48 # cur_console
  BY DEF Switches
<1>4. pid_cur_task # Spinning /\ UNCHANGED main_pc
  BY DEF console_kbd_irq
<1> QED
  BY <1>1, <1>2, <1>3, <1>4

(* One step of sys_getche.                                                  *)
LEMMA GetcheSteps ==
  ASSUME TableTyped, NEW p \in Shell, shell_getche(p)
  PROVE  /\ pid_cur_task = p /\ UNCHANGED switch_vars /\ UNCHANGED cur_console
         /\ getche_pc' \in [Shell -> {"out", "called", "wait", "seen", "disabled", "read"}]
         /\ \A q \in Shell \ {p} : getche_pc'[q] = getche_pc[q]
         /\ \/ /\ getche_pc'[p] = "wait" /\ kbd_enabled'
            \/ /\ getche_pc[p] = "wait" /\ getche_pc'[p] = "seen"
               /\ UNCHANGED <<kbd_enabled, active_press_key, active_press_enter>>
            \/ /\ getche_pc[p] = "seen" /\ getche_pc'[p] = "disabled"
            \/ /\ getche_pc[p] \in {"out", "disabled", "read"}
               /\ getche_pc'[p] \in {"called", "read", "out"}
               /\ UNCHANGED kbd_enabled
<1>1. pid_cur_task = p /\ UNCHANGED switch_vars /\ sys_getche(p)
  BY DEF shell_getche
<1>2. getche_pc \in [Shell -> {"out", "called", "wait", "seen", "disabled", "read"}]
  BY DEF TableTyped
<1>3. CASE getche_call(p)
  BY <1>1, <1>2, <1>3 DEF getche_call, GetcheStep, KeptByGetche
<1>4. CASE getche_enable(p)
  BY <1>1, <1>2, <1>4 DEF getche_enable, GetcheStep, KeptByGetche
<1>5. CASE getche_seen(p)
  BY <1>1, <1>2, <1>5 DEF getche_seen, GetcheStep, KeptByGetche
<1>6. CASE getche_disable(p)
  BY <1>1, <1>2, <1>6 DEF getche_disable, GetcheStep, KeptByGetche
<1>7. CASE getche_reset(p)
  BY <1>1, <1>2, <1>7 DEF getche_reset, GetcheStep, KeptByGetche
<1>8. CASE getche_return(p)
  BY <1>1, <1>2, <1>8 DEF getche_return, GetcheStep, KeptByGetche
<1> QED
  BY <1>1, <1>3, <1>4, <1>5, <1>6, <1>7, <1>8 DEF sys_getche

(* The start-up as main leaves it, before it creates the first shell.       *)
LEMMA InitTable == SwitchInit => TableTyped /\ ConsolesSound /\ DeafOnlyBehindAnother
<1> SUFFICES ASSUME SwitchInit
             PROVE  TableTyped /\ ConsolesSound /\ DeafOnlyBehindAnother
  OBVIOUS
<1>1. /\ cur_console = 0 /\ ~kbd_enabled
      /\ \A p \in Shell : getche_pc[p] = "out"
      /\ getche_pc \in [Shell -> {"out", "called", "wait", "seen", "disabled", "read"}]
  BY TableSizes DEF SwitchInit, KbdInit
<1>2. /\ 0 .. free_pid - 1 = {0} /\ free_pid = 1
      /\ \A p \in Pid : p >= free_pid <=> p # 0
      /\ \A p \in Shell : ~(p < free_pid)
  BY TableSizes DEF SwitchInit, Shell
<1>3. TableTyped
  BY <1>1, <1>2, TableSizes DEF SwitchInit, TableTyped
<1>4. ConsolesSound
  BY <1>1, <1>2, TableSizes
  DEF SwitchInit, ConsolesSound, StartUp, IdleReady, ShellsPlaced, ReplacedAreDead
<1>5. DeafOnlyBehindAnother
  BY <1>1 DEF DeafOnlyBehindAnother
<1> QED
  BY <1>3, <1>4, <1>5

(* An interrupt that switches no console.                                   *)
LEMMA PreemptTyped ==
  ASSUME TableTyped, pid_cur_task # Spinning, scheduler(state),
         UNCHANGED <<cur_console, table_vars, main_pc, getche_pc>>
  PROVE  TableTyped'
<1>1. pid_cur_task \in Pid /\ state \in [Pid -> TaskState]
  BY TableSizes DEF TableTyped, Pid, TaskState
<1>2. /\ state' \in [Pid -> TaskState]
      /\ \A p \in Pid : state[p] = "KILLED" => state'[p] = "KILLED"
      /\ \/ pid_cur_task' = pid_cur_task \/ pid_cur_task' = Spinning
         \/ pid_cur_task' \in Pid /\ state[pid_cur_task'] \in Awake
  BY <1>1, SchedulerTable DEF Awake
<1>3. pid_cur_task' \in 0 .. free_pid' - 1 \cup {Spinning}
  BY <1>2 DEF TableTyped, table_vars, Awake, Pid
<1> QED
  BY <1>2, <1>3 DEF TableTyped, TaskState, table_vars

(* The table keeps its type over a switch that creates a shell or wakes     *)
(* one.                                                                     *)
LEMMA SwitchTyped ==
  ASSUME TableTyped, pid_cur_task # Spinning, NEW n \in Consoles, n # cur_console,
         switch_to_console(n), scheduler(Switched(n)), UNCHANGED <<main_pc, getche_pc>>
  PROVE  TableTyped'
<1>1. NeedsShell(n) => free_pid \in Pid
  BY DEF switch_to_console
<1>2. pid_cur_task \in Pid
  BY TableSizes DEF TableTyped, Pid
<1>3. /\ Switched(n) \in [Pid -> TaskState]
      /\ \A p \in Pid :
           Switched(n)[p] =
             IF p = pid_task_shell[cur_console] THEN "BLOCKED"
             ELSE IF p = ShellOf(n) /\ (NeedsShell(n) \/ state[p] = "BLOCKED")
                  THEN "READY" ELSE state[p]
  BY <1>1, SwitchedTable
<1>4. /\ free_pid' \in 1 .. TaskBound /\ free_pid <= free_pid'
      /\ ShellOf(n) \in 0 .. free_pid' - 1
      /\ \A p \in 0 .. free_pid - 1 : p \in 0 .. free_pid' - 1
  BY <1>1, TableSizes DEF switch_to_console, ShellOf, TableTyped, Pid
<1>5. \A p \in Pid : p >= free_pid' =>
        p >= free_pid /\ p # ShellOf(n) /\ p # pid_task_shell[cur_console]
  BY <1>4, TableSizes DEF TableTyped
<1>6. \A p \in Pid : p >= free_pid' => Switched(n)[p] = "KILLED"
  BY <1>3, <1>5 DEF TableTyped
<1>7. /\ state' \in [Pid -> TaskState]
      /\ \A p \in Pid : Switched(n)[p] = "KILLED" => state'[p] = "KILLED"
      /\ \/ pid_cur_task' = pid_cur_task \/ pid_cur_task' = Spinning
         \/ pid_cur_task' \in Pid /\ Switched(n)[pid_cur_task'] \in Awake
  BY <1>2, <1>3, SchedulerTable DEF Awake
<1>8. pid_cur_task' \in 0 .. free_pid' - 1 \cup {Spinning}
  <2>1. \A p \in Pid : Switched(n)[p] \in Awake => p \in 0 .. free_pid' - 1
    <3>1. \A p \in Pid : Switched(n)[p] \in Awake => ~(p >= free_pid')
      BY <1>6 DEF Awake
    <3>2. \A p \in Pid : p \in Nat
      BY TableSizes
    <3>3. free_pid' \in Nat
      BY <1>4, TableSizes
    <3> QED
      BY <3>1, <3>2, <3>3
  <2> QED
    BY <1>4, <1>7, <2>1 DEF TableTyped
<1>9. console' \in [Pid -> Consoles]
  BY DEF switch_to_console, TableTyped
<1>10. pid_task_shell' \in [Consoles -> 0 .. free_pid' - 1]
  BY <1>4 DEF switch_to_console, TableTyped
<1>11. cur_console' \in Consoles /\ main_pc' = main_pc /\ getche_pc' = getche_pc
  BY DEF switch_to_console
<1>12. \A p \in Shell : p >= free_pid' => getche_pc'[p] = "out"
  BY <1>5, <1>11, TableSizes DEF TableTyped
<1> QED
  BY <1>4, <1>6, <1>7, <1>8, <1>9, <1>10, <1>11, <1>12 DEF TableTyped, TaskState

(* And over every step.                                                     *)
LEMMA NextTableTyped == TableTyped /\ [SwitchNext]_all_vars => TableTyped'
<1> SUFFICES ASSUME TableTyped, [SwitchNext]_all_vars
             PROVE  TableTyped'
  OBVIOUS
<1>1. CASE UNCHANGED all_vars
  BY <1>1 DEF all_vars, kbd_vars, switch_vars, TableTyped
<1>2. CASE main_create
  <2>1. /\ free_pid \in Pid /\ free_pid' = free_pid + 1 /\ main_pc' = "created"
        /\ state' = [state EXCEPT ![free_pid] = "READY"]
        /\ console' = [console EXCEPT ![free_pid] = cur_console]
        /\ UNCHANGED <<pid_cur_task, pid_task_shell, cur_console, getche_pc>>
    BY <1>2 DEF main_create, kbd_vars
  <2>2. /\ free_pid' \in 1 .. TaskBound
        /\ \A p \in 0 .. free_pid - 1 : p \in 0 .. free_pid' - 1
        /\ \A p \in Pid : p >= free_pid' => p >= free_pid /\ p # free_pid
    BY <2>1, TableSizes DEF TableTyped, Pid
  <2> QED
    BY <2>1, <2>2, TableSizes DEF TableTyped
<1>3. CASE main_store
  <2>1. /\ main_pc' = "idle"
        /\ pid_task_shell' = [pid_task_shell EXCEPT ![cur_console] = free_pid - 1]
        /\ UNCHANGED <<state, pid_cur_task, free_pid, console, cur_console, getche_pc>>
    BY <1>3 DEF main_store, kbd_vars
  <2>2. free_pid - 1 \in 0 .. free_pid - 1
    BY DEF TableTyped
  <2> QED
    BY <2>1, <2>2 DEF TableTyped
<1>4. CASE console_kbd_irq
  BY <1>4, KbdIrqSteps, PreemptTyped, SwitchTyped
<1>5. CASE console_other_irq
  BY <1>5, PreemptTyped DEF console_other_irq, kbd_vars
<1>6. ASSUME NEW p \in Shell, shell_getche(p)
      PROVE  TableTyped'
  <2>1. p < free_pid
    BY <1>6, TableSizes DEF shell_getche, TableTyped
  <2>2. \A q \in Shell : q >= free_pid => q # p
    BY <2>1, TableSizes DEF TableTyped
  <2> QED
    BY <1>6, <2>2, GetcheSteps DEF TableTyped, switch_vars
<1>7. ASSUME NEW p \in Shell, NEW q \in Pid, shell_kill(p, q)
      PROVE  TableTyped'
  BY <1>7 DEF shell_kill, Killable, TableTyped, table_vars, kbd_vars
<1> QED
  BY <1>1, <1>2, <1>3, <1>4, <1>5, <1>6, <1>7 DEF SwitchNext

-----------------------------------------------------------------------------
(* The consoles.                                                            *)

(* What a switch to console n does to the shells.                           *)
LEMMA SwitchSteps ==
  ASSUME TableTyped, pid_cur_task # Spinning, NEW n \in Consoles, n # cur_console,
         switch_to_console(n), scheduler(Switched(n))
  PROVE  /\ cur_console' = n
         /\ pid_task_shell' = [pid_task_shell EXCEPT ![n] = ShellOf(n)]
         /\ IF NeedsShell(n)
            THEN /\ ShellOf(n) = free_pid /\ free_pid \in Pid /\ free_pid' = free_pid + 1
                 /\ console' = [console EXCEPT ![free_pid] = n]
            ELSE /\ ShellOf(n) = pid_task_shell[n] /\ pid_task_shell[n] # 0
                 /\ UNCHANGED <<free_pid, console>>
         /\ ShellOf(n) \in Shell
         /\ state'[pid_task_shell[cur_console]] = "BLOCKED"
         /\ \A p \in Pid \ {ShellOf(n), pid_task_shell[cur_console]} :
              state[p] \notin Awake => state'[p] = state[p]
         /\ \A p \in Pid : state[p] \notin Awake /\ p # ShellOf(n) /\ pid_cur_task' = p
                             => pid_cur_task = p
         /\ pid_task_shell[cur_console] # 0 /\ IdleReady => IdleReady'
<1>1. NeedsShell(n) => free_pid \in Pid
  BY DEF switch_to_console
<1>2. pid_cur_task \in Pid /\ 0 \in Pid
  BY TableSizes DEF TableTyped, Pid
<1>3. /\ Switched(n) \in [Pid -> TaskState]
      /\ ShellOf(n) \in Pid /\ pid_task_shell[cur_console] \in Pid
      /\ \A p \in Pid :
           Switched(n)[p] =
             IF p = pid_task_shell[cur_console] THEN "BLOCKED"
             ELSE IF p = ShellOf(n) /\ (NeedsShell(n) \/ state[p] = "BLOCKED")
                  THEN "READY" ELSE state[p]
  BY <1>1, SwitchedTable
<1>4. /\ \A p \in Pid : Switched(n)[p] \notin Awake => state'[p] = Switched(n)[p]
      /\ \/ pid_cur_task' = pid_cur_task \/ pid_cur_task' = Spinning
         \/ pid_cur_task' \in Pid /\ Switched(n)[pid_cur_task'] \in Awake
      /\ (Switched(n)[0] = "READY" \/ (Switched(n)[0] = "RUNNING" /\ pid_cur_task = 0))
           => IdleReady'
  BY <1>2, <1>3, SchedulerTable
<1>5. ShellOf(n) # 0
  BY <1>1 DEF ShellOf, NeedsShell, TableTyped
<1>6. ShellOf(n) \in Shell
  BY <1>3, <1>5, TableSizes
<1>7. state'[pid_task_shell[cur_console]] = "BLOCKED"
  BY <1>3, <1>4 DEF Awake
<1>8. \A p \in Pid \ {ShellOf(n), pid_task_shell[cur_console]} :
        state[p] \notin Awake => state'[p] = state[p]
  BY <1>3, <1>4
<1>9. \A p \in Pid : state[p] \notin Awake /\ p # ShellOf(n) /\ pid_cur_task' = p
                       => pid_cur_task = p
  <2>1. \A p \in Pid : state[p] \notin Awake /\ p # ShellOf(n)
                         => Switched(n)[p] \notin Awake
    BY <1>3 DEF Awake
  <2>2. Spinning \notin Pid
    BY TableSizes
  <2> QED
    BY <1>4, <2>1, <2>2
<1>10. pid_task_shell[cur_console] # 0 /\ IdleReady => IdleReady'
  BY <1>2, <1>3, <1>4, <1>5 DEF IdleReady
<1>11. IF NeedsShell(n)
       THEN /\ ShellOf(n) = free_pid /\ free_pid \in Pid /\ free_pid' = free_pid + 1
            /\ console' = [console EXCEPT ![free_pid] = n]
       ELSE /\ ShellOf(n) = pid_task_shell[n] /\ pid_task_shell[n] # 0
            /\ UNCHANGED <<free_pid, console>>
  BY <1>1 DEF switch_to_console, ShellOf, NeedsShell
<1>12. /\ cur_console' = n
       /\ pid_task_shell' = [pid_task_shell EXCEPT ![n] = ShellOf(n)]
  BY DEF switch_to_console
<1> QED
  BY <1>6, <1>7, <1>8, <1>9, <1>10, <1>11, <1>12

(* What an interrupt without a switch does to them.                         *)
LEMMA PreemptSteps ==
  ASSUME TableTyped, pid_cur_task # Spinning, scheduler(state)
  PROVE  /\ \A p \in Pid : state[p] \notin Awake => state'[p] = state[p]
         /\ \A p \in Pid : state[p] \notin Awake /\ pid_cur_task' = p => pid_cur_task = p
         /\ IdleReady => IdleReady'
<1>1. pid_cur_task \in Pid /\ state \in [Pid -> TaskState] /\ Spinning \notin Pid
  BY TableSizes DEF TableTyped, Pid, TaskState
<1>2. /\ \A p \in Pid : state[p] \notin Awake => state'[p] = state[p]
      /\ \/ pid_cur_task' = pid_cur_task \/ pid_cur_task' = Spinning
         \/ pid_cur_task' \in Pid /\ state[pid_cur_task'] \in Awake
      /\ (state[0] = "READY" \/ (state[0] = "RUNNING" /\ pid_cur_task = 0)) => IdleReady'
  BY <1>1, SchedulerTable
<1> QED
  BY <1>1, <1>2 DEF IdleReady

(* Nothing makes the blocked idle task READY.                               *)
LEMMA EarlyStays ==
  ASSUME TableTyped, [SwitchNext]_all_vars, EarlySwitch
  PROVE  EarlySwitch'
<1>1. state[0] = "BLOCKED" /\ state[0] \notin Awake /\ 0 \in Pid
  BY TableSizes DEF EarlySwitch, Awake
<1>2. CASE UNCHANGED all_vars
  BY <1>2 DEF all_vars, switch_vars, EarlySwitch
<1>3. CASE main_create
  <2>1. free_pid # 0
    BY DEF TableTyped
  <2> QED
    BY <1>1, <1>3, <2>1 DEF main_create, TableTyped, EarlySwitch
<1>4. CASE main_store
  BY <1>1, <1>4 DEF main_store, EarlySwitch
<1>5. ASSUME pid_cur_task # Spinning, scheduler(state)
      PROVE  EarlySwitch'
  BY <1>1, <1>5, PreemptSteps DEF EarlySwitch
<1>6. ASSUME pid_cur_task # Spinning, NEW n \in Consoles, n # cur_console,
             switch_to_console(n), scheduler(Switched(n))
      PROVE  EarlySwitch'
  <2>1. ShellOf(n) # 0
    BY <1>6, SwitchSteps, TableSizes
  <2> QED
    BY <1>1, <1>6, <2>1, SwitchSteps DEF EarlySwitch
<1>7. CASE console_kbd_irq
  BY <1>5, <1>6, <1>7, KbdIrqSteps
<1>8. CASE console_other_irq
  BY <1>5, <1>8 DEF console_other_irq
<1>9. ASSUME NEW p \in Shell, shell_getche(p)
      PROVE  EarlySwitch'
  BY <1>1, <1>9 DEF shell_getche, switch_vars, EarlySwitch
<1>10. ASSUME NEW p \in Shell, NEW q \in Pid, shell_kill(p, q)
       PROVE  EarlySwitch'
  BY <1>1, <1>10 DEF shell_kill, Killable, TableTyped, EarlySwitch
<1> QED
  BY <1>2, <1>3, <1>4, <1>7, <1>8, <1>9, <1>10 DEF SwitchNext

(* A switch from a console whose shell may be blocked keeps every console   *)
(* with its shell.                                                          *)
LEMMA SwitchKeepsSound ==
  ASSUME TableTyped, ConsolesSound, ~EarlySwitch, ~EarlySwitch',
         pid_cur_task # Spinning, NEW n \in Consoles, n # cur_console,
         switch_to_console(n), scheduler(Switched(n)), UNCHANGED <<main_pc, getche_pc>>
  PROVE  ConsolesSound'
<1> DEFINE old == pid_task_shell[cur_console]
           new == ShellOf(n)
<1>1. StartUp /\ IdleReady /\ ShellsPlaced /\ ReplacedAreDead
  BY DEF ConsolesSound
<1>2. /\ cur_console' = n /\ new \in Shell /\ state'[old] = "BLOCKED"
      /\ pid_task_shell' = [pid_task_shell EXCEPT ![n] = new]
      /\ IF NeedsShell(n)
         THEN /\ new = free_pid /\ free_pid \in Pid /\ free_pid' = free_pid + 1
              /\ console' = [console EXCEPT ![free_pid] = n]
         ELSE new = pid_task_shell[n] /\ new # 0 /\ UNCHANGED <<free_pid, console>>
      /\ \A p \in Pid \ {new, old} : state[p] \notin Awake => state'[p] = state[p]
      /\ \A p \in Pid : state[p] \notin Awake /\ p # new /\ pid_cur_task' = p
                          => pid_cur_task = p
      /\ old # 0 /\ IdleReady => IdleReady'
  BY SwitchSteps
<1>3. old # 0 /\ old \in Shell /\ old < free_pid
  <2>1. old # 0
    BY <1>2 DEF EarlySwitch
  <2>2. old \in 0 .. free_pid - 1 /\ free_pid \in 1 .. TaskBound
    BY DEF TableTyped
  <2>3. old \in Pid /\ old < free_pid
    BY <2>2, TableSizes DEF Pid
  <2> QED
    BY <2>1, <2>3, TableSizes
<1>4. main_pc = "idle" /\ main_pc' = "idle"
  BY <1>1, <1>3 DEF StartUp, TableTyped
<1>5. new # 0 /\ 0 \notin Shell /\ Shell \subseteq Pid
  BY <1>2, TableSizes DEF Shell
<1>6. pid_task_shell'[n] = new /\ \A c \in Consoles \ {n} : pid_task_shell'[c] = pid_task_shell[c]
  BY <1>2 DEF TableTyped
<1>7. StartUp'
  BY <1>2, <1>4, <1>5, <1>6 DEF StartUp
<1>8. \A c \in Consoles : /\ pid_task_shell[c] \in Pid /\ pid_task_shell[c] < free_pid
                          /\ pid_task_shell[c] # 0 => console[pid_task_shell[c]] = c
  <2>1. \A c \in Consoles : pid_task_shell[c] \in 0 .. free_pid - 1 /\ free_pid \in 1 .. TaskBound
    BY DEF TableTyped
  <2>2. \A c \in Consoles : pid_task_shell[c] \in Pid /\ pid_task_shell[c] < free_pid
    BY <2>1, TableSizes DEF Pid
  <2> QED
    BY <1>1, <2>2 DEF ShellsPlaced
<1>9. /\ console'[new] = n
      /\ \A p \in Pid : p < free_pid => console'[p] = console[p]
      /\ \A p \in Pid : p < free_pid' => p < free_pid \/ p = new
  <2>1. CASE NeedsShell(n)
    <3>1. new = free_pid /\ free_pid \in Nat /\ free_pid' = free_pid + 1
      BY <1>2, <2>1, TableSizes
    <3>2. \A p \in Pid : p \in Nat
      BY TableSizes
    <3>3. \A p \in Pid : p < free_pid' => p < free_pid \/ p = new
      BY <3>1, <3>2
    <3>4. \A p \in Pid : console'[p] = IF p = free_pid THEN n ELSE console[p]
      BY <1>2, <2>1 DEF TableTyped
    <3> QED
      BY <1>2, <2>1, <3>1, <3>2, <3>3, <3>4
  <2>2. CASE ~NeedsShell(n)
    BY <1>2, <1>8, <2>2
  <2> QED
    BY <2>1, <2>2
<1>10. \A p \in Pid : p < free_pid /\ console[p] # n => p # new
  <2>1. CASE NeedsShell(n)
    BY <1>2, <2>1, TableSizes
  <2>2. CASE ~NeedsShell(n)
    BY <1>2, <1>8, <2>2
  <2> QED
    BY <2>1, <2>2
<1>11. ShellsPlaced'
  <2> SUFFICES ASSUME NEW c \in Consoles, pid_task_shell'[c] # 0
               PROVE  /\ console'[pid_task_shell'[c]] = c
                      /\ c # cur_console' => state'[pid_task_shell'[c]] \in {"BLOCKED", "KILLED"}
    BY DEF ShellsPlaced
  <2>1. CASE c = n
    BY <1>2, <1>6, <1>9, <2>1
  <2>2. CASE c # n
    <3> DEFINE p == pid_task_shell[c]
    <3>1. pid_task_shell'[c] = p /\ p \in Pid /\ p < free_pid /\ console[p] = c
      BY <1>6, <1>8, <2>2
    <3>2. console'[p] = c /\ p # new
      BY <1>9, <1>10, <2>2, <3>1
    <3>3. CASE c = cur_console
      BY <1>2, <3>1, <3>2, <3>3
    <3>4. CASE c # cur_console
      <4>1. state[p] \in {"BLOCKED", "KILLED"}
        BY <1>1, <2>2, <3>1, <3>4 DEF ShellsPlaced
      <4>2. p # old
        BY <1>3, <1>8, <3>1, <3>4 DEF TableTyped
      <4> QED
        BY <1>2, <3>1, <3>2, <4>1, <4>2 DEF Awake
    <3> QED
      BY <3>3, <3>4
  <2> QED
    BY <2>1, <2>2
<1>12. ReplacedAreDead'
  <2> SUFFICES ASSUME NEW p \in Shell, p < free_pid', p # pid_task_shell'[console'[p]]
               PROVE  /\ pid_task_shell'[console'[p]] # 0
                      /\ state'[p] = "KILLED"
                      /\ pid_cur_task' = p => getche_pc'[pid_task_shell'[console'[p]]] = "out"
    BY DEF ReplacedAreDead
  <2>1. p \in Pid /\ p # new
    BY <1>5, <1>6, <1>9
  <2>2. p < free_pid /\ console'[p] = console[p] /\ console[p] \in Consoles
    BY <1>9, <2>1 DEF TableTyped
  <2>3. p # old
    <3>1. cur_console \in Consoles
      BY DEF TableTyped
    <3>2. p = old => console[p] = cur_console
      BY <1>3, <1>8, <3>1
    <3> QED
      BY <1>6, <2>2, <3>2
  <2>4. state[p] = "KILLED" => /\ state'[p] = "KILLED"
                               /\ pid_cur_task' = p => pid_cur_task = p
    BY <1>2, <2>1, <2>3 DEF Awake
  <2>5. p # pid_task_shell[console[p]] =>
          /\ pid_task_shell[console[p]] # 0 /\ state[p] = "KILLED"
          /\ pid_cur_task = p => getche_pc[pid_task_shell[console[p]]] = "out"
    BY <1>1, <1>4, <2>2 DEF ReplacedAreDead
  <2>6. CASE console[p] # n
    BY <1>6, <2>2, <2>4, <2>5, <2>6
  <2>7. CASE console[p] = n /\ NeedsShell(n)
    <3>1. state[p] = "KILLED"
      BY <1>5, <2>1, <2>5, <2>7, TableSizes DEF NeedsShell
    <3>2. getche_pc[new] = "out"
      BY <1>2, <2>7, TableSizes DEF TableTyped
    <3> QED
      BY <1>5, <1>6, <2>2, <2>4, <2>7, <3>1, <3>2
  <2>8. CASE console[p] = n /\ ~NeedsShell(n)
    BY <1>2, <1>5, <1>6, <2>1, <2>2, <2>4, <2>5, <2>8
  <2> QED
    BY <2>6, <2>7, <2>8
<1>13. IdleReady'
  BY <1>1, <1>2, <1>3
<1> QED
  BY <1>7, <1>11, <1>12, <1>13 DEF ConsolesSound

(* A preemption changes who runs, and no console.                           *)
LEMMA PreemptKeepsSound ==
  ASSUME TableTyped, ConsolesSound, ~EarlySwitch, pid_cur_task # Spinning,
         scheduler(state), UNCHANGED <<cur_console, table_vars, main_pc, getche_pc>>,
         kbd_enabled = kbd_enabled'
  PROVE  ConsolesSound'
<1>1. StartUp /\ IdleReady /\ ShellsPlaced /\ ReplacedAreDead
  BY DEF ConsolesSound
<1>2. /\ \A p \in Pid : state[p] \notin Awake => state'[p] = state[p]
      /\ \A p \in Pid : state[p] \notin Awake /\ pid_cur_task' = p => pid_cur_task = p
      /\ IdleReady => IdleReady'
  BY PreemptSteps
<1>3. \A c \in Consoles : pid_task_shell[c] \in Pid
  BY TableSizes DEF TableTyped, Pid
<1>4. ShellsPlaced'
  BY <1>1, <1>2, <1>3 DEF ShellsPlaced, Awake, table_vars
<1>5. ReplacedAreDead'
  BY <1>1, <1>2, TableSizes DEF ReplacedAreDead, Awake, table_vars
<1>6. StartUp'
  BY <1>1 DEF StartUp, table_vars
<1> QED
  BY <1>1, <1>2, <1>4, <1>5, <1>6 DEF ConsolesSound

(* Every step keeps the consoles sound until a switch blocks the idle task. *)
LEMMA NextConsolesSound ==
  TableTyped /\ ConsolesSound /\ [SwitchNext]_all_vars => ConsolesSound'
<1> SUFFICES ASSUME TableTyped, ConsolesSound, [SwitchNext]_all_vars, ~EarlySwitch'
             PROVE  ConsolesSound'
  BY DEF ConsolesSound
<1>1. ~EarlySwitch
  BY EarlyStays
<1>2. StartUp /\ IdleReady /\ ShellsPlaced /\ ReplacedAreDead
  BY <1>1 DEF ConsolesSound
<1>3. CASE UNCHANGED all_vars
  BY <1>2, <1>3 DEF all_vars, kbd_vars, switch_vars, ConsolesSound, StartUp,
                    IdleReady, ShellsPlaced, ReplacedAreDead
<1>4. CASE main_create
  <2>1. /\ main_pc = "start" /\ main_pc' = "created"
        /\ free_pid \in Pid /\ free_pid' = free_pid + 1
        /\ state' = [state EXCEPT ![free_pid] = "READY"]
        /\ console' = [console EXCEPT ![free_pid] = cur_console]
        /\ UNCHANGED <<pid_cur_task, pid_task_shell, cur_console, getche_pc, kbd_enabled>>
    BY <1>4 DEF main_create, kbd_vars
  <2>2. /\ free_pid = 1 /\ cur_console = 0 /\ 1 \in Shell
        /\ \A c \in Consoles : pid_task_shell[c] = 0
    BY <1>2, <2>1, TableSizes DEF StartUp
  <2>3. getche_pc[1] = "out" /\ console'[1] = 0 /\ state'[0] = state[0]
    BY <2>1, <2>2, TableSizes DEF TableTyped
  <2>4. StartUp'
    BY <2>1, <2>2, <2>3 DEF StartUp
  <2>5. IdleReady'
    BY <1>2, <2>1, <2>3 DEF IdleReady
  <2>6. ShellsPlaced' /\ ReplacedAreDead'
    BY <2>1, <2>2 DEF ShellsPlaced, ReplacedAreDead
  <2> QED
    BY <2>4, <2>5, <2>6 DEF ConsolesSound
<1>5. CASE main_store
  <2>1. /\ main_pc = "created" /\ main_pc' = "idle"
        /\ pid_task_shell' = [pid_task_shell EXCEPT ![cur_console] = free_pid - 1]
        /\ UNCHANGED <<state, pid_cur_task, free_pid, console, cur_console>>
    BY <1>5 DEF main_store, kbd_vars
  <2>2. /\ free_pid = 2 /\ console[1] = 0 /\ cur_console = 0
        /\ \A c \in Consoles : pid_task_shell[c] = 0
    BY <1>2, <2>1 DEF StartUp
  <2>3. \A c \in Consoles : pid_task_shell'[c] = IF c = 0 THEN 1 ELSE 0
    BY <2>1, <2>2 DEF TableTyped
  <2>4. cur_console \in Consoles
    BY DEF TableTyped
  <2>5. StartUp'
    BY <2>1, <2>2, <2>3, <2>4 DEF StartUp
  <2>6. IdleReady'
    BY <1>2, <2>1 DEF IdleReady
  <2>7. ShellsPlaced'
    BY <2>1, <2>2, <2>3 DEF ShellsPlaced
  <2>8. ReplacedAreDead'
    <3> SUFFICES ASSUME NEW p \in Shell, p < 2
                 PROVE  p = pid_task_shell'[console[p]]
      BY <2>1, <2>2 DEF ReplacedAreDead
    <3>1. p = 1
      BY TableSizes
    <3> QED
      BY <2>2, <2>3, <2>4, <3>1
  <2> QED
    BY <2>5, <2>6, <2>7, <2>8 DEF ConsolesSound
<1>6. CASE console_kbd_irq
  BY <1>1, <1>6, KbdIrqSteps, PreemptKeepsSound, SwitchKeepsSound
<1>7. CASE console_other_irq
  BY <1>1, <1>7, PreemptKeepsSound DEF console_other_irq, kbd_vars
<1>8. ASSUME NEW p \in Shell, shell_getche(p)
      PROVE  ConsolesSound'
  <2>1. /\ pid_cur_task = p /\ UNCHANGED switch_vars /\ UNCHANGED cur_console
        /\ \A q \in Shell \ {p} : getche_pc'[q] = getche_pc[q]
        /\ getche_pc'[p] = "wait" => kbd_enabled'
    BY <1>8, GetcheSteps
  <2>2. p < free_pid /\ p \in Nat /\ p # 0
    BY <2>1, TableSizes DEF TableTyped
  <2>3. main_pc # "start"
    BY <1>2, <2>2 DEF StartUp
  <2>4. main_pc = "created" => p = 1
    BY <1>2, <2>2 DEF StartUp
  <2>5. StartUp'
    BY <1>2, <2>1, <2>3, <2>4 DEF StartUp, switch_vars
  <2>6. IdleReady' /\ ShellsPlaced'
    BY <1>2, <2>1 DEF IdleReady, ShellsPlaced, switch_vars
  <2>7. ReplacedAreDead'
    <3> SUFFICES ASSUME main_pc = "idle", NEW q \in Shell, q < free_pid,
                        q # pid_task_shell[console[q]]
                 PROVE  /\ pid_task_shell[console[q]] # 0 /\ state[q] = "KILLED"
                        /\ pid_cur_task = q => getche_pc'[pid_task_shell[console[q]]] = "out"
      BY <2>1 DEF ReplacedAreDead, switch_vars
    <3>1. /\ pid_task_shell[console[q]] # 0 /\ state[q] = "KILLED"
          /\ pid_cur_task = q => getche_pc[pid_task_shell[console[q]]] = "out"
      BY <1>2 DEF ReplacedAreDead
    <3>2. pid_task_shell[console[q]] \in Shell
      <4>1. console[q] \in Consoles
        BY TableSizes DEF TableTyped
      <4>2. pid_task_shell[console[q]] \in Pid
        BY <4>1, TableSizes DEF TableTyped, Pid
      <4> QED
        BY <3>1, <4>2, TableSizes
    <3> QED
      BY <2>1, <3>1, <3>2
  <2> QED
    BY <2>5, <2>6, <2>7 DEF ConsolesSound
<1>9. ASSUME NEW p \in Shell, NEW q \in Pid, shell_kill(p, q)
      PROVE  ConsolesSound'
  <2>1. /\ q # 0 /\ state' = [state EXCEPT ![q] = "KILLED"]
        /\ UNCHANGED <<pid_cur_task, table_vars, main_pc, kbd_vars>>
    BY <1>9 DEF shell_kill, Killable
  <2>2. /\ state'[0] = state[0]
        /\ \A r \in Pid : state'[r] = state[r] \/ state'[r] = "KILLED"
    BY <2>1, TableSizes DEF TableTyped
  <2>3. \A c \in Consoles : pid_task_shell[c] \in Pid
    BY TableSizes DEF TableTyped, Pid
  <2>4. StartUp' /\ IdleReady'
    BY <1>2, <2>1, <2>2 DEF StartUp, IdleReady, table_vars, kbd_vars
  <2>5. ShellsPlaced'
    BY <1>2, <2>1, <2>2, <2>3 DEF ShellsPlaced, table_vars, kbd_vars
  <2>6. ReplacedAreDead'
    BY <1>2, <2>1, <2>2, TableSizes DEF ReplacedAreDead, table_vars, kbd_vars
  <2> QED
    BY <2>4, <2>5, <2>6 DEF ConsolesSound
<1> QED
  BY <1>3, <1>4, <1>5, <1>6, <1>7, <1>8, <1>9 DEF SwitchNext

(* The shell of a console that is not on the screen is BLOCKED or KILLED,   *)
(* after any keys, switches, kills and preemptions, unless a key came       *)
(* before main stored the pid of the first shell (console.c:123-169).       *)
THEOREM ConsolesOneShellAwake == SwitchSpec => []OneShellAwake
<1>1. TableTyped /\ ConsolesSound => OneShellAwake
  <2> SUFFICES ASSUME TableTyped, ConsolesSound, ~EarlySwitch, NEW p \in Shell,
                      state[p] \in Awake
               PROVE  console[p] = cur_console
    BY DEF OneShellAwake, Awake
  <2>1. StartUp /\ ShellsPlaced /\ ReplacedAreDead
    BY DEF ConsolesSound
  <2>2. p \in Nat /\ p # 0 /\ p < free_pid
    <3>1. p \in Pid /\ p # 0 /\ p \in Nat
      BY TableSizes
    <3>2. ~(p >= free_pid) /\ free_pid \in Nat
      BY <3>1, TableSizes DEF TableTyped, Awake
    <3> QED
      BY <3>1, <3>2
  <2>3. CASE main_pc = "idle"
    <3>1. p = pid_task_shell[console[p]]
      BY <2>1, <2>2, <2>3 DEF ReplacedAreDead, Awake
    <3>2. console[p] \in Consoles
      BY TableSizes DEF TableTyped
    <3> QED
      BY <2>1, <2>2, <3>1, <3>2 DEF ShellsPlaced, Awake
  <2>4. CASE main_pc # "idle"
    <3>1. main_pc # "start"
      BY <2>1, <2>2 DEF StartUp
    <3>2. main_pc = "created"
      BY <2>4, <3>1 DEF TableTyped
    <3> QED
      BY <2>1, <2>2, <3>2 DEF StartUp
  <2> QED
    BY <2>3, <2>4
<1>2. TableTyped /\ ConsolesSound /\ [SwitchNext]_all_vars => (TableTyped /\ ConsolesSound)'
  BY NextTableTyped, NextConsolesSound
<1> QED
  BY <1>1, <1>2, InitTable, PTL DEF SwitchSpec

(* round_robin always finds a READY task, unless that key came too early.   *)
THEOREM ConsolesNeverSpin == SwitchSpec => []SpinsOnlyAfterEarlySwitch
<1>1. ConsolesSound => SpinsOnlyAfterEarlySwitch
  BY DEF ConsolesSound, IdleReady, SpinsOnlyAfterEarlySwitch
<1>2. TableTyped /\ ConsolesSound /\ [SwitchNext]_all_vars => (TableTyped /\ ConsolesSound)'
  BY NextTableTyped, NextConsolesSound
<1> QED
  BY <1>1, <1>2, InitTable, PTL DEF SwitchSpec

(* A killed task comes back only as the shell of the console that leaves    *)
(* the screen, and BLOCKED (console.c:169).                                 *)
THEOREM ConsolesRevive == SwitchSpec => RevivedOnlyBySwitch
<1> DEFINE Revived(p) == /\ p < free_pid
                         /\ state[p] = "KILLED"
                         /\ state'[p] # "KILLED"
           Allowed(p) == /\ p = pid_task_shell[cur_console]
                         /\ cur_console' # cur_console
                         /\ state'[p] = "BLOCKED"
<1>1. ASSUME TableTyped, [SwitchNext]_all_vars, NEW p \in Pid, Revived(p)
      PROVE  Allowed(p)
  <2>1. ~UNCHANGED all_vars
    BY <1>1 DEF all_vars, switch_vars
  <2>2. ~main_create
    BY <1>1 DEF main_create, TableTyped
  <2>3. ~main_store /\ ~\E r \in Shell : shell_getche(r)
    BY <1>1 DEF main_store, shell_getche, switch_vars
  <2>4. ASSUME pid_cur_task # Spinning, scheduler(state)
        PROVE  FALSE
    BY <1>1, <2>4, PreemptSteps DEF Awake
  <2>5. ASSUME pid_cur_task # Spinning, NEW n \in Consoles, n # cur_console,
               switch_to_console(n), scheduler(Switched(n))
        PROVE  Allowed(p)
    <3>1. NeedsShell(n) => p # ShellOf(n)
      BY <1>1, TableSizes DEF ShellOf, TableTyped
    <3>2. ~NeedsShell(n) => p # ShellOf(n)
      BY <1>1 DEF ShellOf, NeedsShell
    <3>3. /\ cur_console' = n /\ state'[pid_task_shell[cur_console]] = "BLOCKED"
          /\ \A r \in Pid \ {ShellOf(n), pid_task_shell[cur_console]} :
               state[r] \notin Awake => state'[r] = state[r]
      BY <1>1, <2>5, SwitchSteps
    <3>4. p = pid_task_shell[cur_console]
      BY <1>1, <3>1, <3>2, <3>3 DEF Awake
    <3> QED
      BY <2>5, <3>3, <3>4
  <2>6. ~console_other_irq
    BY <2>4 DEF console_other_irq
  <2>7. ~\E r \in Shell, q \in Pid : shell_kill(r, q)
    BY <1>1 DEF shell_kill, TableTyped
  <2>8. CASE console_kbd_irq
    BY <2>4, <2>5, <2>8, KbdIrqSteps
  <2> QED
    BY <1>1, <2>1, <2>2, <2>3, <2>6, <2>7, <2>8 DEF SwitchNext
<1>2. TableTyped /\ [SwitchNext]_all_vars =>
        [\A p \in Pid :
           p < free_pid /\ state[p] = "KILLED" /\ state'[p] # "KILLED" =>
             /\ p = pid_task_shell[cur_console]
             /\ cur_console' # cur_console
             /\ state'[p] = "BLOCKED"]_all_vars
  BY <1>1
<1> QED
  BY <1>2, InitTable, NextTableTyped, PTL DEF SwitchSpec, RevivedOnlyBySwitch

-----------------------------------------------------------------------------
(* The shell on the screen and the shells that disable the keyboard.        *)

(* While the shell on the screen waits, whoever else executes sys_getche is *)
(* the shell of another console.                                            *)
LEMMA OtherReader ==
  ASSUME TableTyped, ConsolesSound, ~EarlySwitch, NEW p \in Shell,
         p = pid_task_shell[cur_console], getche_pc[p] # "out",
         NEW q \in Shell, pid_cur_task = q, q # p
  PROVE  q < free_pid /\ console[q] # cur_console
<1>1. StartUp /\ ReplacedAreDead
  BY DEF ConsolesSound
<1>2. p # 0 /\ q < free_pid /\ cur_console \in Consoles
  BY TableSizes DEF TableTyped
<1>3. main_pc = "idle"
  BY <1>1, <1>2 DEF StartUp
<1> QED
  BY <1>1, <1>2, <1>3 DEF ReplacedAreDead

(* Whoever disables the keyboard while the shell on the screen waits is the *)
(* shell of another console.                                                *)
LEMMA NextDeaf ==
  TableTyped /\ ConsolesSound /\ DeafOnlyBehindAnother /\ [SwitchNext]_all_vars
    => DeafOnlyBehindAnother'
<1> DEFINE Muted == /\ muter \in Shell /\ console[muter] # cur_console
                    /\ getche_pc[muter] \in {"disabled", "read", "out", "called"}
<1> SUFFICES ASSUME TableTyped, ConsolesSound, DeafOnlyBehindAnother,
                    [SwitchNext]_all_vars, ~EarlySwitch',
                    NEW p \in Shell, p = pid_task_shell'[cur_console'],
                    getche_pc'[p] = "wait", ~kbd_enabled'
             PROVE  Muted'
  BY DEF DeafOnlyBehindAnother
<1>1. ~EarlySwitch
  BY EarlyStays
<1>2. p = pid_task_shell[cur_console] /\ getche_pc[p] = "wait" /\ ~kbd_enabled => Muted
  BY <1>1 DEF DeafOnlyBehindAnother
<1>3. StartUp /\ ReplacedAreDead
  BY <1>1 DEF ConsolesSound
<1>4. CASE UNCHANGED all_vars
  BY <1>2, <1>4 DEF all_vars, kbd_vars, switch_vars
<1>5. ~main_create
  <2> SUFFICES ASSUME main_create
               PROVE  FALSE
    OBVIOUS
  <2>1. pid_task_shell'[cur_console'] = 0
    BY <1>3 DEF main_create, StartUp, kbd_vars, TableTyped
  <2> QED
    BY <2>1, TableSizes
<1>6. ~main_store
  <2> SUFFICES ASSUME main_store
               PROVE  FALSE
    OBVIOUS
  <2>1. /\ free_pid = 2 /\ (getche_pc[1] = "wait" => kbd_enabled)
        /\ pid_task_shell' = [pid_task_shell EXCEPT ![cur_console] = 1]
        /\ UNCHANGED kbd_vars
    BY <1>3 DEF main_store, StartUp
  <2>2. p = 1
    BY <2>1 DEF TableTyped, kbd_vars
  <2> QED
    BY <2>1, <2>2 DEF kbd_vars
<1>7. ~console_kbd_irq
  BY KbdIrqSteps
<1>8. CASE console_other_irq
  BY <1>2, <1>8 DEF console_other_irq, table_vars, kbd_vars
<1>9. ASSUME NEW r \in Shell, shell_getche(r)
      PROVE  Muted'
  <2>1. /\ pid_cur_task = r /\ UNCHANGED switch_vars /\ UNCHANGED cur_console
        /\ getche_pc' \in [Shell -> {"out", "called", "wait", "seen", "disabled", "read"}]
        /\ \A q \in Shell \ {r} : getche_pc'[q] = getche_pc[q]
        /\ \/ /\ getche_pc'[r] = "wait" /\ kbd_enabled'
           \/ /\ getche_pc[r] = "wait" /\ getche_pc'[r] = "seen"
              /\ UNCHANGED <<kbd_enabled, active_press_key, active_press_enter>>
           \/ /\ getche_pc[r] = "seen" /\ getche_pc'[r] = "disabled"
           \/ /\ getche_pc[r] \in {"out", "disabled", "read"}
              /\ getche_pc'[r] \in {"called", "read", "out"}
              /\ UNCHANGED kbd_enabled
    BY <1>9, GetcheSteps
  <2>2. p = pid_task_shell[cur_console]
    BY <2>1 DEF switch_vars
  <2>3. r # p
    BY <2>1
  <2>4. getche_pc[p] = "wait"
    BY <2>1, <2>3
  <2>5. console[r] # cur_console
    BY <1>1, <2>1, <2>2, <2>3, <2>4, OtherReader
  <2>6. /\ getche_pc[r] = "seen" => muter' = r
        /\ getche_pc[r] \notin {"seen", "called"} => muter' = muter
    BY <1>9 DEF shell_getche
  <2>7. CASE getche_pc[r] = "seen"
    BY <2>1, <2>5, <2>6, <2>7 DEF switch_vars
  <2>8. CASE getche_pc[r] # "seen"
    <3>1. ~kbd_enabled /\ muter' = muter
      BY <2>1, <2>6, <2>8
    <3>2. Muted
      BY <1>2, <2>2, <2>4, <3>1
    <3>3. CASE muter = r
      BY <2>1, <2>8, <3>1, <3>2, <3>3 DEF switch_vars
    <3>4. CASE muter # r
      BY <2>1, <3>1, <3>2, <3>4 DEF switch_vars
    <3> QED
      BY <3>3, <3>4
  <2> QED
    BY <2>7, <2>8
<1>10. ASSUME NEW r \in Shell, NEW q \in Pid, shell_kill(r, q)
       PROVE  Muted'
  BY <1>2, <1>10 DEF shell_kill, table_vars, kbd_vars
<1> QED
  BY <1>4, <1>5, <1>6, <1>7, <1>8, <1>9, <1>10 DEF SwitchNext

(* The shell on the screen waits with the keyboard disabled only behind the *)
(* shell of another console, which disabled it and has not enabled it since *)
(* (syscall.c:172-174, console.c:169).                                      *)
THEOREM ConsolesDeaf == SwitchSpec => []DeafOnlyBehindAnother
<1>1. SwitchInv /\ [SwitchNext]_all_vars => SwitchInv'
  BY NextTableTyped, NextConsolesSound, NextDeaf DEF SwitchInv
<1>2. SwitchInit => SwitchInv
  BY InitTable DEF SwitchInv
<1>3. SwitchInv => DeafOnlyBehindAnother
  BY DEF SwitchInv
<1> QED
  BY <1>1, <1>2, <1>3, PTL DEF SwitchSpec

-----------------------------------------------------------------------------
(* The keyboard.                                                            *)

(* The character sys_getche would read is the last one typed since the      *)
(* keyboard was enabled, or a later interrupt emptied the full buffer.      *)
LastKeyKept ==
  typed # None =>
    \/ GetcheChar = typed
    \/ pos_buffer_kbd = 0 /\ \A i \in 0 .. BUF_SIZE - 1 : buffer_kbd[i] = 0

(* A flag tells of a key typed since the keyboard was enabled, and only a   *)
(* reader that waits, or has just seen the flag, leaves it enabled.         *)
OneReaderSees(r) ==
  /\ kbd_enabled => getche_pc[r] \in {"wait", "seen"}
  /\ getche_pc[r] = "called" => ~active_press_key /\ ~active_press_enter
  /\ getche_pc[r] = "wait" /\ (active_press_key \/ active_press_enter) => typed # None
  /\ getche_pc[r] \in {"seen", "disabled", "read"} => typed # None

(* What the assumptions of the keyboard say of its sizes.                   *)
LEMMA KeyboardSizes ==
  /\ BUF_SIZE \in Nat \ {0} /\ N_CONSOLES \in Nat \ {0} /\ NpadBound \in Nat
  /\ Undefined \subseteq 0 .. 255 /\ 0 \in Consoles
BY KeyboardAssumption DEF KeyboardAssumption, Consoles

(* What the scancode maps hold fits a byte.                                 *)
LEMMA MapsTyped ==
  /\ \A sc \in DOMAIN key_map : key_map[sc] \in 0 .. 255 /\ shift_map[sc] \in 0 .. 255
  /\ \A sc \in DOMAIN pad_map : pad_map[sc] \in Digit
  /\ \A sc \in DOMAIN ext_map : ext_map[sc] \in 0 .. 255
  /\ \A sc \in DOMAIN LedOf : LedOf[sc] \in {"caps", "num", "scroll"}
<1>1. \A sc \in DOMAIN key_map : key_map[sc] \in 0 .. 255 /\ shift_map[sc] \in 0 .. 255
  BY DEF key_map, shift_map
<1>2. \A sc \in DOMAIN pad_map : pad_map[sc] \in Digit
  BY DEF pad_map, Digit
<1>3. \A sc \in DOMAIN ext_map : ext_map[sc] \in 0 .. 255
  BY DEF ext_map
<1>4. \A sc \in DOMAIN LedOf : LedOf[sc] \in {"caps", "num", "scroll"}
  BY DEF LedOf
<1> QED
  BY <1>1, <1>2, <1>3, <1>4, SMTT(30)

(* What an interrupt of the keyboard may store.                             *)
Stores == \/ NoChar \/ StoreEnter \/ StoreBackspace
          \/ \E c \in 0 .. 255 : StoreKey(c)

KeysTyped ==
  /\ key \in 0 .. 255 /\ npadch \in 0 .. NpadBound
  /\ alt_flag \in BOOLEAN /\ shift_flag \in BOOLEAN /\ ext_flag \in BOOLEAN
  /\ key_leds \in [Consoles -> SUBSET {"caps", "num", "scroll"}]

(* The handler stores at most one byte, in the buffer of the console on the *)
(* screen.                                                                  *)
LEMMA IsrStores ==
  ASSUME KbdTypeOK, NEW sc \in Scancodes, isr_kbd(sc)
  PROVE  KeysTyped' /\ Stores
<1>1. KeysTyped /\ cur_console \in Consoles
  BY DEF KbdTypeOK, KeysTyped
<1>2. CASE isr_ext(sc)
  <2>1. key' \in 0 .. 255 /\ Stores
    <3>1. CASE sc >= 128
      BY <1>1, <1>2, <3>1 DEF isr_ext, KeysTyped, Stores
    <3>2. CASE ~(sc >= 128)
      <4>1. key' = (IF sc \in DOMAIN ext_map THEN ext_map[sc] ELSE key) /\ StoreKey(key')
        BY <1>2, <3>2 DEF isr_ext
      <4>2. key' \in 0 .. 255
        BY <1>1, <4>1, MapsTyped DEF KeysTyped
      <4> QED
        BY <4>1, <4>2 DEF Stores
    <3> QED
      BY <3>1, <3>2
  <2> QED
    BY <1>1, <1>2, <2>1 DEF isr_ext, KeysTyped
<1>3. CASE isr_first_stage(sc) \/ isr_shift(sc) \/ isr_alt(sc) \/ isr_ignored(sc)
  <2>1. NoChar /\ UNCHANGED <<key, npadch, key_leds>>
    BY <1>3 DEF isr_first_stage, isr_shift, isr_alt, isr_ignored
  <2>2. alt_flag' \in BOOLEAN /\ shift_flag' \in BOOLEAN /\ ext_flag' \in BOOLEAN
    BY <1>1, <1>3 DEF isr_first_stage, isr_shift, isr_alt, isr_ignored, KeysTyped
  <2> QED
    BY <1>1, <2>1, <2>2 DEF KeysTyped, Stores
<1>4. CASE isr_enter(sc) \/ isr_backspace(sc)
  <2>1. UNCHANGED <<key, npadch, alt_flag, shift_flag, ext_flag, key_leds>>
    BY <1>4 DEF isr_enter, isr_backspace
  <2>2. StoreEnter \/ StoreBackspace
    BY <1>4 DEF isr_enter, isr_backspace
  <2>3. KeysTyped'
    BY <1>1, <2>1 DEF KeysTyped
  <2> QED
    BY <2>2, <2>3 DEF Stores
<1>5. CASE isr_alt_release(sc)
  <2>1. key' \in 0 .. 255 /\ Stores
    <3>1. CASE npadch # 0
      <4>1. key' = npadch % 256 /\ StoreKey(key')
        BY <1>5, <3>1 DEF isr_alt_release
      <4>2. npadch \in Nat
        BY <1>1, KeyboardSizes DEF KeysTyped
      <4>3. key' \in 0 .. 255
        BY <4>1, <4>2
      <4> QED
        BY <4>1, <4>3 DEF Stores
    <3>2. CASE npadch = 0
      BY <1>1, <1>5, <3>2 DEF isr_alt_release, KeysTyped, Stores
    <3> QED
      BY <3>1, <3>2
  <2>2. npadch' \in 0 .. NpadBound
    BY <1>5, KeyboardSizes DEF isr_alt_release
  <2> QED
    BY <1>1, <1>5, <2>1, <2>2 DEF isr_alt_release, KeysTyped
<1>6. CASE isr_led(sc)
  <2>1. LedOf[sc] \in {"caps", "num", "scroll"}
    BY <1>6, MapsTyped DEF isr_led
  <2>2. key_leds' \in [Consoles -> SUBSET {"caps", "num", "scroll"}]
    BY <1>1, <1>6, <2>1 DEF isr_led, KeysTyped
  <2> QED
    BY <1>1, <1>6, <2>2 DEF isr_led, KeysTyped, Stores
<1>7. CASE isr_pad(sc)
  <2>1. UNCHANGED <<alt_flag, shift_flag, ext_flag, key_leds>>
    BY <1>7 DEF isr_pad
  <2>2. CASE ~Led("num")
    BY <1>1, <1>7, <2>2 DEF isr_pad, KeysTyped, Stores
  <2>3. CASE Led("num")
    <3>1. /\ key' = pad_map[sc] /\ sc \in DOMAIN pad_map
          /\ IF alt_flag
             THEN /\ npadch' = npadch * 10 + (key' - 48)
                  /\ npadch' <= NpadBound
                  /\ NoChar
             ELSE StoreKey(key') /\ UNCHANGED npadch
      BY <1>7, <2>3 DEF isr_pad
    <3>2. key' \in 48 .. 57 /\ key' \in 0 .. 255
      <4>1. key' \in 48 .. 57
        BY <3>1, MapsTyped DEF Digit
      <4> QED
        BY <4>1
    <3>3. npadch' \in 0 .. NpadBound
      <4>1. npadch \in Nat
        BY <1>1, KeyboardSizes DEF KeysTyped
      <4> QED
        BY <1>1, <3>1, <3>2, <4>1, KeyboardSizes DEF KeysTyped
    <3>4. Stores
      BY <3>1, <3>2 DEF Stores
    <3> QED
      BY <1>1, <2>1, <3>2, <3>3, <3>4 DEF KeysTyped
  <2> QED
    BY <2>2, <2>3
<1>8. CASE isr_char(sc)
  <2>1. /\ key' \in conv_scancode_to_char(sc) /\ sc \in DOMAIN key_map
        /\ NoChar \/ StoreKey(key')
        /\ UNCHANGED <<npadch, alt_flag, shift_flag, ext_flag, key_leds>>
    BY <1>8 DEF isr_char
  <2>2. key' \in 0 .. 255
    <3>1. current_map[sc] \in 0 .. 255
      BY <2>1, MapsTyped DEF current_map
    <3> QED
      BY <2>1, <3>1, KeyboardSizes DEF conv_scancode_to_char
  <2> QED
    BY <1>1, <2>1, <2>2 DEF KeysTyped, Stores
<1> QED
  BY <1>2, <1>3, <1>4, <1>5, <1>6, <1>7, <1>8 DEF isr_kbd

(* Enter and the keys with a character add it to the end of the buffer.      *)
Appends(c) ==
  /\ buffer_kbd' = [fflush EXCEPT ![Pos] = c]
  /\ pos_buffer_kbd' = Pos + 1 /\ typed' = c

(* What StoreEnter, StoreBackspace and StoreKey leave.                      *)
BufferSound ==
  /\ buffer_kbd \in [Index -> 0 .. 255] /\ pos_buffer_kbd \in 0 .. BUF_SIZE
  /\ typed \in {None} \cup 0 .. 255 /\ typed # None /\ LastKeyKept

FlagsTyped ==
  active_press_enter \in BOOLEAN /\ active_press_key \in BOOLEAN

(* What is stored, and what sys_getche is told of it.                       *)
LEMMA StoresKeep ==
  ASSUME KbdTypeOK, Stores
  PROVE  /\ buffer_kbd' \in [Index -> 0 .. 255] /\ pos_buffer_kbd' \in 0 .. BUF_SIZE
         /\ active_press_enter' \in BOOLEAN /\ active_press_key' \in BOOLEAN
         /\ typed' \in {None} \cup 0 .. 255
         /\ LastKeyKept => LastKeyKept'
         /\ typed # None => typed' # None
         /\ \/ typed' # None
            \/ UNCHANGED <<active_press_enter, active_press_key>>
<1>0. ASSUME BufferSound', FlagsTyped'
      PROVE  /\ buffer_kbd' \in [Index -> 0 .. 255] /\ pos_buffer_kbd' \in 0 .. BUF_SIZE
             /\ active_press_enter' \in BOOLEAN /\ active_press_key' \in BOOLEAN
             /\ typed' \in {None} \cup 0 .. 255
             /\ LastKeyKept => LastKeyKept'
             /\ typed # None => typed' # None
             /\ \/ typed' # None
                \/ UNCHANGED <<active_press_enter, active_press_key>>
  BY <1>0 DEF BufferSound, FlagsTyped
<1>1. /\ buffer_kbd \in [Index -> 0 .. 255] /\ pos_buffer_kbd \in 0 .. BUF_SIZE
      /\ active_press_enter \in BOOLEAN /\ active_press_key \in BOOLEAN
      /\ typed \in {None} \cup 0 .. 255 /\ None \notin 0 .. 255
  BY DEF KbdTypeOK, None
<1>2. /\ fflush \in [Index -> 0 .. 255]
      /\ Pos \in 0 .. BUF_SIZE - 1 /\ Pos + 1 \in 0 .. BUF_SIZE
      /\ Pos \in Index /\ Pos - 1 \in Index /\ Pos \in 0 .. BUF_SIZE
      /\ \A i \in 0 .. BUF_SIZE - 1 : i \in Index
  <2>1. fflush \in [Index -> 0 .. 255]
    BY <1>1 DEF fflush
  <2>2. Pos \in 0 .. BUF_SIZE - 1
    BY <1>1, KeyboardSizes DEF Pos, Full
  <2>3. BUF_SIZE \in Nat
    BY KeyboardSizes
  <2> HIDE DEF Pos
  <2> QED
    BY <2>1, <2>2, <2>3 DEF Index
<1>3. CASE NoChar
  <2>1. buffer_kbd' = fflush /\ pos_buffer_kbd' = Pos /\ UNCHANGED typed
    BY <1>3 DEF NoChar
  <2>2. LastKeyKept => LastKeyKept'
    <3>1. CASE Full
      <4>1. \A i \in 0 .. BUF_SIZE - 1 : buffer_kbd'[i] = 0
        BY <1>2, <2>1, <3>1 DEF fflush
      <4>2. pos_buffer_kbd' = 0
        BY <2>1, <3>1 DEF Pos
      <4> QED
        BY <4>1, <4>2 DEF LastKeyKept
    <3>2. CASE ~Full
      <4>1. fflush = buffer_kbd
        BY <1>1, <1>2, <3>2 DEF fflush
      <4>2. pos_buffer_kbd' = pos_buffer_kbd /\ buffer_kbd' = buffer_kbd
        BY <2>1, <3>2, <4>1 DEF Pos
      <4> QED
        BY <2>1, <4>2 DEF LastKeyKept, GetcheChar
    <3> QED
      BY <3>1, <3>2
  <2> QED
    BY <1>1, <1>2, <1>3, <2>1, <2>2 DEF NoChar
<1>4. ASSUME NEW c \in 0 .. 255, Appends(c)
      PROVE  BufferSound'
  <2>1. pos_buffer_kbd' - 1 = Pos
    BY <1>2, <1>4 DEF Appends
  <2>2. buffer_kbd' \in [Index -> 0 .. 255] /\ LastKeyKept'
    BY <1>2, <1>4, <2>1 DEF Appends, LastKeyKept, GetcheChar
  <2>3. typed' \in 0 .. 255 /\ typed' # None /\ pos_buffer_kbd' \in 0 .. BUF_SIZE
    BY <1>1, <1>2, <1>4 DEF Appends
  <2> QED
    BY <2>2, <2>3 DEF BufferSound
<1>5. CASE StoreBackspace
  <2>1. /\ buffer_kbd' = [fflush EXCEPT ![Pos - 1] = 8] /\ pos_buffer_kbd' = Pos
        /\ typed' = 8 /\ active_press_key' = TRUE /\ UNCHANGED active_press_enter
    BY <1>5 DEF StoreBackspace
  <2>2. buffer_kbd' \in [Index -> 0 .. 255]
    BY <1>2, <2>1
  <2>3. buffer_kbd'[pos_buffer_kbd' - 1] = 8
    BY <1>2, <2>1
  <2>4. LastKeyKept'
    BY <2>1, <2>3 DEF LastKeyKept, GetcheChar
  <2>5. typed' \in 0 .. 255 /\ typed' # None /\ pos_buffer_kbd' \in 0 .. BUF_SIZE
    BY <1>1, <1>2, <2>1
  <2>6. BufferSound'
    BY <2>2, <2>4, <2>5 DEF BufferSound
  <2>7. FlagsTyped'
    BY <1>1, <2>1 DEF FlagsTyped
  <2> QED
    BY <1>0, <2>6, <2>7
<1>6. CASE StoreEnter
  <2>1. 10 \in 0 .. 255
    OBVIOUS
  <2>2. Appends(10)
    BY <1>6 DEF StoreEnter, Appends
  <2>3. FlagsTyped'
    BY <1>1, <1>6 DEF StoreEnter, FlagsTyped
  <2>4. BufferSound'
    BY <1>4, <2>1, <2>2
  <2> QED
    BY <1>0, <2>3, <2>4
<1>7. ASSUME NEW c \in 0 .. 255, StoreKey(c)
      PROVE  BufferSound' /\ FlagsTyped'
  <2>1. Appends(c)
    BY <1>7 DEF StoreKey, Appends
  <2>2. FlagsTyped'
    BY <1>1, <1>7 DEF StoreKey, FlagsTyped
  <2>3. BufferSound'
    BY <1>4, <2>1
  <2> QED
    BY <2>2, <2>3
<1>8. CASE \E c \in 0 .. 255 : StoreKey(c)
  <2>1. BufferSound' /\ FlagsTyped'
    BY <1>7, <1>8
  <2> QED
    BY <1>0, <2>1
<1> QED
  BY <1>3, <1>5, <1>6, <1>8 DEF Stores

(* The steps of a reader.                                                   *)
LEMMA GetcheKeeps ==
  ASSUME KbdTypeOK, NEW r \in Reader, sys_getche(r)
  PROVE  /\ KbdTypeOK' /\ (LastKeyKept => LastKeyKept')
         /\ \A q \in Reader \ {r} : getche_pc'[q] = getche_pc[q]
<1>1. UNCHANGED KeptByGetche
  BY DEF sys_getche, getche_call, getche_enable, getche_seen, getche_disable,
         getche_reset, getche_return
<1>2. /\ getche_pc' \in [Reader -> {"out", "called", "wait", "seen", "disabled", "read"}]
      /\ \A q \in Reader \ {r} : getche_pc'[q] = getche_pc[q]
  BY DEF sys_getche, getche_call, getche_enable, getche_seen, getche_disable,
         getche_reset, getche_return, GetcheStep, KbdTypeOK
<1>3. /\ active_press_enter' \in BOOLEAN /\ active_press_key' \in BOOLEAN
      /\ kbd_enabled' \in BOOLEAN /\ (typed' = typed \/ typed' = None)
  BY DEF sys_getche, getche_call, getche_enable, getche_seen, getche_disable,
         getche_reset, getche_return, KbdTypeOK
<1>4. typed' \in {None} \cup 0 .. 255
  BY <1>3 DEF KbdTypeOK
<1>5. LastKeyKept => LastKeyKept'
  BY <1>1, <1>3 DEF LastKeyKept, GetcheChar, KeptByGetche
<1>6. KbdTypeOK'
  BY <1>1, <1>2, <1>3, <1>4 DEF KbdTypeOK, KeptByGetche
<1> QED
  BY <1>2, <1>5, <1>6

(* It keeps the type and, whatever the key, the last one stored.            *)
LEMMA IsrKeeps ==
  ASSUME KbdTypeOK, NEW sc \in Scancodes, isr_kbd(sc), cur_console' \in Consoles
  PROVE  KbdTypeOK' /\ (LastKeyKept => LastKeyKept')
<1>1. KeysTyped' /\ Stores
  BY IsrStores
<1>2. kbd_enabled /\ UNCHANGED <<kbd_enabled, getche_pc>>
  BY DEF isr_kbd
<1>3. /\ buffer_kbd' \in [Index -> 0 .. 255] /\ pos_buffer_kbd' \in 0 .. BUF_SIZE
      /\ active_press_enter' \in BOOLEAN /\ active_press_key' \in BOOLEAN
      /\ typed' \in {None} \cup 0 .. 255
      /\ LastKeyKept => LastKeyKept'
  BY <1>1, StoresKeep
<1> QED
  BY <1>1, <1>2, <1>3 DEF KbdTypeOK, KeysTyped

(* All buffers start empty.                                                 *)
LEMMA KbdInitKeeps == KbdInit => KbdTypeOK /\ LastKeyKept
<1> SUFFICES ASSUME KbdInit
             PROVE  KbdTypeOK /\ LastKeyKept
  OBVIOUS
<1>1. LastKeyKept
  BY DEF KbdInit, LastKeyKept
<1>2. KbdTypeOK
  <2>1. buffer_kbd \in [Index -> 0 .. 255] /\ pos_buffer_kbd \in 0 .. BUF_SIZE
    BY KeyboardSizes DEF KbdInit
  <2>2. key \in 0 .. 255 /\ npadch \in 0 .. NpadBound /\ cur_console \in Consoles
    BY KeyboardSizes DEF KbdInit
  <2>3. /\ active_press_enter \in BOOLEAN /\ active_press_key \in BOOLEAN
        /\ alt_flag \in BOOLEAN /\ shift_flag \in BOOLEAN /\ ext_flag \in BOOLEAN
        /\ kbd_enabled \in BOOLEAN
    BY DEF KbdInit
  <2>4. /\ key_leds \in [Consoles -> SUBSET {"caps", "num", "scroll"}]
        /\ getche_pc \in [Reader -> {"out", "called", "wait", "seen", "disabled", "read"}]
        /\ typed \in {None} \cup 0 .. 255
    BY DEF KbdInit
  <2> QED
    BY <2>1, <2>2, <2>3, <2>4 DEF KbdTypeOK
<1> QED
  BY <1>1, <1>2

(* The keyboard alone, whatever its readers: what it stores is in range.    *)
THEOREM KeyboardTyped == KbdSpec => [](KbdTypeOK /\ LastKeyKept)
<1>1. KbdTypeOK /\ LastKeyKept /\ [KbdNext]_kbd_vars => (KbdTypeOK /\ LastKeyKept)'
  <2> SUFFICES ASSUME KbdTypeOK, LastKeyKept, [KbdNext]_kbd_vars
               PROVE  KbdTypeOK' /\ LastKeyKept'
    OBVIOUS
  <2>1. CASE UNCHANGED kbd_vars
    BY <2>1 DEF kbd_vars, KbdTypeOK, LastKeyKept, GetcheChar
  <2>2. CASE kbd_irq
    <3>1. PICK sc \in Scancodes :
            /\ isr_kbd(sc)
            /\ cur_console' = IF SwitchRequested(sc) /\ key' - 48 \in Consoles
                              THEN key' - 48 ELSE cur_console
      BY <2>2 DEF kbd_irq
    <3>2. cur_console' \in Consoles
      BY <3>1 DEF KbdTypeOK
    <3> QED
      BY <3>1, <3>2, IsrKeeps
  <2>3. ASSUME NEW r \in Reader, sys_getche(r)
        PROVE  KbdTypeOK' /\ LastKeyKept'
    BY <2>3, GetcheKeeps
  <2> QED
    BY <2>1, <2>2, <2>3 DEF KbdNext
<1> QED
  BY <1>1, KbdInitKeeps, PTL DEF KbdSpec

(* With one reader, sys_getche reads the last character typed since it      *)
(* enabled the keyboard, unless a later interrupt of the same call emptied  *)
(* the full buffer (syscall.c:172-213, keyboard.c:131).                     *)
THEOREM KeyboardReadsTypedKey ==
  ASSUME NEW r, Reader = {r}
  PROVE  KbdSpec => []ReadsTypedKey
<1>1. KbdInit => OneReaderSees(r)
  BY DEF KbdInit, OneReaderSees
<1>2. KbdTypeOK /\ OneReaderSees(r) /\ [KbdNext]_kbd_vars => OneReaderSees(r)'
  <2> SUFFICES ASSUME KbdTypeOK, OneReaderSees(r), [KbdNext]_kbd_vars
               PROVE  OneReaderSees(r)'
    OBVIOUS
  <2>1. CASE UNCHANGED kbd_vars
    BY <2>1 DEF kbd_vars, OneReaderSees
  <2>2. CASE kbd_irq
    <3>1. PICK sc \in Scancodes : isr_kbd(sc)
      BY <2>2 DEF kbd_irq
    <3>2. kbd_enabled /\ UNCHANGED <<kbd_enabled, getche_pc>>
      BY <3>1 DEF isr_kbd
    <3>3. /\ typed # None => typed' # None
          /\ typed' # None \/ UNCHANGED <<active_press_enter, active_press_key>>
      BY <3>1, IsrStores, StoresKeep
    <3> QED
      BY <3>2, <3>3 DEF OneReaderSees
  <2>3. CASE sys_getche(r)
    <3>1. getche_pc \in [{r} -> {"out", "called", "wait", "seen", "disabled", "read"}]
      BY DEF KbdTypeOK
    <3>2. CASE getche_call(r)
      BY <3>1, <3>2 DEF getche_call, GetcheStep, OneReaderSees
    <3>3. CASE getche_enable(r)
      BY <3>1, <3>3 DEF getche_enable, GetcheStep, OneReaderSees
    <3>4. CASE getche_seen(r)
      BY <3>1, <3>4 DEF getche_seen, GetcheStep, OneReaderSees
    <3>5. CASE getche_disable(r)
      BY <3>1, <3>5 DEF getche_disable, GetcheStep, OneReaderSees
    <3>6. CASE getche_reset(r)
      BY <3>1, <3>6 DEF getche_reset, GetcheStep, OneReaderSees
    <3>7. CASE getche_return(r)
      BY <3>1, <3>7 DEF getche_return, GetcheStep, OneReaderSees
    <3> QED
      BY <2>3, <3>2, <3>3, <3>4, <3>5, <3>6, <3>7 DEF sys_getche
  <2> QED
    BY <2>1, <2>2, <2>3 DEF KbdNext
<1>3. LastKeyKept /\ OneReaderSees(r) => ReadsTypedKey
  BY DEF LastKeyKept, OneReaderSees, ReadsTypedKey
<1> QED
  BY <1>1, <1>2, <1>3, KeyboardTyped, PTL DEF KbdSpec

(* The keyboard under the consoles and several shells: every variable keeps *)
(* its type, and of the last key stored since a shell enabled the keyboard  *)
(* the same holds, whichever shell reads it.                                *)
THEOREM ConsolesTyped == SwitchSpec => [](SwitchTypeOK /\ LastKeyKept)
<1>1. TableTyped /\ KbdTypeOK /\ muter \in Pid => SwitchTypeOK
  BY DEF TableTyped, SwitchTypeOK
<1>2. TableTyped /\ KbdTypeOK /\ LastKeyKept /\ [SwitchNext]_all_vars
        => (KbdTypeOK /\ LastKeyKept)'
  <2> SUFFICES ASSUME TableTyped, KbdTypeOK, LastKeyKept, [SwitchNext]_all_vars
               PROVE  KbdTypeOK' /\ LastKeyKept'
    OBVIOUS
  <2>1. CASE UNCHANGED kbd_vars
    BY <2>1 DEF kbd_vars, KbdTypeOK, LastKeyKept, GetcheChar
  <2>2. CASE console_kbd_irq
    <3>1. cur_console' \in Consoles
      BY <2>2, NextTableTyped DEF TableTyped
    <3>2. PICK sc \in Scancodes : isr_kbd(sc)
      BY <2>2 DEF console_kbd_irq
    <3> QED
      BY <3>1, <3>2, IsrKeeps
  <2>3. ASSUME NEW p \in Shell, shell_getche(p)
        PROVE  KbdTypeOK' /\ LastKeyKept'
    BY <2>3, GetcheKeeps, TableSizes DEF shell_getche
  <2>4. UNCHANGED kbd_vars \/ console_kbd_irq \/ \E p \in Shell : shell_getche(p)
    BY DEF SwitchNext, all_vars, main_create, main_store, console_other_irq, shell_kill
  <2> QED
    BY <2>1, <2>2, <2>3, <2>4
<1>3. SwitchInit => KbdTypeOK /\ LastKeyKept /\ muter \in Pid
  BY KbdInitKeeps, TableSizes DEF SwitchInit
<1>4. muter \in Pid /\ [SwitchNext]_all_vars => (muter \in Pid)'
  BY TableSizes DEF SwitchNext, all_vars, main_create, main_store, console_kbd_irq,
         console_other_irq, shell_getche, shell_kill
<1> QED
  BY <1>1, <1>2, <1>3, <1>4, InitTable, NextTableTyped, PTL DEF SwitchSpec
=============================================================================
