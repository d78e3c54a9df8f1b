----------------------------- MODULE ConsoleSwitch -----------------------------
(***************************************************************************)
(* The consoles and their shells: switch_to_console of driver/console.c,   *)
(* which isr_kbd calls, main() creating the first shell, and the shells,   *)
(* which read the keyboard of module Keyboard and kill tasks.              *)
(*                                                                         *)
(* The round robin and its quanta are those of module Scheduler; here they *)
(* are reduced to what they decide: after any interrupt the task that has  *)
(* the processor keeps it, whatever its state, or some READY task gets it. *)
(***************************************************************************)
EXTENDS Keyboard

CONSTANT TaskBound   (* bound: how many tasks are ever created              *)

Pid == 0 .. TaskBound - 1
Spinning == TaskBound
Shell == Pid \ {0}

ASSUME ConsoleAssumption == TaskBound \in Nat \ {0, 1} /\ Reader = Shell

VARIABLES
  state,           (* process_table[p].state                                 *)
  pid_cur_task,    (* the task the processor executes, or Spinning           *)
  free_pid,        (* the pid of the next task                               *)
  console,         (* process_table[p].console                               *)
  pid_task_shell,  (* console[c].pid_task_shell                              *)
  main_pc,         (* where main is                                          *)
  muter            (* history: the shell that disabled the keyboard, or 0    *)

switch_vars == <<state, pid_cur_task, free_pid, console, pid_task_shell,
                 main_pc>>
table_vars == <<free_pid, console, pid_task_shell>>

-----------------------------------------------------------------------------
(* main at line 160, with the interrupts just enabled.                      *)
SwitchInit ==
  /\ KbdInit
  /\ state = [p \in Pid |-> IF p = 0 THEN "RUNNING" ELSE "KILLED"]
  /\ pid_cur_task = 0
  /\ free_pid = 1
  /\ console = [p \in Pid |-> 0]
  /\ pid_task_shell = [c \in Consoles |-> 0]
  /\ main_pc = "start"
  /\ muter = 0

Ready(st) == {p \in Pid : st[p] = "READY"}

(* Faulty variant: the outgoing task is READY whatever its state.           *)
Preempted_always(st) == [st EXCEPT ![pid_cur_task] = "READY"]

Preempted(st) ==
  [st EXCEPT ![pid_cur_task] = IF @ = "RUNNING" THEN "READY" ELSE @]

(* scheduler() at the end of an interrupt whose handler left the table st.  *)
scheduler(st) ==
  \/ state' = st /\ UNCHANGED pid_cur_task
  \/ \E next \in Ready(Preempted(st)) :
       /\ pid_cur_task' = next
       /\ state' = [Preempted(st) EXCEPT ![next] = "RUNNING"]
  \/ /\ Ready(Preempted(st)) = {}
     /\ pid_cur_task' = Spinning
     /\ state' = Preempted(st)

(* main calls create_task, and later stores what it returns: the pid of the *)
(* last entry, read after the interrupts are enabled again.                 *)
main_create ==
  /\ pid_cur_task = 0 /\ main_pc = "start"
  /\ free_pid \in Pid
  /\ state' = [state EXCEPT ![free_pid] = "READY"]
  /\ console' = [console EXCEPT ![free_pid] = cur_console]
  /\ free_pid' = free_pid + 1
  /\ main_pc' = "created"
  /\ UNCHANGED <<pid_cur_task, pid_task_shell, muter, kbd_vars>>

main_store ==
  /\ pid_cur_task = 0 /\ main_pc = "created"
  /\ pid_task_shell' = [pid_task_shell EXCEPT ![cur_console] = free_pid - 1]
  /\ main_pc' = "idle"
  /\ UNCHANGED <<state, pid_cur_task, free_pid, console, muter, kbd_vars>>

(* The console has no shell, or its shell was killed.                       *)
NeedsShell(n) ==
  pid_task_shell[n] = 0 \/ state[pid_task_shell[n]] = "KILLED"

ShellOf(n) == IF NeedsShell(n) THEN free_pid ELSE pid_task_shell[n]

(* Faulty variant: the outgoing shell is not blocked.                       *)
Switched_without_block(n) ==
  [state EXCEPT ![ShellOf(n)] =
     IF NeedsShell(n) \/ @ = "BLOCKED" THEN "READY" ELSE @]

(* The table after create_task or wakeup_task on the shell of n and the     *)
(* assignment of BLOCKED to the shell of the console that leaves the screen.*)
Switched(n) ==
  [[state EXCEPT ![ShellOf(n)] =
      IF NeedsShell(n) \/ @ = "BLOCKED" THEN "READY" ELSE @]
    EXCEPT ![pid_task_shell[cur_console]] = "BLOCKED"]

switch_to_console(n) ==
  /\ NeedsShell(n) => free_pid \in Pid
  /\ cur_console' = n
  /\ pid_task_shell' = [pid_task_shell EXCEPT ![n] = ShellOf(n)]
  /\ free_pid' = IF NeedsShell(n) THEN free_pid + 1 ELSE free_pid
  /\ console' = IF NeedsShell(n) THEN [console EXCEPT ![free_pid] = n] ELSE console

(* The digit names a console that exists and is not on the screen.          *)
Switches(sc) ==
  SwitchRequested(sc) /\ key' - 48 \in Consoles \ {cur_console}

(* The keyboard interrupt, in whatever task it arrives.                     *)
console_kbd_irq ==
  /\ pid_cur_task # Spinning
  /\ \E sc \in Scancodes :
       /\ isr_kbd(sc)
       /\ IF Switches(sc)
          THEN switch_to_console(key' - 48) /\ scheduler(Switched(key' - 48))
          ELSE UNCHANGED <<cur_console, table_vars>> /\ scheduler(state)
  /\ UNCHANGED <<main_pc, muter>>

console_other_irq ==
  /\ pid_cur_task # Spinning
  /\ scheduler(state)
  /\ UNCHANGED <<table_vars, main_pc, muter, kbd_vars>>

(* A shell reads its next character.                                        *)
shell_getche(p) ==
  /\ pid_cur_task = p
  /\ sys_getche(p)
  /\ muter' = CASE getche_pc[p] = "seen" -> p
                [] getche_pc[p] = "called" -> 0
                [] OTHER -> muter
  /\ UNCHANGED switch_vars

(* Faulty variant: the kill command may name the idle task.                 *)
Killable_idle_too(q) == state[q] \in {"READY", "BLOCKED"}

Killable(q) == q # 0 /\ state[q] \in {"READY", "BLOCKED"}

(* The kill and killall commands, between two reads.  A shell that was      *)
(* blocked and still has the processor may name itself.                     *)
shell_kill(p, q) ==
  /\ pid_cur_task = p /\ getche_pc[p] = "out"
  /\ Killable(q)
  /\ state' = [state EXCEPT ![q] = "KILLED"]
  /\ UNCHANGED <<pid_cur_task, table_vars, main_pc, muter, kbd_vars>>

-----------------------------------------------------------------------------
SwitchNext ==
  \/ main_create \/ main_store
  \/ console_kbd_irq \/ console_other_irq
  \/ \E p \in Shell : shell_getche(p) \/ \E q \in Pid : shell_kill(p, q)

all_vars == <<kbd_vars, switch_vars, muter>>

SwitchSpec == SwitchInit /\ [][SwitchNext]_all_vars

-----------------------------------------------------------------------------
SwitchTypeOK ==
  /\ KbdTypeOK
  /\ state \in [Pid -> {"RUNNING", "READY", "BLOCKED", "KILLED"}]
  /\ pid_cur_task \in 0 .. free_pid - 1 \cup {Spinning}
  /\ free_pid \in 1 .. TaskBound
  /\ console \in [Pid -> Consoles]
  /\ pid_task_shell \in [Consoles -> 0 .. free_pid - 1]
  /\ main_pc \in {"start", "created", "idle"}
  /\ muter \in Pid

(* A key switched consoles before main had stored the pid of the first      *)
(* shell (main.c:160): entry 0, the idle task, was blocked in its place.    *)
EarlySwitch == state[0] = "BLOCKED"

(* Only the shell of the console on the screen may be awake: whatever the   *)
(* order of keys, switches, kills and preemptions, the shell of any other   *)
(* console is BLOCKED or KILLED, unless a key came before the start-up was  *)
(* over (console.c:123, 169).                                               *)
OneShellAwake ==
  ~EarlySwitch =>
    \A p \in Shell :
      state[p] \in {"READY", "RUNNING"} => console[p] = cur_console

(* round_robin loops for ever with the interrupts disabled only if the idle *)
(* task was blocked by a key during start-up.                               *)
SpinsOnlyAfterEarlySwitch == pid_cur_task = Spinning => EarlySwitch

(* A killed shell comes back only through the unconditional assignment of   *)
(* console.c:169, when its console leaves the screen, and then BLOCKED.     *)
RevivedOnlyBySwitch ==
  [][\A p \in Pid :
       p < free_pid /\ state[p] = "KILLED" /\ state'[p] # "KILLED" =>
         /\ p = pid_task_shell[cur_console]
         /\ cur_console' # cur_console
         /\ state'[p] = "BLOCKED"]_all_vars

(* The shell on the screen waits with the keyboard disabled only behind the *)
(* shell of another console: the one that disabled it, which saw a key, was *)
(* blocked by a switch before disabilita_kbd, went on executing and has not *)
(* enabled the keyboard since (syscall.c:172-174, console.c:169).           *)
DeafOnlyBehindAnother ==
  ~EarlySwitch =>
  \A p \in Shell :
    p = pid_task_shell[cur_console] /\ getche_pc[p] = "wait" /\ ~kbd_enabled =>
      /\ muter \in Shell /\ console[muter] # cur_console
      /\ getche_pc[muter] \in {"disabled", "read", "out", "called"}
=============================================================================
