-------------------------------- MODULE Delay --------------------------------
(***************************************************************************)
(* delay() of kernel/delay.c: a task registers a timer that will wake it   *)
(* and then goes to sleep.  The timers are those of module Timer, the      *)
(* tasks and the processor those of module Scheduler; the timer interrupt  *)
(* acts on both.                                                           *)
(*                                                                         *)
(* delay calls add_timer and sleep_task one after the other, each with the *)
(* interrupts disabled inside, so an interrupt may arrive in between.  The *)
(* shells kill tasks that sleep, and keys that name no console register    *)
(* timers of their own.                                                    *)
(***************************************************************************)
EXTENDS TasksAtWork, Timer

VARIABLES
  owner,      (* the pid a timer's handler gets, or NoTask                  *)
  delay_pc,   (* where each task is in delay                                *)
  my_timer,   (* history: the last timer each task registered in delay      *)
  result      (* history: what each task's last call of delay returned      *)

calls == <<owner, delay_pc, my_timer, result>>
delayvars == <<vars, timervars, calls>>

(* The data of a timer whose handler wakes nobody (clear_last_line).        *)
NoTask == TaskBound

(* Outside; between add_timer and sleep_task; in sleep_task.                *)
DelayPoint == {"out", "registered", "asleep"}

(* No call yet; 0 after a sleep; -1 because no timer could be registered.   *)
(* sys_sleep drops it and returns 0 in any case.                            *)
Result == {"none", "slept", "failed"}

DelayInit ==
  /\ WorkInit
  /\ TimerInit
  /\ owner = [h \in Timer |-> NoTask]
  /\ delay_pc = [p \in Pid |-> "out"]
  /\ my_timer = [p \in Pid |-> 0]
  /\ result = [p \in Pid |-> "none"]

MoveTo(p, point) == delay_pc' = [delay_pc EXCEPT ![p] = point]

-----------------------------------------------------------------------------
Returns(p, r) == result' = [result EXCEPT ![p] = r]

(* delay(ms): add_timer with the caller's pid; delay returns at once if     *)
(* that gives NULL.                                                         *)
delay_register(p, ms, timer) ==
  /\ Executes(p, "run")
  /\ delay_pc[p] = "out"
  /\ add_timer(ms, timer)
  /\ IF timer = NULL
     THEN /\ Returns(p, "failed")
          /\ UNCHANGED <<owner, delay_pc, my_timer>>
     ELSE /\ owner' = [owner EXCEPT ![timer] = p]
          /\ my_timer' = [my_timer EXCEPT ![p] = timer]
          /\ MoveTo(p, "registered")
          /\ UNCHANGED result
  /\ UNCHANGED vars

(* delay(ms): sleep_task, and delay's return when sleep_task returns.       *)
delay_sleep(p) ==
  /\ delay_pc[p] = "registered"
  /\ sleep_task(p)
  /\ MoveTo(p, "asleep")
  /\ UNCHANGED <<timervars, owner, my_timer, result>>

delay_return(p) ==
  /\ delay_pc[p] = "asleep"
  /\ sleep_task_return(p)
  /\ MoveTo(p, "out")
  /\ Returns(p, "slept")
  /\ UNCHANGED <<timervars, owner, my_timer>>

(* Faulty variant: the handler of every linked timer is called.             *)
Wakes_all == {p \in Pid : \E h \in Linked : owner[h] = p}

(* The tasks that do_wakeup_task is called for at this timer interrupt.     *)
Wakes == {p \in Pid : \E h \in Expiring : owner[h] = p}

(* Faulty variant: the wake-ups of the interrupt are forgotten.             *)
delay_timer_irq_no_wake ==
  /\ isr_timer
  /\ UNCHANGED <<table, calls>>
  /\ scheduler(state, TRUE)

(* The timer interrupt: isr_timer, then scheduler().                        *)
delay_timer_irq ==
  /\ isr_timer
  /\ UNCHANGED <<table, calls>>
  /\ scheduler(Woken(state, Wakes), TRUE)

(* The keyboard interrupt for a digit that names no console: the message    *)
(* has a timer that clears it after a while, 3000 ms in the code.           *)
console_printerr(ms, timer) ==
  /\ add_timer(ms, timer)
  /\ UNCHANGED <<table, calls>>
  /\ scheduler(state, scheduler_active)

delay_other_irq ==
  \/ other_irq /\ UNCHANGED <<timervars, calls>>
  \/ \E ms \in Ms, timer \in {NULL, next_timer} : console_printerr(ms, timer)

delay_kill == shell_kills /\ UNCHANGED <<timervars, calls>>

DelayNext ==
  \/ delay_timer_irq
  \/ delay_other_irq
  \/ delay_kill
  \/ \E p \in Program :
       \/ \E ms \in Ms, timer \in {NULL, next_timer} : delay_register(p, ms, timer)
       \/ delay_sleep(p)
       \/ delay_return(p)

DelaySpec == DelayInit /\ [][DelayNext]_delayvars

(* Timer interrupts go on, and a task that gets the processor again and     *)
(* again executes: a quantum is milliseconds, a step a few instructions.    *)
DelayFairSpec ==
  /\ DelaySpec
  /\ WF_delayvars(delay_timer_irq)
  /\ \A p \in Program : SF_delayvars(delay_return(p))

-----------------------------------------------------------------------------
DelayTypeOK ==
  /\ TypeOK
  /\ TimerTypeOK
  /\ owner \in [Timer -> Pid \cup {NoTask}]
  /\ delay_pc \in [Pid -> DelayPoint]
  /\ my_timer \in [Pid -> Timer]
  /\ result \in [Pid -> Result]

(* delay never returns early: a task that lives is let out of sleep_task by *)
(* the expiry of its own timer alone, and delay returns 0 only after that.  *)
(* (If there is no memory for a timer it returns -1 without any sleep.)     *)
NeverEarly ==
  \A p \in Program :
    /\ delay_pc[p] = "asleep" /\ state[p] \notin {"BLOCKED", "KILLED"}
         => fate[my_timer[p]] = "fired"
    /\ delay_pc[p] = "out" /\ result[p] = "slept"
         => fate[my_timer[p]] = "fired"

(* A task that sleeps while its timer is linked returns from delay, unless  *)
(* it is killed or isr_timer loses the timer: the wake-up reaches it        *)
(* whatever task has the processor at that tick, and round robin runs it.   *)
SleepEndsUnlessLost ==
  \A p \in Program :
    (delay_pc[p] = "asleep" /\ my_timer[p] \in Linked)
      ~> \/ delay_pc[p] = "out"
         \/ state[p] = "KILLED"
         \/ my_timer[p] \notin Linked /\ fate[my_timer[p]] = "armed"
=============================================================================
