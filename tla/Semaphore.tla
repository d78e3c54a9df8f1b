------------------------------ MODULE Semaphore ------------------------------
(***************************************************************************)
(* One semaphore of task/semaphores.c with its wait list of kernel/wait.c, *)
(* used by tasks that the round robin of module Scheduler runs.            *)
(*                                                                         *)
(* down and up are cut where an interrupt can arrive: around each LOCKed   *)
(* instruction and around each section between save_flags_irq and          *)
(* restore_flags.  Every step of a task here is a step of Scheduler, or    *)
(* leaves the process table alone.                                         *)
(***************************************************************************)
EXTENDS TasksAtWork, Integers, Sequences, FiniteSets

CONSTANTS
  Units,      (* the value given to create_sem                              *)
  SameWord    (* pairs of pids that memcmp, given the pids as addresses,    *)
              (* finds equal: what the words stored there are decides it    *)

ASSUME SemaphoreAssumption ==
  /\ Units \in Nat
  /\ SameWord \subseteq Pid \X Pid

VARIABLES
  resources,   (* semaphore->resources                                      *)
  waiting,     (* the pids in semaphore->waiting, in order                  *)
  sem_pc       (* where each task is in down and up                         *)

semvars == <<vars, resources, waiting, sem_pc>>

(* Points of a task: outside; about to decrement again after a sleep; found *)
(* no unit, before cli; queued, before sleep_task; inside sleep_task; out   *)
(* of down with a unit; in up after the increment; in up before cli.        *)
SemPoint == {"out", "retry", "refused", "queued", "asleep", "held",
             "released", "waking"}

SemInit ==
  /\ WorkInit
  /\ resources = Units
  /\ waiting = <<>>
  /\ sem_pc = [p \in Pid |-> "out"]

At(p, point)   == sem_pc[p] = point
GoTo(p, point) == sem_pc' = [sem_pc EXCEPT ![p] = point]

-----------------------------------------------------------------------------
(* The wait list.                                                           *)

Queued(p) == \E i \in DOMAIN waiting : <<waiting[i], p>> \in SameWord

(* wait_add_unique: nothing is added if an object of the list compares      *)
(* equal to the new one.                                                    *)
wait_add_unique(p) ==
  waiting' = IF Queued(p) THEN waiting ELSE Append(waiting, p)

(* Faulty variant: the last object is woken and the first one removed.      *)
wait_wakeup_last(p) ==
  IF waiting = <<>>
  THEN wakeup_task(p, p) /\ UNCHANGED waiting
  ELSE wakeup_task(p, waiting[Len(waiting)]) /\ waiting' = Tail(waiting)

(* wait_wakeup_next and the enable_scheduler after it: the handler of the   *)
(* list is wakeup_task; on an empty list only the scheduler is enabled,     *)
(* which is what wakeup_task does of a task that is not blocked.            *)
wait_wakeup_next(p) ==
  IF waiting = <<>>
  THEN wakeup_task(p, p) /\ UNCHANGED waiting
  ELSE wakeup_task(p, Head(waiting)) /\ waiting' = Tail(waiting)

-----------------------------------------------------------------------------
(* Faulty variant: the decremented value is compared with one, not zero.    *)
down_dec_strict(p) ==
  /\ Executes(p, "run")
  /\ At(p, "out") \/ At(p, "retry")
  /\ resources' = resources - 1
  /\ GoTo(p, IF resources < -1 THEN "refused" ELSE "held")
  /\ UNCHANGED <<vars, waiting>>

(* down: atomic_dec_and_test_neg, and the way out when a unit was free.     *)
down_dec(p) ==
  /\ Executes(p, "run")
  /\ At(p, "out") \/ At(p, "retry")
  /\ resources' = resources - 1
  /\ GoTo(p, IF resources - 1 < 0 THEN "refused" ELSE "held")
  /\ UNCHANGED <<vars, waiting>>

(* Faulty variant: the refused decrement is not undone.                     *)
down_queue_keeps_unit(p) ==
  /\ Executes(p, "run")
  /\ At(p, "refused")
  /\ wait_add_unique(p)
  /\ GoTo(p, "queued")
  /\ UNCHANGED <<vars, resources>>

(* down: the section that joins the wait list and undoes the decrement.     *)
down_queue(p) ==
  /\ Executes(p, "run")
  /\ At(p, "refused")
  /\ wait_add_unique(p)
  /\ resources' = resources + 1
  /\ GoTo(p, "queued")
  /\ UNCHANGED vars

(* down: sleep_task(pid), and its return to the head of the loop.           *)
down_sleep(p) ==
  /\ At(p, "queued")
  /\ sleep_task(p)
  /\ GoTo(p, "asleep")
  /\ UNCHANGED <<resources, waiting>>

down_awake(p) ==
  /\ At(p, "asleep")
  /\ sleep_task_return(p)
  /\ GoTo(p, "retry")
  /\ UNCHANGED <<resources, waiting>>

(* up: atomic_inc.                                                          *)
up_inc(p) ==
  /\ Executes(p, "run")
  /\ At(p, "held")
  /\ resources' = resources + 1
  /\ GoTo(p, "released")
  /\ UNCHANGED <<vars, waiting>>

(* Faulty variant: up waits for a waiter before it returns.                 *)
up_check_waits(p) ==
  /\ Executes(p, "run")
  /\ At(p, "released")
  /\ waiting # <<>>
  /\ GoTo(p, "waking")
  /\ UNCHANGED <<vars, resources, waiting>>

(* up: the test of waiting_objects, made with the interrupts enabled.       *)
up_check(p) ==
  /\ Executes(p, "run")
  /\ At(p, "released")
  /\ GoTo(p, IF waiting = <<>> THEN "out" ELSE "waking")
  /\ UNCHANGED <<vars, resources, waiting>>

(* up: the section that wakes the first waiter.                             *)
up_wake(p) ==
  /\ At(p, "waking")
  /\ wait_wakeup_next(p)
  /\ GoTo(p, "out")
  /\ UNCHANGED resources

(* The timer interrupt: no timer is registered for a task inside down.      *)
sem_timer_irq ==
  /\ UNCHANGED table
  /\ scheduler(state, TRUE)
  /\ UNCHANGED <<resources, waiting, sem_pc>>

(* A key may switch to the console of another shell.                        *)
sem_other_irq ==
  /\ other_irq
  /\ UNCHANGED <<resources, waiting, sem_pc>>

(* The shells do not use the semaphore; they kill tasks that do.            *)
sem_kill == shell_kills /\ UNCHANGED <<resources, waiting, sem_pc>>

TaskStep(p) ==
  \/ down_dec(p)
  \/ down_queue(p)
  \/ down_sleep(p)
  \/ down_awake(p)
  \/ up_inc(p)
  \/ up_check(p)
  \/ up_wake(p)

SemNext ==
  \/ sem_timer_irq
  \/ sem_other_irq
  \/ sem_kill
  \/ \E p \in Program : TaskStep(p)

SemSpec == SemInit /\ [][SemNext]_semvars

(* Interrupts go on, and a task that is given the processor again and again *)
(* executes: a quantum is milliseconds and a step a few instructions.       *)
UpStep(p) == up_check(p) \/ up_wake(p)
SemFairSpec ==
  /\ SemSpec
  /\ WF_semvars(sem_timer_irq)
  /\ \A p \in Program : SF_semvars(UpStep(p))

-----------------------------------------------------------------------------
Holders == {p \in Program : sem_pc[p] = "held"}
Refused == {p \in Program : sem_pc[p] = "refused"}

SemTypeOK ==
  /\ TypeOK
  /\ resources \in Int
  /\ waiting \in Seq(Program)
  /\ sem_pc \in [Pid -> SemPoint]

(* "Nessun altro processo possa usare la risorsa se questa e' gia' in uso"  *)
(* (semaphores.c): never more holders than units, whatever down's failed    *)
(* decrements and their undoing do to the counter in between.               *)
MutualExclusion == Cardinality(Holders) <= Units

(* The counter is exact: each unit is free, lent, or missing for the moment *)
(* because a task that was refused has not yet undone its decrement.        *)
UnitsAccounted ==
  resources = Units - Cardinality(Holders) - Cardinality(Refused)

(* The wait list holds each task once, and only tasks that have not yet     *)
(* come back from the sleep they were queued for.                           *)
WaitersAreAsleep ==
  \A i \in DOMAIN waiting :
    /\ sem_pc[waiting[i]] \in {"queued", "asleep"}
    /\ \A j \in DOMAIN waiting : waiting[i] = waiting[j] => i = j

(* A release takes the waiter that came first, and that waiter does not go  *)
(* on sleeping: a task leaves the list only as its head and is then READY,  *)
(* or was killed in the meantime (wait_wakeup_next, wakeup_task).           *)
WakesInOrder ==
  [][Len(waiting') < Len(waiting)
       => waiting' = Tail(waiting) /\ state'[Head(waiting)] # "BLOCKED"]_semvars

(* down and up implement the promise of module CountingSemaphore.           *)
Promise == INSTANCE CountingSemaphore WITH Task <- Program, holders <- Holders
ImplementsPromise == Promise!Spec

(* A task that releases a unit is never held up by the tasks that wait, and *)
(* gets out of up unless it is killed there.                                *)
UpReturns ==
  \A p \in Program : sem_pc[p] \in {"released", "waking"}
                       ~> sem_pc[p] = "out" \/ state[p] = "KILLED"

-----------------------------------------------------------------------------
(* What comments of the code say, and the code does not do.                 *)

(* Every task is outside down and up, or sleeps in down.                    *)
Quiet ==
  \A p \in Program : \/ sem_pc[p] = "out"
                     \/ sem_pc[p] = "asleep" /\ state[p] = "BLOCKED"

(* down puts the task to sleep and it "verra' risvegliato non appena la     *)
(* risorsa controllata dal semaforo sara' libera" (semaphores.c): no task   *)
(* sleeps beside a free unit that no task is about to take or to announce.  *)
NoSleepBesideFreeUnit ==
  Quiet /\ resources > 0 => \A p \in Program : sem_pc[p] = "out"
=============================================================================
