-------------------------------- MODULE Timer --------------------------------
(***************************************************************************)
(* The list of software timers of interrupt/timer.c.                       *)
(*                                                                         *)
(* Every operation works on the list between save_flags_irq and            *)
(* restore_flags, so each is one action.  A struct timer is a handle, in   *)
(* the order add_timer allocates them; kfree makes no block available      *)
(* again (mm/phisicmem.c), so no handle is used twice and a node that was  *)
(* unlinked still holds the next pointer isr_timer reads from it.          *)
(***************************************************************************)
EXTENDS Integers, SequencesExt

CONSTANTS
  ULONG_MAX,    (* the largest unsigned long                                *)
  MS_PIT,       (* milliseconds between two timer interrupts                *)
  Ms,           (* the delays that callers ask for, in milliseconds         *)
  TimerBound    (* bound: how many timers a behaviour ever registers        *)

ASSUME TimerAssumption ==
  /\ ULONG_MAX \in Nat \ {0}
  /\ MS_PIT \in Nat \ {0}
  /\ Ms \subseteq Nat
  /\ \A ms \in Ms : ms \div MS_PIT <= ULONG_MAX
  /\ TimerBound \in Nat \ {0}

VARIABLES
  timer_list,    (* the handles linked behind the static timer_list         *)
  delay,         (* delay of each struct timer, in ticks                    *)
  timer_ticks,   (* timer interrupts so far, an unsigned long               *)
  next_timer,    (* the handle of the next kmalloc                          *)
  fate,          (* history: what became of each timer                      *)
  asked,         (* history: the milliseconds last asked for each timer     *)
  passed         (* history: how many ticks it has been linked since then   *)

history == <<fate, asked, passed>>
timervars == <<timer_list, delay, timer_ticks, next_timer, history>>

Timer == 0 .. TimerBound - 1
Ulong == 0 .. ULONG_MAX
Fate  == {"unborn", "armed", "fired", "deleted"}

(* What add_timer returns if kmalloc finds no memory.                       *)
NULL == TimerBound

Linked == {timer_list[i] : i \in DOMAIN timer_list}

(* n modulo the width of an unsigned long, for n that leaves it at most     *)
(* once.                                                                    *)
Wrap(n) ==
  IF n > ULONG_MAX THEN n - ULONG_MAX - 1
  ELSE IF n < 0 THEN n + ULONG_MAX + 1
  ELSE n

msecs_to_ticks(ms) == ms \div MS_PIT

TimerInit ==
  /\ timer_list = <<>>
  /\ delay = [h \in Timer |-> 0]
  /\ timer_ticks = 0
  /\ next_timer = 0
  /\ fate = [h \in Timer |-> "unborn"]
  /\ asked = [h \in Timer |-> 0]
  /\ passed = [h \in Timer |-> 0]

-----------------------------------------------------------------------------
(* What the caller asks for: handle h expires ms milliseconds from now.     *)
Arm(h, ms) ==
  /\ asked' = [asked EXCEPT ![h] = ms]
  /\ passed' = [passed EXCEPT ![h] = 0]

(* Faulty variant: the node is linked at the head of the list.              *)
add_timer_at_head(ms, timer) ==
  \/ /\ timer = NULL
     /\ UNCHANGED timervars
  \/ /\ timer = next_timer /\ next_timer < TimerBound
     /\ timer_list' = <<next_timer>> \o timer_list
     /\ delay' = [delay EXCEPT ![next_timer] = msecs_to_ticks(ms)]
     /\ fate' = [fate EXCEPT ![next_timer] = "armed"]
     /\ next_timer' = next_timer + 1
     /\ Arm(next_timer, ms)
     /\ UNCHANGED timer_ticks

(* add_timer, which returns timer: NULL if kmalloc fails, else the handle   *)
(* of a node that goes to the end of the list.                              *)
add_timer(ms, timer) ==
  \/ /\ timer = NULL
     /\ UNCHANGED timervars
  \/ /\ timer = next_timer /\ next_timer < TimerBound
     /\ timer_list' = Append(timer_list, next_timer)
     /\ delay' = [delay EXCEPT ![next_timer] = msecs_to_ticks(ms)]
     /\ fate' = [fate EXCEPT ![next_timer] = "armed"]
     /\ next_timer' = next_timer + 1
     /\ Arm(next_timer, ms)
     /\ UNCHANGED timer_ticks

(* The test of del_timer and mod_timer: linked, and not about to wrap.      *)
Pending(h) == h \in Linked /\ delay[h] # 0

(* Faulty variant: the rest of the list is cut off with the node.           *)
del_timer_cuts_list(h) ==
  IF Pending(h)
  THEN /\ \E i \in DOMAIN timer_list :
            timer_list[i] = h /\ timer_list' = SubSeq(timer_list, 1, i - 1)
       /\ fate' = [fate EXCEPT ![h] = "deleted"]
       /\ UNCHANGED <<delay, timer_ticks, next_timer, asked, passed>>
  ELSE UNCHANGED timervars

(* del_timer(h), for a handle that add_timer has returned.                  *)
del_timer(h) ==
  IF Pending(h)
  THEN /\ \E i \in DOMAIN timer_list :
            timer_list[i] = h /\ timer_list' = RemoveAt(timer_list, i)
       /\ fate' = [fate EXCEPT ![h] = "deleted"]
       /\ UNCHANGED <<delay, timer_ticks, next_timer, asked, passed>>
  ELSE UNCHANGED timervars

(* Faulty variant: the new time is added to the time that was left.         *)
mod_timer_extends(h, ms) ==
  IF Pending(h)
  THEN /\ delay' = [delay EXCEPT ![h] = Wrap(@ + msecs_to_ticks(ms))]
       /\ Arm(h, ms)
       /\ UNCHANGED <<timer_list, timer_ticks, next_timer, fate>>
  ELSE UNCHANGED timervars

(* mod_timer(h, ms).                                                        *)
mod_timer(h, ms) ==
  IF Pending(h)
  THEN /\ delay' = [delay EXCEPT ![h] = msecs_to_ticks(ms)]
       /\ Arm(h, ms)
       /\ UNCHANGED <<timer_list, timer_ticks, next_timer, fate>>
  ELSE UNCHANGED timervars

(* One tick more has passed for the timers of S.                            *)
Elapse(S) ==
  passed' = [h \in Timer |-> IF h \in S THEN passed[h] + 1 ELSE passed[h]]

(* The timers whose delay this interrupt decrements to zero.                *)
Expiring == {h \in Linked : delay[h] = 1}

(* Faulty variant: each expired node is unlinked from its predecessor but   *)
(* the walk ends there.                                                     *)
isr_timer_stops ==
  LET first == {h \in Expiring : \A g \in Expiring : h <= g}
      met(h) == \A g \in first : h <= g
  IN /\ delay' = [h \in Timer |-> IF h \in Linked /\ met(h)
                                  THEN Wrap(delay[h] - 1) ELSE delay[h]]
     /\ timer_list' = SelectSeq(timer_list, LAMBDA h : h \notin first)
     /\ fate' = [h \in Timer |-> IF h \in first THEN "fired" ELSE fate[h]]
     /\ timer_ticks' = Wrap(timer_ticks + 1)
     /\ Elapse(Linked)
     /\ UNCHANGED <<next_timer, asked>>

(* isr_timer: every linked delay is decremented, 0 to ULONG_MAX, and each   *)
(* one that becomes 0 has its handler called and the head of the list made  *)
(* to point behind it: what precedes the last of them leaves the list.  It  *)
(* also draws the clock, which is not modelled.                             *)
isr_timer ==
  LET last == Max({0} \cup {i \in DOMAIN timer_list :
                              timer_list[i] \in Expiring})
  IN /\ delay' = [h \in Timer |-> IF h \in Linked THEN Wrap(delay[h] - 1)
                                                  ELSE delay[h]]
     /\ timer_list' = SubSeq(timer_list, last + 1, Len(timer_list))
     /\ fate' = [h \in Timer |-> IF h \in Expiring THEN "fired" ELSE fate[h]]
     /\ timer_ticks' = Wrap(timer_ticks + 1)
     /\ Elapse(Linked)
     /\ UNCHANGED <<next_timer, asked>>

-----------------------------------------------------------------------------
TimerNext ==
  \/ isr_timer
  \/ \E ms \in Ms, timer \in {NULL, next_timer} : add_timer(ms, timer)
  \/ \E h \in 0 .. next_timer - 1 :
       \/ del_timer(h)
       \/ \E ms \in Ms : mod_timer(h, ms)

TimerSpec == TimerInit /\ [][TimerNext]_timervars

-----------------------------------------------------------------------------
TimerTypeOK ==
  /\ timer_list \in Seq(Timer)
  /\ delay \in [Timer -> Ulong]
  /\ timer_ticks \in Ulong
  /\ next_timer \in 0 .. TimerBound
  /\ fate \in [Timer -> Fate]
  /\ asked \in [Timer -> Nat]
  /\ passed \in [Timer -> Nat]

(* The list, which three functions and an interrupt relink, stays sound:    *)
(* its nodes are timers that are still to expire, each linked once, in the  *)
(* order of registration.                                                   *)
ListSound ==
  /\ \A h \in Linked : fate[h] = "armed"
  /\ \A i, j \in DOMAIN timer_list : i < j => timer_list[i] < timer_list[j]

(* Less than a tick was asked for: a delay of 0, which isr_timer makes      *)
(* ULONG_MAX at the first tick.                                             *)
LessThanATick(h) == asked[h] < MS_PIT

(* The delay of a linked timer is the time left to it, however it was       *)
(* added, modified and ticked; except that of one for less than a tick,     *)
(* which from the first tick on has a whole turn of the counter left.       *)
DelayIsTimeLeft ==
  \A h \in Linked :
    \/ delay[h] + passed[h] = asked[h] \div MS_PIT
    \/ LessThanATick(h) /\ delay[h] + passed[h] = ULONG_MAX + 1

(* A timer fires when the time asked for is over, less than a tick before   *)
(* and never after, whatever other timers were added, changed or fired in   *)
(* the meantime; except that one for less than a tick fires a whole turn of *)
(* the counter late (timer.c:56, 201).                                      *)
FiresWhenDue ==
  [][\A h \in Timer :
       fate[h] = "armed" /\ fate'[h] = "fired" =>
         \/ /\ passed'[h] * MS_PIT <= asked[h]
            /\ asked[h] < (passed'[h] + 1) * MS_PIT
         \/ LessThanATick(h) /\ passed'[h] = ULONG_MAX + 1]_timervars

(* What isr_timer does keep of the list: a timer is only ever lost when one *)
(* registered after it expires, and no timer registered later is affected.  *)
LostOnlyToLater ==
  [][\A h \in Linked :
       \/ h \in Linked'
       \/ fate'[h] # "armed"
       \/ \E g \in Linked : g > h /\ fate'[g] = "fired"]_timervars
=============================================================================
