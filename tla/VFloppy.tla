-------------------------------- MODULE VFloppy --------------------------------
(***************************************************************************)
(* The virtual floppy (apps/vfloppy.c): a ram disk that any task reads and *)
(* writes by system call.  One byte of flags says whether it is active and *)
(* busy; a call tests it with the interrupts enabled, sets BUSY with them  *)
(* disabled, copies the sector with them enabled and resets the flags.     *)
(*                                                                         *)
(* isREADONLY is 0, so the flag READONLY is never set.  A sector is copied *)
(* in two halves, between which another task may run; a task may be killed *)
(* anywhere, for the shells kill whatever is READY.                        *)
(***************************************************************************)
EXTENDS Integers, FiniteSets

CONSTANTS
  Task,        (* the tasks that use the disk                               *)
  NUMSECT,     (* VFLOPPY_NUMSECT, 2880                                     *)
  Blocks,      (* the block numbers that are asked for                      *)
  Data         (* what the tasks write                                      *)

ASSUME VFloppyAssumption == NUMSECT \in Nat \ {0} /\ Blocks \subseteq Int

VARIABLES
  memory,          (* the two halves of each sector                         *)
  vfloppy_flags,   (* a set of flags                                        *)
  call,            (* the call each task is in                              *)
  sector,          (* the buffer of each call                               *)
  result,          (* what its last call returned, or None                  *)
  killed,          (* tasks that were killed                                *)
  raced            (* history: BUSY was set where it was set before, or a   *)
                   (* task was killed inside a call                         *)

vfloppy_vars == <<memory, vfloppy_flags, call, sector, result, killed, raced>>

Sectors == 0 .. NUMSECT - 1
Halves == {1, 2}
Zero == 0
None == -1
NoCall == [pc |-> "out", block |-> 0, write |-> FALSE]

(* kmalloc does not clear the memory; zeros stand for what it found.        *)
VFloppyInit ==
  /\ memory = [s \in Sectors |-> [h \in Halves |-> Zero]]
  /\ vfloppy_flags = {"ATTIVO"}
  /\ call = [t \in Task |-> NoCall]
  /\ sector = [t \in Task |-> [h \in Halves |-> Zero]]
  /\ result = [t \in Task |-> None]
  /\ killed = {} /\ raced = FALSE

Step(t, from, to) ==
  /\ t \notin killed /\ call[t].pc = from
  /\ call' = [call EXCEPT ![t].pc = to]

(* vfloppy_rd and vfloppy_wt.                                               *)
vfloppy_call(t, block, write) ==
  /\ t \notin killed /\ call[t] = NoCall
  /\ call' = [call EXCEPT ![t] = [pc |-> "test", block |-> block, write |-> write]]
  /\ \E d \in Data : sector' = [sector EXCEPT ![t] = [h \in Halves |-> IF write THEN d ELSE Zero]]
  /\ result' = [result EXCEPT ![t] = None]
  /\ UNCHANGED <<memory, vfloppy_flags, killed, raced>>

(* The error codes of the tests, in their order.                            *)
Refusal(block) ==
  CASE block >= NUMSECT \/ block < 0 -> 3
    [] "ATTIVO" \notin vfloppy_flags -> 2
    [] OTHER -> IF "BUSY" \in vfloppy_flags THEN 1 ELSE 0

vfloppy_refuse(t) ==
  /\ Refusal(call[t].block) # 0
  /\ Step(t, "test", "return")
  /\ result' = [result EXCEPT ![t] = Refusal(call[t].block)]
  /\ UNCHANGED <<memory, vfloppy_flags, sector, killed, raced>>

vfloppy_admit(t) ==
  /\ Refusal(call[t].block) = 0
  /\ Step(t, "test", "set")
  /\ UNCHANGED <<memory, vfloppy_flags, sector, result, killed, raced>>

(* Faulty variant: the disk is not marked busy.                             *)
Busy_not == {"ATTIVO"}

Busy == {"BUSY", "ATTIVO"}

vfloppy_set(t) ==
  /\ Step(t, "set", "first")
  /\ raced' = (raced \/ "BUSY" \in vfloppy_flags)
  /\ vfloppy_flags' = Busy
  /\ UNCHANGED <<memory, sector, result, killed>>

(* memcpy of one half, from or to the disk.                                 *)
vfloppy_copy(t, h) ==
  /\ \/ h = 1 /\ Step(t, "first", "second")
     \/ h = 2 /\ Step(t, "second", "reset")
  /\ IF call[t].write
       THEN memory' = [memory EXCEPT ![call[t].block][h] = sector[t][h]] /\ UNCHANGED sector
       ELSE sector' = [sector EXCEPT ![t][h] = memory[call[t].block][h]] /\ UNCHANGED memory
  /\ UNCHANGED <<vfloppy_flags, result, killed, raced>>

vfloppy_reset(t) ==
  /\ Step(t, "reset", "return")
  /\ vfloppy_flags' = {"ATTIVO"}
  /\ result' = [result EXCEPT ![t] = 0]
  /\ UNCHANGED <<memory, sector, killed, raced>>

vfloppy_return(t) ==
  /\ t \notin killed /\ call[t].pc = "return"
  /\ call' = [call EXCEPT ![t] = NoCall]
  /\ sector' = [sector EXCEPT ![t] = [h \in Halves |-> Zero]]
  /\ result' = [result EXCEPT ![t] = None]
  /\ UNCHANGED <<memory, vfloppy_flags, killed, raced>>

Copying == {t \in Task : call[t].pc \in {"first", "second", "reset"}}

(* Another task kills t; what t was doing stays as it is.                   *)
vfloppy_kill(t) ==
  /\ t \notin killed /\ killed' = killed \cup {t}
  /\ raced' = (raced \/ t \in Copying)
  /\ UNCHANGED <<memory, vfloppy_flags, call, sector, result>>

VFloppyNext ==
  \E t \in Task :
    \/ \E block \in Blocks, write \in BOOLEAN : vfloppy_call(t, block, write)
    \/ vfloppy_refuse(t) \/ vfloppy_admit(t) \/ vfloppy_set(t)
    \/ \E h \in Halves : vfloppy_copy(t, h)
    \/ vfloppy_reset(t) \/ vfloppy_return(t) \/ vfloppy_kill(t)

VFloppySpec == VFloppyInit /\ [][VFloppyNext]_vfloppy_vars

-----------------------------------------------------------------------------
Whole(halves) == halves[1] = halves[2]

(* The flag BUSY keeps other tasks out while one copies, and then every     *)
(* sector and every buffer that was read is of one write (vfloppy.c:32), as *)
(* long as no task was admitted by its test before another one set the flag *)
(* and none was killed while it copied.                                     *)
AloneUnlessRaced ==
  ~raced =>
    /\ Cardinality(Copying) <= 1
    /\ Copying # {} <=> "BUSY" \in vfloppy_flags
    /\ \A s \in Sectors :
         Whole(memory[s]) \/ \E t \in Copying : call[t].write /\ call[t].block = s
    /\ \A t \in Task : result[t] = 0 => Whole(sector[t])
=============================================================================
