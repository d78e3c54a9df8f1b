------------------------------- MODULE PartsProofs -------------------------------
(***************************************************************************)
(* Proofs about parts that no other uses: the virtual floppy, the output   *)
(* of hidden consoles, strftime, the calendar, the string functions and    *)
(* the splitting of a line.  Each has its inductive invariant and one      *)
(* lemma for each action that can disturb it; that of the string functions *)
(* is the type of the memory, and their lemmas say what each makes of it.  *)
(***************************************************************************)
EXTENDS VFloppy, ConsoleOutput, Strftime, Calendar, CString, CommandLine, SequenceLemmas,
        FiniteSetTheorems

(* Where a call is, and where it copies.                                    *)
CopyPoint == {"first", "second", "reset"}
Point == {"out", "test", "set", "return"} \cup CopyPoint

(* The type of the state, with the results of all calls.                    *)
VFloppyTypeOK ==
  /\ memory \in [Sectors -> [Halves -> Data \cup {Zero}]]
  /\ vfloppy_flags \in {{"ATTIVO"}, {"BUSY", "ATTIVO"}}
  /\ call \in [Task -> [pc : Point, block : Int, write : BOOLEAN]]
  /\ sector \in [Task -> [Halves -> Data \cup {Zero}]]
  /\ result \in [Task -> -1 .. 3]
  /\ killed \subseteq Task
  /\ raced \in BOOLEAN

(* What the tests of a call have established, whatever races happened: the  *)
(* sector exists, what is to be written is whole, a result is there.        *)
CallsSound ==
  \A t \in Task :
    /\ call[t].pc \in CopyPoint \cup {"set"} => call[t].block \in Sectors
    /\ result[t] = 0 => call[t].pc = "return"
    /\ call[t].write /\ call[t].pc \in CopyPoint \cup {"test", "set"} => Whole(sector[t])

(* The flag stands for the only task that copies.                           *)
BusyIsOne ==
  /\ \A t, u \in Copying : t = u
  /\ Copying # {} <=> "BUSY" \in vfloppy_flags

(* How far a copy is: after the first copy buffer and sector agree on it,   *)
(* and at the end both are whole.                                           *)
CopyUnderWay ==
  \A t \in Task :
    /\ call[t].pc = "second" => sector[t][1] = memory[call[t].block][1]
    /\ call[t].pc = "reset" => Whole(sector[t]) /\ Whole(memory[call[t].block])

(* A sector that nobody writes is whole in memory, and so is what was read. *)
SectorsWhole ==
  \A s \in Sectors :
    Whole(memory[s]) \/ \E t \in Copying : call[t].write /\ call[t].block = s

ReadsWhole == \A t \in Task : result[t] = 0 => Whole(sector[t])

(* The invariant: until a task is killed in its copy, or two calls race     *)
(* between the test and the set of BUSY, one call copies at a time.         *)
VFloppyInv ==
  /\ VFloppyTypeOK /\ CallsSound
  /\ ~raced => BusyIsOne /\ CopyUnderWay /\ SectorsWhole /\ ReadsWhole

-----------------------------------------------------------------------------
(* The disk starts quiet and its sectors whole (vfloppy.c:23-30).           *)
LEMMA VFloppyInitInv == VFloppyInit => VFloppyInv
<1> SUFFICES ASSUME VFloppyInit PROVE VFloppyInv
  OBVIOUS
<1> USE DEF VFloppyInit, NoCall
<1>1. VFloppyTypeOK
  <2>1. memory \in [Sectors -> [Halves -> Data \cup {Zero}]]
    OBVIOUS
  <2>2. sector \in [Task -> [Halves -> Data \cup {Zero}]]
    OBVIOUS
  <2>3. call \in [Task -> [pc : Point, block : Int, write : BOOLEAN]]
    BY DEF Point
  <2>4. result \in [Task -> -1 .. 3]
    BY DEF None
  <2> QED
    BY <2>1, <2>2, <2>3, <2>4 DEF VFloppyTypeOK
<1>2. CallsSound
  BY DEF CallsSound, CopyPoint, None
<1>3. Copying = {}
  BY DEF Copying
<1>4. BusyIsOne
  BY <1>3 DEF BusyIsOne
<1>5. CopyUnderWay /\ SectorsWhole /\ ReadsWhole
  BY DEF CopyUnderWay, SectorsWhole, ReadsWhole, Whole, Sectors, Halves, None
<1> QED
  BY <1>1, <1>2, <1>4, <1>5 DEF VFloppyInv

(* A task that starts a call has a whole buffer and copies nothing.         *)
LEMMA CallKeeps ==
  ASSUME VFloppyInv, NEW t \in Task, NEW block \in Blocks, NEW write \in BOOLEAN,
         vfloppy_call(t, block, write)
  PROVE  VFloppyInv'
<1> USE DEF vfloppy_call, VFloppyInv, VFloppyTypeOK, NoCall
<1>1. VFloppyTypeOK'
  BY VFloppyAssumption DEF Point, CopyPoint, Halves, Zero, None
<1>2. \A u \in Task : u # t => call'[u] = call[u] /\ sector'[u] = sector[u] /\ result'[u] = result[u]
  OBVIOUS
<1>3. call'[t].pc = "test" /\ Whole(sector'[t]) /\ result'[t] = -1
  BY DEF Whole, Halves, None
<1>4. CallsSound'
  BY <1>2, <1>3 DEF CallsSound, CopyPoint, Whole, Sectors
<1>5. Copying' = Copying
  BY <1>2, <1>3 DEF Copying
<1>6. ASSUME ~raced' PROVE (BusyIsOne /\ CopyUnderWay /\ SectorsWhole /\ ReadsWhole)'
  <2>1. BusyIsOne'
    BY <1>5, <1>6 DEF BusyIsOne
  <2>2. CopyUnderWay'
    BY <1>2, <1>3, <1>6 DEF CopyUnderWay, Whole
  <2>3. SectorsWhole'
    BY <1>2, <1>5, <1>6 DEF SectorsWhole, Copying, Whole, Sectors
  <2>4. ReadsWhole'
    BY <1>2, <1>3, <1>6 DEF ReadsWhole, Whole
  <2> QED
    BY <2>1, <2>2, <2>3, <2>4
<1> QED
  BY <1>1, <1>4, <1>6

(* A call that is refused leaves the disk alone.                            *)
LEMMA RefuseKeeps ==
  ASSUME VFloppyInv, NEW t \in Task, vfloppy_refuse(t)
  PROVE  VFloppyInv'
<1> USE DEF vfloppy_refuse, Step, VFloppyInv, VFloppyTypeOK
<1>1. Refusal(call[t].block) \in 1 .. 3
  BY DEF Refusal
<1>2. VFloppyTypeOK'
  BY <1>1, SMTT(30) DEF Point
<1>3. \A u \in Task : /\ u # t => call'[u] = call[u] /\ result'[u] = result[u]
                      /\ call'[u].block = call[u].block /\ call'[u].write = call[u].write
  OBVIOUS
<1>4. call[t].pc = "test" /\ call'[t].pc = "return" /\ result'[t] # 0
  BY <1>1
<1>5. CallsSound'
  BY <1>3, <1>4 DEF CallsSound, CopyPoint, Whole, Sectors
<1>6. Copying' = Copying
  BY <1>3, <1>4 DEF Copying
<1>7. ASSUME ~raced' PROVE (BusyIsOne /\ CopyUnderWay /\ SectorsWhole /\ ReadsWhole)'
  <2>1. BusyIsOne'
    BY <1>6, <1>7 DEF BusyIsOne
  <2>2. CopyUnderWay'
    BY <1>3, <1>4, <1>7 DEF CopyUnderWay, Whole
  <2>3. SectorsWhole'
    BY <1>3, <1>6, <1>7 DEF SectorsWhole, Copying, Whole, Sectors
  <2>4. ReadsWhole'
    BY <1>3, <1>4, <1>7 DEF ReadsWhole, Whole
  <2> QED
    BY <2>1, <2>2, <2>3, <2>4
<1> QED
  BY <1>2, <1>5, <1>7

(* A call that is admitted has an existing sector.                          *)
LEMMA AdmitKeeps ==
  ASSUME VFloppyInv, NEW t \in Task, vfloppy_admit(t)
  PROVE  VFloppyInv'
<1> USE DEF vfloppy_admit, Step, VFloppyInv, VFloppyTypeOK
<1>1. VFloppyTypeOK'
  BY DEF Point
<1>2. call[t].block \in Sectors
  BY VFloppyAssumption DEF Refusal, Sectors
<1>3. \A u \in Task : /\ u # t => call'[u] = call[u]
                      /\ call'[u].block = call[u].block /\ call'[u].write = call[u].write
  OBVIOUS
<1>4. call[t].pc = "test" /\ call'[t].pc = "set"
  OBVIOUS
<1>5. CallsSound'
  BY <1>2, <1>3, <1>4 DEF CallsSound, CopyPoint, Whole, Sectors
<1>6. Copying' = Copying
  BY <1>3, <1>4 DEF Copying
<1>7. ASSUME ~raced' PROVE (BusyIsOne /\ CopyUnderWay /\ SectorsWhole /\ ReadsWhole)'
  <2>1. BusyIsOne'
    BY <1>6, <1>7 DEF BusyIsOne
  <2>2. CopyUnderWay'
    BY <1>3, <1>4, <1>7 DEF CopyUnderWay, Whole
  <2>3. SectorsWhole' /\ ReadsWhole'
    BY <1>3, <1>6, <1>7 DEF SectorsWhole, ReadsWhole, Copying, Whole, Sectors
  <2> QED
    BY <2>1, <2>2, <2>3
<1> QED
  BY <1>1, <1>5, <1>7

(* BUSY is set where it was reset, or the calls have raced.                 *)
LEMMA SetKeeps ==
  ASSUME VFloppyInv, NEW t \in Task, vfloppy_set(t)
  PROVE  VFloppyInv'
<1> USE DEF vfloppy_set, Step, VFloppyInv, VFloppyTypeOK
<1>1. VFloppyTypeOK'
  BY DEF Point, CopyPoint, Busy
<1>2. \A u \in Task : /\ u # t => call'[u] = call[u]
                      /\ call'[u].block = call[u].block /\ call'[u].write = call[u].write
  OBVIOUS
<1>3. call[t].pc = "set" /\ call'[t].pc = "first"
  OBVIOUS
<1>4. CallsSound'
  BY <1>2, <1>3 DEF CallsSound, CopyPoint, Whole, Sectors
<1>5. ASSUME ~raced' PROVE (BusyIsOne /\ CopyUnderWay /\ SectorsWhole /\ ReadsWhole)'
  <2>1. ~raced /\ Copying = {}
    BY <1>5 DEF BusyIsOne
  <2>2. Copying' = {t}
    BY <1>2, <1>3, <2>1 DEF Copying
  <2>3. BusyIsOne'
    BY <2>2 DEF BusyIsOne, Busy
  <2>4. CopyUnderWay'
    BY <1>2, <1>3, <2>1 DEF CopyUnderWay, Whole
  <2>5. SectorsWhole' /\ ReadsWhole'
    BY <2>1 DEF SectorsWhole, ReadsWhole, Whole, Sectors
  <2> QED
    BY <2>3, <2>4, <2>5
<1> QED
  BY <1>1, <1>4, <1>5

(* What a copy of either half does and leaves alone: who copies, the calls, *)
(* the sectors that nobody writes, and the results of other calls.          *)
LEMMA CopyStep ==
  ASSUME VFloppyInv, NEW t \in Task, NEW h \in Halves, vfloppy_copy(t, h)
  PROVE  /\ VFloppyTypeOK' /\ CallsSound'
         /\ call[t].block \in Sectors
         /\ Copying' = Copying /\ t \in Copying
         /\ \A u \in Task : /\ u # t => call'[u] = call[u] /\ sector'[u] = sector[u]
                            /\ call'[u].block = call[u].block /\ call'[u].write = call[u].write
         /\ SectorsWhole => SectorsWhole'
         /\ ReadsWhole => ReadsWhole'
<1> USE DEF vfloppy_copy, Step, VFloppyInv, VFloppyTypeOK
<1>1. call[t].block \in Sectors
  BY DEF CallsSound, CopyPoint
<1>2. call[t].pc \in CopyPoint /\ call'[t].pc \in CopyPoint /\ result' = result /\ result[t] # 0
  BY DEF CallsSound, CopyPoint
<1>3. \A u \in Task : /\ u # t => call'[u] = call[u] /\ sector'[u] = sector[u]
                      /\ call'[u].block = call[u].block /\ call'[u].write = call[u].write
  OBVIOUS
<1>4. VFloppyTypeOK'
  <2>1. call' \in [Task -> [pc : Point, block : Int, write : BOOLEAN]]
    <3>1. \E to \in Point : call' = [call EXCEPT ![t].pc = to]
      BY Zenon DEF Point, CopyPoint
    <3> QED
      BY <3>1
  <2>2. /\ vfloppy_flags' = vfloppy_flags /\ result' = result
        /\ killed' = killed /\ raced' = raced
    OBVIOUS
  <2>3. CASE call[t].write
    <3>1. /\ memory' = [memory EXCEPT ![call[t].block] = [memory[call[t].block] EXCEPT ![h] = sector[t][h]]]
          /\ sector' = sector
      BY <2>3
    <3> DEFINE copy == [memory[call[t].block] EXCEPT ![h] = sector[t][h]]
    <3>2. copy \in [Halves -> Data \cup {Zero}]
      BY <1>1
    <3>3. memory' = [memory EXCEPT ![call[t].block] = copy]
      BY <3>1
    <3> HIDE DEF copy
    <3>4. memory' \in [Sectors -> [Halves -> Data \cup {Zero}]]
      BY <1>1, <3>2, <3>3
    <3> QED
      BY <2>1, <2>2, <3>1, <3>4
  <2>4. CASE ~call[t].write
    <3>1. /\ sector' = [sector EXCEPT ![t] = [sector[t] EXCEPT ![h] = memory[call[t].block][h]]]
          /\ memory' = memory
      BY <2>4
    <3> DEFINE copy == [sector[t] EXCEPT ![h] = memory[call[t].block][h]]
    <3>2. copy \in [Halves -> Data \cup {Zero}]
      BY <1>1
    <3>3. sector' = [sector EXCEPT ![t] = copy]
      BY <3>1
    <3> HIDE DEF copy
    <3>4. sector' \in [Task -> [Halves -> Data \cup {Zero}]]
      BY <1>1, <3>2, <3>3
    <3> QED
      BY <2>1, <2>2, <3>1, <3>4
  <2> QED
    BY <2>3, <2>4
<1>5. call[t].write => sector' = sector
  OBVIOUS
<1>6. CallsSound'
  BY <1>1, <1>2, <1>3, <1>5, SMTT(30) DEF CallsSound, CopyPoint, Whole, Sectors
<1>7. Copying' = Copying /\ t \in Copying /\ Copying \subseteq Task
  BY <1>2, <1>3 DEF Copying, CopyPoint
<1>8. \A s \in Sectors : (s = call[t].block /\ call[t].write) \/ memory'[s] = memory[s]
  BY <1>1
<1>9. ASSUME SectorsWhole PROVE SectorsWhole'
  <2> SUFFICES ASSUME NEW s \in Sectors
               PROVE  Whole(memory'[s]) \/ \E u \in Copying' : call'[u].write /\ call'[u].block = s
    BY DEF SectorsWhole, Sectors
  <2>1. CASE s = call[t].block /\ call[t].write
    BY <1>3, <1>7, <2>1
  <2>2. CASE memory'[s] = memory[s]
    <3>1. Whole(memory[s]) \/ \E u \in Copying : call[u].write /\ call[u].block = s
      BY <1>9 DEF SectorsWhole
    <3> QED
      BY <1>3, <1>7, <2>2, <3>1
  <2> QED
    BY <1>8, <2>1, <2>2
<1>10. ReadsWhole => ReadsWhole'
  BY <1>2, <1>3 DEF ReadsWhole, Whole
<1> QED
  BY <1>1, <1>3, <1>4, <1>6, <1>7, <1>9, <1>10

(* The first half of a copy: buffer and sector agree on it afterwards.      *)
LEMMA FirstCopyKeeps ==
  ASSUME VFloppyInv, NEW t \in Task, vfloppy_copy(t, 1)
  PROVE  VFloppyInv'
<1>1. /\ VFloppyTypeOK' /\ CallsSound'
      /\ call[t].block \in Sectors
      /\ Copying' = Copying /\ t \in Copying
      /\ \A u \in Task : u # t => call'[u] = call[u] /\ sector'[u] = sector[u]
      /\ call'[t].block = call[t].block
      /\ (SectorsWhole => SectorsWhole') /\ (ReadsWhole => ReadsWhole')
  BY CopyStep DEF Halves
<1>2. call'[t].pc = "second" /\ vfloppy_flags' = vfloppy_flags /\ raced' = raced
  BY DEF vfloppy_copy, Step, VFloppyInv, VFloppyTypeOK
<1>3. sector'[t][1] = memory'[call[t].block][1]
  BY <1>1 DEF vfloppy_copy, VFloppyInv, VFloppyTypeOK, Halves
<1>4. ASSUME ~raced' PROVE (BusyIsOne /\ CopyUnderWay /\ SectorsWhole /\ ReadsWhole)'
  <2>1. BusyIsOne /\ SectorsWhole /\ ReadsWhole
    BY <1>2, <1>4 DEF VFloppyInv
  <2>2. BusyIsOne'
    BY <1>1, <1>2, <2>1 DEF BusyIsOne
  <2>3. \A u \in Task : u # t => call'[u].pc \notin {"second", "reset"}
    BY <1>1, <2>1 DEF BusyIsOne, Copying
  <2>4. CopyUnderWay'
    BY <1>1, <1>2, <1>3, <2>3 DEF CopyUnderWay
  <2> QED
    BY <1>1, <2>1, <2>2, <2>4
<1> QED
  BY <1>1, <1>4 DEF VFloppyInv

(* The second half of a copy: what was written or read is whole, for nobody *)
(* else was at the disk since the first.                                    *)
LEMMA SecondCopyKeeps ==
  ASSUME VFloppyInv, NEW t \in Task, vfloppy_copy(t, 2)
  PROVE  VFloppyInv'
<1>1. /\ VFloppyTypeOK' /\ CallsSound'
      /\ call[t].block \in Sectors
      /\ Copying' = Copying /\ t \in Copying
      /\ \A u \in Task : u # t => call'[u] = call[u] /\ sector'[u] = sector[u]
      /\ call'[t].block = call[t].block
      /\ (SectorsWhole => SectorsWhole') /\ (ReadsWhole => ReadsWhole')
  BY CopyStep DEF Halves
<1>2. /\ call[t].pc = "second" /\ call'[t].pc = "reset"
      /\ vfloppy_flags' = vfloppy_flags /\ raced' = raced
  BY DEF vfloppy_copy, Step, VFloppyInv, VFloppyTypeOK
<1>3. ASSUME ~raced' PROVE (BusyIsOne /\ CopyUnderWay /\ SectorsWhole /\ ReadsWhole)'
  <2>1. BusyIsOne /\ CopyUnderWay /\ SectorsWhole /\ ReadsWhole
    BY <1>2, <1>3 DEF VFloppyInv
  <2>2. BusyIsOne'
    BY <1>1, <1>2, <2>1 DEF BusyIsOne
  <2>3. \A u \in Task : u # t => u \notin Copying /\ call'[u].pc \notin {"second", "reset"}
    BY <1>1, <2>1 DEF BusyIsOne, Copying
  <2>4. sector[t][1] = memory[call[t].block][1]
    BY <1>2, <2>1 DEF CopyUnderWay
  <2>5. Whole(sector'[t]) /\ Whole(memory'[call[t].block])
    <3>1. CASE call[t].write
      <4>1. sector' = sector /\ Whole(sector[t])
        BY <1>2, <3>1 DEF vfloppy_copy, VFloppyInv, CallsSound, CopyPoint
      <4>2. /\ memory'[call[t].block][1] = memory[call[t].block][1]
            /\ memory'[call[t].block][2] = sector[t][2]
        BY <1>1, <3>1 DEF vfloppy_copy, VFloppyInv, VFloppyTypeOK, Halves
      <4> QED
        BY <2>4, <4>1, <4>2 DEF Whole
    <3>2. CASE ~call[t].write
      <4>1. memory' = memory
        BY <3>2 DEF vfloppy_copy
      <4>2. ~\E u \in Copying : call[u].write /\ call[u].block = call[t].block
        BY <2>3, <3>2 DEF Copying
      <4>3. Whole(memory[call[t].block])
        BY <1>1, <2>1, <4>2 DEF SectorsWhole
      <4>4. sector'[t][1] = sector[t][1] /\ sector'[t][2] = memory[call[t].block][2]
        BY <1>1, <3>2 DEF vfloppy_copy, VFloppyInv, VFloppyTypeOK, Halves
      <4> QED
        BY <2>4, <4>1, <4>3, <4>4 DEF Whole
    <3> QED
      BY <3>1, <3>2
  <2>6. CopyUnderWay'
    BY <1>1, <1>2, <2>3, <2>5 DEF CopyUnderWay
  <2> QED
    BY <1>1, <2>1, <2>2, <2>6
<1> QED
  BY <1>1, <1>3 DEF VFloppyInv

(* BUSY is reset by the only task that copies, and what it copied is whole. *)
LEMMA ResetKeeps ==
  ASSUME VFloppyInv, NEW t \in Task, vfloppy_reset(t)
  PROVE  VFloppyInv'
<1> USE DEF vfloppy_reset, Step, VFloppyInv, VFloppyTypeOK
<1>1. VFloppyTypeOK'
  <2>1. call' \in [Task -> [pc : Point, block : Int, write : BOOLEAN]]
    BY DEF Point
  <2>2. result' \in [Task -> -1 .. 3]
    OBVIOUS
  <2> QED
    BY <2>1, <2>2
<1>2. \A u \in Task : /\ u # t => call'[u] = call[u] /\ result'[u] = result[u]
                      /\ call'[u].block = call[u].block /\ call'[u].write = call[u].write
  OBVIOUS
<1>3. call[t].pc = "reset" /\ call'[t].pc = "return"
  OBVIOUS
<1>4. CallsSound'
  BY <1>2, <1>3 DEF CallsSound, CopyPoint, Whole, Sectors
<1>5. ASSUME ~raced' PROVE (BusyIsOne /\ CopyUnderWay /\ SectorsWhole /\ ReadsWhole)'
  <2>1. BusyIsOne /\ CopyUnderWay /\ SectorsWhole /\ ReadsWhole
    BY <1>5
  <2>2. Copying = {t} /\ Copying' = {}
    BY <1>2, <1>3, <2>1 DEF BusyIsOne, Copying
  <2>3. Whole(sector[t]) /\ Whole(memory[call[t].block])
    BY <1>3, <2>1 DEF CopyUnderWay
  <2>4. BusyIsOne'
    BY <2>2 DEF BusyIsOne
  <2>5. CopyUnderWay'
    BY <1>2, <1>3, <2>2 DEF CopyUnderWay, Copying
  <2>6. SectorsWhole' /\ ReadsWhole'
    BY <1>2, <2>1, <2>2, <2>3 DEF SectorsWhole, ReadsWhole, Whole, Sectors
  <2> QED
    BY <2>4, <2>5, <2>6
<1> QED
  BY <1>1, <1>4, <1>5

(* A call that returns takes its buffer and its result with it.             *)
LEMMA ReturnKeeps ==
  ASSUME VFloppyInv, NEW t \in Task, vfloppy_return(t)
  PROVE  VFloppyInv'
<1> USE DEF vfloppy_return, VFloppyInv, VFloppyTypeOK, NoCall
<1>1. VFloppyTypeOK'
  BY DEF Point, Halves, Zero, None
<1>2. \A u \in Task : u # t => call'[u] = call[u] /\ sector'[u] = sector[u] /\ result'[u] = result[u]
  OBVIOUS
<1>3. call[t].pc = "return" /\ call'[t].pc = "out" /\ result'[t] # 0
  BY DEF None
<1>4. CallsSound'
  BY <1>2, <1>3 DEF CallsSound, CopyPoint, Whole, Sectors
<1>5. Copying' = Copying /\ t \notin Copying /\ Copying \subseteq Task
  BY <1>2, <1>3 DEF Copying
<1>6. ASSUME ~raced' PROVE (BusyIsOne /\ CopyUnderWay /\ SectorsWhole /\ ReadsWhole)'
  <2>1. BusyIsOne'
    BY <1>5, <1>6 DEF BusyIsOne
  <2>2. CopyUnderWay'
    BY <1>2, <1>3, <1>6 DEF CopyUnderWay, Whole
  <2>3. SectorsWhole' /\ ReadsWhole'
    BY <1>2, <1>3, <1>5, <1>6 DEF SectorsWhole, ReadsWhole, Whole, Sectors
  <2> QED
    BY <2>1, <2>2, <2>3
<1> QED
  BY <1>1, <1>4, <1>6

(* A task killed outside its copy leaves nothing half done.                 *)
LEMMA KillKeeps ==
  ASSUME VFloppyInv, NEW t \in Task, vfloppy_kill(t)
  PROVE  VFloppyInv'
<1> USE DEF vfloppy_kill
<1>1. VFloppyTypeOK' /\ CallsSound'
  BY DEF VFloppyInv, VFloppyTypeOK, CallsSound
<1>2. ~raced' => ~raced
  OBVIOUS
<1>3. /\ BusyIsOne => BusyIsOne'
      /\ CopyUnderWay => CopyUnderWay'
      /\ SectorsWhole => SectorsWhole'
      /\ ReadsWhole => ReadsWhole'
  BY DEF BusyIsOne, CopyUnderWay, SectorsWhole, ReadsWhole, Copying
<1> QED
  BY <1>1, <1>2, <1>3 DEF VFloppyInv

(* Every step of the disk keeps the invariant.                              *)
LEMMA VFloppyStep == VFloppyInv /\ [VFloppyNext]_vfloppy_vars => VFloppyInv'
<1> SUFFICES ASSUME VFloppyInv, [VFloppyNext]_vfloppy_vars PROVE VFloppyInv'
  OBVIOUS
<1>1. CASE UNCHANGED vfloppy_vars
  BY <1>1 DEF vfloppy_vars, VFloppyInv, VFloppyTypeOK, CallsSound, BusyIsOne, CopyUnderWay,
              SectorsWhole, ReadsWhole, Copying
<1>2. ASSUME NEW t \in Task, NEW block \in Blocks, NEW write \in BOOLEAN,
             vfloppy_call(t, block, write)
      PROVE  VFloppyInv'
  BY <1>2, CallKeeps
<1>3. ASSUME NEW t \in Task, vfloppy_refuse(t) PROVE VFloppyInv'
  BY <1>3, RefuseKeeps
<1>4. ASSUME NEW t \in Task, vfloppy_admit(t) PROVE VFloppyInv'
  BY <1>4, AdmitKeeps
<1>5. ASSUME NEW t \in Task, vfloppy_set(t) PROVE VFloppyInv'
  BY <1>5, SetKeeps
<1>6. ASSUME NEW t \in Task, NEW h \in Halves, vfloppy_copy(t, h) PROVE VFloppyInv'
  BY <1>6, FirstCopyKeeps, SecondCopyKeeps DEF Halves
<1>7. ASSUME NEW t \in Task, vfloppy_reset(t) PROVE VFloppyInv'
  BY <1>7, ResetKeeps
<1>8. ASSUME NEW t \in Task, vfloppy_return(t) PROVE VFloppyInv'
  BY <1>8, ReturnKeeps
<1>9. ASSUME NEW t \in Task, vfloppy_kill(t) PROVE VFloppyInv'
  BY <1>9, KillKeeps
<1> QED
  BY <1>1, <1>2, <1>3, <1>4, <1>5, <1>6, <1>7, <1>8, <1>9 DEF VFloppyNext

(* The invariant says what the run checks.                                  *)
LEMMA VFloppyInvAlone == VFloppyInv => AloneUnlessRaced
<1> SUFFICES ASSUME VFloppyInv, ~raced
             PROVE  /\ Cardinality(Copying) <= 1
                    /\ Copying # {} <=> "BUSY" \in vfloppy_flags
                    /\ SectorsWhole /\ ReadsWhole
  BY DEF AloneUnlessRaced, SectorsWhole, ReadsWhole
<1>1. BusyIsOne /\ SectorsWhole /\ ReadsWhole
  BY DEF VFloppyInv
<1>2. Cardinality(Copying) <= 1
  <2>1. CASE Copying = {}
    BY <2>1, FS_EmptySet
  <2>2. CASE Copying # {}
    <3>1. PICK t \in Copying : TRUE
      BY <2>2
    <3>2. Copying = {t}
      BY <1>1, <3>1 DEF BusyIsOne
    <3>3. Cardinality(Copying) = 1
      BY <3>2, FS_Singleton
    <3> QED
      BY <3>3
  <2> QED
    BY <2>1, <2>2
<1> QED
  BY <1>1, <1>2 DEF BusyIsOne

(* The flag BUSY keeps the disk for one task, and sectors and reads whole,  *)
(* for any number of tasks, of sectors and any data, until calls race or a  *)
(* task is killed while it copies (vfloppy.c:55-125).                       *)
THEOREM DiskAloneUnlessRaced == VFloppySpec => []AloneUnlessRaced
<1>1. VFloppySpec => []VFloppyInv
  BY VFloppyInitInv, VFloppyStep, PTL DEF VFloppySpec
<1> QED
  BY <1>1, VFloppyInvAlone, PTL

-----------------------------------------------------------------------------
(* The proof about ConsoleOutput.                                           *)

(* What the assumption says of the buffer and the consoles.                 *)
LEMMA OutputSizes ==
  /\ N_CONSOLES \in Nat \ {0} /\ TEMP_SIZE \in Nat \ {0}
  /\ PutsLen \subseteq Nat /\ 0 \in Consoles /\ NoConsole \notin Consoles
BY OutputAssumption DEF OutputAssumption, Consoles, NoConsole

(* The cells of a buffer, without the padding behind it.                    *)
BufferCells == 0 .. TEMP_SIZE - 1

(* The type of the state.                                                   *)
OutTypeOK ==
  /\ cur_console \in Consoles
  /\ buffer_temp \in [Consoles -> [Cells -> Nat]]
  /\ index_buffer \in [Consoles -> Cells]
  /\ putting \in Consoles \cup {NoConsole}
  /\ puts_i \in Cells /\ puts_left \in Nat
  /\ printed \in [Consoles -> Nat]

(* The first i cells of b hold text in the order of its characters, the     *)
(* last of which has the number p; all p of them, if they fit.              *)
Rising(b, i, p) ==
  /\ \A k \in BufferCells : k < i => b[k] \in 1 .. p
  /\ \A k, l \in BufferCells : k < l /\ l < i => b[k] < b[l]

WholeText(b, i, p) ==
  p <= TEMP_SIZE => i = p /\ \A k \in BufferCells : k < p => b[k] = k + 1

(* Every console whose task is not inside sys_puts has text that is in      *)
(* order, whole while it fits, and ends;                                    *)
HiddenSound ==
  \A c \in Consoles \ {putting} :
    /\ Rising(buffer_temp[c], index_buffer[c], printed[c])
    /\ WholeText(buffer_temp[c], index_buffer[c], printed[c])
    /\ buffer_temp[c][index_buffer[c]] = 0

(* the one that is being printed to has no end yet, and is not on the screen.*)
PuttingSound ==
  putting # NoConsole =>
    /\ putting # cur_console
    /\ Rising(buffer_temp[putting], puts_i, printed[putting])
    /\ WholeText(buffer_temp[putting], puts_i, printed[putting])

(* The inductive invariant: an empty buffer on the screen is what makes the *)
(* memset of the wrong buffer harmless.                                     *)
OutInv ==
  /\ OutTypeOK /\ HiddenSound /\ PuttingSound
  /\ putting = NoConsole => puts_left = 0
  /\ ScreenHasNoBacklog /\ printed[cur_console] = 0

(* A buffer with text and the same one with the next character in it.       *)
LEMMA NextCharacter ==
  ASSUME NEW b \in [Cells -> Nat], NEW i \in BufferCells, NEW p \in Nat,
         Rising(b, i, p), WholeText(b, i, p)
  PROVE  LET d == [b EXCEPT ![i] = p + 1]
         IN  Rising(d, i + 1, p + 1) /\ WholeText(d, i + 1, p + 1)
<1> DEFINE d == [b EXCEPT ![i] = p + 1]
<1>1. /\ TEMP_SIZE \in Nat /\ i \in Nat /\ i < TEMP_SIZE
      /\ \A k \in BufferCells : k \in Nat /\ k < TEMP_SIZE /\ k \in Cells
  BY OutputSizes DEF BufferCells, Cells
<1>2. \A k \in BufferCells : d[k] = IF k = i THEN p + 1 ELSE b[k]
  BY <1>1
<1> HIDE DEF d
<1>3. Rising(d, i + 1, p + 1)
  <2>1. ASSUME NEW k \in BufferCells, k < i + 1
        PROVE  d[k] \in 1 .. p + 1
    <3>1. k = i \/ b[k] \in 1 .. p
      BY <1>1, <2>1 DEF Rising
    <3> QED
      BY <1>2, <2>1, <3>1
  <2>2. ASSUME NEW k \in BufferCells, NEW l \in BufferCells, k < l, l < i + 1
        PROVE  d[k] < d[l]
    <3>1. k < i /\ k # i /\ b[k] \in 1 .. p
      BY <1>1, <2>2 DEF Rising
    <3>2. l = i \/ (l # i /\ l < i)
      BY <1>1, <2>2
    <3>3. l # i /\ l < i => b[k] < b[l]
      BY <2>2 DEF Rising
    <3> QED
      BY <1>2, <2>2, <3>1, <3>2, <3>3
  <2> QED
    BY <2>1, <2>2 DEF Rising
<1>4. WholeText(d, i + 1, p + 1)
  <2>1. CASE p >= TEMP_SIZE
    BY <1>1, <2>1 DEF WholeText
  <2>2. CASE p < TEMP_SIZE
    <3>1. i = p /\ \A k \in BufferCells : k < p => b[k] = k + 1
      BY <1>1, <2>2 DEF WholeText
    <3>2. \A k \in BufferCells : k < p + 1 => d[k] = k + 1
      BY <1>1, <1>2, <3>1
    <3> QED
      BY <3>1, <3>2 DEF WholeText
  <2> QED
    BY <1>1, <2>1, <2>2
<1> QED
  BY <1>3, <1>4 DEF d

(* And with the NUL behind it, of a full buffer in the padding.             *)
LEMMA NulBehindText ==
  ASSUME NEW b \in [Cells -> Nat], NEW i \in Cells, NEW p \in Nat,
         Rising(b, i, p), WholeText(b, i, p)
  PROVE  LET d == [b EXCEPT ![i] = 0]
         IN  /\ d \in [Cells -> Nat] /\ Rising(d, i, p) /\ WholeText(d, i, p)
             /\ d[i] = 0
<1> DEFINE d == [b EXCEPT ![i] = 0]
<1>1. /\ TEMP_SIZE \in Nat /\ i \in Nat
      /\ \A k \in BufferCells : k \in Nat /\ k \in Cells
  BY OutputSizes DEF BufferCells, Cells
<1>2. d \in [Cells -> Nat] /\ d[i] = 0 /\ \A k \in Cells : k # i => d[k] = b[k]
  OBVIOUS
<1> HIDE DEF d
<1>3. \A k \in BufferCells : k < i => d[k] = b[k]
  BY <1>1, <1>2
<1>4. Rising(d, i, p)
  <2>1. \A k, l \in BufferCells : k < l /\ l < i => k < i
    BY <1>1
  <2> QED
    BY <1>3, <2>1 DEF Rising
<1>5. WholeText(d, i, p)
  BY <1>3 DEF WholeText
<1> QED
  BY <1>2, <1>4, <1>5 DEF d

(* A cleared buffer holds no text and ends at once; clearing one that is    *)
(* clear changes nothing.                                                   *)
LEMMA ClearedSound ==
  ASSUME NEW b \in [Cells -> Nat]
  PROVE  /\ Cleared(b) \in [Cells -> Nat]
         /\ Rising(Cleared(b), 0, 0) /\ WholeText(Cleared(b), 0, 0)
         /\ Cleared(b)[0] = 0 /\ \A k \in BufferCells : Cleared(b)[k] = 0
         /\ (\A k \in BufferCells : b[k] = 0) => Cleared(b) = b
<1>1. /\ TEMP_SIZE \in Nat \ {0} /\ 0 \in BufferCells
      /\ \A k \in BufferCells : k \in Nat /\ k < TEMP_SIZE /\ k \in Cells
      /\ \A k \in Cells : k < TEMP_SIZE => k \in BufferCells
  BY OutputSizes DEF BufferCells, Cells
<1>2. /\ Cleared(b) \in [Cells -> Nat]
      /\ \A k \in Cells : Cleared(b)[k] = IF k < TEMP_SIZE THEN 0 ELSE b[k]
  BY DEF Cleared
<1>3. \A k \in BufferCells : Cleared(b)[k] = 0
  BY <1>1, <1>2
<1>4. ASSUME \A k \in BufferCells : b[k] = 0
      PROVE  Cleared(b) = b
  <2>1. \A k \in Cells : Cleared(b)[k] = b[k]
    BY <1>1, <1>2, <1>4
  <2> QED
    BY <1>2, <2>1
<1>5. Rising(Cleared(b), 0, 0) /\ WholeText(Cleared(b), 0, 0)
  BY <1>1 DEF Rising, WholeText
<1> QED
  BY <1>1, <1>2, <1>3, <1>4, <1>5

(* All buffers start empty.                                                 *)
LEMMA OutInitInv == OutInit => OutInv
<1> SUFFICES ASSUME OutInit
             PROVE  OutInv
  OBVIOUS
<1>1. PICK pad \in {0, 1} : buffer_temp = [c \in Consoles |-> Cleared([i \in Cells |-> pad])]
  BY DEF OutInit
<1>2. PICK b : b = [i \in Cells |-> pad]
  OBVIOUS
<1>3. b \in [Cells -> Nat]
  BY <1>2
<1>4. \A c \in Consoles : buffer_temp[c] = Cleared(b) /\ index_buffer[c] = 0 /\ printed[c] = 0
  BY <1>1, <1>2 DEF OutInit
<1>5. OutTypeOK
  <2>1. buffer_temp \in [Consoles -> [Cells -> Nat]]
    BY <1>1, <1>2, <1>3, ClearedSound
  <2>2. 0 \in Cells
    BY OutputSizes DEF Cells
  <2> QED
    BY <2>1, <2>2, OutputSizes DEF OutInit, OutTypeOK
<1>6. HiddenSound
  BY <1>3, <1>4, ClearedSound DEF HiddenSound
<1>7. cur_console \in Consoles /\ putting = NoConsole /\ puts_left = 0
  BY OutputSizes DEF OutInit
<1>8. ScreenHasNoBacklog
  BY <1>3, <1>4, <1>7, ClearedSound DEF ScreenHasNoBacklog, BufferCells
<1> QED
  BY <1>4, <1>5, <1>6, <1>7, <1>8 DEF OutInv, PuttingSound

(* A call starts behind the text of its console.                            *)
LEMMA CallKeepsText ==
  ASSUME OutInv, NEW c \in Consoles, NEW n \in PutsLen, sys_puts_call(c, n)
  PROVE  OutInv'
<1>1. /\ putting = NoConsole /\ c # cur_console /\ putting' = c /\ puts_i' = index_buffer[c]
      /\ puts_left' = n /\ UNCHANGED <<cur_console, buffer_temp, index_buffer, printed>>
  BY DEF sys_puts_call
<1>2. c # NoConsole /\ n \in Nat
  BY OutputSizes
<1>3. /\ Rising(buffer_temp[c], index_buffer[c], printed[c])
      /\ WholeText(buffer_temp[c], index_buffer[c], printed[c])
  BY <1>1, <1>2 DEF OutInv, HiddenSound
<1>4. OutTypeOK'
  BY <1>1, <1>2 DEF OutInv, OutTypeOK
<1>5. HiddenSound'
  <2>1. \A e \in Consoles : e # putting
    BY <1>1, OutputSizes
  <2> QED
    BY <1>1, <2>1 DEF OutInv, HiddenSound
<1>6. PuttingSound'
  BY <1>1, <1>3 DEF PuttingSound
<1> QED
  BY <1>1, <1>2, <1>4, <1>5, <1>6 DEF OutInv, ScreenHasNoBacklog

(* The clearing of the buffer on the screen clears an empty one.            *)
LEMMA CharKeepsText ==
  ASSUME OutInv, sys_puts_char
  PROVE  OutInv'
<1> DEFINE c == putting
<1>1. /\ putting \in Consoles /\ putting # NoConsole /\ putting # cur_console
      /\ cur_console \in Consoles /\ puts_left \in Nat \ {0}
      /\ buffer_temp \in [Consoles -> [Cells -> Nat]] /\ buffer_temp[c] \in [Cells -> Nat]
      /\ index_buffer \in [Consoles -> Cells]
      /\ printed \in [Consoles -> Nat] /\ printed[c] \in Nat
      /\ puts_i \in Cells
  <2>1. putting # NoConsole /\ puts_left \in Nat \ {0}
    BY DEF OutInv, OutTypeOK, sys_puts_char
  <2>2. putting \in Consoles
    BY <2>1 DEF OutInv, OutTypeOK
  <2> QED
    BY <2>1, <2>2 DEF OutInv, OutTypeOK, PuttingSound
<1>2. /\ Rising(buffer_temp[c], puts_i, printed[c])
      /\ WholeText(buffer_temp[c], puts_i, printed[c])
  BY <1>1 DEF OutInv, PuttingSound
<1>3. /\ puts_left' = puts_left - 1 /\ UNCHANGED <<cur_console, putting>>
      /\ printed' = [printed EXCEPT ![c] = printed[c] + 1]
  BY DEF sys_puts_char
<1>4. \A d \in Consoles : printed'[d] = IF d = c THEN printed[c] + 1 ELSE printed[d]
  BY <1>1, <1>3
<1>5. index_buffer[cur_console] = 0 /\ Cleared(buffer_temp[cur_console]) = buffer_temp[cur_console]
  <2>1. buffer_temp[cur_console] \in [Cells -> Nat]
    BY <1>1
  <2>2. index_buffer[cur_console] = 0 /\ \A k \in BufferCells : buffer_temp[cur_console][k] = 0
    BY DEF OutInv, ScreenHasNoBacklog, BufferCells
  <2> QED
    BY <2>1, <2>2, ClearedSound
<1>6. CASE puts_i >= TEMP_SIZE
  <2>1. /\ buffer_temp' = [buffer_temp EXCEPT ![cur_console] = Cleared(@)]
        /\ index_buffer' = [index_buffer EXCEPT ![cur_console] = 0] /\ puts_i' = 0
    BY <1>6 DEF sys_puts_char
  <2>2. buffer_temp' = buffer_temp /\ index_buffer' = index_buffer
    BY <1>1, <1>5, <2>1
  <2>3. printed[c] + 1 > TEMP_SIZE
    <3>1. TEMP_SIZE \in Nat
      BY OutputSizes
    <3>2. puts_i = TEMP_SIZE
      BY <1>1, <1>6, <3>1 DEF Cells
    <3> QED
      BY <1>1, <1>2, <3>1, <3>2 DEF WholeText
  <2>4. Rising(buffer_temp[c], 0, printed[c] + 1) /\ WholeText(buffer_temp[c], 0, printed[c] + 1)
    <3>1. \A k \in BufferCells : k \in Nat
      BY DEF BufferCells
    <3>2. TEMP_SIZE \in Nat
      BY OutputSizes
    <3> QED
      BY <1>1, <2>3, <3>1, <3>2 DEF Rising, WholeText
  <2>5. OutTypeOK'
    <3>1. printed' \in [Consoles -> Nat]
      BY <1>1, <1>3
    <3>2. 0 \in Cells
      BY OutputSizes DEF Cells
    <3>3. puts_left' \in Nat
      BY <1>1, <1>3
    <3> QED
      BY <1>3, <2>1, <2>2, <3>1, <3>2, <3>3 DEF OutInv, OutTypeOK
  <2>6. HiddenSound'
    BY <1>3, <1>4, <2>2 DEF OutInv, HiddenSound
  <2>7. PuttingSound'
    BY <1>1, <1>3, <1>4, <2>1, <2>2, <2>4 DEF PuttingSound
  <2> QED
    BY <1>1, <1>3, <1>4, <2>2, <2>5, <2>6, <2>7 DEF OutInv, ScreenHasNoBacklog
<1>7. CASE ~(puts_i >= TEMP_SIZE)
  <2> DEFINE d == [buffer_temp[c] EXCEPT ![puts_i] = printed[c] + 1]
  <2>1. /\ buffer_temp' = [buffer_temp EXCEPT ![c] = d]
        /\ UNCHANGED index_buffer /\ puts_i' = puts_i + 1
    <3>1. printed'[putting] = printed[c] + 1
      BY <1>1, <1>4
    <3> QED
      BY <1>7, <3>1 DEF sys_puts_char
  <2>2. puts_i \in BufferCells /\ puts_i + 1 \in Cells
    BY <1>1, <1>7, OutputSizes DEF BufferCells, Cells
  <2>3. Rising(d, puts_i + 1, printed[c] + 1) /\ WholeText(d, puts_i + 1, printed[c] + 1)
    BY <1>1, <1>2, <2>2, NextCharacter
  <2>4. d \in [Cells -> Nat]
    BY <1>1, <2>2
  <2> HIDE DEF d
  <2>5. buffer_temp'[c] = d /\ \A e \in Consoles : e # c => buffer_temp'[e] = buffer_temp[e]
    BY <1>1, <2>1
  <2>6. OutTypeOK'
    <3>1. printed' \in [Consoles -> Nat] /\ puts_left' \in Nat
      BY <1>1, <1>3
    <3>2. buffer_temp' \in [Consoles -> [Cells -> Nat]]
      BY <1>1, <2>1, <2>4
    <3> QED
      BY <1>3, <2>1, <2>2, <3>1, <3>2 DEF OutInv, OutTypeOK
  <2>7. HiddenSound'
    BY <1>3, <1>4, <2>1, <2>5 DEF OutInv, HiddenSound
  <2>8. PuttingSound'
    BY <1>1, <1>3, <1>4, <2>1, <2>3, <2>5 DEF PuttingSound
  <2> QED
    BY <1>1, <1>3, <1>4, <2>1, <2>5, <2>6, <2>7, <2>8 DEF OutInv, ScreenHasNoBacklog
<1> QED
  BY <1>6, <1>7

(* The text ends where sys_puts returns.                                    *)
LEMMA ReturnKeepsText ==
  ASSUME OutInv, sys_puts_return
  PROVE  OutInv'
<1> DEFINE c == putting
<1>1. /\ putting \in Consoles /\ putting # NoConsole /\ putting # cur_console
      /\ cur_console \in Consoles /\ puts_left = 0
      /\ buffer_temp \in [Consoles -> [Cells -> Nat]] /\ buffer_temp[c] \in [Cells -> Nat]
      /\ index_buffer \in [Consoles -> Cells]
      /\ printed \in [Consoles -> Nat] /\ printed[c] \in Nat
      /\ puts_i \in Cells
  <2>1. putting # NoConsole /\ puts_left = 0
    BY DEF sys_puts_return
  <2>2. putting \in Consoles
    BY <2>1 DEF OutInv, OutTypeOK
  <2> QED
    BY <2>1, <2>2 DEF OutInv, OutTypeOK, PuttingSound
<1>2. /\ Rising(buffer_temp[c], puts_i, printed[c])
      /\ WholeText(buffer_temp[c], puts_i, printed[c])
  BY <1>1 DEF OutInv, PuttingSound
<1> DEFINE d == [buffer_temp[c] EXCEPT ![puts_i] = 0]
<1>3. /\ buffer_temp' = [buffer_temp EXCEPT ![c] = d]
      /\ index_buffer' = [index_buffer EXCEPT ![c] = puts_i]
      /\ putting' = NoConsole /\ puts_i' = 0 /\ UNCHANGED <<cur_console, puts_left, printed>>
  BY DEF sys_puts_return, Terminated
<1>4. /\ d \in [Cells -> Nat] /\ d[puts_i] = 0
      /\ Rising(d, puts_i, printed[c]) /\ WholeText(d, puts_i, printed[c])
  BY <1>1, <1>2, NulBehindText
<1> HIDE DEF d
<1>5. /\ buffer_temp'[c] = d /\ index_buffer'[c] = puts_i
      /\ \A e \in Consoles : e # c => /\ buffer_temp'[e] = buffer_temp[e]
                                      /\ index_buffer'[e] = index_buffer[e]
  BY <1>1, <1>3
<1>6. OutTypeOK'
  <2>1. buffer_temp' \in [Consoles -> [Cells -> Nat]]
    BY <1>1, <1>3, <1>4
  <2>2. index_buffer' \in [Consoles -> Cells]
    BY <1>1, <1>3, <1>4
  <2>3. 0 \in Cells
    BY OutputSizes DEF Cells
  <2> QED
    BY <1>3, <2>1, <2>2, <2>3 DEF OutInv, OutTypeOK
<1>7. HiddenSound'
  BY <1>1, <1>3, <1>4, <1>5 DEF OutInv, HiddenSound
<1>8. PuttingSound' /\ puts_left' = 0
  BY <1>1, <1>3 DEF PuttingSound
<1> QED
  BY <1>1, <1>3, <1>5, <1>6, <1>7, <1>8 DEF OutInv, ScreenHasNoBacklog

(* A switch starts its console again with an empty buffer.                  *)
LEMMA FlushKeepsText ==
  ASSUME OutInv, NEW n \in Consoles, switch_flush(n)
  PROVE  OutInv'
<1>1. /\ putting = NoConsole /\ cur_console' = n
      /\ buffer_temp' = [buffer_temp EXCEPT ![n] = Cleared(@)]
      /\ index_buffer' = [index_buffer EXCEPT ![n] = 0]
      /\ printed' = [printed EXCEPT ![n] = 0]
      /\ UNCHANGED <<putting, puts_i, puts_left>>
  BY DEF switch_flush
<1>2. /\ buffer_temp \in [Consoles -> [Cells -> Nat]] /\ buffer_temp[n] \in [Cells -> Nat]
      /\ index_buffer \in [Consoles -> Cells] /\ printed \in [Consoles -> Nat]
  BY DEF OutInv, OutTypeOK
<1> DEFINE d == Cleared(buffer_temp[n])
<1>3. /\ buffer_temp'[n] = d /\ index_buffer'[n] = 0 /\ printed'[n] = 0
      /\ \A c \in Consoles : c # n => /\ buffer_temp'[c] = buffer_temp[c]
                                      /\ index_buffer'[c] = index_buffer[c]
                                      /\ printed'[c] = printed[c]
  BY <1>1, <1>2
<1>4. /\ d \in [Cells -> Nat] /\ Rising(d, 0, 0) /\ WholeText(d, 0, 0) /\ d[0] = 0
      /\ \A k \in BufferCells : d[k] = 0
  BY <1>2, ClearedSound
<1> HIDE DEF d
<1>5. OutTypeOK'
  <2>1. buffer_temp' \in [Consoles -> [Cells -> Nat]]
    <3>1. buffer_temp' = [buffer_temp EXCEPT ![n] = d]
      BY <1>1 DEF d
    <3> QED
      BY <1>2, <1>4, <3>1
  <2>2. index_buffer' \in [Consoles -> Cells] /\ printed' \in [Consoles -> Nat]
    BY <1>1, <1>2, OutputSizes DEF Cells
  <2> QED
    BY <1>1, <2>1, <2>2 DEF OutInv, OutTypeOK
<1>6. HiddenSound'
  BY <1>1, <1>3, <1>4 DEF OutInv, HiddenSound
<1>7. ScreenHasNoBacklog'
  BY <1>1, <1>3, <1>4 DEF ScreenHasNoBacklog, BufferCells
<1> QED
  BY <1>1, <1>3, <1>5, <1>6, <1>7 DEF OutInv, PuttingSound

(* Every step keeps the invariant.                                          *)
LEMMA OutNextInv == OutInv /\ [OutNext]_out_vars => OutInv'
<1> SUFFICES ASSUME OutInv, [OutNext]_out_vars
             PROVE  OutInv'
  OBVIOUS
<1>1. CASE UNCHANGED out_vars
  BY <1>1 DEF out_vars, OutInv, OutTypeOK, HiddenSound, PuttingSound, ScreenHasNoBacklog
<1> QED
  BY <1>1, CallKeepsText, CharKeepsText, ReturnKeepsText, FlushKeepsText
  DEF OutNext, sys_puts_screen

(* What a switch shows of a console that was away is its output: it ends, it *)
(* is in order, and whole while it fits, for any buffer, number of consoles  *)
(* and strings (syscall.c:245-266, console.c:147-158).                       *)
THEOREM OutputFlushedFaithfully == OutSpec => []FlushFaithful
<1>1. OutInv => FlushFaithful
  <2> SUFFICES ASSUME OutInv, putting = NoConsole
               PROVE  FlushEnds /\ FlushInOrder /\ KeptWhileItFits /\ ScreenHasNoBacklog
    BY DEF FlushFaithful
  <2>1. ASSUME NEW c \in Consoles
        PROVE  /\ Rising(buffer_temp[c], index_buffer[c], printed[c])
               /\ WholeText(buffer_temp[c], index_buffer[c], printed[c])
               /\ buffer_temp[c][index_buffer[c]] = 0
               /\ index_buffer[c] \in Cells /\ printed[c] \in Nat
    <3>1. c # NoConsole
      BY OutputSizes
    <3> QED
      BY <3>1 DEF OutInv, HiddenSound, OutTypeOK
  <2>2. /\ TEMP_SIZE \in Nat \ {0} /\ \A k \in Cells : k \in Nat
        /\ \A k : k \in BufferCells <=> k \in 0 .. TEMP_SIZE - 1
        /\ \A k \in BufferCells : k \in Nat /\ k < TEMP_SIZE
    BY OutputSizes DEF BufferCells, Cells
  <2>3. FlushEnds
    BY <2>1 DEF FlushEnds
  <2>4. FlushInOrder
    <3> SUFFICES ASSUME NEW c \in Consoles, NEW i \in BufferCells, NEW j \in BufferCells,
                        i < j, Shown(c, j)
                 PROVE  buffer_temp[c][i] < buffer_temp[c][j]
      BY <2>2 DEF FlushInOrder
    <3>1. \A k \in 0 .. j : buffer_temp[c][k] # 0
      BY DEF Shown
    <3>2. j < index_buffer[c]
      BY <2>1, <2>2, <3>1
    <3> QED
      BY <2>1, <3>2 DEF Rising
  <2>5. KeptWhileItFits
    <3> SUFFICES ASSUME NEW c \in Consoles, printed[c] <= TEMP_SIZE,
                        NEW i \in 0 .. printed[c] - 1
                 PROVE  buffer_temp[c][i] = i + 1
      BY DEF KeptWhileItFits
    <3>1. printed[c] \in Nat /\ i \in BufferCells /\ i < printed[c]
      BY <2>1, <2>2
    <3> QED
      BY <2>1, <2>2, <3>1 DEF WholeText
  <2> QED
    BY <2>3, <2>4, <2>5 DEF OutInv
<1> QED
  BY <1>1, OutInitInv, OutNextInv, PTL DEF OutSpec

-----------------------------------------------------------------------------
(* The proof about Strftime.                                                *)

Directive == {"a", "A", "b", "B", "d", "H", "I", "j", "m", "M", "S", "U", "W", "w", "y", "Y",
              "c", "p", "Z", "%", "char", "x", "X"}

(* The type of the state.                                                   *)
StrftimeTyped ==
  /\ tm \in Tm /\ BufferLen \in Nat \ {0}
  /\ Written \in Nat /\ CaratteriScritti \in Nat
  /\ format \in Seq(Directive) /\ ended \in {"running", "full", "done"}

(* What is written is counted, but for the texts of %x and %X.              *)
Counted ==
  /\ IsFiniteSet(Uncounted)
  /\ NamedBehindTable \/ Written + 1 <= CaratteriScritti + 8 * Cardinality(Uncounted)
  /\ TextFits

(* No directive yet.                                                        *)
NoDirective == Len(format) = 0

(* The formats "%X", "%X %x" and "%c\n" of the callers, as far as they are. *)
X1 == Len(format) = 1 /\ format[1] = "X"
X2 == Len(format) = 2 /\ format[1] = "X" /\ format[2] = "char"
X3 == Len(format) = 3 /\ format[1] = "X" /\ format[2] = "char" /\ format[3] = "x"
C1 == Len(format) = 1 /\ format[1] = "c"
C2 == Len(format) = 2 /\ format[1] = "c" /\ format[2] = "char"

(* How much of their buffers the formats of the callers have used.          *)
CallersCounted ==
  /\ NoDirective => Written = 0 /\ CaratteriScritti = 1
  /\ X1 => Written <= 8
  /\ X2 => Written <= 9
  /\ X3 => Written <= 17
  /\ C1 => CaratteriScritti <= 25
  /\ (NoDirective \/ C1 \/ C2) /\ BufferLen >= 26 => ended # "full"

(* The inductive invariant: the count, which the code keeps, bounds the text,*)
(* which it does not measure.                                               *)
StrftimeInv == StrftimeTyped /\ Counted /\ CallersCounted

(* Nothing is written at first, and the NUL is counted.                     *)
LEMMA StrftimeInitInv == StrftimeInit => StrftimeInv
<1> SUFFICES ASSUME StrftimeInit
             PROVE  StrftimeInv
  OBVIOUS
<1>1. /\ tm \in Tm /\ BufferLen \in Nat \ {0} /\ Written = 0 /\ CaratteriScritti = 1
      /\ format = <<>> /\ ended = "running"
  BY StrftimeAssumption DEF StrftimeInit, StrftimeAssumption
<1>2. StrftimeTyped
  BY <1>1 DEF StrftimeTyped
<1>3. Uncounted = {}
  BY <1>1 DEF Uncounted
<1>4. IsFiniteSet(Uncounted) /\ Cardinality(Uncounted) = 0
  BY <1>3, FS_EmptySet
<1>5. Counted
  BY <1>1, <1>4 DEF Counted, TextFits
<1>6. CallersCounted
  BY <1>1 DEF CallersCounted, NoDirective, X1, X2, X3, C1, C2
<1> QED
  BY <1>2, <1>5, <1>6 DEF StrftimeInv

(* One directive more may be one more of %x and %X.                         *)
LEMMA OneMoreUncounted ==
  ASSUME format \in Seq(Directive), IsFiniteSet(Uncounted), NEW d \in Directive,
         format' = Append(format, d)
  PROVE  /\ IsFiniteSet(Uncounted')
         /\ Cardinality(Uncounted) \in Nat /\ Cardinality(Uncounted') \in Nat
         /\ Cardinality(Uncounted') >= Cardinality(Uncounted)
         /\ d \in {"x", "X"} => Cardinality(Uncounted') = Cardinality(Uncounted) + 1
<1> DEFINE l == Len(format) + 1
<1>1. /\ Len(format) \in Nat /\ Len(format') = l /\ format'[l] = d
      /\ \A i \in 1 .. Len(format) : format'[i] = format[i]
  BY AppendProperties, LenProperties
<1>2. l \notin Uncounted
  BY <1>1 DEF Uncounted
<1>3. CASE d \in {"x", "X"}
  <2>1. Uncounted' = Uncounted \cup {l}
    <3>1. \A i : i \in 1 .. l <=> i \in 1 .. Len(format) \/ i = l
      BY <1>1
    <3> HIDE DEF l
    <3> QED
      BY <1>1, <1>3, <3>1 DEF Uncounted
  <2> HIDE DEF l
  <2>2. IsFiniteSet(Uncounted')
    BY <2>1, FS_AddElement
  <2>3. Cardinality(Uncounted') = Cardinality(Uncounted) + 1
    BY <1>2, <2>1, FS_AddElement
  <2>4. Cardinality(Uncounted) \in Nat
    BY FS_CardinalityType
  <2> QED
    BY <1>3, <2>2, <2>3, <2>4
<1>4. CASE d \notin {"x", "X"}
  <2>1. Uncounted' = Uncounted
    <3>1. \A i : i \in 1 .. l <=> i \in 1 .. Len(format) \/ i = l
      BY <1>1
    <3> HIDE DEF l
    <3> QED
      BY <1>1, <1>4, <3>1 DEF Uncounted
  <2> QED
    BY <1>4, <2>1, FS_CardinalityType
<1> QED
  BY <1>3, <1>4

(* A format that ends in d had its other directives before.                 *)
LEMMA FormatsOfCallers ==
  ASSUME format \in Seq(Directive), NEW d \in Directive, format' = Append(format, d)
  PROVE  /\ ~NoDirective'
         /\ X1' => NoDirective /\ d = "X"
         /\ X2' => X1 /\ d = "char"
         /\ X3' => X2 /\ d = "x"
         /\ C1' => NoDirective /\ d = "c"
         /\ C2' => C1 /\ d = "char"
<1> DEFINE k == Len(format)
           l == Len(format')
<1>1. k \in Nat /\ l = k + 1 /\ format'[k + 1] = d
  BY AppendProperties, LenProperties
<1>2. \A i \in 1 .. k : format'[i] = format[i]
  BY AppendProperties
<1>3. /\ NoDirective <=> k = 0
      /\ NoDirective' <=> l = 0
      /\ X1' => l = 1 /\ format'[1] = "X"
      /\ X2' => l = 2 /\ format'[1] = "X" /\ format'[2] = "char"
      /\ X3' => l = 3 /\ format'[1] = "X" /\ format'[2] = "char" /\ format'[3] = "x"
      /\ C1' => l = 1 /\ format'[1] = "c"
      /\ C2' => l = 2 /\ format'[1] = "c" /\ format'[2] = "char"
  BY DEF NoDirective, X1, X2, X3, C1, C2
<1>4. /\ k = 1 /\ format[1] = "X" => X1
      /\ k = 2 /\ format[1] = "X" /\ format[2] = "char" => X2
      /\ k = 1 /\ format[1] = "c" => C1
  BY DEF X1, X2, C1
<1> HIDE DEF k, l
<1>5. /\ l # 0
      /\ l = 1 => k = 0 /\ k + 1 = 1
      /\ l = 2 => k = 1 /\ k + 1 = 2 /\ 1 \in 1 .. k
      /\ l = 3 => k = 2 /\ k + 1 = 3 /\ 1 \in 1 .. k /\ 2 \in 1 .. k
  BY <1>1
<1> QED
  BY <1>1, <1>2, <1>3, <1>4, <1>5

(* A directive that fits is written, and counted as said, before the next.  *)
LEMMA AppendedKeeps ==
  ASSUME StrftimeInv, Running, NEW d \in Directive,
         NEW needed \in Nat, NEW n \in Nat, NEW counted \in Nat,
         Appended(d, needed, n, counted), n <= needed \/ NamedBehindTable',
         d \in {"x", "X"} => n = 8,
         d \notin {"x", "X"} => n <= counted \/ NamedBehindTable',
         d = "char" => needed = 1 /\ n = 1 /\ counted = 1,
         d = "c" => needed = 24 /\ counted = 24
  PROVE  StrftimeInv'
<1>1. /\ format \in Seq(Directive) /\ format' = Append(format, d)
      /\ tm' = tm /\ BufferLen' = BufferLen
      /\ tm \in Tm /\ BufferLen \in Nat \ {0} /\ Written \in Nat /\ CaratteriScritti \in Nat
      /\ ended = "running"
  BY DEF StrftimeInv, StrftimeTyped, Appended, Running
<1>2. format' \in Seq(Directive)
  BY <1>1, AppendProperties
<1>3. /\ ~NoDirective'
      /\ X1' => NoDirective /\ d = "X"
      /\ X2' => X1 /\ d = "char"
      /\ X3' => X2 /\ d = "x"
      /\ C1' => NoDirective /\ d = "c"
      /\ C2' => C1 /\ d = "char"
  BY <1>1, FormatsOfCallers
<1> DEFINE u == Cardinality(Uncounted)
           v == Cardinality(Uncounted')
<1>4. /\ IsFiniteSet(Uncounted') /\ u \in Nat /\ v \in Nat /\ v >= u
      /\ d \in {"x", "X"} => v = u + 1
  BY <1>1, OneMoreUncounted DEF StrftimeInv, Counted
<1>5. NamedBehindTable \/ (/\ Written + 1 <= CaratteriScritti + 8 * u
                            /\ Written + 1 <= BufferLen + 8 * u)
  BY DEF StrftimeInv, Counted, TextFits
<1>10. NamedBehindTable => NamedBehindTable'
  <2>1. Len(format) \in Nat /\ Len(format') = Len(format) + 1
        /\ \A i \in 1 .. Len(format) : format'[i] = format[i]
    BY <1>1, AppendProperties, LenProperties
  <2> QED
    BY <1>1, <2>1 DEF NamedBehindTable
<1>6. /\ NoDirective => Written = 0 /\ CaratteriScritti = 1
      /\ X1 => Written <= 8
      /\ X2 => Written <= 9
      /\ X3 => Written <= 17
      /\ C1 => CaratteriScritti <= 25
  BY DEF StrftimeInv, CallersCounted
<1>7. Cardinality(Uncounted)' = v
  OBVIOUS
<1> HIDE DEF u, v
<1>8. CASE CaratteriScritti + needed > BufferLen
  <2>1. ended' = "full" /\ Written' = Written /\ CaratteriScritti' = CaratteriScritti
    BY <1>8 DEF Appended
  <2>2. StrftimeTyped'
    BY <1>1, <1>2, <2>1 DEF StrftimeTyped
  <2>3. Counted'
    <3>1. NamedBehindTable' \/ (/\ Written' + 1 <= CaratteriScritti' + 8 * v
                                 /\ Written' + 1 <= BufferLen' + 8 * v)
      BY <1>1, <1>4, <1>5, <1>10, <2>1
    <3> QED
      BY <1>4, <1>7, <3>1 DEF Counted, TextFits
  <2>4. CallersCounted'
    BY <1>1, <1>3, <1>6, <1>8, <2>1 DEF CallersCounted
  <2> QED
    BY <2>2, <2>3, <2>4 DEF StrftimeInv
<1>9. CASE ~(CaratteriScritti + needed > BufferLen)
  <2>1. /\ ended' = ended /\ Written' = Written + n
        /\ CaratteriScritti' = CaratteriScritti + counted
    BY <1>9 DEF Appended
  <2>2. StrftimeTyped'
    BY <1>1, <1>2, <2>1 DEF StrftimeTyped
  <2>3. Counted'
    <3>1. CASE NamedBehindTable'
      BY <1>4, <3>1 DEF Counted, TextFits
    <3>2. CASE ~NamedBehindTable'
      <4>1. ~NamedBehindTable /\ n <= needed
        BY <1>10, <3>2
      <4>2. Written' + 1 <= CaratteriScritti' + 8 * v
        <5>1. CASE d \in {"x", "X"}
          <6>1. v = u + 1 /\ n = 8
            BY <1>4, <5>1
          <6> QED
            BY <1>1, <1>4, <1>5, <2>1, <4>1, <6>1
        <5>2. CASE d \notin {"x", "X"}
          <6>1. n <= counted
            BY <3>2, <5>2
          <6> QED
            BY <1>1, <1>4, <1>5, <2>1, <4>1, <6>1
        <5> QED
          BY <5>1, <5>2
      <4>3. Written' + 1 <= BufferLen' + 8 * v
        BY <1>1, <1>4, <1>5, <1>9, <2>1, <4>1
      <4> QED
        BY <1>4, <1>7, <4>2, <4>3 DEF Counted, TextFits
    <3> QED
      BY <3>1, <3>2
  <2>4. CallersCounted'
    BY <1>1, <1>3, <1>6, <1>9, <2>1 DEF CallersCounted
  <2> QED
    BY <2>2, <2>3, <2>4 DEF StrftimeInv
<1> QED
  BY <1>8, <1>9

(* A number has at most four digits.                                        *)
LEMMA LengthOfNumber == ASSUME NEW n PROVE conv_int_string(n) \in 1 .. 4
BY DEF conv_int_string

(* One below a hundred has at most two.                                     *)
LEMMA LengthOfSmallNumber ==
  ASSUME NEW n \in 0 .. 99 PROVE conv_int_string(n) \in 1 .. 2
BY DEF conv_int_string

(* A name has some length, and the short name of a month in the table three *)
(* letters.                                                                 *)
LEMMA LengthOfName ==
  ASSUME tm \in Tm, NEW d \in {"a", "A", "b", "B"}, NEW n \in NameLengths(d)
  PROVE  n \in Nat /\ (d = "b" /\ ~(tm.mon > 11) => n = 3)
<1>1. /\ tm.wday + 1 \in 1 .. 7 /\ tm.mon \in 0 .. 13 /\ Strays \subseteq Nat
      /\ tm.mon < 12 => tm.mon + 1 \in 1 .. 12
  BY StrftimeAssumption DEF StrftimeAssumption
<1>2. \A i \in 1 .. 7 : Giorni[i] \in 3 .. 9
  BY DEF Giorni
<1>3. \A i \in 1 .. 12 : Mesi[i] \in 3 .. 9
  BY DEF Mesi
<1>4. CASE d = "a" \/ d = "A"
  <2>1. NameLengths(d) = {Abbreviato} \/ NameLengths(d) = {Giorni[tm.wday + 1]}
    BY <1>4 DEF NameLengths
  <2>2. Giorni[tm.wday + 1] \in 3 .. 9 /\ Abbreviato \in Nat
    BY <1>1, <1>2 DEF Abbreviato
  <2> QED
    BY <1>4, <2>1, <2>2
<1>5. CASE d \in {"b", "B"} /\ tm.mon > 11
  <2>2. d # "a" /\ d # "A" /\ ~(tm.mon < 12)
    BY <1>1, <1>5
  <2>1. NameLengths(d) = Strays
    BY <1>5, <2>2 DEF NameLengths
  <2> QED
    BY <1>1, <1>5, <2>1
<1>6. CASE d \in {"b", "B"} /\ ~(tm.mon > 11)
  <2>1. tm.mon < 12
    BY <1>1, <1>6
  <2>2. NameLengths(d) = (IF d = "b" THEN {Abbreviato} ELSE {Mesi[tm.mon + 1]})
    BY <1>6, <2>1 DEF NameLengths
  <2>3. Mesi[tm.mon + 1] \in 3 .. 9
    BY <1>1, <1>3, <2>1
  <2> QED
    BY <2>2, <2>3 DEF Abbreviato
<1> QED
  BY <1>4, <1>5, <1>6

(* Every directive, and the return, keeps the invariant.                    *)
LEMMA StrftimeNextInv == StrftimeInv /\ [StrftimeNext]_strftime_vars => StrftimeInv'
<1> SUFFICES ASSUME StrftimeInv, [StrftimeNext]_strftime_vars
             PROVE  StrftimeInv'
  OBVIOUS
<1> USE DEF Directive
<1>0. tm \in Tm
  BY DEF StrftimeInv, StrftimeTyped
<1>1. ASSUME NEW d \in {"a", "A", "b", "B"}, name(d)
      PROVE  StrftimeInv'
  <2>1. PICK n \in NameLengths(d) : Running /\ Appended(d, n, n, n)
    BY <1>1 DEF name
  <2>2. n \in Nat
    BY <1>0, LengthOfName
  <2> QED
    BY <2>1, <2>2, AppendedKeeps
<1>2. ASSUME NEW d \in {"d", "H", "I", "j", "m", "M", "S", "U", "W", "w", "y", "Y"}, number(d)
      PROVE  StrftimeInv'
  <2> DEFINE n == conv_int_string(NumberOf(d))
  <2>1. n \in Nat
    BY LengthOfNumber
  <2>2. Running /\ Appended(d, n, n, n)
    BY <1>2 DEF number
  <2> HIDE DEF n
  <2> QED
    BY <2>1, <2>2, AppendedKeeps
<1>3. CASE date_and_time("c")
  <2>0. PICK month \in NameLengths("b") :
          Running /\ Appended("c", 24, DateLength(month), 24)
    BY <1>3 DEF date_and_time
  <2> DEFINE n == DateLength(month)
  <2>1. n \in Nat /\ (~(tm.mon > 11) => n <= 24)
    <3>1. tm.mday \in 0 .. 99 /\ tm.hour \in 0 .. 99 /\ tm.min \in 0 .. 99 /\ tm.sec \in 0 .. 99
      BY <1>0, StrftimeAssumption DEF StrftimeAssumption
    <3>2. /\ conv_int_string(tm.mday) \in 1 .. 2 /\ conv_int_string(tm.hour) \in 1 .. 2
          /\ conv_int_string(tm.min) \in 1 .. 2 /\ conv_int_string(tm.sec) \in 1 .. 2
      BY <3>1, LengthOfSmallNumber
    <3>3. month \in Nat /\ (~(tm.mon > 11) => month = 3)
      BY <1>0, <2>0, LengthOfName
    <3> QED
      BY <3>2, <3>3 DEF DateLength
  <2>2. Running /\ Appended("c", 24, n, 24)
    BY <2>0
  <2> HIDE DEF n
  <2>3. tm.mon > 11 => NamedBehindTable'
    <3>1. /\ format \in Seq(Directive) /\ format' = Append(format, "c") /\ tm' = tm
      BY <2>2 DEF StrftimeInv, StrftimeTyped, Appended
    <3>2. /\ Len(format) \in Nat /\ Len(format') = Len(format) + 1
          /\ format'[Len(format) + 1] = "c"
      BY <3>1, AppendProperties, LenProperties
    <3>3. Len(format) + 1 \in 1 .. Len(format')
      BY <3>2
    <3> QED
      BY <3>1, <3>2, <3>3 DEF NamedBehindTable
  <2> QED
    BY <2>1, <2>2, <2>3, AppendedKeeps
<1>4. CASE half("p")
  BY <1>4, AppendedKeeps DEF half
<1>5. CASE zone("Z")
  BY <1>5, AppendedKeeps DEF zone
<1>6. CASE percent("%")
  BY <1>6, AppendedKeeps DEF percent
<1>7. CASE character("char")
  BY <1>7, AppendedKeeps DEF character
<1>8. ASSUME NEW d \in {"x", "X"}, padded(d)
      PROVE  StrftimeInv'
  BY <1>8, AppendedKeeps DEF padded
<1>9. CASE strftime_return \/ UNCHANGED strftime_vars
  <2>1. /\ UNCHANGED <<tm, BufferLen, Written, CaratteriScritti, format>>
        /\ ended' \in {ended, "done"}
    BY <1>9 DEF strftime_return, strftime_vars
  <2>2. Uncounted' = Uncounted
    BY <2>1 DEF Uncounted
  <2>3. StrftimeTyped'
    BY <2>1 DEF StrftimeInv, StrftimeTyped
  <2>4. Counted'
    BY <2>1, <2>2 DEF StrftimeInv, Counted, TextFits, NamedBehindTable
  <2>5. CallersCounted'
    BY <2>1 DEF StrftimeInv, CallersCounted, NoDirective, X1, X2, X3, C1, C2
  <2> QED
    BY <2>3, <2>4, <2>5 DEF StrftimeInv
<1> QED
  BY <1>1, <1>2, <1>3, <1>4, <1>5, <1>6, <1>7, <1>8, <1>9 DEF StrftimeNext

(* strftime writes no more than the buffer holds but for the eight          *)
(* characters of each %x and %X with more behind it, unless %c names a      *)
(* month 12 or 13, and the formats of its callers fit their buffers, for    *)
(* any time localtime makes and any length (libc/time.c:77-330).            *)
THEOREM FormatsFit == StrftimeSpec => []BufferKept
<1>1. StrftimeInv => BufferKept
  <2> SUFFICES ASSUME StrftimeInv
               PROVE  BufferKept
    OBVIOUS
  <2>1. TextFits
    BY DEF StrftimeInv, Counted
  <2>2. format = <<"X">> => X1
    BY DEF X1
  <2>3. format = <<"X", "char", "x">> => X3
    BY DEF X3
  <2>4. format = <<"c", "char">> => C2
    BY DEF C2
  <2>5. Written \in Nat /\ BufferLen \in Nat
    BY DEF StrftimeInv, StrftimeTyped
  <2>6. X1 \/ X3 => Written <= 17
    BY <2>5 DEF StrftimeInv, CallersCounted
  <2>7. C2 /\ BufferLen >= 26 => ended # "full"
    BY DEF StrftimeInv, CallersCounted
  <2>8. CallersFit
    BY <2>2, <2>3, <2>4, <2>5, <2>6, <2>7 DEF CallersFit
  <2> QED
    BY <2>1, <2>8 DEF BufferKept
<1> QED
  BY <1>1, StrftimeInitInv, StrftimeNextInv, PTL DEF StrftimeSpec

-----------------------------------------------------------------------------
(* The calendar (Calendar): a date that the clock gives is shown.           *)

Cumul == <<0, 31, 59, 90, 120, 151, 181, 212, 243, 273, 304, 334, 365>>
MonthStart(yr, m) == Cumul[m + 1] + (IF m > 1 /\ yr % 4 = 0 THEN 1 ELSE 0)

(* A month begins where the one before it ends.                             *)
LEMMA MonthStartStep ==
  ASSUME NEW yr \in Int, NEW m \in 1 .. 12
  PROVE  MonthStart(yr, m) = MonthStart(yr, m - 1) + MonthLength(yr, m - 1)
<1>1. m \in {1, 2, 3, 4, 5, 6, 7, 8, 9, 10, 11, 12}
  OBVIOUS
<1> QED
  BY <1>1, SMTT(30) DEF MonthStart, MonthLength, NUMERO_GIORNI, Cumul

(* Months have 28 to 31 days and begin behind those before them.            *)
LEMMA MonthSizes ==
  ASSUME NEW yr \in Int
  PROVE  /\ \A m \in 0 .. 12 : MonthStart(yr, m) \in Nat
         /\ \A m \in 0 .. 11 : MonthLength(yr, m) \in 28 .. 31
         /\ MonthStart(yr, 0) = 0
<1>1. \A m \in 0 .. 12 : m \in {0, 1, 2, 3, 4, 5, 6, 7, 8, 9, 10, 11, 12}
  OBVIOUS
<1>2. \A m \in 0 .. 12 : MonthStart(yr, m) \in Nat
  BY <1>1, SMTT(30) DEF MonthStart, Cumul
<1>3. \A m \in 0 .. 11 : MonthLength(yr, m) \in 28 .. 31
  BY <1>1, SMTT(30) DEF MonthLength, NUMERO_GIORNI
<1> QED
  BY <1>2, <1>3 DEF MonthStart, Cumul

(* A function that is defined month after month is what it is begun with    *)
(* and the days of the months before.                                       *)
LEMMA StartIsNat ==
  ASSUME NEW yr \in Int, NEW m \in 0 .. 12
  PROVE  MonthStart(yr, m) \in Nat
BY MonthSizes

(* The same of one month.                                                   *)
LEMMA LengthIsNat ==
  ASSUME NEW yr \in Int, NEW m \in 0 .. 11
  PROVE  MonthLength(yr, m) \in 28 .. 31
BY MonthSizes

(* January begins with the year.                                            *)
LEMMA YearStartsAtZero ==
  ASSUME NEW yr \in Int
  PROVE  MonthStart(yr, 0) = 0
BY MonthSizes

(* A count that grows by the length of each month counts their days.        *)
LEMMA MonthByMonth ==
  ASSUME NEW yr \in Int, NEW n \in 0 .. 12, NEW base \in Int, NEW f,
         f[0] = base,
         \A m \in 1 .. n : f[m] = f[m - 1] + MonthLength(yr, m - 1)
  PROVE  f[n] = base + MonthStart(yr, n)
<1> DEFINE S == {m \in 0 .. n : f[m] # base + MonthStart(yr, m)}
<1> SUFFICES ASSUME S # {} PROVE FALSE
  OBVIOUS
<1>1. PICK m \in S : \A k \in S : m <= k
  <2>1. S \subseteq Nat
    OBVIOUS
  <2> HIDE DEF S
  <2> QED
    BY <2>1, LeastNatural
<1>2. m # 0
  <2>1. MonthStart(yr, 0) = 0
    BY MonthSizes
  <2> QED
    BY <2>1
<1>3. m \in 1 .. n /\ m - 1 \in 0 .. n /\ m - 1 \notin S /\ m \in 1 .. 12 /\ m - 1 \in 0 .. 11 /\ m - 1 \in 0 .. 12
  BY <1>1, <1>2
<1>4. f[m - 1] = base + MonthStart(yr, m - 1)
  BY <1>3
<1>5. f[m] = (base + MonthStart(yr, m - 1)) + MonthLength(yr, m - 1)
  <2>1. f[m] = f[m - 1] + MonthLength(yr, m - 1)
    BY <1>3
  <2> HIDE DEF S
  <2> QED
    BY <1>3, <1>4, <2>1
<1>6. MonthStart(yr, m - 1) \in Int /\ MonthLength(yr, m - 1) \in Int
  <2>1. MonthStart(yr, m - 1) \in Nat /\ MonthLength(yr, m - 1) \in 28 .. 31
    BY <1>3, StartIsNat, LengthIsNat, Zenon
  <2> QED
    BY <2>1
<1>7. f[m] = base + MonthStart(yr, m)
  <2>1. MonthStart(yr, m) = MonthStart(yr, m - 1) + MonthLength(yr, m - 1)
    BY <1>3, MonthStartStep
  <2> HIDE DEF S
  <2> QED
    BY <1>5, <1>6, <2>1
<1> QED
  BY <1>7

(* The number of a day, written out.                                        *)
LEMMA DayNumberIs ==
  ASSUME NEW d, d.year \in Int, d.mon \in 0 .. 11, d.mday \in Int
  PROVE  DayNumber(d) = 365 * (d.year - 70) + (d.year - 69) \div 4
                          + MonthStart(d.year, d.mon) + d.mday - 1
<1> DEFINE yr == d.year
           Is(f) == f = [m \in 0 .. 12 |->
                      IF m = 0 THEN 0 ELSE f[m - 1] + MonthLength(yr, m - 1)]
           g == [m \in 0 .. 12 |-> MonthStart(yr, m)]
           f == CHOOSE h : Is(h)
<1>1. Is(g)
  <2>1. MonthStart(yr, 0) = 0
    BY MonthSizes
  <2>2. ASSUME NEW m \in 0 .. 12, m # 0
        PROVE  MonthStart(yr, m) = g[m - 1] + MonthLength(yr, m - 1)
    <3>1. m \in 1 .. 12 /\ m - 1 \in 0 .. 12
      BY <2>2
    <3>2. MonthStart(yr, m) = MonthStart(yr, m - 1) + MonthLength(yr, m - 1)
      BY <3>1, MonthStartStep
    <3> QED
      BY <3>1, <3>2
  <2> QED
    BY <2>1, <2>2
<1>2. Is(f)
  BY <1>1
<1>3. DayNumber(d) = 365 * (d.year - 70) + (d.year - 69) \div 4 + f[d.mon] + d.mday - 1
  BY DEF DayNumber
<1> HIDE DEF f
<1>4. f[0] = 0 /\ \A m \in 1 .. 12 : f[m] = f[m - 1] + MonthLength(yr, m - 1)
  BY <1>2
<1>5. f[d.mon] = 0 + MonthStart(yr, d.mon)
  <2>1. yr \in Int /\ d.mon \in 0 .. 12 /\ 0 \in Int
    OBVIOUS
  <2>2. \A m \in 1 .. d.mon : f[m] = f[m - 1] + MonthLength(yr, m - 1)
    BY <1>4
  <2> HIDE DEF yr
  <2> QED
    BY <1>4, <2>1, <2>2, MonthByMonth
<1>6. MonthStart(yr, d.mon) \in Int
  <2>1. MonthStart(yr, d.mon) \in Nat
    <3>1. yr \in Int /\ d.mon \in 0 .. 12
      OBVIOUS
    <3> QED
      BY <3>1, StartIsNat, Zenon
  <2> QED
    BY <2>1
<1> QED
  BY <1>3, <1>5, <1>6

(* A clock in BCD gives the number back, up to 79.                          *)
LEMMA DecodedIs ==
  ASSUME NEW n \in 0 .. 79
  PROVE  Decoded(bcd(n)) = n
BY DEF Decoded, bcd

(* What GetCurrentTime adds for a month is its length.                      *)
LEMMA AddedIsLength ==
  ASSUME NEW yr \in Int, NEW m \in 1 .. 12
  PROVE  Added(yr, m) = MonthLength(yr, m - 1)
<1>1. m \in {1, 2, 3, 4, 5, 6, 7, 8, 9, 10, 11, 12}
  OBVIOUS
<1> QED
  BY <1>1, SMTT(30) DEF Added, MonthLength, NUMERO_GIORNI

(* The dates that can be asked about.                                       *)
Asked(d) ==
  /\ d.year \in 100 .. 179 /\ d.mon \in 0 .. 11 /\ d.mday \in 1 .. 31
  /\ d.time \in Nat /\ d.time < 86400 /\ IsDate(d)

(* The months before a date that can be asked about have days.              *)
LEMMA AskedStart ==
  ASSUME NEW d, Asked(d)
  PROVE  MonthStart(d.year, d.mon) \in Nat
<1>1. d.year \in Int /\ d.mon \in 0 .. 12
  BY DEF Asked
<1> QED
  BY <1>1, StartIsNat, Zenon

(* GetCurrentTime decodes the registers into the date they stand for.       *)
LEMMA GetCurrentTimeIs ==
  ASSUME NEW d, Asked(d)
  PROVE  LET parts == GetCurrentTime(Registers(d))
         IN  /\ parts.sec = d.time % 60 /\ parts.min = (d.time \div 60) % 60
             /\ parts.hour = d.time \div 3600
             /\ parts.mday = d.mday /\ parts.mon = d.mon /\ parts.year = d.year
             /\ parts.yday = d.mday + MonthStart(d.year, d.mon)
<1> DEFINE r == Registers(d)
           yr == Decoded(r.year) + 100
           n == Decoded(r.mon) - 1
           Is(f) == f = [Mese \in 0 .. n |-> IF Mese = 0 THEN Decoded(r.mday)
                                             ELSE f[Mese - 1] + Added(yr, Mese)]
           g == [Mese \in 0 .. n |-> d.mday + MonthStart(d.year, Mese)]
           f == CHOOSE h : Is(h)
<1>0. d.year \in Int /\ d.mon \in 0 .. 12 /\ d.mday \in Int /\ d.mon \in Int
  BY DEF Asked
<1>1. /\ d.time % 60 \in 0 .. 79 /\ (d.time \div 60) % 60 \in 0 .. 79
      /\ d.time \div 3600 \in 0 .. 79 /\ d.mday \in 0 .. 79
      /\ d.mon + 1 \in 0 .. 79 /\ d.year - 100 \in 0 .. 79
  BY DEF Asked
<1>2. /\ Decoded(r.sec) = d.time % 60 /\ Decoded(r.min) = (d.time \div 60) % 60
      /\ Decoded(r.hour) = d.time \div 3600
      /\ Decoded(r.mday) = d.mday
      /\ Decoded(r.year) = d.year - 100 /\ Decoded(r.mon) = d.mon + 1
  <2>1. /\ r.sec = bcd(d.time % 60) /\ r.min = bcd((d.time \div 60) % 60)
        /\ r.hour = bcd(d.time \div 3600) /\ r.mday = bcd(d.mday)
        /\ r.mon = bcd(d.mon + 1) /\ r.year = bcd(d.year - 100)
    BY DEF Registers
  <2> HIDE DEF r
  <2>2. \A k \in 0 .. 79 : Decoded(bcd(k)) = k
    BY DecodedIs
  <2> QED
    BY <2>1, <2>2, <1>1
<1>4. yr = d.year /\ n = d.mon
  BY <1>0, <1>2
<1>5. GetCurrentTime(r) =
        [sec |-> Decoded(r.sec), min |-> Decoded(r.min), hour |-> Decoded(r.hour),
         mday |-> Decoded(r.mday), mon |-> n, year |-> yr, yday |-> f[n]]
  BY DEF GetCurrentTime
<1> HIDE DEF yr, n, r
<1>6. Is(g)
  <2>1. g[0] = d.mday
    <3>1. 0 \in 0 .. n /\ MonthStart(d.year, 0) = 0
      BY <1>0, <1>4, YearStartsAtZero
    <3> QED
      BY <3>1, <1>0
  <2>2. ASSUME NEW m \in 0 .. n, m # 0
        PROVE  g[m] = g[m - 1] + Added(yr, m)
    <3>1. m \in 1 .. 12 /\ m - 1 \in 0 .. 12 /\ m - 1 \in 0 .. n /\ m - 1 \in 0 .. 11
      BY <2>2, <1>0, <1>4
    <3>2. MonthStart(d.year, m) = MonthStart(d.year, m - 1) + MonthLength(d.year, m - 1)
      BY <3>1, <1>0, MonthStartStep
    <3>3. Added(yr, m) = MonthLength(d.year, m - 1)
      BY <3>1, <1>0, <1>4, AddedIsLength
    <3>4. MonthStart(d.year, m - 1) \in Nat /\ MonthLength(d.year, m - 1) \in 28 .. 31
      BY <3>1, <1>0, StartIsNat, LengthIsNat, Zenon
    <3>5. MonthLength(d.year, m - 1) \in Int
      BY <3>4
    <3> QED
      BY <3>1, <3>2, <3>3, <3>4, <3>5, <1>0
  <2>3. ASSUME NEW m \in 0 .. n
        PROVE  g[m] = IF m = 0 THEN Decoded(r.mday) ELSE g[m - 1] + Added(yr, m)
    BY <2>1, <2>2, <1>2
  <2>4. g = [Mese \in 0 .. n |-> g[Mese]]
    OBVIOUS
  <2> HIDE DEF g
  <2> QED
    BY <2>3, <2>4
<1>7. Is(f)
  BY <1>6
<1> HIDE DEF f
<1>8. f[0] = d.mday /\ \A m \in 1 .. n : f[m] = f[m - 1] + Added(yr, m)
  <2>1. \A m \in 0 .. n : f[m] = IF m = 0 THEN Decoded(r.mday) ELSE f[m - 1] + Added(yr, m)
    BY <1>7
  <2>2. 0 \in 0 .. n /\ \A m \in 1 .. n : m \in 0 .. n /\ m # 0
    BY <1>0, <1>4
  <2> QED
    BY <2>1, <2>2, <1>2
<1>9. f[n] = d.mday + MonthStart(d.year, n)
  <2>1. \A m \in 1 .. d.mon : f[m] = f[m - 1] + MonthLength(d.year, m - 1)
    <3> SUFFICES ASSUME NEW m \in 1 .. d.mon
                 PROVE  f[m] = f[m - 1] + MonthLength(d.year, m - 1)
      OBVIOUS
    <3>1. m \in 1 .. 12
      BY <1>0
    <3> QED
      BY <3>1, <1>0, <1>4, <1>8, AddedIsLength
  <2> QED
    BY <2>1, <1>0, <1>4, <1>8, MonthByMonth
<1> QED
  BY <1>2, <1>4, <1>5, <1>9 DEF r

(* What the number of a date is for mktime: in a leap year it is counted    *)
(* one too many.                                                            *)
LEMMA TimeOfDate ==
  ASSUME NEW d, Asked(d), ~(d.mon = 11 /\ d.mday = 31), d.time < 86200
  PROVE  time(d) = <<DayNumber(d) + (IF d.year % 4 = 0 THEN 1 ELSE 0), d.time + 200>>
<1> DEFINE parts == GetCurrentTime(Registers(d))
           M == MonthStart(d.year, d.mon)
           year == parts.year + (parts.mon + parts.mday \div Divisor(parts)) \div 12
           secs == parts.sec + 60 * parts.min + 3600 * parts.hour + 200
           days == parts.yday + 366 * (year \div 4) + 365 * (year - year \div 4)
<1>1. /\ parts.sec = d.time % 60 /\ parts.min = (d.time \div 60) % 60
      /\ parts.hour = d.time \div 3600
      /\ parts.mday = d.mday /\ parts.mon = d.mon /\ parts.year = d.year
      /\ parts.yday = d.mday + MonthStart(d.year, d.mon)
  BY GetCurrentTimeIs
<1>2. time(d) = <<days - 25568 + secs \div 86400, secs % 86400>>
  BY DEF time, mktime
<1> HIDE DEF parts
<1>3. /\ d.year \in Int /\ d.mon \in 0 .. 11 /\ d.mday \in Nat /\ d.mday >= 1
      /\ d.mday <= MonthLength(d.year, d.mon) /\ d.time \in Nat
  BY DEF Asked, IsDate
<1>4. Divisor(parts) = MonthLength(d.year, d.mon)
  <2>1. d.mon \in {0, 1, 2, 3, 4, 5, 6, 7, 8, 9, 10, 11}
    BY <1>3
  <2> QED
    BY <2>1, <1>1, SMTT(30) DEF Divisor, MonthLength, NUMERO_GIORNI
<1>5. MonthLength(d.year, d.mon) \in 28 .. 31 /\ (d.mon = 11 => MonthLength(d.year, d.mon) = 31)
  BY <1>3, LengthIsNat DEF MonthLength, NUMERO_GIORNI
<1>6. (d.mon + d.mday \div MonthLength(d.year, d.mon)) \div 12 = 0
  <2> DEFINE L == MonthLength(d.year, d.mon)
             q == d.mday \div L
  <2>1. d.mday = L => q = 1
    BY <1>5
  <2>2. d.mday # L => q = 0
    <3>1. L \in {28, 29, 30, 31} /\ d.mday \in 1 .. 31 /\ d.mday <= L
      BY <1>3, <1>5
    <3> QED
      BY <3>1
  <2>3. q \in 0 .. 1 /\ (d.mon = 11 => q = 0)
    BY <2>1, <2>2, <1>5
  <2>4. (d.mon + q) \div 12 = 0
    <3> HIDE DEF q
    <3> QED
      BY <2>3, <1>3
  <2> QED
    BY <2>4
<1>7. year = d.year
  BY <1>1, <1>3, <1>4, <1>6
<1>8. secs = d.time + 200
  <2> HIDE DEF parts
  <2> QED
    BY <1>1, <1>3
<1>9. secs \div 86400 = 0 /\ secs % 86400 = d.time + 200
  BY <1>8, <1>3
<1> HIDE DEF year, secs
<1>10. M \in Nat
  BY AskedStart
<1>11. DayNumber(d) = 365 * (d.year - 70) + (d.year - 69) \div 4 + M + d.mday - 1
  BY <1>3, DayNumberIs
<1> HIDE DEF M
<1>12. days = d.mday + M + 366 * (d.year \div 4) + 365 * (d.year - d.year \div 4)
  BY <1>1, <1>7 DEF M
<1>13. days - 25568 = DayNumber(d) + (IF d.year % 4 = 0 THEN 1 ELSE 0)
  <2> HIDE DEF days
  <2> QED
    BY <1>3, <1>10, <1>11, <1>12
<1>14. days - 25568 \in Int
  <2> HIDE DEF days
  <2> QED
    BY <1>3, <1>10, <1>12
<1> QED
  <2> HIDE DEF days
  <2> QED
    BY <1>2, <1>9, <1>13, <1>14

-----------------------------------------------------------------------------
(* The number of a day of the walk, whose years are counted from 1968.      *)
DayOf(w) ==
  365 * (w.year - 2) + (w.year - 1) \div 4 + MonthStart(w.year, w.mon) + w.mday - 1

(* What the walk stands on is a day, where the month 12 begins the year     *)
(* that follows; the loop has gone that many days, and seven make a week.   *)
WalkIsDay ==
  /\ walk = [year |-> walk.year, mon |-> walk.mon, mday |-> walk.mday,
             wday |-> walk.wday, yday |-> walk.yday]
  /\ walk.year \in Nat /\ walk.mon \in 0 .. 12 /\ walk.mday \in 1 .. 31
  /\ IF walk.mon = 12 THEN walk.mday = 1 ELSE walk.mday <= MonthLength(walk.year, walk.mon)
  /\ passed = DayOf(walk) /\ walk.wday = (passed + 3) % 7

(* Changing the year before the first of January leaves the day the same.   *)
LEMMA NewYearSameDay ==
  ASSUME WalkIsDay, NEW n, n = NewYear(walk)
  PROVE  /\ n = [year |-> n.year, mon |-> n.mon, mday |-> walk.mday,
                 wday |-> walk.wday, yday |-> n.yday]
         /\ n.year \in Nat /\ n.mon \in 0 .. 11
         /\ walk.mday <= MonthLength(n.year, n.mon)
         /\ DayOf(n) = passed
         /\ (n.mon = 0 /\ walk.mday = 1) \/ n = walk
<1>1. CASE walk.mon # 12
  <2>1. n = walk
    BY <1>1 DEF NewYear
  <2>2. walk.mon \in 0 .. 11 /\ walk.mday <= MonthLength(walk.year, walk.mon)
    BY <1>1 DEF WalkIsDay
  <2> QED
    BY <2>1, <2>2 DEF WalkIsDay
<1>2. CASE walk.mon = 12
  <2>1. n = [year |-> walk.year + 1, mon |-> 0, mday |-> 1, wday |-> walk.wday, yday |-> 0]
    BY <1>2 DEF NewYear, WalkIsDay
  <2>2. MonthLength(walk.year + 1, 0) = 31
    BY DEF MonthLength, NUMERO_GIORNI
  <2>3. MonthStart(walk.year, 12) = 365 + (IF walk.year % 4 = 0 THEN 1 ELSE 0)
    BY DEF MonthStart, Cumul
  <2>4. MonthStart(walk.year + 1, 0) = 0
    BY YearStartsAtZero DEF WalkIsDay
  <2>5. walk.year \in Nat /\ walk.mday = 1
    BY <1>2 DEF WalkIsDay
  <2>6. DayOf(n) = DayOf(walk)
    BY <2>1, <2>3, <2>4, <2>5, <1>2 DEF DayOf
  <2>7. DayOf(n) = passed
    BY <2>6 DEF WalkIsDay
  <2> QED
    BY <2>1, <2>2, <2>5, <2>7
<1> QED
  BY <1>1, <1>2

(* A month ends on its last day.                                            *)
LEMMA MonthEndsIs ==
  ASSUME NEW w, w.year \in Nat, w.mon \in 0 .. 11, w.mday \in 1 .. 31,
         w.mday <= MonthLength(w.year, w.mon)
  PROVE  MonthEnds(w) <=> w.mday = MonthLength(w.year, w.mon)
<1>1. w.mon \in {0, 1, 2, 3, 4, 5, 6, 7, 8, 9, 10, 11}
  OBVIOUS
<1> QED
  BY <1>1, SMTT(30) DEF MonthEnds, MonthLength, NUMERO_GIORNI

(* One turn of the loop of localtime goes one day on.                       *)
LEMMA WalkGoesOn ==
  ASSUME WalkIsDay, localtime_day
  PROVE  WalkIsDay'
<1>1. PICK n : n = NewYear(walk)
  OBVIOUS
<1>2. /\ n = [year |-> n.year, mon |-> n.mon, mday |-> walk.mday,
              wday |-> walk.wday, yday |-> n.yday]
      /\ n.year \in Nat /\ n.mon \in 0 .. 11
      /\ walk.mday <= MonthLength(n.year, n.mon)
      /\ DayOf(n) = passed
  BY <1>1, NewYearSameDay
<1>3. walk.mday \in 1 .. 31 /\ walk.wday = (passed + 3) % 7
  BY DEF WalkIsDay
<1>4. MonthEnds(n) <=> walk.mday = MonthLength(n.year, n.mon)
  BY <1>2, <1>3, MonthEndsIs
<1>5. walk' = [n EXCEPT !.wday = (@ + 1) % 7, !.yday = @ + 1,
                        !.mon = IF MonthEnds(n) THEN @ + 1 ELSE @,
                        !.mday = IF MonthEnds(n) THEN 1 ELSE @ + 1]
  BY <1>1 DEF localtime_day, NextDay
<1>6. walk' = [year |-> n.year, mon |-> IF MonthEnds(n) THEN n.mon + 1 ELSE n.mon,
               mday |-> IF MonthEnds(n) THEN 1 ELSE walk.mday + 1,
               wday |-> (walk.wday + 1) % 7, yday |-> n.yday + 1]
  <2>1. n.mday = walk.mday /\ n.wday = walk.wday
    BY <1>2
  <2>2. CASE MonthEnds(n)
    <3>1. walk' = [n EXCEPT !.wday = (@ + 1) % 7, !.yday = @ + 1, !.mon = @ + 1, !.mday = 1]
      BY <1>5, <2>2
    <3> QED
      BY <3>1, <1>2, <2>1, <2>2
  <2>3. CASE ~MonthEnds(n)
    <3>1. walk' = [n EXCEPT !.wday = (@ + 1) % 7, !.yday = @ + 1, !.mday = @ + 1]
      BY <1>2, <1>5, <2>3
    <3> QED
      BY <3>1, <1>2, <2>1, <2>3
  <2> QED
    BY <2>2, <2>3
<1>7. passed' = passed + 1
  BY DEF localtime_day
<1>8. MonthLength(n.year, n.mon) \in 28 .. 31 /\ MonthStart(n.year, n.mon) \in Nat
  <2>1. n.year \in Int /\ n.mon \in 0 .. 12 /\ n.mon \in 0 .. 11
    BY <1>2
  <2> QED
    BY <2>1, LengthIsNat, StartIsNat, Zenon
<1>9. passed \in Int
  BY <1>2, <1>3, <1>8 DEF DayOf
<1>10. (walk.wday + 1) % 7 = (passed' + 3) % 7
  BY <1>3, <1>7, <1>9
<1>11. DayOf(n) = 365 * (n.year - 2) + (n.year - 1) \div 4 + MonthStart(n.year, n.mon)
                    + walk.mday - 1
  BY <1>2 DEF DayOf
<1>12. CASE MonthEnds(n)
  <2>1. walk' = [year |-> n.year, mon |-> n.mon + 1, mday |-> 1,
                 wday |-> (walk.wday + 1) % 7, yday |-> n.yday + 1]
    BY <1>6, <1>12
  <2>2. MonthStart(n.year, n.mon + 1)
          = MonthStart(n.year, n.mon) + MonthLength(n.year, n.mon)
    <3>1. n.year \in Int /\ n.mon + 1 \in 1 .. 12 /\ (n.mon + 1) - 1 = n.mon
      BY <1>2
    <3> QED
      BY <3>1, MonthStartStep
  <2>3. DayOf(walk') = 365 * (n.year - 2) + (n.year - 1) \div 4
                         + MonthStart(n.year, n.mon + 1)
    BY <2>1, <2>2, <1>2, <1>8 DEF DayOf
  <2>4. DayOf(walk') = passed'
    BY <2>2, <2>3, <1>2, <1>3, <1>4, <1>7, <1>8, <1>11, <1>12
  <2>5. n.mon + 1 # 12 => 1 <= MonthLength(n.year, n.mon + 1)
    <3> SUFFICES ASSUME n.mon + 1 # 12 PROVE 1 <= MonthLength(n.year, n.mon + 1)
      OBVIOUS
    <3>1. n.year \in Int /\ n.mon + 1 \in 0 .. 11
      BY <1>2
    <3>2. MonthLength(n.year, n.mon + 1) \in 28 .. 31
      BY <3>1, LengthIsNat
    <3> QED
      BY <3>2
  <2>6. /\ walk'.year = n.year /\ walk'.mon = n.mon + 1 /\ walk'.mday = 1
        /\ walk'.wday = (walk.wday + 1) % 7 /\ walk'.yday = n.yday + 1
    BY <2>1
  <2> QED
    BY <2>1, <2>4, <2>5, <2>6, <1>2, <1>10 DEF WalkIsDay
<1>13. CASE ~MonthEnds(n)
  <2>1. walk' = [year |-> n.year, mon |-> n.mon, mday |-> walk.mday + 1,
                 wday |-> (walk.wday + 1) % 7, yday |-> n.yday + 1]
    BY <1>6, <1>13
  <2>2. walk.mday + 1 \in 1 .. 31 /\ walk.mday + 1 <= MonthLength(n.year, n.mon)
    BY <1>2, <1>3, <1>4, <1>8, <1>13
  <2>3. DayOf(walk') = passed'
    BY <2>1, <1>2, <1>3, <1>7, <1>8, <1>11 DEF DayOf
  <2>4. /\ walk'.year = n.year /\ walk'.mon = n.mon /\ walk'.mday = walk.mday + 1
        /\ walk'.wday = (walk.wday + 1) % 7 /\ walk'.yday = n.yday + 1
    BY <2>1
  <2> QED
    BY <2>1, <2>2, <2>3, <2>4, <1>2, <1>10 DEF WalkIsDay
<1> QED
  BY <1>12, <1>13

(* A month ends before each later one of its year begins.                   *)
LEMMA MonthsAreApart ==
  ASSUME NEW yr \in Int, NEW m \in 0 .. 11, NEW n \in 0 .. 11, m < n
  PROVE  MonthStart(yr, m) + MonthLength(yr, m) <= MonthStart(yr, n)
<1>1. m \in {0, 1, 2, 3, 4, 5, 6, 7, 8, 9, 10, 11} /\ n \in {0, 1, 2, 3, 4, 5, 6, 7, 8, 9, 10, 11}
  OBVIOUS
<1> QED
  BY <1>1, SMTT(60) DEF MonthStart, MonthLength, NUMERO_GIORNI, Cumul

(* Every month ends within the year.                                        *)
LEMMA YearEnds ==
  ASSUME NEW yr \in Int, NEW m \in 0 .. 11
  PROVE  MonthStart(yr, m) + MonthLength(yr, m) <= 365 + (IF yr % 4 = 0 THEN 1 ELSE 0)
<1>1. m \in {0, 1, 2, 3, 4, 5, 6, 7, 8, 9, 10, 11}
  OBVIOUS
<1> QED
  BY <1>1, SMTT(60) DEF MonthStart, MonthLength, NUMERO_GIORNI, Cumul

(* No two dates have the same number.                                       *)
Dated(d) ==
  /\ d.year \in Nat /\ d.mon \in 0 .. 11 /\ d.mday \in 1 .. 31
  /\ d.mday <= MonthLength(d.year, d.mon)

(* The day of a date lies within its year.                                  *)
LEMMA DayOfBounds ==
  ASSUME NEW d, Dated(d)
  PROVE  /\ DayOf(d) \in Int
         /\ 365 * (d.year - 2) + (d.year - 1) \div 4 <= DayOf(d)
         /\ DayOf(d) < 365 * (d.year - 1) + d.year \div 4
<1>1. d.year \in Int /\ d.mon \in 0 .. 12 /\ d.mon \in 0 .. 11
  BY DEF Dated
<1>2. MonthStart(d.year, d.mon) \in Nat /\ MonthLength(d.year, d.mon) \in 28 .. 31
  BY <1>1, StartIsNat, LengthIsNat, Zenon
<1>3. MonthStart(d.year, d.mon) + MonthLength(d.year, d.mon)
        <= 365 + (IF d.year % 4 = 0 THEN 1 ELSE 0)
  BY <1>1, YearEnds
<1>4. d.mday \in Int /\ d.mday >= 1 /\ d.mday <= MonthLength(d.year, d.mon)
  BY DEF Dated
<1> QED
  BY <1>1, <1>2, <1>3, <1>4 DEF DayOf

(* A number of days is that of one date only.                               *)
LEMMA DateUnique ==
  ASSUME NEW d, NEW e, Dated(d), Dated(e), DayOf(d) = DayOf(e)
  PROVE  d.year = e.year /\ d.mon = e.mon /\ d.mday = e.mday
<1>1. d.year = e.year
  <2>1. d.year \in Int /\ e.year \in Int
    BY DEF Dated
  <2>2. ~(d.year < e.year)
    BY <2>1, DayOfBounds
  <2>3. ~(e.year < d.year)
    BY <2>1, DayOfBounds
  <2> QED
    BY <2>1, <2>2, <2>3
<1> DEFINE yr == d.year
<1>2. /\ yr \in Int /\ d.mon \in 0 .. 11 /\ e.mon \in 0 .. 11 /\ d.mday \in Int /\ e.mday \in Int
      /\ d.mday >= 1 /\ e.mday >= 1
      /\ d.mday <= MonthLength(yr, d.mon) /\ e.mday <= MonthLength(yr, e.mon)
      /\ d.mon \in 0 .. 12 /\ e.mon \in 0 .. 12
  BY <1>1 DEF Dated
<1>3. MonthStart(yr, d.mon) \in Nat /\ MonthStart(yr, e.mon) \in Nat
  BY <1>2, StartIsNat, Zenon
<1>4. MonthLength(yr, d.mon) \in Int /\ MonthLength(yr, e.mon) \in Int
  <2>1. MonthLength(yr, d.mon) \in 28 .. 31 /\ MonthLength(yr, e.mon) \in 28 .. 31
    BY <1>2, LengthIsNat, Zenon
  <2> QED
    BY <2>1
<1>5. MonthStart(yr, d.mon) + d.mday = MonthStart(yr, e.mon) + e.mday
  BY <1>1, <1>2, <1>3 DEF DayOf
<1>6. ~(d.mon < e.mon)
  <2>1. d.mon < e.mon => MonthStart(yr, d.mon) + MonthLength(yr, d.mon) <= MonthStart(yr, e.mon)
    BY <1>2, MonthsAreApart
  <2> HIDE DEF yr
  <2> QED
    BY <2>1, <1>2, <1>3, <1>4, <1>5
<1>7. ~(e.mon < d.mon)
  <2>1. e.mon < d.mon => MonthStart(yr, e.mon) + MonthLength(yr, e.mon) <= MonthStart(yr, d.mon)
    BY <1>2, MonthsAreApart
  <2> HIDE DEF yr
  <2> QED
    BY <2>1, <1>2, <1>3, <1>4, <1>5
<1>8. d.mon = e.mon
  BY <1>2, <1>6, <1>7
<1> QED
  BY <1>1, <1>2, <1>3, <1>5, <1>8

(* What localtime makes of a date that is none of the three kinds.          *)
LEMMA ReturnedDate ==
  ASSUME WalkIsDay, NEW d, Asked(d), time(d)[1] - 1 = passed,
         ~FirstOfMonth(d), ~TurnOfYear(d), ~Late(d),
         NEW w \in Corrected(walk)
  PROVE  /\ w.year + 68 = d.year /\ w.mon = d.mon /\ w.mday = d.mday
         /\ w.wday = (DayNumber(d) + 3) % 7
         /\ time(d)[2] = d.time + 200
<1>1. /\ d.year \in 100 .. 179 /\ d.mon \in 0 .. 11 /\ d.mday \in 1 .. 31
      /\ d.mday <= MonthLength(d.year, d.mon) /\ d.time \in Nat
  BY DEF Asked, IsDate
<1>2. time(d) = <<DayNumber(d) + (IF d.year % 4 = 0 THEN 1 ELSE 0), d.time + 200>>
  <2>1. ~(d.mon = 11 /\ d.mday = 31) /\ d.time < 86200
    BY <1>1 DEF TurnOfYear, Late
  <2> QED
    BY <2>1, TimeOfDate
<1> DEFINE N == DayNumber(d)
           e(k) == [year |-> d.year - 68, mon |-> d.mon, mday |-> d.mday - k]
<1>3. MonthLength(d.year - 68, d.mon) = MonthLength(d.year, d.mon)
      /\ MonthStart(d.year - 68, d.mon) = MonthStart(d.year, d.mon)
  <2>1. (d.year - 68) % 4 = d.year % 4
    BY <1>1
  <2> QED
    BY <2>1, Zenon DEF MonthLength, MonthStart
<1>4. N = 365 * (d.year - 70) + (d.year - 69) \div 4 + MonthStart(d.year, d.mon) + d.mday - 1
  BY <1>1, DayNumberIs
<1>5. MonthStart(d.year, d.mon) \in Nat
  BY AskedStart
<1> HIDE DEF N
<1>6. N \in Int
  <2>1. d.year \in Int /\ d.mday \in Int
    BY <1>1
  <2> QED
    BY <2>1, <1>4, <1>5
<1>7. ASSUME NEW k \in 0 .. 1, d.mday - k >= 1
      PROVE  Dated(e(k)) /\ DayOf(e(k)) = N - k
  <2>1. Dated(e(k))
    BY <1>1, <1>3, <1>7, LengthIsNat DEF Dated
  <2>2. DayOf(e(k)) = 365 * ((d.year - 68) - 2) + ((d.year - 68) - 1) \div 4
                        + MonthStart(d.year - 68, d.mon) + (d.mday - k) - 1
    BY DEF DayOf
  <2>3. DayOf(e(k)) = N - k
    <3>1. d.year \in Int /\ d.mday \in Int
      BY <1>1
    <3> HIDE DEF e
    <3> QED
      BY <2>2, <3>1, <1>3, <1>4, <1>5
  <2> QED
    BY <2>1, <2>3
<1>8. PICK n : n = NewYear(walk)
  OBVIOUS
<1>9. /\ n.year \in Nat /\ n.mon \in 0 .. 11 /\ n.mday = walk.mday
      /\ walk.mday <= MonthLength(n.year, n.mon)
      /\ DayOf(n) = passed
      /\ (n.mon = 0 /\ walk.mday = 1) \/ n = walk
  BY <1>8, NewYearSameDay
<1>10. Dated(n)
  BY <1>9 DEF Dated, WalkIsDay
<1>11. walk.wday = (passed + 3) % 7
  BY DEF WalkIsDay
<1>12. CASE d.year % 4 = 0
  <2>1. passed = N
    BY <1>2, <1>6, <1>12 DEF N
  <2>2. Dated(e(0)) /\ DayOf(e(0)) = N
    BY <1>1, <1>6, <1>7
  <2>3. n.year = d.year - 68 /\ n.mon = d.mon /\ n.mday = d.mday
    <3>1. n.year = e(0).year /\ n.mon = e(0).mon /\ n.mday = e(0).mday
      <4> HIDE DEF e
      <4> QED
        BY <2>1, <2>2, <1>9, <1>10, DateUnique
    <3> QED
      BY <3>1, <1>1
  <2>4. n = walk
    BY <2>3, <1>1, <1>9 DEF TurnOfYear
  <2>5. walk.year % 4 = 0
    BY <2>3, <2>4, <1>1, <1>12
  <2>6. w = walk
    BY <2>5 DEF Corrected
  <2> QED
    BY <2>1, <2>3, <2>4, <2>6, <1>1, <1>2, <1>11 DEF N
<1>13. CASE d.year % 4 # 0
  <2>1. passed = N - 1
    BY <1>2, <1>6, <1>13 DEF N
  <2>2. d.mday - 1 >= 1 /\ ~(d.mon = 0 /\ d.mday - 1 = 1)
    BY <1>1, <1>13 DEF FirstOfMonth, TurnOfYear
  <2>3. Dated(e(1)) /\ DayOf(e(1)) = N - 1
    BY <2>2, <1>7
  <2>4. n.year = d.year - 68 /\ n.mon = d.mon /\ n.mday = d.mday - 1
    <3>1. n.year = e(1).year /\ n.mon = e(1).mon /\ n.mday = e(1).mday
      <4> HIDE DEF e
      <4> QED
        BY <2>1, <2>3, <1>9, <1>10, DateUnique
    <3> QED
      BY <3>1, <1>1
  <2>5. n = walk
    BY <2>2, <2>4, <1>1, <1>9
  <2>6. walk.year = d.year - 68 /\ walk.mon = d.mon /\ walk.mday = d.mday - 1
    BY <2>4, <2>5
  <2>7. walk.year % 4 # 0 /\ walk.mon # 12
    BY <2>6, <1>1, <1>13
  <2>8. d.mday <= NUMERO_GIORNI[d.mon + 1]
    BY <1>1, <1>13, Zenon DEF MonthLength
  <2>9. ~(walk.mday + 1 > NUMERO_GIORNI[walk.mon + 1])
    <3>1. walk.mday + 1 = d.mday
      BY <2>6, <1>1
    <3>2. NUMERO_GIORNI[d.mon + 1] \in Int
      BY <1>1 DEF NUMERO_GIORNI
    <3> QED
      BY <3>1, <3>2, <2>6, <2>8, <1>1
  <2>10. w = OneDayMore(walk, FALSE)
    <3>1. LongerThanMonth(walk) = {FALSE}
      <4>1. (walk.mday + 1 > NUMERO_GIORNI[walk.mon + 1]) = FALSE
        BY <2>9
      <4>2. LongerThanMonth(walk) = {walk.mday + 1 > NUMERO_GIORNI[walk.mon + 1]}
        BY <2>7, Zenon DEF LongerThanMonth
      <4> QED
        BY <4>1, <4>2, Zenon
    <3>2. Corrected(walk) = {OneDayMore(walk, over) : over \in {FALSE}}
      BY <2>7, <3>1, Zenon DEF Corrected
    <3> QED
      BY <3>2, Zenon
  <2>11. walk = [year |-> walk.year, mon |-> walk.mon, mday |-> walk.mday,
                 wday |-> walk.wday, yday |-> walk.yday]
    BY DEF WalkIsDay
  <2>12. w = [[walk EXCEPT !.mday = @ + 1] EXCEPT !.wday = (@ + 1) % 7]
    BY <2>7, <2>10, <2>11 DEF OneDayMore, NewYear
  <2>13. w.year = walk.year /\ w.mon = walk.mon /\ w.mday = walk.mday + 1
         /\ w.wday = (walk.wday + 1) % 7
    BY <2>11, <2>12
  <2>14. (walk.wday + 1) % 7 = (N + 3) % 7
    BY <2>1, <1>6, <1>11
  <2> QED
    BY <2>6, <2>13, <2>14, <1>1, <1>2 DEF N
<1> QED
  BY <1>12, <1>13

CalendarInv == WalkIsDay /\ DateKept

(* DateKept holds of every date that the clock can give.                    *)
THEOREM CalendarKeepsDates == CalendarSpec => []DateKept
<1>1. CalendarInit => CalendarInv
  <2> SUFFICES ASSUME CalendarInit PROVE CalendarInv
    OBVIOUS
  <2>1. walk = [year |-> 2, mon |-> 0, mday |-> 1, wday |-> 3, yday |-> 0] /\ passed = 0
    BY DEF CalendarInit, Start
  <2>2. MonthStart(2, 0) = 0
    BY YearStartsAtZero
  <2>3. WalkIsDay
    BY <2>1, <2>2 DEF WalkIsDay, DayOf, MonthLength, NUMERO_GIORNI
  <2> QED
    BY <2>3 DEF CalendarInit, CalendarInv, DateKept
<1>2. CalendarInv /\ [CalendarNext]_calendar_vars => CalendarInv'
  <2> SUFFICES ASSUME CalendarInv, [CalendarNext]_calendar_vars PROVE CalendarInv'
    OBVIOUS
  <2>1. CASE localtime_day
    BY <2>1, WalkGoesOn DEF CalendarInv, localtime_day, DateKept
  <2>2. CASE localtime_return
    <3>1. PICK yr \in Years, m \in 0 .. 11, d \in 1 .. 31, s \in Clock :
            LET date == [year |-> yr, mon |-> m, mday |-> d, time |-> s]
                Tempo == time(date)
            IN  /\ IsDate(date) /\ Tempo[1] - 1 = passed
                /\ asked' = date
                /\ \E w \in Corrected(walk) : shown' = struct_tm(w, Tempo[2])
      BY <2>2 DEF localtime_return
    <3> DEFINE date == [year |-> yr, mon |-> m, mday |-> d, time |-> s]
    <3>2. Asked(date)
      <4>1. date.year \in 100 .. 179 /\ date.mon \in 0 .. 11 /\ date.mday \in 1 .. 31
        BY CalendarAssumption
      <4>2. date.time \in Nat /\ date.time < 86400
        BY CalendarAssumption
      <4> QED
        <5>1. IsDate(date)
          BY <3>1
        <5> HIDE DEF date
        <5> QED
          BY <4>1, <4>2, <5>1 DEF Asked
    <3>3. PICK w \in Corrected(walk) : shown' = struct_tm(w, time(date)[2])
      BY <3>1
    <3>4. asked' = date /\ time(date)[1] - 1 = passed
      BY <3>1
    <3> HIDE DEF date
    <3>5. WalkIsDay
      BY DEF CalendarInv
    <3>6. DateKept'
      <4> SUFFICES ASSUME ~FirstOfMonth(date), ~TurnOfYear(date), ~Late(date)
                   PROVE  /\ <<shown'.year, shown'.mon, shown'.mday>>
                               = <<date.year, date.mon, date.mday>>
                          /\ shown'.wday = (DayNumber(date) + 3) % 7
                          /\ 3600 * shown'.hour + 60 * shown'.min + shown'.sec = date.time + 200
        BY <3>4 DEF DateKept
      <4>1. /\ w.year + 68 = date.year /\ w.mon = date.mon /\ w.mday = date.mday
            /\ w.wday = (DayNumber(date) + 3) % 7
            /\ time(date)[2] = date.time + 200
        BY <3>2, <3>4, <3>5, ReturnedDate
      <4>2. date.time \in Nat
        BY <3>2 DEF Asked
      <4>3. shown' = [sec |-> (date.time + 200) % 60, min |-> ((date.time + 200) \div 60) % 60,
                      hour |-> (date.time + 200) \div 3600, mday |-> w.mday, mon |-> w.mon,
                      year |-> w.year + 68, wday |-> w.wday, yday |-> w.yday]
        BY <3>3, <4>1 DEF struct_tm
      <4> QED
        BY <4>1, <4>2, <4>3
    <3>7. WalkIsDay'
      BY <2>2, <3>5 DEF localtime_return, WalkIsDay, DayOf
    <3> QED
      BY <3>6, <3>7 DEF CalendarInv
  <2>3. CASE localtime_call
    <3>1. /\ walk' = [year |-> 2, mon |-> 0, mday |-> 1, wday |-> 3, yday |-> shown.yday]
          /\ passed' = 0 /\ asked' = NoDate
      BY <2>3 DEF localtime_call, Start
    <3>2. MonthStart(2, 0) = 0
      BY YearStartsAtZero
    <3>3. WalkIsDay'
      BY <3>1, <3>2 DEF WalkIsDay, DayOf, MonthLength, NUMERO_GIORNI
    <3> QED
      BY <3>1, <3>3 DEF CalendarInv, DateKept
  <2>4. CASE UNCHANGED calendar_vars
    BY <2>4 DEF calendar_vars, CalendarInv, WalkIsDay, DayOf, DateKept
  <2> QED
    BY <2>1, <2>2, <2>3, <2>4 DEF CalendarNext
<1>3. CalendarInv => DateKept
  BY DEF CalendarInv
<1> QED
  BY <1>1, <1>2, <1>3, PTL DEF CalendarSpec

-----------------------------------------------------------------------------
(* A memory of characters, and facts about the strings in it; the searches  *)
(* also need that they are bytes.                                           *)
Memory == [Cell -> Nat]
ByteMemory == [Cell -> 0 .. 255]

(* The memory of bytes is one of numbers, and no letter is NUL.             *)
LEMMA MemorySizes ==
  /\ SIZE \in Nat /\ [Cell -> Byte] \subseteq Memory /\ 0 \in Byte
  /\ [Cell -> Byte] \subseteq ByteMemory /\ ByteMemory \subseteq Memory
  /\ \A c \in Letters : c # 0 /\ c \in Nat
<1>1. SIZE \in Nat /\ Letters \subseteq 1 .. 255
  BY CStringAssumption
<1>2. \A c \in Letters : c # 0 /\ c \in Nat
  BY <1>1
<1>3. Byte \subseteq Nat
  BY <1>2 DEF Byte
<1>4. [Cell -> Byte] \subseteq Memory
  BY <1>3 DEF Memory
<1>5. Byte \subseteq 0 .. 255
  BY <1>1 DEF Byte
<1>6. [Cell -> Byte] \subseteq ByteMemory
  BY <1>5 DEF ByteMemory
<1>7. ByteMemory \subseteq Memory
  BY DEF ByteMemory, Memory
<1> QED
  BY <1>1, <1>2, <1>4, <1>6, <1>7 DEF Byte

(* A string ends at its first NUL.                                          *)
LEMMA StringEnds ==
  ASSUME NEW m \in Memory, NEW p, IsString(m, p)
  PROVE  /\ p \in Cell /\ p \in Nat /\ strlen(m, p) \in Nat /\ End(m, p) = p + strlen(m, p)
         /\ End(m, p) \in Cell /\ End(m, p) >= p /\ m[End(m, p)] = 0
         /\ \A i \in p .. End(m, p) - 1 : i \in Cell /\ m[i] # 0
<1>1. SIZE \in Nat
  BY MemorySizes
<1>2. p \in Cell /\ p \in Nat /\ NulsFrom(m, p) # {} /\ NulsFrom(m, p) \subseteq Nat
  BY <1>1 DEF IsString, Cell, NulsFrom
<1> DEFINE e == Min(NulsFrom(m, p))
<1>3. e \in NulsFrom(m, p) /\ \A k \in NulsFrom(m, p) : e <= k
  BY <1>2, MinIsLeast
<1> HIDE DEF e
<1>4. e \in Cell /\ e >= p /\ m[e] = 0 /\ \A i \in p .. e - 1 : i \in Cell /\ m[i] # 0
  BY <1>1, <1>2, <1>3 DEF NulsFrom, Cell
<1>5. strlen(m, p) = e - p /\ End(m, p) = p + (e - p)
  BY Zenon DEF strlen, End, e
<1>6. e \in Nat /\ p + (e - p) = e /\ e - p \in Nat
  BY <1>1, <1>2, <1>4 DEF Cell
<1> QED
  BY <1>2, <1>4, <1>5, <1>6

(* The first NUL behind a pointer is the end of its string.                 *)
LEMMA EndIs ==
  ASSUME NEW m \in Memory, NEW p \in Nat, NEW e \in Cell, e >= p, m[e] = 0,
         \A i \in p .. e - 1 : m[i] # 0
  PROVE  IsString(m, p) /\ End(m, p) = e /\ strlen(m, p) = e - p
<1>1. SIZE \in Nat
  BY MemorySizes
<1>2. e \in NulsFrom(m, p) /\ NulsFrom(m, p) \subseteq Nat /\ \A k \in NulsFrom(m, p) : e <= k
  BY <1>1 DEF NulsFrom, Cell
<1>3. Min(NulsFrom(m, p)) = e
  BY <1>2, MinIs
<1>4. p \in Cell
  BY <1>1 DEF Cell
<1>5. p + (e - p) = e
  BY <1>1 DEF Cell
<1> QED
  BY <1>2, <1>3, <1>4, <1>5, Zenon DEF IsString, strlen, End

(* A string as a sequence.                                                  *)
LEMMA StrIs ==
  ASSUME NEW m \in Memory, NEW p, IsString(m, p)
  PROVE  /\ Str(m, p) \in Seq(Nat) /\ Len(Str(m, p)) = strlen(m, p)
         /\ \A i \in 1 .. strlen(m, p) : Str(m, p)[i] = m[p + i - 1]
         /\ \A i \in 0 .. strlen(m, p) - 1 : m[p + i] # 0 /\ p + i \in Cell
         /\ m[p + strlen(m, p)] = 0 /\ p + strlen(m, p) \in Cell
         /\ strlen(m, p) \in Nat /\ p \in Nat
<1>1. /\ p \in Nat /\ strlen(m, p) \in Nat /\ End(m, p) = p + strlen(m, p)
      /\ m[End(m, p)] = 0 /\ End(m, p) \in Cell
      /\ \A i \in p .. End(m, p) - 1 : i \in Cell /\ m[i] # 0
  BY StringEnds
<1> DEFINE n == strlen(m, p)
<1>2. n \in Nat /\ \A i \in p .. p + n - 1 : i \in Cell /\ m[i] # 0
  BY <1>1
<1>3. Str(m, p) = [i \in 1 .. n |-> m[p + i - 1]]
  BY DEF Str
<1>4. m[p + n] = 0 /\ p + n \in Cell
  BY <1>1
<1> HIDE DEF n
<1>5. \A i \in 1 .. n : m[p + i - 1] \in Nat
  <2>1. \A i \in 1 .. n : p + i - 1 \in Cell
    BY <1>1, <1>2
  <2> QED
    BY <2>1 DEF Memory
<1>6. Str(m, p) \in Seq(Nat) /\ Len(Str(m, p)) = n /\ \A i \in 1 .. n : Str(m, p)[i] = m[p + i - 1]
  BY <1>2, <1>3, <1>5, IsASeq
<1>7. \A i \in 0 .. n - 1 : m[p + i] # 0 /\ p + i \in Cell
  BY <1>1, <1>2
<1> QED
  BY <1>1, <1>2, <1>4, <1>6, <1>7 DEF n

(* Two strings, perhaps of two memories, are equal character by character.  *)
LEMMA SameStrings ==
  ASSUME NEW m \in Memory, NEW p, IsString(m, p), NEW o \in Memory, NEW q, IsString(o, q)
  PROVE  Str(m, p) = Str(o, q) <=>
           strlen(m, p) = strlen(o, q) /\ \A i \in 0 .. strlen(m, p) - 1 : m[p + i] = o[q + i]
<1> DEFINE s == Str(m, p)
           t == Str(o, q)
           n == strlen(m, p)
           k == strlen(o, q)
<1>1. /\ s \in Seq(Nat) /\ Len(s) = n /\ \A i \in 1 .. n : s[i] = m[p + i - 1]
      /\ n \in Nat /\ p \in Nat
  BY StrIs
<1>2. /\ t \in Seq(Nat) /\ Len(t) = k /\ \A i \in 1 .. k : t[i] = o[q + i - 1]
      /\ k \in Nat /\ q \in Nat
  BY StrIs
<1> HIDE DEF s, t, n, k
<1>3. ASSUME s = t PROVE n = k /\ \A i \in 0 .. n - 1 : m[p + i] = o[q + i]
  <2>1. n = k
    BY <1>1, <1>2, <1>3
  <2>2. ASSUME NEW i \in 0 .. n - 1 PROVE m[p + i] = o[q + i]
    <3>1. i + 1 \in 1 .. n /\ p + (i + 1) - 1 = p + i /\ q + (i + 1) - 1 = q + i
      BY <1>1, <1>2
    <3>2. s[i + 1] = m[p + i] /\ t[i + 1] = o[q + i]
      BY <1>1, <1>2, <2>1, <3>1
    <3> QED
      BY <1>3, <3>2
  <2> QED
    BY <2>1, <2>2
<1>4. ASSUME n = k, \A i \in 0 .. n - 1 : m[p + i] = o[q + i] PROVE s = t
  <2>1. ASSUME NEW i \in 1 .. n PROVE s[i] = t[i]
    <3>1. i - 1 \in 0 .. n - 1 /\ p + (i - 1) = p + i - 1 /\ q + (i - 1) = q + i - 1
      BY <1>1, <1>2
    <3>2. m[p + i - 1] = o[q + i - 1]
      BY <1>4, <3>1
    <3> QED
      BY <1>1, <1>2, <1>4, <3>2
  <2> QED
    BY <1>1, <1>2, <1>4, <2>1, SeqEqual
<1> QED
  BY <1>3, <1>4 DEF s, t, n, k

(* A beginning of a sequence agrees with it place by place.                 *)
LEMMA PrefixIs ==
  ASSUME NEW s \in Seq(Nat), NEW t \in Seq(Nat)
  PROVE  IsPrefix(s, t) <=> Len(s) <= Len(t) /\ \A i \in 1 .. Len(s) : s[i] = t[i]
<1> DEFINE a == SubSeq(s, 1, Len(s))
           b == SubSeq(t, 1, Len(s))
<1>1. Len(s) \in Nat /\ Len(t) \in Nat
  BY LenProperties
<1>2. SUFFICES ASSUME Len(s) <= Len(t)
               PROVE  a = b <=> \A i \in 1 .. Len(s) : s[i] = t[i]
  BY Zenon DEF IsPrefix
<1>3. (\A i \in 1 .. Len(s) : s[i] \in Nat) /\ (\A i \in 1 .. Len(s) : t[i] \in Nat)
  BY <1>1, <1>2, ElementOfSeq
<1>4. a \in Seq(Nat) /\ Len(a) = Len(s) /\ \A i \in 1 .. Len(s) : a[i] = s[i]
  BY <1>1, <1>3, SubSeqProperties
<1>5. b \in Seq(Nat) /\ Len(b) = Len(s) /\ \A i \in 1 .. Len(s) : b[i] = t[i]
  BY <1>1, <1>3, SubSeqProperties
<1> HIDE DEF a, b
<1>6. (\A i \in 1 .. Len(s) : s[i] = t[i]) => a = b
  BY <1>4, <1>5, SeqEqual
<1> QED
  BY <1>4, <1>5, <1>6

(* How far two strings agree.                                               *)
LEMMA CommonIs ==
  ASSUME NEW m \in Memory, NEW p, IsString(m, p), NEW q, IsString(m, q)
  PROVE  /\ Common(m, p, q) \in Nat
         /\ Common(m, p, q) <= strlen(m, p) /\ Common(m, p, q) <= strlen(m, q)
         /\ \A i \in 0 .. Common(m, p, q) - 1 : m[p + i] = m[q + i]
         /\ m[q + Common(m, p, q)] = 0 \/ m[p + Common(m, p, q)] # m[q + Common(m, p, q)]
<1> DEFINE a == strlen(m, p)
           b == strlen(m, q)
           c == Min({a, b})
           S == {i \in 0 .. c : m[q + i] = 0 \/ m[p + i] # m[q + i]}
           n == Min(S)
<1>1. a \in Nat /\ m[p + a] = 0 /\ b \in Nat /\ m[q + b] = 0
  BY StrIs
<1> HIDE DEF a, b
<1>2. c \in {a, b} /\ c <= a /\ c <= b
  BY <1>1, MinIsLeast
<1> HIDE DEF c
<1>3. c \in S /\ S \subseteq Nat
  BY <1>1, <1>2
<1>4. n \in S /\ \A k \in S : n <= k
  <2> HIDE DEF S
  <2> QED
    BY <1>3, MinIsLeast
<1> HIDE DEF n
<1>5. n \in 0 .. c /\ (m[q + n] = 0 \/ m[p + n] # m[q + n])
  BY <1>4
<1>6. \A i \in 0 .. n - 1 : m[p + i] = m[q + i]
  BY <1>1, <1>2, <1>4, <1>5
<1>7. n \in Nat /\ n <= a /\ n <= b
  BY <1>1, <1>2, <1>5
<1>8. Common(m, p, q) = n
  BY Zenon DEF Common, n, S, c, a, b
<1> QED
  BY <1>5, <1>6, <1>7, <1>8 DEF a, b

(* strcmp is 0 for equal strings and -1 for a proper beginning.             *)
LEMMA CompareIs ==
  ASSUME NEW m \in Memory, NEW p, IsString(m, p), NEW q, IsString(m, q)
  PROVE  /\ strcmp(m, p, q) = 0 <=> Str(m, p) = Str(m, q)
         /\ strcmp(m, p, q) = -1 <=> Str(m, p) # Str(m, q) /\ IsPrefix(Str(m, p), Str(m, q))
<1> DEFINE a == strlen(m, p)
           b == strlen(m, q)
           n == Common(m, p, q)
           s == Str(m, p)
           t == Str(m, q)
<1>1. /\ n \in Nat /\ n <= a /\ n <= b /\ \A i \in 0 .. n - 1 : m[p + i] = m[q + i]
      /\ m[q + n] = 0 \/ m[p + n] # m[q + n]
  BY CommonIs
<1>2. /\ s \in Seq(Nat) /\ Len(s) = a /\ \A i \in 1 .. a : s[i] = m[p + i - 1]
      /\ \A i \in 0 .. a - 1 : m[p + i] # 0
      /\ m[p + a] = 0 /\ a \in Nat /\ p \in Nat
  BY StrIs
<1>3. /\ t \in Seq(Nat) /\ Len(t) = b /\ \A i \in 1 .. b : t[i] = m[q + i - 1]
      /\ \A i \in 0 .. b - 1 : m[q + i] # 0
      /\ m[q + b] = 0 /\ b \in Nat /\ q \in Nat
  BY StrIs
<1>4. s = t <=> a = b /\ \A i \in 0 .. a - 1 : m[p + i] = m[q + i]
  BY SameStrings
<1>5. strcmp(m, p, q) = Order(m[p + n], m[q + n])
  BY Zenon DEF strcmp
<1> HIDE DEF a, b, n, s, t
<1>6. IsPrefix(s, t) <=> a <= b /\ \A i \in 1 .. a : s[i] = t[i]
  <2>1. IsPrefix(s, t) <=> Len(s) <= Len(t) /\ \A i \in 1 .. Len(s) : s[i] = t[i]
    <3>1. s \in Seq(Nat) /\ t \in Seq(Nat)
      BY <1>2, <1>3
    <3> QED
      BY <3>1, PrefixIs, Zenon
  <2> QED
    BY <1>2, <1>3, <2>1
<1>7. strcmp(m, p, q) = 0 <=> m[p + n] = m[q + n]
  BY <1>5 DEF Order
<1>8. strcmp(m, p, q) = -1 <=> m[p + n] = 0 /\ m[q + n] # 0
  <2>1. CASE m[p + n] = m[q + n]
    BY <1>5, <2>1 DEF Order
  <2>2. CASE m[p + n] # m[q + n] /\ m[p + n] = 0
    BY <1>5, <2>2 DEF Order
  <2>3. CASE m[p + n] # m[q + n] /\ m[p + n] # 0
    BY <1>5, <2>3 DEF Order
  <2> QED
    BY <2>1, <2>2, <2>3
<1>15. (m[p + n] = 0 <=> n = a) /\ (m[q + n] = 0 <=> n = b)
  <2>1. n < a => n \in 0 .. a - 1
    BY <1>1, <1>2
  <2>2. n < a => m[p + n] # 0
    BY <1>2, <2>1
  <2>3. n < b => n \in 0 .. b - 1
    BY <1>1, <1>3
  <2>4. n < b => m[q + n] # 0
    BY <1>3, <2>3
  <2>5. n = a => m[p + n] = 0
    BY <1>2
  <2>6. n = b => m[q + n] = 0
    BY <1>3
  <2>7. (n < a \/ n = a) /\ (n < b \/ n = b)
    BY <1>1, <1>2, <1>3
  <2> QED
    BY <2>2, <2>4, <2>5, <2>6, <2>7
<1>9. m[p + n] = m[q + n] <=> n = a /\ n = b
  BY <1>1, <1>15
<1>10. s = t <=> n = a /\ n = b
  <2>1. ASSUME n = a, n = b PROVE s = t
    BY <1>1, <1>4, <2>1
  <2>2. ASSUME s = t PROVE n = a /\ n = b
    <3>1. a = b /\ \A i \in 0 .. a - 1 : m[p + i] = m[q + i]
      BY <1>4, <2>2
    <3>2. ASSUME n < a PROVE FALSE
      <4>1. n \in 0 .. a - 1 /\ n \in 0 .. b - 1
        BY <1>1, <1>2, <3>1, <3>2
      <4> QED
        BY <1>1, <1>3, <3>1, <4>1
    <3> QED
      BY <1>1, <1>2, <3>1, <3>2
  <2> QED
    BY <2>1, <2>2
<1>11. (m[p + n] = 0 /\ m[q + n] # 0) <=> n = a /\ n < b
  BY <1>1, <1>3, <1>15
<1>12. IsPrefix(s, t) <=> n = a
  <2>1. ASSUME IsPrefix(s, t) PROVE n = a
    <3>1. ASSUME n < a PROVE FALSE
      <4>1. n \in 0 .. a - 1 /\ n \in 0 .. b - 1 /\ n + 1 \in 1 .. a /\ n + 1 \in 1 .. b
        BY <1>1, <1>2, <1>3, <1>6, <2>1, <3>1
      <4>2. m[p + n] = m[q + n]
        <5>1. s[n + 1] = t[n + 1] /\ p + (n + 1) - 1 = p + n /\ q + (n + 1) - 1 = q + n
          BY <1>1, <1>2, <1>3, <1>6, <2>1, <4>1
        <5> QED
          BY <1>2, <1>3, <4>1, <5>1
      <4> QED
        BY <1>1, <1>3, <4>1, <4>2
    <3> QED
      BY <1>1, <1>2, <3>1
  <2>2. ASSUME n = a PROVE IsPrefix(s, t)
    <3>1. ASSUME NEW i \in 1 .. a PROVE s[i] = t[i]
      <4>1. i - 1 \in 0 .. n - 1 /\ i \in 1 .. b /\ p + (i - 1) = p + i - 1 /\ q + (i - 1) = q + i - 1
        BY <1>1, <1>2, <1>3, <2>2
      <4> QED
        BY <1>1, <1>2, <1>3, <4>1
    <3> QED
      BY <1>1, <1>6, <2>2, <3>1
  <2> QED
    BY <2>1, <2>2
<1>13. strcmp(m, p, q) = 0 <=> s = t
  BY <1>7, <1>9, <1>10
<1>14. strcmp(m, p, q) = -1 <=> s # t /\ IsPrefix(s, t)
  BY <1>1, <1>2, <1>3, <1>8, <1>10, <1>11, <1>12
<1> QED
  BY <1>13, <1>14 DEF s, t

(* The memory in capitals has the same strings in capitals.                 *)
LEMMA CapitalsCompare ==
  ASSUME NEW m \in Memory, NEW p, IsString(m, p), NEW q, IsString(m, q)
  PROVE  strcasecmp(m, p, q) = 0
           <=> [i \in DOMAIN Str(m, p) |-> Upper(Str(m, p)[i])]
                 = [i \in DOMAIN Str(m, q) |-> Upper(Str(m, q)[i])]
<1> DEFINE u == [i \in Cell |-> Upper(m[i])]
           a == strlen(m, p)
           b == strlen(m, q)
           s == Str(m, p)
           t == Str(m, q)
           A == strlen(u, p)
           B == strlen(u, q)
<1>1. /\ s \in Seq(Nat) /\ Len(s) = a /\ \A i \in 1 .. a : s[i] = m[p + i - 1]
      /\ \A i \in 0 .. a - 1 : m[p + i] # 0 /\ p + i \in Cell
      /\ m[p + a] = 0 /\ p + a \in Cell /\ a \in Nat /\ p \in Nat
  BY StrIs
<1>2. /\ t \in Seq(Nat) /\ Len(t) = b /\ \A i \in 1 .. b : t[i] = m[q + i - 1]
      /\ \A i \in 0 .. b - 1 : m[q + i] # 0 /\ q + i \in Cell
      /\ m[q + b] = 0 /\ q + b \in Cell /\ b \in Nat /\ q \in Nat
  BY StrIs
<1>3. /\ u \in Memory
      /\ \A i \in Cell : m[i] \in Nat /\ u[i] = Upper(m[i]) /\ (u[i] = 0 <=> m[i] = 0)
  <2>1. \A c \in Nat : Upper(c) \in Nat /\ (Upper(c) = 0 <=> c = 0)
    BY DEF Upper
  <2>2. \A i \in Cell : m[i] \in Nat
    BY DEF Memory
  <2> QED
    BY <2>1, <2>2 DEF Memory
<1> HIDE DEF u, a, b, s, t
<1>4. IsString(u, p) /\ strlen(u, p) = a
  <2>1. PICK e : e = p + a
    OBVIOUS
  <2>2. /\ e \in Cell /\ e >= p /\ u[e] = 0 /\ e - p = a
        /\ \A i \in p .. e - 1 : u[i] # 0
    <3>1. ASSUME NEW i \in p .. e - 1 PROVE u[i] # 0
      <4>1. i - p \in 0 .. a - 1 /\ p + (i - p) = i
        BY <1>1, <2>1
      <4> QED
        BY <1>1, <1>3, <4>1
    <3> QED
      BY <1>1, <1>3, <2>1, <3>1
  <2> QED
    BY <1>1, <1>3, <2>2, EndIs
<1>5. IsString(u, q) /\ strlen(u, q) = b
  <2>1. PICK e : e = q + b
    OBVIOUS
  <2>2. /\ e \in Cell /\ e >= q /\ u[e] = 0 /\ e - q = b
        /\ \A i \in q .. e - 1 : u[i] # 0
    <3>1. ASSUME NEW i \in q .. e - 1 PROVE u[i] # 0
      <4>1. i - q \in 0 .. b - 1 /\ q + (i - q) = i
        BY <1>2, <2>1
      <4> QED
        BY <1>2, <1>3, <4>1
    <3> QED
      BY <1>2, <1>3, <2>1, <3>1
  <2> QED
    BY <1>2, <1>3, <2>2, EndIs
<1>6. strcasecmp(m, p, q) = 0 <=> a = b /\ \A i \in 0 .. a - 1 : u[p + i] = u[q + i]
  <2>1. strcasecmp(m, p, q) = 0 <=> Str(u, p) = Str(u, q)
    <3>1. strcasecmp(m, p, q) = strcmp(u, p, q)
      BY Zenon DEF strcasecmp, u
    <3> QED
      BY <1>3, <1>4, <1>5, <3>1, CompareIs
  <2> QED
    BY <1>3, <1>4, <1>5, <2>1, SameStrings
<1> DEFINE S == [i \in DOMAIN s |-> Upper(s[i])]
           T == [i \in DOMAIN t |-> Upper(t[i])]
<1>7. /\ DOMAIN s = 1 .. a /\ DOMAIN t = 1 .. b
      /\ \A i \in 1 .. a : S[i] = u[p + (i - 1)]
      /\ \A i \in 1 .. b : T[i] = u[q + (i - 1)]
  <2>1. DOMAIN s = 1 .. a /\ DOMAIN t = 1 .. b
    BY <1>1, <1>2, LenProperties
  <2>2. ASSUME NEW i \in 1 .. a PROVE S[i] = u[p + (i - 1)]
    <3>1. i - 1 \in 0 .. a - 1 /\ p + (i - 1) = p + i - 1
      BY <1>1
    <3> QED
      BY <1>1, <1>3, <2>1, <3>1
  <2>3. ASSUME NEW i \in 1 .. b PROVE T[i] = u[q + (i - 1)]
    <3>1. i - 1 \in 0 .. b - 1 /\ q + (i - 1) = q + i - 1
      BY <1>2
    <3> QED
      BY <1>2, <1>3, <2>1, <3>1
  <2> QED
    BY <2>1, <2>2, <2>3
<1>8. DOMAIN S = 1 .. a /\ DOMAIN T = 1 .. b /\ S = [i \in 1 .. a |-> S[i]] /\ T = [i \in 1 .. b |-> T[i]]
  BY <1>7
<1> HIDE DEF S, T
<1>9. ASSUME S = T PROVE a = b /\ \A i \in 0 .. a - 1 : u[p + i] = u[q + i]
  <2>1. 1 .. a = 1 .. b
    BY <1>8, <1>9
  <2>2. a = b
    <3>1. ASSUME a < b PROVE FALSE
      <4>1. b \in 1 .. b /\ b \notin 1 .. a
        BY <1>1, <1>2, <3>1
      <4> QED
        BY <2>1, <4>1
    <3>2. ASSUME b < a PROVE FALSE
      <4>1. a \in 1 .. a /\ a \notin 1 .. b
        BY <1>1, <1>2, <3>2
      <4> QED
        BY <2>1, <4>1
    <3> QED
      BY <1>1, <1>2, <3>1, <3>2
  <2>3. ASSUME NEW i \in 0 .. a - 1 PROVE u[p + i] = u[q + i]
    <3>1. i + 1 \in 1 .. a /\ i + 1 \in 1 .. b /\ (i + 1) - 1 = i
      BY <1>1, <2>2
    <3>2. S[i + 1] = u[p + i] /\ T[i + 1] = u[q + i]
      BY <1>7, <3>1
    <3> QED
      BY <1>9, <3>2
  <2> QED
    BY <2>2, <2>3
<1>10. ASSUME a = b, \A i \in 0 .. a - 1 : u[p + i] = u[q + i] PROVE S = T
  <2>1. \A i \in 1 .. a : i - 1 \in 0 .. a - 1
    BY <1>1
  <2>2. \A i \in 1 .. a : S[i] = T[i]
    BY <1>7, <1>10, <2>1
  <2> QED
    BY <1>8, <1>10, <2>2
<1> QED
  BY <1>6, <1>9, <1>10 DEF S, T, s, t

(* The least place where two memories differ, n if they do not.             *)
Difference(m, p, q, n) == Min({i \in 0 .. n : i = n \/ m[p + i] # m[q + i]})

(* Where two regions differ first, within n bytes.                          *)
LEMMA FirstDifference ==
  ASSUME NEW m, NEW p \in Nat, NEW q \in Nat, NEW n \in Nat
  PROVE  /\ Difference(m, p, q, n) \in 0 .. n
         /\ \/ Difference(m, p, q, n) = n
            \/ m[p + Difference(m, p, q, n)] # m[q + Difference(m, p, q, n)]
         /\ \A i \in 0 .. Difference(m, p, q, n) - 1 : m[p + i] = m[q + i]
<1> DEFINE d == Difference(m, p, q, n)
           S == {i \in 0 .. n : i = n \/ m[p + i] # m[q + i]}
<1>1. n \in S /\ S \subseteq Nat
  OBVIOUS
<1> HIDE DEF d
<1>2. d \in S /\ \A k \in S : d <= k
  <2> HIDE DEF S
  <2>1. Min(S) \in S /\ \A k \in S : Min(S) <= k
    BY <1>1, MinIsLeast
  <2>2. d = Min(S)
    BY DEF S, Difference, d
  <2> QED
    BY <2>1, <2>2
<1>3. d \in 0 .. n /\ (d = n \/ m[p + d] # m[q + d])
  BY <1>2
<1>4. ASSUME NEW i \in 0 .. d - 1 PROVE m[p + i] = m[q + i]
  <2>1. i \in 0 .. n /\ i < d /\ i # n
    BY <1>3
  <2>2. i \notin S
    BY <1>2, <2>1
  <2> QED
    BY <2>1, <2>2
<1> QED
  BY <1>3, <1>4 DEF d

(* memcmp is 0 for equal regions only.                                      *)
LEMMA BytesCompare ==
  ASSUME NEW m, NEW p \in Nat, NEW q \in Nat, NEW n \in Nat
  PROVE  memcmp(m, p, q, n) = 0 <=> \A i \in 0 .. n - 1 : m[p + i] = m[q + i]
<1> DEFINE d == Difference(m, p, q, n)
<1>2. /\ d \in 0 .. n /\ (d = n \/ m[p + d] # m[q + d])
      /\ \A i \in 0 .. d - 1 : m[p + i] = m[q + i]
  <2>1. d \in 0 .. n
    BY FirstDifference
  <2>2. d = n \/ m[p + d] # m[q + d]
    BY FirstDifference
  <2>3. \A i \in 0 .. d - 1 : m[p + i] = m[q + i]
    BY FirstDifference
  <2> QED
    BY <2>1, <2>2, <2>3
<1>3. memcmp(m, p, q, n) = n - d
  BY Zenon DEF memcmp, Difference
<1> HIDE DEF d
<1>4. n - d = 0 <=> d = n
  BY <1>2
<1>5. d # n => d \in 0 .. n - 1
  BY <1>2
<1> QED
  BY <1>2, <1>3, <1>4, <1>5

(* stringcmp over the length of its first string tells equal strings.       *)
LEMMA PaddedCompare ==
  ASSUME NEW m \in Memory, NEW p, IsString(m, p), NEW q, IsString(m, q),
         q + Len(Str(m, p)) < SIZE
  PROVE  stringcmp(m, p, q, Len(Str(m, p))) = 0 <=> Str(m, p) = Str(m, q)
<1> DEFINE a == strlen(m, p)
           b == strlen(m, q)
<1>1. /\ Len(Str(m, p)) = a /\ \A i \in 0 .. a - 1 : m[p + i] # 0
      /\ m[p + a] = 0 /\ a \in Nat /\ p \in Nat
  BY StrIs
<1>2. /\ \A i \in 0 .. b - 1 : m[q + i] # 0
      /\ m[q + b] = 0 /\ b \in Nat /\ q \in Nat
  BY StrIs
<1>3. Str(m, p) = Str(m, q) <=> a = b /\ \A i \in 0 .. a - 1 : m[p + i] = m[q + i]
  BY SameStrings
<1> HIDE DEF a, b
<1> DEFINE d == Difference(m, p, q, a)
<1>5. /\ d \in 0 .. a /\ (d = a \/ m[p + d] # m[q + d])
      /\ \A i \in 0 .. d - 1 : m[p + i] = m[q + i]
  <2>1. d \in 0 .. a
    BY <1>1, <1>2, FirstDifference
  <2>2. d = a \/ m[p + d] # m[q + d]
    BY <1>1, <1>2, FirstDifference
  <2>3. \A i \in 0 .. d - 1 : m[p + i] = m[q + i]
    BY <1>1, <1>2, FirstDifference
  <2> QED
    BY <2>1, <2>2, <2>3
<1>6. stringcmp(m, p, q, a) = IF m[p + d] # m[q + d] THEN 1 ELSE 0
  BY Zenon DEF stringcmp, Difference
<1> HIDE DEF d
<1>7. ASSUME m[p + d] = m[q + d] PROVE a = b /\ \A i \in 0 .. a - 1 : m[p + i] = m[q + i]
  <2>1. d = a /\ m[q + a] = 0
    BY <1>1, <1>5, <1>7
  <2>2. ~(a < b)
    <3>1. a < b => a \in 0 .. b - 1
      BY <1>1, <1>2
    <3> QED
      BY <1>2, <2>1, <3>1
  <2>3. ~(b < a)
    <3>1. b < a => b \in 0 .. a - 1 /\ b \in 0 .. d - 1
      BY <1>1, <1>2, <2>1
    <3> QED
      BY <1>1, <1>2, <1>5, <3>1
  <2> QED
    BY <1>1, <1>2, <1>5, <2>1, <2>2, <2>3
<1>8. ASSUME a = b, \A i \in 0 .. a - 1 : m[p + i] = m[q + i] PROVE m[p + d] = m[q + d]
  <2>1. CASE d = a
    BY <1>1, <1>2, <1>8, <2>1
  <2>2. CASE d # a
    <3>1. d \in 0 .. a - 1
      BY <1>1, <1>5, <2>2
    <3> QED
      BY <1>8, <3>1
  <2> QED
    BY <2>1, <2>2
<1>9. stringcmp(m, p, q, a) = 0 <=> m[p + d] = m[q + d]
  BY <1>6
<1> QED
  BY <1>1, <1>3, <1>7, <1>8, <1>9

(* strncmp is 0 only if the second string, cut, begins the first.           *)
LEMMA LimitedCompare ==
  ASSUME NEW m \in Memory, NEW p, IsString(m, p), NEW q, IsString(m, q), NEW size \in Nat,
         strncmp(m, p, q, size) = 0
  PROVE  IsPrefix(SubSeq(Str(m, q), 1, size), Str(m, p))
<1> DEFINE n == Common(m, p, q)
           s == Str(m, p)
           t == Str(m, q)
           u == SubSeq(t, 1, size)
<1>1. /\ n \in Nat /\ n <= strlen(m, p) /\ n <= strlen(m, q)
      /\ \A i \in 0 .. n - 1 : m[p + i] = m[q + i]
  BY CommonIs
<1>2. /\ s \in Seq(Nat) /\ Len(s) = strlen(m, p) /\ \A i \in 1 .. strlen(m, p) : s[i] = m[p + i - 1]
      /\ strlen(m, p) \in Nat /\ p \in Nat
  BY StrIs
<1>3. /\ t \in Seq(Nat) /\ Len(t) = strlen(m, q) /\ \A i \in 1 .. strlen(m, q) : t[i] = m[q + i - 1]
      /\ strlen(m, q) \in Nat /\ q \in Nat
  BY StrIs
<1>4. n = size
  <2>1. strncmp(m, p, q, size)
          = IF n = size THEN 0
            ELSE IF n > size THEN 1
            ELSE IF m[p + n] = 0 /\ m[q + n] # 0 THEN -1 ELSE 1
    BY Zenon DEF strncmp
  <2> HIDE DEF n
  <2>2. CASE n > size
    BY <1>1, <2>1, <2>2
  <2>3. CASE ~(n > size) /\ n # size /\ m[p + n] = 0 /\ m[q + n] # 0
    BY <1>1, <2>1, <2>3
  <2>4. CASE ~(n > size) /\ n # size /\ ~(m[p + n] = 0 /\ m[q + n] # 0)
    BY <1>1, <2>1, <2>4
  <2> QED
    BY <2>2, <2>3, <2>4
<1> HIDE DEF n, s, t
<1>5. \A i \in 1 .. size : t[i] \in Nat
  <2>1. \A i \in 1 .. size : i \in 1 .. Len(t)
    BY <1>1, <1>3, <1>4
  <2> QED
    BY <1>3, <2>1, ElementOfSeq
<1>6. u \in Seq(Nat) /\ Len(u) = size /\ \A i \in 1 .. size : u[i] = t[i]
  BY <1>5, SubSeqProperties
<1> HIDE DEF u
<1>7. ASSUME NEW i \in 1 .. size PROVE u[i] = s[i]
  <2>1. /\ i - 1 \in 0 .. n - 1 /\ p + (i - 1) = p + i - 1 /\ q + (i - 1) = q + i - 1
        /\ i \in 1 .. strlen(m, p) /\ i \in 1 .. strlen(m, q)
    BY <1>1, <1>2, <1>3, <1>4
  <2>2. t[i] = s[i]
    BY <1>1, <1>2, <1>3, <2>1
  <2> QED
    BY <1>6, <2>2
<1>8. IsPrefix(u, s)
  BY <1>1, <1>2, <1>4, <1>6, <1>7, PrefixIs
<1> QED
  BY <1>8 DEF u, s, t

(* All comparisons do what they promise.                                    *)
LEMMA ComparisonsHold == mem \in Memory => ComparisonsAgree
<1> SUFFICES ASSUME mem \in Memory, NEW p \in Strings, NEW q \in Strings
             PROVE  LET s == Str(mem, p)
                        t == Str(mem, q)
                    IN  /\ strcmp(mem, p, q) = 0 <=> s = t
                        /\ strcmp(mem, p, q) = -1 <=> s # t /\ IsPrefix(s, t)
                        /\ strcasecmp(mem, p, q) = 0
                             <=> [i \in DOMAIN s |-> Upper(s[i])] = [i \in DOMAIN t |-> Upper(t[i])]
                        /\ q + Len(s) < SIZE => (stringcmp(mem, p, q, Len(s)) = 0 <=> s = t)
                        /\ \A n \in 0 .. SIZE :
                             /\ strncmp(mem, p, q, n) = 0 => IsPrefix(SubSeq(t, 1, n), s)
                             /\ p + n <= SIZE /\ q + n <= SIZE =>
                                  (memcmp(mem, p, q, n) = 0 <=>
                                     \A i \in 0 .. n - 1 : mem[p + i] = mem[q + i])
  BY Zenon DEF ComparisonsAgree
<1>1. IsString(mem, p) /\ IsString(mem, q)
  BY DEF Strings
<1>2. p \in Nat /\ q \in Nat
  BY <1>1, StrIs
<1>3. /\ strcmp(mem, p, q) = 0 <=> Str(mem, p) = Str(mem, q)
      /\ strcmp(mem, p, q) = -1 <=> Str(mem, p) # Str(mem, q) /\ IsPrefix(Str(mem, p), Str(mem, q))
  BY <1>1, CompareIs
<1>4. strcasecmp(mem, p, q) = 0
        <=> [i \in DOMAIN Str(mem, p) |-> Upper(Str(mem, p)[i])]
              = [i \in DOMAIN Str(mem, q) |-> Upper(Str(mem, q)[i])]
  BY <1>1, CapitalsCompare
<1>5. q + Len(Str(mem, p)) < SIZE =>
        (stringcmp(mem, p, q, Len(Str(mem, p))) = 0 <=> Str(mem, p) = Str(mem, q))
  BY <1>1, PaddedCompare
<1>6. ASSUME NEW n \in 0 .. SIZE
      PROVE  /\ strncmp(mem, p, q, n) = 0 => IsPrefix(SubSeq(Str(mem, q), 1, n), Str(mem, p))
             /\ (memcmp(mem, p, q, n) = 0 <=>
                   \A i \in 0 .. n - 1 : mem[p + i] = mem[q + i])
  <2>1. n \in Nat
    OBVIOUS
  <2> QED
    BY <1>1, <1>2, <2>1, LimitedCompare, BytesCompare
<1> QED
  BY <1>3, <1>4, <1>5, <1>6, Zenon

(* The searches for a character, and the spans.                             *)
LEMMA CharacterFound ==
  ASSUME mem \in ByteMemory, NEW p \in Strings, NEW c \in Letters
  PROVE  /\ c < 128 => strchr(mem, p, c) = FirstOf(Places(p, c))
         /\ c < 128 /\ p > 0 /\ mem[p - 1] # c => strrchr(mem, p, c) = LastOf(Places(p, c))
         /\ memchr(mem, p, c, strlen(mem, p)) = FirstOf(Places(p, c))
<1> DEFINE e == End(mem, p)
<1>1. IsString(mem, p) /\ mem \in Memory
  BY MemorySizes DEF Strings
<1>2. p \in Nat /\ e \in Nat /\ e >= p /\ e = p + strlen(mem, p) /\ mem[e] = 0 /\ strlen(mem, p) \in Nat
      /\ e \in Cell /\ p \in Cell
  <2>1. SIZE \in Nat
    BY MemorySizes
  <2> QED
    BY <1>1, <2>1, StringEnds DEF Cell
<1>3. c # 0 /\ c \in Nat
  BY MemorySizes
<1>3a. c < 128 => \A i \in Cell : SignedChar(mem[i]) = c <=> mem[i] = c
  <2>1. \A i \in Cell : mem[i] \in 0 .. 255
    BY DEF ByteMemory
  <2> QED
    BY <1>3, <2>1 DEF SignedChar
<1>3b. \A i \in p .. e : i \in Cell
  BY <1>2, MemorySizes DEF Cell
<1>3c. p > 0 => p - 1 \in Cell /\ \A i \in p - 1 .. e : i \in Cell
  BY <1>2, MemorySizes DEF Cell
<1>4. c < 128 => strchr(mem, p, c) = FirstOf(Places(p, c))
  <2>1. strchr(mem, p, c) = FirstOf({i \in p .. e - 1 : SignedChar(mem[i]) = c})
    BY Zenon DEF strchr
  <2>2. Places(p, c) = {i \in p .. e - 1 : mem[i] = c}
    BY DEF Places
  <2> HIDE DEF e
  <2>3. \A i \in p .. e - 1 : i \in Cell
    BY <1>2, <1>3b
  <2>4. c < 128 => {i \in p .. e - 1 : SignedChar(mem[i]) = c} = {i \in p .. e - 1 : mem[i] = c}
    BY <1>3a, <2>3
  <2> QED
    BY <2>1, <2>2, <2>4
<1>5. Places(p, c) = {i \in p .. e - 1 : mem[i] = c}
  BY DEF Places
<1>6. c < 128 /\ p > 0 => strrchr(mem, p, c) = LastOf({i \in p - 1 .. e : mem[i] = c})
  <2>1. strrchr(mem, p, c) = LastOf({i \in p - 1 .. e : SignedChar(mem[i]) = c})
    BY DEF strrchr
  <2> HIDE DEF e
  <2>2. c < 128 /\ p > 0
          => {i \in p - 1 .. e : SignedChar(mem[i]) = c} = {i \in p - 1 .. e : mem[i] = c}
    BY <1>3a, <1>3c
  <2> QED
    BY <2>1, <2>2
<1>7. memchr(mem, p, c, strlen(mem, p)) = FirstOf({i \in p .. p + strlen(mem, p) : mem[i] = c})
  BY Zenon DEF memchr
<1> HIDE DEF e
<1>8. ASSUME mem[p - 1] # c
      PROVE  {i \in p - 1 .. e : mem[i] = c} = {i \in p .. e - 1 : mem[i] = c}
  <2>1. ASSUME NEW i \in p - 1 .. e, mem[i] = c PROVE i \in p .. e - 1
    <3>1. i # e /\ i # p - 1
      BY <1>2, <1>3, <1>8, <2>1
    <3> QED
      BY <1>2, <3>1
  <2>2. \A i \in p .. e - 1 : i \in p - 1 .. e
    BY <1>2
  <2> QED
    BY <2>1, <2>2
<1>9. {i \in p .. p + strlen(mem, p) : mem[i] = c} = {i \in p .. e - 1 : mem[i] = c}
  <2>1. ASSUME NEW i \in p .. e, mem[i] = c PROVE i \in p .. e - 1
    <3>1. i # e
      BY <1>2, <1>3, <2>1
    <3> QED
      BY <1>2, <3>1
  <2>2. \A i \in p .. e - 1 : i \in p .. e
    BY <1>2
  <2> QED
    BY <1>2, <2>1, <2>2
<1> QED
  BY <1>4, <1>5, <1>6, <1>7, <1>8, <1>9

(* A span is the whole string if all, or none, of it is in the set.         *)
LEMMA SpansHold ==
  ASSUME NEW m \in Memory, NEW p, IsString(m, p), NEW q
  PROVE  /\ strspn(m, p, q) = strlen(m, p) <=> Chars(m, p) \subseteq Chars(m, q)
         /\ strcspn(m, p, q) = strlen(m, p) <=> Chars(m, p) \cap Chars(m, q) = {}
<1> DEFINE e == End(m, p)
           C == Chars(m, q)
           S == {i \in p .. e : m[i] = 0 \/ m[i] \notin C}
           T == {i \in p .. e : m[i] = 0 \/ m[i] \in C}
           s == Min(S)
           t == Min(T)
<1>1. p \in Nat /\ e \in Nat /\ e >= p /\ e = p + strlen(m, p) /\ m[e] = 0 /\ strlen(m, p) \in Nat
      /\ \A i \in p .. e - 1 : m[i] # 0
  <2>1. SIZE \in Nat
    BY MemorySizes
  <2> QED
    BY <2>1, StringEnds DEF Cell
<1>2. strspn(m, p, q) = s - p /\ strcspn(m, p, q) = t - p
  BY Zenon DEF strspn, strcspn
<1>3. Chars(m, p) = {m[i] : i \in p .. e - 1}
  BY DEF Chars
<1> HIDE DEF e, C
<1>4. e \in S /\ S \subseteq Nat /\ e \in T /\ T \subseteq Nat
  BY <1>1
<1>5. s \in S /\ t \in T /\ (\A k \in S : s <= k) /\ (\A k \in T : t <= k)
  <2> HIDE DEF S, T
  <2> QED
    BY <1>4, MinIsLeast
<1> HIDE DEF s, t
<1>6. s \in Nat /\ t \in Nat /\ s <= e /\ t <= e /\ s >= p /\ t >= p
  BY <1>1, <1>5
<1>7. s = e <=> \A i \in p .. e - 1 : m[i] \in C
  <2>1. ASSUME s = e, NEW i \in p .. e - 1 PROVE m[i] \in C
    <3>1. i \in p .. e /\ ~(e <= i)
      BY <1>1
    <3>2. i \notin S
      BY <1>5, <2>1, <3>1
    <3> QED
      BY <3>1, <3>2
  <2>2. ASSUME \A i \in p .. e - 1 : m[i] \in C PROVE s = e
    <3>1. ASSUME s # e PROVE FALSE
      <4>1. s \in p .. e - 1
        BY <1>1, <1>6, <3>1
      <4> QED
        BY <1>1, <1>5, <2>2, <4>1
    <3> QED
      BY <3>1
  <2> QED
    BY <2>1, <2>2
<1>8. t = e <=> \A i \in p .. e - 1 : m[i] \notin C
  <2>1. ASSUME t = e, NEW i \in p .. e - 1 PROVE m[i] \notin C
    <3>1. i \in p .. e /\ ~(e <= i)
      BY <1>1
    <3>2. i \notin T
      BY <1>5, <2>1, <3>1
    <3> QED
      BY <3>1, <3>2
  <2>2. ASSUME \A i \in p .. e - 1 : m[i] \notin C PROVE t = e
    <3>1. ASSUME t # e PROVE FALSE
      <4>1. t \in p .. e - 1
        BY <1>1, <1>6, <3>1
      <4> QED
        BY <1>1, <1>5, <2>2, <4>1
    <3> QED
      BY <3>1
  <2> QED
    BY <2>1, <2>2
<1>9. (s - p = strlen(m, p) <=> s = e) /\ (t - p = strlen(m, p) <=> t = e)
  BY <1>1, <1>6
<1> HIDE DEF S, T
<1>10. Chars(m, p) \subseteq C <=> \A i \in p .. e - 1 : m[i] \in C
  BY <1>3
<1>11. Chars(m, p) \cap C = {} <=> \A i \in p .. e - 1 : m[i] \notin C
  BY <1>3
<1> QED
  BY <1>2, <1>7, <1>8, <1>9, <1>10, <1>11 DEF C

(* The scan of strstr, from a place in the first string and one in the      *)
(* second: how much is alike, and where it goes on.                         *)
LEMMA AlikeIs ==
  ASSUME NEW m \in Memory, NEW p, IsString(m, p), NEW q, IsString(m, q),
         NEW s \in p .. End(m, p), NEW t \in q .. End(m, q), m[s] # 0
  PROVE  /\ Alike(m, p, q, s, t) \in 0 .. End(m, q) - t
         /\ s + 1 + Alike(m, p, q, s, t) \in p .. End(m, p)
         /\ \/ m[t + Alike(m, p, q, s, t)] = 0
            \/ m[t + Alike(m, p, q, s, t)] # m[s + 1 + Alike(m, p, q, s, t)]
         /\ \A i \in 0 .. Alike(m, p, q, s, t) - 1 :
              m[t + i] # 0 /\ m[t + i] = m[s + 1 + i]
<1> DEFINE e == End(m, p)
           f == End(m, q)
           c == Min({f - t, e - s - 1})
           S == {i \in 0 .. c : m[t + i] = 0 \/ m[t + i] # m[s + 1 + i]}
           n == Min(S)
<1>1. /\ p \in Nat /\ e \in Nat /\ m[e] = 0 /\ q \in Nat /\ f \in Nat /\ m[f] = 0
  <2>1. SIZE \in Nat
    BY MemorySizes
  <2> QED
    BY <2>1, StringEnds DEF Cell
<1> HIDE DEF e, f
<1>2. s \in Nat /\ t \in Nat /\ s >= p /\ t >= q /\ s < e /\ t <= f
  <2>1. s \in p .. e /\ t \in q .. f
    BY DEF e, f
  <2>2. s # e
    BY <1>1
  <2> QED
    BY <1>1, <2>1, <2>2
<1>3. f - t \in Nat /\ e - s - 1 \in Nat
  BY <1>1, <1>2
<1>4. c \in {f - t, e - s - 1} /\ c <= f - t /\ c <= e - s - 1
  BY <1>3, MinIsLeast
<1> HIDE DEF c
<1>5. c \in S /\ S \subseteq Nat
  <2>1. CASE c = f - t
    <3>1. t + c = f
      BY <1>1, <1>2, <2>1
    <3> QED
      BY <1>1, <1>3, <1>4, <3>1
  <2>2. CASE c = e - s - 1
    <3>1. s + 1 + c = e
      BY <1>1, <1>2, <2>2
    <3> QED
      BY <1>1, <1>3, <1>4, <3>1
  <2> QED
    BY <1>4, <2>1, <2>2
<1>6. n \in S /\ \A k \in S : n <= k
  <2> HIDE DEF S
  <2> QED
    BY <1>5, MinIsLeast
<1> HIDE DEF n
<1>7. n \in 0 .. c /\ (m[t + n] = 0 \/ m[t + n] # m[s + 1 + n])
  BY <1>6
<1>8. ASSUME NEW i \in 0 .. n - 1 PROVE m[t + i] # 0 /\ m[t + i] = m[s + 1 + i]
  <2>1. i \in 0 .. c /\ ~(n <= i)
    BY <1>3, <1>4, <1>7
  <2>2. i \notin S
    BY <1>6, <2>1
  <2> QED
    BY <2>1, <2>2
<1>9. n \in 0 .. f - t /\ s + 1 + n \in p .. e
  BY <1>1, <1>2, <1>3, <1>4, <1>7
<1>10. Alike(m, p, q, s, t) = n
  BY Zenon DEF Alike, n, S, c, e, f
<1> QED
  BY <1>7, <1>8, <1>9, <1>10 DEF e, f

(* The scan of strstr is a function that obeys its definition.              *)
LEMMA ScanIs ==
  ASSUME NEW m \in Memory, NEW p, IsString(m, p), NEW q, IsString(m, q), strlen(m, q) # 0
  PROVE  \E h : /\ strstr(m, p, q) = h[<<p, q>>]
                /\ \A s \in p .. End(m, p), t \in q .. End(m, q) :
                     h[<<s, t>>] =
                       IF m[s] = 0 THEN NULL
                       ELSE IF Alike(m, p, q, s, t) > 0 /\ m[t + Alike(m, p, q, s, t)] = 0
                       THEN s + 1 + Alike(m, p, q, s, t) - strlen(m, q)
                       ELSE h[<<s + 1 + Alike(m, p, q, s, t), t + Alike(m, p, q, s, t)>>]
<1> DEFINE e == End(m, p)
           f == End(m, q)
           D == (p .. e) \X (q .. f)
           A(at) == Alike(m, p, q, at[1], at[2])
           Found(at) == A(at) > 0 /\ m[at[2] + A(at)] = 0
           stop == {at \in D : m[at[1]] = 0 \/ Found(at)}
           value == [at \in stop |-> IF m[at[1]] = 0 THEN NULL
                                     ELSE at[1] + 1 + A(at) - strlen(m, q)]
           next == [at \in D \ stop |-> <<at[1] + 1 + A(at), at[2] + A(at)>>]
           rank == [at \in D |-> e - at[1]]
           Is(h) == h = [at \in D |->
                          IF m[at[1]] = 0 THEN NULL
                          ELSE IF Found(at) THEN at[1] + 1 + A(at) - strlen(m, q)
                          ELSE h[<<at[1] + 1 + A(at), at[2] + A(at)>>]]
           scan == CHOOSE h : Is(h)
           any == {value[at] : at \in stop}
<1>1. strstr(m, p, q) = scan[<<p, q>>]
  BY Zenon DEF strstr
<1>2. SIZE \in Nat /\ p \in Nat /\ e \in Nat /\ e >= p /\ q \in Nat /\ f \in Nat
  <2>1. SIZE \in Nat
    BY MemorySizes
  <2> QED
    BY <2>1, StringEnds DEF Cell
<1>3. ASSUME NEW at \in D, m[at[1]] # 0
      PROVE  <<at[1] + 1 + A(at), at[2] + A(at)>> \in D /\ A(at) \in Nat
  <2>1. at[1] \in p .. e /\ at[2] \in q .. f
    OBVIOUS
  <2>2. A(at) \in 0 .. f - at[2] /\ at[1] + 1 + A(at) \in p .. e
    BY <1>3, <2>1, AlikeIs
  <2> HIDE DEF A, e, f
  <2>3. at[2] + A(at) \in q .. f /\ A(at) \in Nat
    BY <1>2, <2>1, <2>2
  <2> QED
    BY <2>2, <2>3
<1> HIDE DEF A, e, f
<1>4. PICK h \in [D -> any] : Walks(h, D, stop, value, next)
  <2>1. e - p \in Nat
    BY <1>2
  <2>2. rank \in [D -> 0 .. e - p]
    BY <1>2
  <2>3. next \in [D \ stop -> D]
    BY <1>3
  <2>4. \A at \in D \ stop : rank[next[at]] < rank[at]
    <3> SUFFICES ASSUME NEW at \in D \ stop
                 PROVE  rank[next[at]] < rank[at]
      OBVIOUS
    <3>1. next[at] \in D /\ next[at][1] = at[1] + 1 + A(at) /\ A(at) \in Nat
      BY <1>3
    <3>2. rank[next[at]] = e - (at[1] + 1 + A(at)) /\ rank[at] = e - at[1] /\ at[1] \in Nat
      BY <1>2, <3>1
    <3> QED
      BY <1>2, <3>1, <3>2
  <2>5. value \in [stop -> any] /\ stop \in SUBSET D
    OBVIOUS
  <2> HIDE DEF D, rank, stop, value, next, any
  <2>6. IsWalk(e - p, D, any, rank, stop, value, next)
    BY <2>1, <2>2, <2>3, <2>4, <2>5, Zenon DEF IsWalk
  <2> QED
    BY <2>6, WalkExists, Zenon
<1>5. Is(h)
  <2>1. ASSUME NEW at \in D
        PROVE  h[at] = IF m[at[1]] = 0 THEN NULL
                       ELSE IF Found(at) THEN at[1] + 1 + A(at) - strlen(m, q)
                       ELSE h[<<at[1] + 1 + A(at), at[2] + A(at)>>]
    BY <1>4 DEF Walks
  <2> HIDE DEF D, Found
  <2> QED
    BY <1>4, <2>1
<1>6. Is(scan)
  <2> HIDE DEF Is
  <2> QED
    BY <1>5
<1> HIDE DEF scan
<1>7. ASSUME NEW s \in p .. e, NEW t \in q .. f
      PROVE  scan[<<s, t>>] =
               IF m[s] = 0 THEN NULL
               ELSE IF Alike(m, p, q, s, t) > 0 /\ m[t + Alike(m, p, q, s, t)] = 0
               THEN s + 1 + Alike(m, p, q, s, t) - strlen(m, q)
               ELSE scan[<<s + 1 + Alike(m, p, q, s, t), t + Alike(m, p, q, s, t)>>]
  <2>1. <<s, t>> \in D /\ <<s, t>>[1] = s /\ <<s, t>>[2] = t
    OBVIOUS
  <2> HIDE DEF D
  <2> QED
    BY <1>6, <2>1, Zenon DEF A
<1> QED
  BY <1>1, <1>7, Zenon DEF e, f

(* A string of one character is found behind the first place.               *)
LEMMA CharacterAsString ==
  ASSUME NEW m \in Memory, NEW p, IsString(m, p), NEW q, IsString(m, q), strlen(m, q) = 1
  PROVE  strstr(m, p, q) = FirstOf({i \in p + 1 .. End(m, p) - 1 : m[i] = m[q]})
<1> DEFINE e == End(m, p)
           Behind(s) == {i \in s + 1 .. e - 1 : m[i] = m[q]}
<1>1. PICK h : /\ strstr(m, p, q) = h[<<p, q>>]
               /\ \A s \in p .. End(m, p), t \in q .. End(m, q) :
                    h[<<s, t>>] =
                      IF m[s] = 0 THEN NULL
                      ELSE IF Alike(m, p, q, s, t) > 0 /\ m[t + Alike(m, p, q, s, t)] = 0
                      THEN s + 1 + Alike(m, p, q, s, t) - strlen(m, q)
                      ELSE h[<<s + 1 + Alike(m, p, q, s, t), t + Alike(m, p, q, s, t)>>]
  BY ScanIs
<1>2. /\ p \in Nat /\ e \in Nat /\ e >= p /\ m[e] = 0 /\ \A i \in p .. e - 1 : m[i] # 0
      /\ q \in Nat /\ End(m, q) = q + 1 /\ m[q] # 0 /\ m[q + 1] = 0
  <2>1. SIZE \in Nat
    BY MemorySizes
  <2>2. /\ p \in Nat /\ e \in Nat /\ e >= p /\ m[e] = 0 /\ \A i \in p .. e - 1 : m[i] # 0
    BY <2>1, StringEnds DEF Cell
  <2>3. /\ q \in Nat /\ End(m, q) = q + 1 /\ m[End(m, q)] = 0
        /\ \A i \in q .. End(m, q) - 1 : m[i] # 0
    BY StringEnds
  <2>4. q \in q .. q + 1 - 1
    BY <2>3
  <2> QED
    BY <2>2, <2>3, <2>4
<1>3. ASSUME NEW s \in p .. e - 1
      PROVE  h[<<s, q>>] = IF m[s + 1] = m[q] THEN s + 1 ELSE h[<<s + 1, q>>]
  <2> DEFINE n == Alike(m, p, q, s, q)
  <2>1. s \in p .. End(m, p) /\ q \in q .. End(m, q) /\ m[s] # 0 /\ s \in Nat
    BY <1>2
  <2>2. /\ n \in 0 .. End(m, q) - q
        /\ m[q + n] = 0 \/ m[q + n] # m[s + 1 + n]
        /\ \A i \in 0 .. n - 1 : m[q + i] # 0 /\ m[q + i] = m[s + 1 + i]
    BY <2>1, AlikeIs
  <2>3. h[<<s, q>>] =
          IF n > 0 /\ m[q + n] = 0 THEN s + 1 + n - strlen(m, q) ELSE h[<<s + 1 + n, q + n>>]
    BY <1>1, <2>1
  <2> HIDE DEF n
  <2>4. n \in 0 .. 1
    BY <1>2, <2>2
  <2>5. CASE n = 0
    <3>1. q + 0 = q /\ s + 1 + 0 = s + 1
      BY <1>2, <2>1
    <3>2. m[s + 1] # m[q]
      BY <1>2, <2>2, <2>5, <3>1
    <3>3. h[<<s, q>>] = h[<<s + 1 + 0, q + 0>>]
      BY <2>3, <2>5
    <3> QED
      BY <3>1, <3>2, <3>3
  <2>6. CASE n = 1
    <3>1. 0 \in 0 .. n - 1 /\ q + 0 = q /\ s + 1 + 0 = s + 1 /\ s + 1 + 1 - 1 = s + 1
      BY <1>2, <2>1, <2>6
    <3>2. m[q] = m[s + 1]
      BY <2>2, <3>1
    <3>3. h[<<s, q>>] = s + 1
      BY <1>2, <2>3, <2>6, <3>1
    <3> QED
      BY <3>2, <3>3
  <2> QED
    BY <2>4, <2>5, <2>6
<1>4. h[<<e, q>>] = NULL
  <2>1. e \in p .. End(m, p) /\ q \in q .. End(m, q)
    BY <1>2
  <2> QED
    BY <1>1, <1>2, <2>1
<1> HIDE DEF e
<1> DEFINE W == {k \in 0 .. e - p : h[<<e - k, q>>] = FirstOf(Behind(e - k))}
<1>5. 0 \in W
  <2>1. Behind(e - 0) = {} /\ e - 0 = e /\ 0 \in 0 .. e - p
    BY <1>2
  <2> QED
    BY <1>4, <2>1 DEF FirstOf
<1>6. ASSUME NEW k \in 1 .. e - p, k - 1 \in W
      PROVE  k \in W
  <2> DEFINE s == e - k
  <2>1. s \in p .. e - 1 /\ e - (k - 1) = s + 1 /\ k \in 0 .. e - p /\ s \in Nat
    BY <1>2
  <2>2. h[<<s + 1, q>>] = FirstOf(Behind(s + 1))
    BY <1>6, <2>1
  <2>3. h[<<s, q>>] = IF m[s + 1] = m[q] THEN s + 1 ELSE h[<<s + 1, q>>]
    BY <1>3, <2>1
  <2>4. k \in W <=> h[<<s, q>>] = FirstOf(Behind(s))
    BY <2>1
  <2> HIDE DEF s, W
  <2>5. CASE m[s + 1] = m[q]
    <3>1. s + 1 # e /\ s + 1 \in s + 1 .. e - 1
      BY <1>2, <2>1, <2>5
    <3>2. s + 1 \in Behind(s) /\ Behind(s) \subseteq Nat /\ \A i \in Behind(s) : s + 1 <= i
      BY <2>1, <2>5, <3>1
    <3> HIDE DEF Behind
    <3>3. Min(Behind(s)) = s + 1 /\ Behind(s) # {}
      BY <3>2, MinIs
    <3> QED
      BY <2>3, <2>4, <2>5, <3>3 DEF FirstOf
  <2>6. CASE m[s + 1] # m[q]
    <3>1. \A i \in s + 1 .. e - 1 : i # s + 1 => i \in s + 1 + 1 .. e - 1
      BY <1>2, <2>1
    <3>2. \A i \in s + 1 + 1 .. e - 1 : i \in s + 1 .. e - 1
      BY <1>2, <2>1
    <3>3. Behind(s) = Behind(s + 1)
      BY <2>6, <3>1, <3>2
    <3> HIDE DEF Behind
    <3> QED
      BY <2>2, <2>3, <2>4, <2>6, <3>3
  <2> QED
    BY <2>5, <2>6
<1>7. e - p \in W
  <2>1. e - p \in Nat /\ e - p \in 0 .. e - p
    BY <1>2
  <2> HIDE DEF W
  <2>2. 0 .. e - p \subseteq W
    BY <1>5, <1>6, <2>1, UpTo
  <2> QED
    BY <2>1, <2>2
<1>8. e - (e - p) = p
  BY <1>2
<1>9. h[<<p, q>>] = FirstOf(Behind(p))
  BY <1>7, <1>8
<1> QED
  BY <1>1, <1>9 DEF e

(* All searches do what they promise.                                       *)
LEMMA SearchesHold == mem \in ByteMemory => SearchesAgree
<1> SUFFICES ASSUME mem \in ByteMemory, NEW p \in Strings, NEW q \in Strings
             PROVE  /\ \A c \in Letters :
                         /\ c < 128 => strchr(mem, p, c) = FirstOf(Places(p, c))
                         /\ c < 128 /\ p > 0 /\ mem[p - 1] # c
                              => strrchr(mem, p, c) = LastOf(Places(p, c))
                         /\ memchr(mem, p, c, strlen(mem, p)) = FirstOf(Places(p, c))
                    /\ strspn(mem, p, q) = strlen(mem, p) <=> Chars(mem, p) \subseteq Chars(mem, q)
                    /\ strcspn(mem, p, q) = strlen(mem, p) <=> Chars(mem, p) \cap Chars(mem, q) = {}
                    /\ strlen(mem, q) = 1 => strstr(mem, p, q) = FirstOf(Places(p, mem[q]) \ {p})
  BY Zenon DEF SearchesAgree
<1>1. IsString(mem, p) /\ IsString(mem, q) /\ mem \in Memory
  BY MemorySizes DEF Strings
<1>2. /\ strspn(mem, p, q) = strlen(mem, p) <=> Chars(mem, p) \subseteq Chars(mem, q)
      /\ strcspn(mem, p, q) = strlen(mem, p) <=> Chars(mem, p) \cap Chars(mem, q) = {}
  BY <1>1, SpansHold
<1>3. ASSUME strlen(mem, q) = 1
      PROVE  strstr(mem, p, q) = FirstOf(Places(p, mem[q]) \ {p})
  <2>1. strstr(mem, p, q) = FirstOf({i \in p + 1 .. End(mem, p) - 1 : mem[i] = mem[q]})
    BY <1>1, <1>3, CharacterAsString
  <2>2. p \in Nat /\ End(mem, p) \in Nat
    <3>1. SIZE \in Nat
      BY MemorySizes
    <3> QED
      BY <1>1, <3>1, StringEnds DEF Cell
  <2>3. {i \in p + 1 .. End(mem, p) - 1 : mem[i] = mem[q]} = Places(p, mem[q]) \ {p}
    <3> DEFINE e == End(mem, p)
    <3>1. Places(p, mem[q]) = {i \in p .. e - 1 : mem[i] = mem[q]}
      BY DEF Places
    <3>2. e \in Nat
      BY <2>2
    <3> HIDE DEF e
    <3>3. p + 1 .. e - 1 = (p .. e - 1) \ {p}
      BY <2>2, <3>2
    <3>4. {i \in p + 1 .. e - 1 : mem[i] = mem[q]} = Places(p, mem[q]) \ {p}
      BY <3>1, <3>3
    <3> QED
      BY <3>4 DEF e
  <2> QED
    BY <2>1, <2>3
<1>4. \A c \in Letters :
        /\ c < 128 => strchr(mem, p, c) = FirstOf(Places(p, c))
        /\ c < 128 /\ p > 0 /\ mem[p - 1] # c => strrchr(mem, p, c) = LastOf(Places(p, c))
        /\ memchr(mem, p, c, strlen(mem, p)) = FirstOf(Places(p, c))
  BY CharacterFound
<1> QED
  BY <1>2, <1>3, <1>4

(* A copy is a run of copied bytes, one for each number of its order.       *)
Copies(g, m, p, q, n, order) ==
  /\ g \in [0 .. n -> Memory] /\ g[0] = m
  /\ \A k \in 1 .. n : g[k] = [g[k - 1] EXCEPT ![p + order[k]] = g[k - 1][q + order[k]]]

(* A copy is a run of single bytes, one for each place of its order.        *)
LEMMA CopyRun ==
  ASSUME NEW m \in Memory, NEW p \in Nat, NEW q \in Nat, NEW n \in Nat,
         p + n <= SIZE, q + n <= SIZE, NEW order \in [1 .. n -> 0 .. n - 1]
  PROVE  \E g : Copies(g, m, p, q, n, order) /\ g[n] = Copy(m, p, q, order)
<1> DEFINE F == [a \in Memory \X (1 .. n) |->
                   [a[1] EXCEPT ![p + order[a[2]]] = a[1][q + order[a[2]]]]]
           Is(h) == h = [r \in SUBSET (1 .. n) |->
                           IF r = {} THEN m
                           ELSE [h[r \ {Max(r)}] EXCEPT ![p + order[Max(r)]] =
                                   h[r \ {Max(r)}][q + order[Max(r)]]]]
           iter == CHOOSE h : Is(h)
           g == [k \in 0 .. n |-> iter[1 .. k]]
<1>1. SIZE \in Nat
  BY MemorySizes
<1>2. Copy(m, p, q, order) = iter[1 .. n]
  <2>1. DOMAIN order = 1 .. n
    OBVIOUS
  <2> QED
    BY <2>1, Zenon DEF Copy, FoldLeft, MapThenFoldSet
<1>3. ASSUME NEW mm \in Memory, NEW k \in 1 .. n
      PROVE  /\ p + order[k] \in Cell /\ q + order[k] \in Cell
             /\ [mm EXCEPT ![p + order[k]] = mm[q + order[k]]] \in Memory
  <2>1. order[k] \in 0 .. n - 1
    OBVIOUS
  <2>2. p + order[k] \in Cell /\ q + order[k] \in Cell
    BY <1>1, <2>1 DEF Cell
  <2> QED
    BY <2>2 DEF Memory
<1>4. F \in [Memory \X (1 .. n) -> Memory]
  BY <1>3
<1>5. PICK h \in [SUBSET (1 .. n) -> Memory] :
        \A r \in SUBSET (1 .. n) :
          /\ h[r] = IF r = {} THEN m ELSE F[<<h[r \ {Max(r)}], Max(r)>>]
          /\ r # {} => Max(r) \in 1 .. n
  <2> HIDE DEF F
  <2> QED
    BY <1>4, FoldExists
<1>6. \A r \in SUBSET (1 .. n) :
        h[r] = IF r = {} THEN m
               ELSE [h[r \ {Max(r)}] EXCEPT ![p + order[Max(r)]] =
                       h[r \ {Max(r)}][q + order[Max(r)]]]
  <2> SUFFICES ASSUME NEW r \in SUBSET (1 .. n), r # {}
               PROVE  h[r] = [h[r \ {Max(r)}] EXCEPT ![p + order[Max(r)]] =
                                h[r \ {Max(r)}][q + order[Max(r)]]]
    BY <1>5
  <2>1. h[r \ {Max(r)}] \in Memory /\ Max(r) \in 1 .. n
    BY <1>5
  <2> QED
    BY <1>5, <2>1
<1>7. Is(iter)
  <2>1. Is(h)
    BY <1>6
  <2> QED
    BY <2>1
<1> HIDE DEF iter, F
<1>8. /\ iter[1 .. 0] = m
      /\ \A k \in 1 .. n :
           iter[1 .. k] = [iter[1 .. k - 1] EXCEPT ![p + order[k]] = iter[1 .. k - 1][q + order[k]]]
  <2>1. 1 .. 0 \in SUBSET (1 .. n) /\ 1 .. 0 = {}
    OBVIOUS
  <2>2. ASSUME NEW k \in 1 .. n
        PROVE  iter[1 .. k] =
                 [iter[1 .. k - 1] EXCEPT ![p + order[k]] = iter[1 .. k - 1][q + order[k]]]
    <3>1. /\ 1 .. k \in SUBSET (1 .. n) /\ Max(1 .. k) = k
          /\ (1 .. k) \ {k} = 1 .. k - 1 /\ 1 .. k # {}
      <4>1. k \in Nat /\ k # 0
        OBVIOUS
      <4>2. 1 .. k \subseteq 1 .. n
        OBVIOUS
      <4> QED
        BY <4>1, <4>2, FirstK
    <3>2. iter[1 .. k] =
            [iter[(1 .. k) \ {Max(1 .. k)}] EXCEPT ![p + order[Max(1 .. k)]] =
               iter[(1 .. k) \ {Max(1 .. k)}][q + order[Max(1 .. k)]]]
      BY <1>7, <3>1
    <3> QED
      BY <3>1, <3>2
  <2> QED
    BY <1>7, <2>1, <2>2
<1> HIDE DEF Is
<1>9. /\ g[0] = m /\ g[n] = iter[1 .. n]
      /\ \A k \in 1 .. n : g[k] = [g[k - 1] EXCEPT ![p + order[k]] = g[k - 1][q + order[k]]]
  <2>1. ASSUME NEW k \in 1 .. n
        PROVE  g[k] = [g[k - 1] EXCEPT ![p + order[k]] = g[k - 1][q + order[k]]]
    <3>1. k \in 0 .. n /\ k - 1 \in 0 .. n
      OBVIOUS
    <3>2. g[k] = iter[1 .. k] /\ g[k - 1] = iter[1 .. k - 1]
      BY <3>1
    <3> QED
      BY <1>8, <3>2, Zenon
  <2>2. g[0] = iter[1 .. 0] /\ g[n] = iter[1 .. n]
    OBVIOUS
  <2> QED
    BY <1>8, <2>1, <2>2
<1>10. g \in [0 .. n -> Memory]
  <2> DEFINE W == {k \in 0 .. n : g[k] \in Memory}
  <2>1. 0 \in W
    BY <1>9
  <2>2. ASSUME NEW k \in 1 .. n, k - 1 \in W PROVE k \in W
    <3>1. g[k - 1] \in Memory /\ k \in 0 .. n
      BY <2>2
    <3>2. g[k] \in Memory
      <4> HIDE DEF g
      <4>1. PICK mm : mm = g[k - 1]
        OBVIOUS
      <4>2. g[k] = [mm EXCEPT ![p + order[k]] = mm[q + order[k]]]
        BY <1>9, <4>1
      <4>3. mm \in Memory
        BY <3>1, <4>1
      <4>4. [mm EXCEPT ![p + order[k]] = mm[q + order[k]]] \in Memory
        BY <1>3, <4>3
      <4> QED
        BY <4>2, <4>4
    <3> QED
      BY <3>1, <3>2
  <2>3. 0 .. n \subseteq W
    <3> HIDE DEF W
    <3> QED
      BY <2>1, <2>2, UpTo
  <2> QED
    BY <2>3
<1> HIDE DEF g
<1>11. Copies(g, m, p, q, n, order)
  BY <1>9, <1>10 DEF Copies
<1> QED
  BY <1>2, <1>9, <1>11

(* What a copy leaves: the source, where it goes, if no byte of the source  *)
(* is overwritten before it is copied.                                      *)
Moving(m, p, q, n) == [i \in Cell |-> IF i \in p .. p + n - 1 THEN m[q + (i - p)] ELSE m[i]]

(* Copying upwards keeps the source where it is not behind the target.      *)
LEMMA CopiedUpwards ==
  ASSUME NEW m \in Memory, NEW p \in Nat, NEW q \in Nat, NEW n \in Nat,
         p + n <= SIZE, q + n <= SIZE, q >= p \/ q + n <= p
  PROVE  Copy(m, p, q, Upwards(n)) = Moving(m, p, q, n)
<1> DEFINE order == Upwards(n)
<1>1. order \in [1 .. n -> 0 .. n - 1] /\ \A k \in 1 .. n : order[k] = k - 1
  BY DEF Upwards
<1> HIDE DEF order
<1>8. PICK g : Copies(g, m, p, q, n, order) /\ g[n] = Copy(m, p, q, order)
  <2>1. order \in [1 .. n -> 0 .. n - 1]
    BY <1>1
  <2> QED
    BY <2>1, CopyRun, Zenon
<1>2. /\ g \in [0 .. n -> Memory] /\ g[0] = m /\ g[n] = Copy(m, p, q, order)
      /\ \A k \in 1 .. n : g[k] = [g[k - 1] EXCEPT ![p + order[k]] = g[k - 1][q + order[k]]]
  BY <1>8 DEF Copies
<1>3. SIZE \in Nat
  BY MemorySizes
<1> DEFINE W == {k \in 0 .. n : g[k] = Moving(m, p, q, k)}
<1>4. 0 \in W
  <2>1. m = [i \in Cell |-> m[i]]
    BY DEF Memory
  <2>2. \A i \in Cell : i \notin p .. p + 0 - 1
    BY <1>3 DEF Cell
  <2>3. Moving(m, p, q, 0) = [i \in Cell |-> m[i]]
    BY <2>2 DEF Moving
  <2> QED
    BY <1>2, <2>1, <2>3
<1>5. ASSUME NEW k \in 1 .. n, k - 1 \in W PROVE k \in W
  <2> DEFINE a == p + (k - 1)
             b == q + (k - 1)
             before == Moving(m, p, q, k - 1)
  <2>1. a \in Cell /\ b \in Cell /\ a = p + (k - 1) /\ b = q + (k - 1)
    BY <1>3 DEF Cell
  <2>2. g[k] = [before EXCEPT ![a] = before[b]]
    BY <1>1, <1>2, <1>5
  <2> HIDE DEF a, b
  <2>3. before[b] = m[b]
    <3>1. b \notin p .. p + (k - 1) - 1
      BY <1>3, <2>1
    <3> QED
      BY <2>1, <3>1 DEF Moving
  <2>4. \A i \in Cell : [before EXCEPT ![a] = m[b]][i] = Moving(m, p, q, k)[i]
    <3> SUFFICES ASSUME NEW i \in Cell
                 PROVE  (IF i = a THEN m[b] ELSE before[i]) = Moving(m, p, q, k)[i]
      BY DEF Moving
    <3>1. i \in Nat
      BY <1>3 DEF Cell
    <3>2. CASE i = a
      <4>1. i \in p .. p + k - 1 /\ q + (i - p) = b
        BY <2>1, <3>1, <3>2
      <4> QED
        BY <3>2, <4>1 DEF Moving
    <3>3. CASE i # a
      <4>1. i \in p .. p + k - 1 <=> i \in p .. p + (k - 1) - 1
        BY <2>1, <3>1, <3>3
      <4> QED
        BY <3>3, <4>1 DEF Moving
    <3> QED
      BY <3>2, <3>3
  <2>5. [before EXCEPT ![a] = m[b]] = Moving(m, p, q, k)
    BY <2>4 DEF Moving
  <2> QED
    BY <2>2, <2>3, <2>5
<1>6. n \in W
  <2>1. n \in 0 .. n
    OBVIOUS
  <2> HIDE DEF W
  <2> QED
    BY <1>4, <1>5, <2>1, UpTo
<1> QED
  BY <1>2, <1>6 DEF order

(* Copying downwards keeps it where the target is not before it.            *)
LEMMA CopiedDownwards ==
  ASSUME NEW m \in Memory, NEW p \in Nat, NEW q \in Nat, NEW n \in Nat,
         p + n <= SIZE, q + n <= SIZE, q <= p
  PROVE  Copy(m, p, q, Reverse(Upwards(n))) = Moving(m, p, q, n)
<1> DEFINE order == Reverse(Upwards(n))
           Final(k) == Moving(m, p + (n - k), q + (n - k), k)
<1>1. order \in [1 .. n -> 0 .. n - 1] /\ \A k \in 1 .. n : order[k] = n - k
  <2>1. Len(Upwards(n)) = n
    BY DEF Upwards
  <2>2. order = [i \in 1 .. n |-> Upwards(n)[(n - i) + 1]]
    BY <2>1 DEF Reverse
  <2>3. \A i \in 1 .. n : (n - i) + 1 \in 1 .. n /\ Upwards(n)[(n - i) + 1] = (n - i) + 1 - 1
    BY DEF Upwards
  <2> QED
    BY <2>2, <2>3
<1> HIDE DEF order
<1>8. PICK g : Copies(g, m, p, q, n, order) /\ g[n] = Copy(m, p, q, order)
  <2>1. order \in [1 .. n -> 0 .. n - 1]
    BY <1>1
  <2> QED
    BY <2>1, CopyRun, Zenon
<1>2. /\ g \in [0 .. n -> Memory] /\ g[0] = m /\ g[n] = Copy(m, p, q, order)
      /\ \A k \in 1 .. n : g[k] = [g[k - 1] EXCEPT ![p + order[k]] = g[k - 1][q + order[k]]]
  BY <1>8 DEF Copies
<1>3. SIZE \in Nat
  BY MemorySizes
<1> DEFINE W == {k \in 0 .. n : g[k] = Final(k)}
<1>4. 0 \in W
  <2>1. m = [i \in Cell |-> m[i]]
    BY DEF Memory
  <2>2. \A i \in Cell : i \notin p + (n - 0) .. p + (n - 0) + 0 - 1
    BY <1>3 DEF Cell
  <2>3. Final(0) = [i \in Cell |-> m[i]]
    BY <2>2 DEF Moving
  <2> QED
    BY <1>2, <2>1, <2>3
<1>5. ASSUME NEW k \in 1 .. n, k - 1 \in W PROVE k \in W
  <2> DEFINE a == p + (n - k)
             b == q + (n - k)
             before == Final(k - 1)
             after == Final(k)
  <2>1. a \in Cell /\ b \in Cell /\ a = p + (n - k) /\ b = q + (n - k)
    BY <1>3 DEF Cell
  <2>2. g[k] = [before EXCEPT ![a] = before[b]]
    BY <1>1, <1>2, <1>5
  <2>3. before = [i \in Cell |-> IF i \in a + 1 .. p + n - 1 THEN m[q + (i - p)] ELSE m[i]]
    <3>1. p + (n - (k - 1)) = a + 1 /\ p + (n - (k - 1)) + (k - 1) - 1 = p + n - 1
      OBVIOUS
    <3>2. \A i \in Cell : q + (n - (k - 1)) + (i - (p + (n - (k - 1)))) = q + (i - p)
      BY <1>3 DEF Cell
    <3> HIDE DEF a
    <3> QED
      BY <3>1, <3>2 DEF Moving
  <2>4. after = [i \in Cell |-> IF i \in a .. p + n - 1 THEN m[q + (i - p)] ELSE m[i]]
    <3>1. p + (n - k) + k - 1 = p + n - 1
      OBVIOUS
    <3>2. \A i \in Cell : q + (n - k) + (i - (p + (n - k))) = q + (i - p)
      BY <1>3 DEF Cell
    <3> QED
      BY <3>1, <3>2 DEF Moving
  <2> HIDE DEF a, b, before, after
  <2>5. before[b] = m[b]
    <3>1. b \notin a + 1 .. p + n - 1
      BY <1>3, <2>1
    <3> QED
      BY <2>1, <2>3, <3>1
  <2>6. \A i \in Cell : [before EXCEPT ![a] = m[b]][i] = after[i]
    <3> SUFFICES ASSUME NEW i \in Cell
                 PROVE  (IF i = a THEN m[b] ELSE before[i]) = after[i]
      BY <2>3
    <3>1. i \in Nat
      BY <1>3 DEF Cell
    <3>2. CASE i = a
      <4>1. i \in a .. p + n - 1 /\ q + (i - p) = b
        BY <2>1, <3>1, <3>2
      <4> QED
        BY <2>4, <3>2, <4>1
    <3>3. CASE i # a
      <4>1. i \in a .. p + n - 1 <=> i \in a + 1 .. p + n - 1
        BY <2>1, <3>1, <3>3
      <4> QED
        BY <2>3, <2>4, <3>3, <4>1
    <3> QED
      BY <3>2, <3>3
  <2>7. [before EXCEPT ![a] = m[b]] = after
    BY <2>3, <2>4, <2>6
  <2>8. g[k] = after
    BY <2>2, <2>5, <2>7
  <2> QED
    BY <2>8 DEF after
<1>6. n \in W
  <2>1. n \in 0 .. n
    OBVIOUS
  <2> HIDE DEF W
  <2> QED
    BY <1>4, <1>5, <2>1, UpTo
<1>7. p + (n - n) = p /\ q + (n - n) = q
  OBVIOUS
<1> QED
  BY <1>2, <1>6, <1>7 DEF order

(* memmove, and memcpy of regions that are apart, copy the source.          *)
LEMMA MoveIs ==
  ASSUME NEW m \in Memory, NEW p \in Nat, NEW q \in Nat, NEW n \in Nat,
         p + n <= SIZE, q + n <= SIZE
  PROVE  /\ memmove(m, p, q, n) = Moving(m, p, q, n)
         /\ Apart(p, n, q, n) => memcpy(m, p, q, n) = Moving(m, p, q, n)
<1>1. memmove(m, p, q, n) = Moving(m, p, q, n)
  <2>1. CASE q > p
    <3>1. memmove(m, p, q, n) = Copy(m, p, q, Upwards(n))
      BY <2>1, Zenon DEF memmove
    <3>2. q >= p
      BY <2>1
    <3> QED
      BY <3>1, <3>2, CopiedUpwards
  <2>2. CASE ~(q > p)
    <3>1. memmove(m, p, q, n) = Copy(m, p, q, Reverse(Upwards(n)))
      BY <2>2, Zenon DEF memmove
    <3>2. q <= p
      BY <2>2
    <3> QED
      BY <3>1, <3>2, CopiedDownwards
  <2> QED
    BY <2>1, <2>2
<1>2. ASSUME Apart(p, n, q, n) PROVE memcpy(m, p, q, n) = Moving(m, p, q, n)
  <2>1. q >= p \/ q + n <= p
    BY <1>2 DEF Apart
  <2>2. memcpy(m, p, q, n) = Copy(m, p, q, Upwards(n))
    BY Zenon DEF memcpy
  <2> QED
    BY <2>1, <2>2, CopiedUpwards
<1> QED
  BY <1>1, <1>2

(* A moved region holds the source, and the rest is as before.              *)
LEMMA MovingIs ==
  ASSUME NEW m \in Memory, NEW p \in Nat, NEW q \in Nat, NEW n \in Nat,
         p + n <= SIZE, q + n <= SIZE
  PROVE  /\ Moving(m, p, q, n) \in Memory
         /\ m \in [Cell -> Byte] => Moving(m, p, q, n) \in [Cell -> Byte]
         /\ \A i \in 0 .. n - 1 : p + i \in Cell /\ Moving(m, p, q, n)[p + i] = m[q + i]
         /\ \A i \in Cell : i \notin p .. p + n - 1 => Moving(m, p, q, n)[i] = m[i]
<1>1. SIZE \in Nat
  BY MemorySizes
<1>2. \A i \in Cell : i \in p .. p + n - 1 => q + (i - p) \in Cell
  BY <1>1 DEF Cell
<1>3. Moving(m, p, q, n) \in Memory
  BY <1>2 DEF Moving, Memory
<1>4. m \in [Cell -> Byte] => Moving(m, p, q, n) \in [Cell -> Byte]
  BY <1>2 DEF Moving
<1>5. ASSUME NEW i \in 0 .. n - 1 PROVE p + i \in Cell /\ Moving(m, p, q, n)[p + i] = m[q + i]
  <2>1. p + i \in Cell /\ p + i \in p .. p + n - 1 /\ q + ((p + i) - p) = q + i
    BY <1>1 DEF Cell
  <2> QED
    BY <2>1 DEF Moving
<1>6. \A i \in Cell : i \notin p .. p + n - 1 => Moving(m, p, q, n)[i] = m[i]
  BY DEF Moving
<1> QED
  BY <1>3, <1>4, <1>5, <1>6

(* A string copied with its NUL to another place is the string there.       *)
LEMMA StringCopied ==
  ASSUME NEW m \in Memory, NEW p \in Nat, NEW q, IsString(m, q),
         p + (strlen(m, q) + 1) <= SIZE, Apart(p, strlen(m, q) + 1, q, strlen(m, q) + 1),
         NEW o, o = memcpy(m, p, q, strlen(m, q) + 1)
  PROVE  /\ o \in Memory /\ IsString(o, p) /\ strlen(o, p) = strlen(m, q)
         /\ Str(o, p) = Str(m, q)
         /\ m \in [Cell -> Byte] => o \in [Cell -> Byte]
         /\ \A i \in 0 .. strlen(m, q) - 1 : o[p + i] = m[q + i] /\ o[p + i] # 0
         /\ \A i \in Cell : i \notin p .. p + strlen(m, q) => o[i] = m[i]
<1> DEFINE n == strlen(m, q)
<1>1. SIZE \in Nat
  BY MemorySizes
<1>2. /\ n \in Nat /\ q \in Nat /\ m[q + n] = 0 /\ q + n \in Cell
      /\ \A i \in 0 .. n - 1 : m[q + i] # 0
  BY StrIs
<1>3. p + (n + 1) <= SIZE /\ Apart(p, n + 1, q, n + 1) /\ o = memcpy(m, p, q, n + 1)
  OBVIOUS
<1>12. n = strlen(m, q)
  OBVIOUS
<1> HIDE DEF n
<1>4. n + 1 \in Nat /\ q + (n + 1) <= SIZE
  BY <1>1, <1>2 DEF Cell
<1>11. PICK k \in Nat : k = n + 1
  BY <1>4
<1>5. o = Moving(m, p, q, k)
  <2>1. p + k <= SIZE /\ q + k <= SIZE /\ Apart(p, k, q, k) /\ o = memcpy(m, p, q, k)
    BY <1>3, <1>4, <1>11
  <2> QED
    BY <1>2, <2>1, MoveIs
<1>6. /\ o \in Memory /\ (m \in [Cell -> Byte] => o \in [Cell -> Byte])
      /\ \A i \in 0 .. k - 1 : p + i \in Cell /\ o[p + i] = m[q + i]
      /\ \A i \in Cell : i \notin p .. p + k - 1 => o[i] = m[i]
  <2>1. p + k <= SIZE /\ q + k <= SIZE
    BY <1>3, <1>4, <1>11
  <2>2. Moving(m, p, q, k) \in Memory
    BY <1>2, <2>1, MovingIs
  <2>3. m \in [Cell -> Byte] => Moving(m, p, q, k) \in [Cell -> Byte]
    BY <1>2, <2>1, MovingIs
  <2>4. \A i \in 0 .. k - 1 : p + i \in Cell /\ Moving(m, p, q, k)[p + i] = m[q + i]
    BY <1>2, <2>1, MovingIs
  <2>5. \A i \in Cell : i \notin p .. p + k - 1 => Moving(m, p, q, k)[i] = m[i]
    BY <1>2, <2>1, MovingIs
  <2> QED
    BY <1>5, <2>2, <2>3, <2>4, <2>5
<1>7. /\ \A i \in 0 .. n - 1 : o[p + i] = m[q + i] /\ o[p + i] # 0
      /\ o[p + n] = 0 /\ p + n \in Cell
  <2>1. n \in 0 .. k - 1 /\ \A i \in 0 .. n - 1 : i \in 0 .. k - 1
    BY <1>2, <1>11
  <2> QED
    BY <1>2, <1>6, <2>1
<1>8. IsString(o, p) /\ strlen(o, p) = n
  <2>1. PICK e : e = p + n
    OBVIOUS
  <2>2. ASSUME NEW i \in p .. e - 1 PROVE o[i] # 0
    <3>1. i - p \in 0 .. n - 1 /\ p + (i - p) = i
      BY <1>2, <2>1
    <3> QED
      BY <1>7, <3>1
  <2>3. e \in Cell /\ e >= p /\ o[e] = 0 /\ e - p = n
    BY <1>2, <1>7, <2>1
  <2> QED
    BY <1>6, <2>2, <2>3, EndIs
<1>9. Str(o, p) = Str(m, q)
  <2>1. strlen(o, p) = strlen(m, q) /\ \A i \in 0 .. strlen(o, p) - 1 : o[p + i] = m[q + i]
    BY <1>7, <1>8, <1>12
  <2> QED
    BY <1>6, <1>8, <2>1, SameStrings
<1>10. \A i \in Cell : i \notin p .. p + n => o[i] = m[i]
  <2>1. p + k - 1 = p + n
    BY <1>2, <1>11
  <2> QED
    BY <1>6, <2>1
<1> QED
  BY <1>6, <1>7, <1>8, <1>9, <1>10 DEF n

(* Two strings, one behind the other.                                      *)
LEMMA NumbersConcat ==
  ASSUME NEW s \in Seq(Nat), NEW u \in Seq(Nat)
  PROVE  /\ s \o u \in Seq(Nat) /\ Len(s \o u) = Len(s) + Len(u)
         /\ \A i \in 1 .. Len(s) + Len(u) :
              (s \o u)[i] = IF i <= Len(s) THEN s[i] ELSE u[i - Len(s)]
<1>1. s \o u \in Seq(Nat)
  BY ConcatProperties
<1>2. Len(s \o u) = Len(s) + Len(u)
  BY ConcatProperties
<1>3. \A i \in 1 .. Len(s) + Len(u) :
        (s \o u)[i] = IF i <= Len(s) THEN s[i] ELSE u[i - Len(s)]
  BY ConcatProperties
<1> QED
  BY <1>1, <1>2, <1>3

(* A string that goes on with the beginning of another.                     *)
LEMMA Concatenated ==
  ASSUME NEW m \in Memory, NEW p, IsString(m, p), NEW q, IsString(m, q),
         NEW j \in 0 .. strlen(m, q), NEW o \in Memory,
         \A i \in Cell : i \notin End(m, p) .. SIZE => o[i] = m[i],
         \A i \in 0 .. j - 1 : o[End(m, p) + i] = m[q + i],
         End(m, p) + j \in Cell, o[End(m, p) + j] = 0
  PROVE  Str(o, p) = Str(m, p) \o SubSeq(Str(m, q), 1, j)
<1> DEFINE a == strlen(m, p)
           b == strlen(m, q)
           e == End(m, p)
           s == Str(m, p)
           t == Str(m, q)
           u == SubSeq(t, 1, j)
           v == Str(o, p)
<1>1. /\ s \in Seq(Nat) /\ Len(s) = a /\ \A i \in 1 .. a : s[i] = m[p + i - 1]
      /\ \A i \in 0 .. a - 1 : m[p + i] # 0 /\ p + i \in Cell
      /\ a \in Nat /\ p \in Nat
  BY StrIs
<1>2. /\ t \in Seq(Nat) /\ Len(t) = b /\ \A i \in 1 .. b : t[i] = m[q + i - 1]
      /\ \A i \in 0 .. b - 1 : m[q + i] # 0
      /\ b \in Nat /\ q \in Nat
  BY StrIs
<1>3. e = p + a /\ e \in Nat
  BY <1>1, StringEnds
<1>4. /\ j \in 0 .. b /\ e + j \in Cell /\ o[e + j] = 0
      /\ \A i \in Cell : i \notin e .. SIZE => o[i] = m[i]
      /\ \A i \in 0 .. j - 1 : o[e + i] = m[q + i]
  OBVIOUS
<1> HIDE DEF a, b, e, s, t
<1>5. u \in Seq(Nat) /\ Len(u) = j /\ \A i \in 1 .. j : u[i] = t[i]
  <2>1. \A i \in 1 .. j : i \in 1 .. Len(t)
    BY <1>2, <1>4
  <2>2. \A i \in 1 .. j : t[i] \in Nat
    BY <1>2, <2>1, ElementOfSeq
  <2> QED
    BY <1>2, <1>4, <2>2, SubSeqProperties
<1> HIDE DEF u
<1>6. ASSUME NEW i \in 0 .. a + j - 1
      PROVE  /\ i < a => o[p + i] = m[p + i]
             /\ ~(i < a) => o[p + i] = m[q + (i - a)] /\ i - a \in 0 .. j - 1
             /\ o[p + i] # 0
  <2>1. CASE i < a
    <3>1. i \in 0 .. a - 1 /\ p + i \notin e .. SIZE
      BY <1>1, <1>3, <2>1
    <3> QED
      BY <1>1, <1>4, <2>1, <3>1
  <2>2. CASE ~(i < a)
    <3>1. i - a \in 0 .. j - 1 /\ i - a \in 0 .. b - 1
      BY <1>1, <1>2, <1>4, <2>2
    <3>2. e + (i - a) = p + i
      BY <1>1, <1>3
    <3>3. o[e + (i - a)] = m[q + (i - a)] /\ m[q + (i - a)] # 0
      BY <1>2, <1>4, <3>1
    <3>4. o[p + i] = m[q + (i - a)]
      BY <3>2, <3>3
    <3> QED
      BY <2>2, <3>1, <3>3, <3>4
  <2> QED
    BY <2>1, <2>2
<1>7. IsString(o, p) /\ strlen(o, p) = a + j
  <2>1. PICK f : f = e + j
    OBVIOUS
  <2>2. ASSUME NEW i \in p .. f - 1 PROVE o[i] # 0
    <3>1. i - p \in 0 .. a + j - 1 /\ p + (i - p) = i
      BY <1>1, <1>3, <1>4, <2>1
    <3> QED
      BY <1>6, <3>1
  <2>3. f \in Cell /\ f >= p /\ o[f] = 0 /\ f - p = a + j
    BY <1>1, <1>3, <1>4, <2>1
  <2> QED
    BY <1>1, <2>2, <2>3, EndIs
<1>8. v \in Seq(Nat) /\ Len(v) = a + j /\ \A i \in 1 .. a + j : v[i] = o[p + i - 1]
  BY <1>7, StrIs
<1> HIDE DEF v
<1>9. /\ s \o u \in Seq(Nat) /\ Len(s \o u) = a + j
      /\ \A i \in 1 .. a + j : (s \o u)[i] = IF i <= a THEN s[i] ELSE u[i - a]
  <2>1. /\ s \o u \in Seq(Nat) /\ Len(s \o u) = Len(s) + Len(u)
        /\ \A i \in 1 .. Len(s) + Len(u) :
             (s \o u)[i] = IF i <= Len(s) THEN s[i] ELSE u[i - Len(s)]
    BY <1>1, <1>5, NumbersConcat, Zenon
  <2> QED
    BY <1>1, <1>5, <2>1
<1>10. ASSUME NEW i \in 1 .. a + j PROVE v[i] = (s \o u)[i]
  <2>1. i - 1 \in 0 .. a + j - 1 /\ p + (i - 1) = p + i - 1
    BY <1>1, <1>4
  <2>2. CASE i <= a
    <3>1. i - 1 < a /\ i \in 1 .. a
      BY <1>1, <2>2
    <3>2. v[i] = m[p + (i - 1)]
      <4>1. o[p + (i - 1)] = m[p + (i - 1)]
        BY <1>6, <2>1, <3>1
      <4> QED
        BY <1>8, <2>1, <4>1
    <3>3. (s \o u)[i] = m[p + (i - 1)]
      BY <1>1, <1>9, <2>1, <2>2, <3>1
    <3> QED
      BY <3>2, <3>3
  <2>3. CASE ~(i <= a)
    <3>1. /\ ~(i - 1 < a) /\ i - a \in 1 .. j /\ i - a \in 1 .. b
          /\ q + (i - 1 - a) = q + (i - a) - 1
      BY <1>1, <1>2, <1>4, <2>3
    <3>2. v[i] = m[q + (i - a) - 1]
      BY <1>6, <1>8, <2>1, <3>1
    <3>3. (s \o u)[i] = t[i - a]
      BY <1>5, <1>9, <2>3, <3>1
    <3> QED
      BY <1>2, <3>1, <3>2, <3>3
  <2> QED
    BY <2>2, <2>3
<1>11. v = s \o u
  BY <1>8, <1>9, <1>10, SeqEqual
<1> QED
  BY <1>11 DEF v, s, u, t

(* strcat and strncat append the string, or its beginning.                  *)
LEMMA CatIs ==
  ASSUME NEW m \in Memory, NEW p, IsString(m, p), NEW q, IsString(m, q),
         RoomToCat(m, p, q, strlen(m, q) + 1)
  PROVE  /\ Str(strcat(m, p, q), p) = Str(m, p) \o Str(m, q)
         /\ m \in [Cell -> Byte] => strcat(m, p, q) \in [Cell -> Byte]
<1> DEFINE b == strlen(m, q)
           e == End(m, p)
           o == memcpy(m, e, q, b + 1)
           t == Str(m, q)
<1>1. strcat(m, p, q) = o
  BY Zenon DEF strcat, strcpy
<1>2. /\ t \in Seq(Nat) /\ Len(t) = b /\ b \in Nat /\ q \in Nat
  BY StrIs
<1>3. e \in Nat /\ e >= p /\ p \in Nat /\ SIZE \in Nat
  <2>1. SIZE \in Nat
    BY MemorySizes
  <2> QED
    BY <2>1, StringEnds DEF Cell
<1>4. e + (b + 1) <= SIZE /\ Apart(e, b + 1, q, b + 1)
  <2>1. e + (b + 1) <= SIZE /\ Apart(p, e + (b + 1) - p, q, b + 1)
    BY DEF RoomToCat
  <2> HIDE DEF e, b
  <2> QED
    BY <1>2, <1>3, <2>1 DEF Apart
<1>5. /\ o \in Memory /\ IsString(o, e) /\ strlen(o, e) = b
      /\ m \in [Cell -> Byte] => o \in [Cell -> Byte]
      /\ \A i \in 0 .. b - 1 : o[e + i] = m[q + i]
      /\ \A i \in Cell : i \notin e .. e + b => o[i] = m[i]
  <2>1. PICK f \in Nat : f = e
    BY <1>3
  <2>2. PICK d : d = memcpy(m, f, q, strlen(m, q) + 1)
    OBVIOUS
  <2>3. /\ d \in Memory /\ IsString(d, f) /\ strlen(d, f) = strlen(m, q)
        /\ m \in [Cell -> Byte] => d \in [Cell -> Byte]
        /\ \A i \in 0 .. strlen(m, q) - 1 : d[f + i] = m[q + i] /\ d[f + i] # 0
        /\ \A i \in Cell : i \notin f .. f + strlen(m, q) => d[i] = m[i]
    <3>1. f + (strlen(m, q) + 1) <= SIZE /\ Apart(f, strlen(m, q) + 1, q, strlen(m, q) + 1)
      BY <1>4, <2>1
    <3> QED
      BY <2>2, <3>1, StringCopied
  <2> QED
    BY <2>1, <2>2, <2>3
<1> HIDE DEF o
<1>6. /\ b \in 0 .. b /\ e + b \in Cell /\ o[e + b] = 0
      /\ \A i \in Cell : i \notin e .. SIZE => o[i] = m[i]
  <2>1. o[e + b] = 0 /\ e + b \in Cell
    BY <1>5, StrIs
  <2>2. \A i \in Cell : i \notin e .. SIZE => i \notin e .. e + b
    BY <1>2, <1>3, <1>4
  <2> QED
    BY <1>2, <1>5, <2>1, <2>2
<1>7. Str(o, p) = Str(m, p) \o SubSeq(t, 1, b)
  BY <1>5, <1>6, Concatenated
<1>8. SubSeq(t, 1, b) = t
  BY <1>2, SubSeqFull
<1> QED
  BY <1>1, <1>5, <1>7, <1>8

(* How much a copy limited to n moves: never nothing, and all of the string *)
(* where n is 0 or beyond its NUL.                                          *)
LEMMA MovedIs ==
  ASSUME NEW m \in Memory, NEW q, IsString(m, q), NEW n \in Nat
  PROVE  /\ Moved(m, q, n) \in 1 .. strlen(m, q) + 1
         /\ n = 0 \/ n > strlen(m, q) => Moved(m, q, n) = strlen(m, q) + 1
         /\ n > 0 /\ n <= strlen(m, q) =>
              Moved(m, q, n) = n /\ Min({n, strlen(m, q)}) = n
         /\ n > strlen(m, q) => Min({n, strlen(m, q)}) = strlen(m, q)
<1> DEFINE b == strlen(m, q)
<1>1. b \in Nat
  BY StrIs
<1>2. Moved(m, q, n) = IF n = 0 THEN b + 1 ELSE Min({n, b + 1})
  BY Zenon DEF Moved
<1> HIDE DEF b
<1>3. n > b => Min({n, b + 1}) = b + 1 /\ Min({n, b}) = b
  <2> SUFFICES ASSUME n > b PROVE Min({n, b + 1}) = b + 1 /\ Min({n, b}) = b
    OBVIOUS
  <2>1. {n, b + 1} \subseteq Nat /\ b + 1 \in {n, b + 1} /\ \A i \in {n, b + 1} : b + 1 <= i
    BY <1>1
  <2>2. {n, b} \subseteq Nat /\ b \in {n, b} /\ \A i \in {n, b} : b <= i
    BY <1>1
  <2>3. PICK k : k = b + 1
    OBVIOUS
  <2>4. Min({n, k}) = k
    BY <2>1, <2>3, MinIs
  <2>5. Min({n, b}) = b
    BY <2>2, MinIs
  <2> QED
    BY <2>3, <2>4, <2>5
<1>4. n <= b => Min({n, b + 1}) = n /\ Min({n, b}) = n
  <2> SUFFICES ASSUME n <= b PROVE Min({n, b + 1}) = n /\ Min({n, b}) = n
    OBVIOUS
  <2>1. {n, b + 1} \subseteq Nat /\ n \in {n, b + 1} /\ \A i \in {n, b + 1} : n <= i
    BY <1>1
  <2>2. {n, b} \subseteq Nat /\ n \in {n, b} /\ \A i \in {n, b} : n <= i
    BY <1>1
  <2>3. PICK k : k = b + 1
    OBVIOUS
  <2>4. Min({n, k}) = n
    BY <2>1, <2>3, MinIs
  <2>5. Min({n, b}) = n
    BY <2>2, MinIs
  <2> QED
    BY <2>3, <2>4, <2>5
<1>5. Moved(m, q, n) \in 1 .. b + 1
  <2>1. CASE n = 0
    BY <1>1, <1>2, <2>1
  <2>2. CASE n # 0 /\ n > b
    BY <1>1, <1>2, <1>3, <2>2
  <2>3. CASE n # 0 /\ n <= b
    BY <1>1, <1>2, <1>4, <2>3
  <2> QED
    BY <1>1, <2>1, <2>2, <2>3
<1>6. n = 0 \/ n > b => Moved(m, q, n) = b + 1
  BY <1>1, <1>2, <1>3
<1>7. n > 0 /\ n <= b => Moved(m, q, n) = n
  BY <1>1, <1>2, <1>4
<1> QED
  BY <1>3, <1>4, <1>5, <1>6, <1>7 DEF b

(* A copy of part of a string to a place apart from it.                     *)
LEMMA PartCopied ==
  ASSUME NEW m \in Memory, NEW p \in Nat, NEW q, IsString(m, q),
         NEW k \in 1 .. strlen(m, q) + 1, p + k <= SIZE,
         p + k <= q \/ q + strlen(m, q) + 1 <= p,
         NEW o, o = memcpy(m, p, q, k)
  PROVE  /\ o \in Memory
         /\ m \in [Cell -> Byte] => o \in [Cell -> Byte]
         /\ \A i \in 0 .. k - 1 : p + i \in Cell /\ o[p + i] = m[q + i]
         /\ \A i \in Cell : i \notin p .. p + k - 1 => o[i] = m[i]
<1> DEFINE b == strlen(m, q)
<1>1. SIZE \in Nat
  BY MemorySizes
<1>2. b \in Nat /\ q \in Nat /\ q + b \in Cell
  BY StrIs
<1>3. k \in 1 .. b + 1 /\ (p + k <= q \/ q + b + 1 <= p)
  OBVIOUS
<1> HIDE DEF b
<1>4. k \in Nat /\ q + k <= SIZE /\ Apart(p, k, q, k)
  BY <1>1, <1>2, <1>3 DEF Cell, Apart
<1>5. o = Moving(m, p, q, k)
  BY <1>2, <1>4, MoveIs
<1>6. Moving(m, p, q, k) \in Memory
  BY <1>2, <1>4, MovingIs
<1>7. m \in [Cell -> Byte] => Moving(m, p, q, k) \in [Cell -> Byte]
  BY <1>2, <1>4, MovingIs
<1>8. \A i \in 0 .. k - 1 : p + i \in Cell /\ Moving(m, p, q, k)[p + i] = m[q + i]
  BY <1>2, <1>4, MovingIs
<1>9. \A i \in Cell : i \notin p .. p + k - 1 => Moving(m, p, q, k)[i] = m[i]
  BY <1>2, <1>4, MovingIs
<1> QED
  BY <1>5, <1>6, <1>7, <1>8, <1>9

(* strncat appends the beginning of the string and ends it.                 *)
LEMMA LimitedCatIs ==
  ASSUME NEW m \in Memory, NEW p, IsString(m, p), NEW q, IsString(m, q), NEW n \in Nat,
         RoomToCat(m, p, q, Moved(m, q, n) + 1)
  PROVE  /\ n > 0 => Str(strncat(m, p, q, n), p)
                       = Str(m, p) \o SubSeq(Str(m, q), 1, Min({n, strlen(m, q)}))
         /\ m \in [Cell -> Byte] => strncat(m, p, q, n) \in [Cell -> Byte]
<1> DEFINE b == strlen(m, q)
           e == End(m, p)
           k == Moved(m, q, n)
           c == memcpy(m, e, q, k)
           o == [c EXCEPT ![e + k] = 0]
           j == Min({n, b})
<1>1. strncat(m, p, q, n) = o
  BY Zenon DEF strncat
<1>2. b \in Nat /\ q \in Nat /\ m[q + b] = 0
  BY StrIs
<1>3. e \in Nat /\ e >= p /\ p \in Nat /\ SIZE \in Nat
  <2>1. SIZE \in Nat
    BY MemorySizes
  <2> QED
    BY <2>1, StringEnds DEF Cell
<1>4. /\ k \in 1 .. b + 1
      /\ n = 0 \/ n > b => k = b + 1
      /\ n > 0 /\ n <= b => k = n /\ j = n
      /\ n > b => j = b
  BY MovedIs
<1>5. e + (k + 1) <= SIZE /\ Apart(p, e + (k + 1) - p, q, b + 1)
  BY DEF RoomToCat
<1> HIDE DEF b, e, k, j
<1>6. e + k <= SIZE /\ e + k \in Cell /\ (e + k <= q \/ q + b + 1 <= e)
  BY <1>2, <1>3, <1>4, <1>5 DEF Apart, Cell
<1>7. /\ c \in Memory
      /\ m \in [Cell -> Byte] => c \in [Cell -> Byte]
      /\ \A i \in 0 .. k - 1 : e + i \in Cell /\ c[e + i] = m[q + i]
      /\ \A i \in Cell : i \notin e .. e + k - 1 => c[i] = m[i]
  <2>1. k \in 1 .. strlen(m, q) + 1 /\ (e + k <= q \/ q + strlen(m, q) + 1 <= e)
    BY <1>4, <1>6 DEF b
  <2>2. PICK d : d = c
    OBVIOUS
  <2>3. /\ d \in Memory
        /\ m \in [Cell -> Byte] => d \in [Cell -> Byte]
        /\ \A i \in 0 .. k - 1 : e + i \in Cell /\ d[e + i] = m[q + i]
        /\ \A i \in Cell : i \notin e .. e + k - 1 => d[i] = m[i]
    BY <1>3, <1>6, <2>1, <2>2, PartCopied
  <2> QED
    BY <2>2, <2>3
<1> HIDE DEF c
<1>8. /\ o \in Memory
      /\ m \in [Cell -> Byte] => o \in [Cell -> Byte]
      /\ o[e + k] = 0
      /\ \A i \in Cell : i # e + k => o[i] = c[i]
  <2>1. 0 \in Byte
    BY MemorySizes
  <2> QED
    BY <1>6, <1>7, <2>1 DEF Memory
<1> HIDE DEF o
<1>9. ASSUME n > 0 PROVE Str(o, p) = Str(m, p) \o SubSeq(Str(m, q), 1, j)
  <2>1. j \in 0 .. b /\ (j = k \/ j = k - 1) /\ (j = k - 1 => m[q + j] = 0)
    BY <1>2, <1>4, <1>9
  <2>2. \A i \in 0 .. j - 1 : o[e + i] = m[q + i]
    <3> TAKE i \in 0 .. j - 1
    <3>1. i \in 0 .. k - 1 /\ e + i # e + k
      BY <1>2, <1>3, <1>4, <2>1
    <3> QED
      BY <1>7, <1>8, <3>1
  <2>3. e + j \in Cell /\ o[e + j] = 0
    <3>1. CASE j = k
      BY <1>6, <1>8, <3>1
    <3>2. CASE j = k - 1
      <4>1. j \in 0 .. k - 1 /\ e + j # e + k
        BY <1>3, <1>4, <3>2
      <4>2. e + j \in Cell /\ c[e + j] = 0
        BY <1>7, <2>1, <3>2, <4>1
      <4> QED
        BY <1>8, <4>1, <4>2
    <3> QED
      BY <2>1, <3>1, <3>2
  <2>4. \A i \in Cell : i \notin e .. SIZE => o[i] = m[i]
    <3> SUFFICES ASSUME NEW i \in Cell, i \notin e .. SIZE PROVE o[i] = m[i]
      OBVIOUS
    <3>1. i # e + k /\ i \notin e .. e + k - 1
      BY <1>3, <1>4, <1>6 DEF Cell
    <3> QED
      BY <1>7, <1>8, <3>1
  <2> HIDE DEF b, e
  <2>5. j \in 0 .. strlen(m, q)
    BY <2>1 DEF b
  <2>6. /\ \A i \in Cell : i \notin End(m, p) .. SIZE => o[i] = m[i]
        /\ \A i \in 0 .. j - 1 : o[End(m, p) + i] = m[q + i]
        /\ End(m, p) + j \in Cell /\ o[End(m, p) + j] = 0
    BY <2>2, <2>3, <2>4 DEF e
  <2> QED
    BY <1>8, <2>5, <2>6, Concatenated
<1> QED
  BY <1>1, <1>8, <1>9 DEF j, b

(* strcpy moves the string to where there is room for it; strncpy and       *)
(* strxfrm do the same as long as their limit is beyond its NUL.            *)
LEMMA CopyIs ==
  ASSUME NEW m \in Memory, NEW p \in Nat, NEW q, Room(m, p, q, strlen(m, q) + 1)
  PROVE  /\ Str(strcpy(m, p, q), p) = Str(m, q)
         /\ strlen(strcpy(m, p, q), p) = strlen(m, q)
         /\ \A i \in Cell : i \notin p .. p + strlen(m, q) => strcpy(m, p, q)[i] = m[i]
         /\ m \in [Cell -> Byte] => strcpy(m, p, q) \in [Cell -> Byte]
<1>1. /\ IsString(m, q) /\ p + (strlen(m, q) + 1) <= SIZE
      /\ Apart(p, strlen(m, q) + 1, q, strlen(m, q) + 1)
  BY DEF Room
<1>2. PICK o : o = memcpy(m, p, q, strlen(m, q) + 1)
  OBVIOUS
<1>3. o = strcpy(m, p, q)
  BY <1>2, Zenon DEF strcpy
<1>4. /\ strlen(o, p) = strlen(m, q) /\ Str(o, p) = Str(m, q)
      /\ m \in [Cell -> Byte] => o \in [Cell -> Byte]
      /\ \A i \in Cell : i \notin p .. p + strlen(m, q) => o[i] = m[i]
  BY <1>1, <1>2, StringCopied
<1> QED
  BY <1>3, <1>4

(* strncpy keeps bytes, and copies a string that ends within its limit.     *)
LEMMA LimitedCopyIs ==
  ASSUME NEW m \in Memory, NEW p \in Nat, NEW q, NEW n \in Nat, Room(m, p, q, Moved(m, q, n))
  PROVE  /\ n > strlen(m, q) => /\ Str(strncpy(m, p, q, n), p) = Str(m, q)
                                /\ strxfrm(m, p, q, n) = strlen(m, q)
         /\ m \in [Cell -> Byte] => strncpy(m, p, q, n) \in [Cell -> Byte]
<1>1. /\ IsString(m, q) /\ p + Moved(m, q, n) <= SIZE
      /\ Apart(p, Moved(m, q, n), q, strlen(m, q) + 1)
  BY DEF Room
<1>2. strncpy(m, p, q, n) = memcpy(m, p, q, Moved(m, q, n))
  BY Zenon DEF strncpy
<1>3. ASSUME n > strlen(m, q)
      PROVE  /\ Str(strncpy(m, p, q, n), p) = Str(m, q)
             /\ strxfrm(m, p, q, n) = strlen(m, q)
  <2>1. Moved(m, q, n) = strlen(m, q) + 1
    BY <1>1, <1>3, MovedIs
  <2>2. Room(m, p, q, strlen(m, q) + 1)
    BY <2>1
  <2>3. strncpy(m, p, q, n) = strcpy(m, p, q)
    BY <1>2, <2>1, Zenon DEF strcpy
  <2>4. Str(strcpy(m, p, q), p) = Str(m, q) /\ strlen(strcpy(m, p, q), p) = strlen(m, q)
    BY <2>2, CopyIs
  <2>5. strxfrm(m, p, q, n) = strlen(strncpy(m, p, q, n), p)
    BY Zenon DEF strxfrm
  <2> QED
    BY <2>3, <2>4, <2>5, Zenon
<1>4. m \in [Cell -> Byte] => strncpy(m, p, q, n) \in [Cell -> Byte]
  <2>1. PICK k \in 1 .. strlen(m, q) + 1 : k = Moved(m, q, n)
    BY <1>1, MovedIs
  <2>2. strlen(m, q) \in Nat /\ q \in Nat
    BY <1>1, StrIs
  <2>3. p + k <= SIZE /\ (p + k <= q \/ q + strlen(m, q) + 1 <= p)
    BY <1>1, <2>1, <2>2 DEF Apart
  <2>4. PICK o : o = memcpy(m, p, q, k)
    OBVIOUS
  <2>5. m \in [Cell -> Byte] => o \in [Cell -> Byte]
    BY <1>1, <2>3, <2>4, PartCopied
  <2> QED
    BY <1>2, <2>1, <2>4, <2>5
<1> QED
  BY <1>3, <1>4

(* Moves within the memory.                                                 *)
LEMMA MoveHolds ==
  ASSUME mem \in Memory, NEW p \in Cell, NEW q \in Cell, NEW n \in 0 .. SIZE - Max({p, q}),
         NEW o, o = memmove(mem, p, q, n)
  PROVE  /\ \A i \in 0 .. n - 1 : o[p + i] = mem[q + i]
         /\ Elsewhere(o, p, p + n - 1)
         /\ Apart(p, n, q, n) => memcpy(mem, p, q, n) = o
<1>1. SIZE \in Nat
  BY MemorySizes
<1>2. Max({p, q}) \in {p, q} /\ p <= Max({p, q}) /\ q <= Max({p, q})
  <2>1. {p, q} \subseteq 0 .. SIZE /\ {p, q} # {}
    BY <1>1 DEF Cell
  <2> QED
    BY <1>1, <2>1, MaxIsGreatest
<1>3. n \in Nat /\ p + n <= SIZE /\ q + n <= SIZE /\ p \in Nat /\ q \in Nat
  BY <1>1, <1>2 DEF Cell
<1>4. memmove(mem, p, q, n) = Moving(mem, p, q, n)
  BY <1>3, MoveIs
<1>5. Apart(p, n, q, n) => memcpy(mem, p, q, n) = Moving(mem, p, q, n)
  BY <1>3, MoveIs
<1>6. \A i \in 0 .. n - 1 : p + i \in Cell /\ Moving(mem, p, q, n)[p + i] = mem[q + i]
  BY <1>3, MovingIs
<1>7. \A i \in Cell : i \notin p .. p + n - 1 => Moving(mem, p, q, n)[i] = mem[i]
  BY <1>3, MovingIs
<1> QED
  BY <1>4, <1>5, <1>6, <1>7 DEF Elsewhere

(* All copies do what they promise.                                         *)
LEMMA CopiesHold == mem \in Memory => CopiesAgree
<1> SUFFICES ASSUME mem \in Memory, NEW p \in Cell, NEW q \in Cell
             PROVE  /\ \A n \in 0 .. SIZE - Max({p, q}) :
                         LET m == memmove(mem, p, q, n)
                         IN  /\ \A i \in 0 .. n - 1 : m[p + i] = mem[q + i]
                             /\ Elsewhere(m, p, p + n - 1)
                             /\ Apart(p, n, q, n) => memcpy(mem, p, q, n) = m
                    /\ q \in Strings /\ Room(mem, p, q, strlen(mem, q) + 1) =>
                         LET m == strcpy(mem, p, q)
                         IN  Str(m, p) = Str(mem, q) /\ Elsewhere(m, p, p + strlen(mem, q))
                    /\ {p, q} \subseteq Strings =>
                         \A n \in 0 .. SIZE :
                           /\ RoomToCat(mem, p, q, strlen(mem, q) + 1) =>
                                Str(strcat(mem, p, q), p) = Str(mem, p) \o Str(mem, q)
                           /\ n > 0 /\ RoomToCat(mem, p, q, Moved(mem, q, n) + 1) =>
                                Str(strncat(mem, p, q, n), p)
                                  = Str(mem, p) \o SubSeq(Str(mem, q), 1, Min({n, strlen(mem, q)}))
                           /\ n > strlen(mem, q) /\ Room(mem, p, q, Moved(mem, q, n)) =>
                                /\ Str(strncpy(mem, p, q, n), p) = Str(mem, q)
                                /\ strxfrm(mem, p, q, n) = strlen(mem, q)
  BY Zenon DEF CopiesAgree
<1>1. SIZE \in Nat /\ p \in Nat /\ q \in Nat
  BY MemorySizes DEF Cell
<1>2. ASSUME NEW n \in 0 .. SIZE - Max({p, q})
      PROVE  /\ \A i \in 0 .. n - 1 : memmove(mem, p, q, n)[p + i] = mem[q + i]
             /\ Elsewhere(memmove(mem, p, q, n), p, p + n - 1)
             /\ Apart(p, n, q, n) => memcpy(mem, p, q, n) = memmove(mem, p, q, n)
  <2>1. PICK o : o = memmove(mem, p, q, n)
    OBVIOUS
  <2>2. /\ \A i \in 0 .. n - 1 : o[p + i] = mem[q + i]
        /\ Elsewhere(o, p, p + n - 1)
        /\ Apart(p, n, q, n) => memcpy(mem, p, q, n) = o
    BY <2>1, MoveHolds
  <2> QED
    BY <2>1, <2>2
<1>3. ASSUME q \in Strings, Room(mem, p, q, strlen(mem, q) + 1)
      PROVE  /\ Str(strcpy(mem, p, q), p) = Str(mem, q)
             /\ Elsewhere(strcpy(mem, p, q), p, p + strlen(mem, q))
  BY <1>1, <1>3, CopyIs DEF Elsewhere
<1>4. ASSUME {p, q} \subseteq Strings, NEW n \in 0 .. SIZE
      PROVE  /\ RoomToCat(mem, p, q, strlen(mem, q) + 1) =>
                  Str(strcat(mem, p, q), p) = Str(mem, p) \o Str(mem, q)
             /\ n > 0 /\ RoomToCat(mem, p, q, Moved(mem, q, n) + 1) =>
                  Str(strncat(mem, p, q, n), p)
                    = Str(mem, p) \o SubSeq(Str(mem, q), 1, Min({n, strlen(mem, q)}))
             /\ n > strlen(mem, q) /\ Room(mem, p, q, Moved(mem, q, n)) =>
                  /\ Str(strncpy(mem, p, q, n), p) = Str(mem, q)
                  /\ strxfrm(mem, p, q, n) = strlen(mem, q)
  <2>1. IsString(mem, p) /\ IsString(mem, q) /\ n \in Nat
    BY <1>1, <1>4 DEF Strings
  <2>2. RoomToCat(mem, p, q, strlen(mem, q) + 1) =>
          Str(strcat(mem, p, q), p) = Str(mem, p) \o Str(mem, q)
    BY <2>1, CatIs
  <2>3. n > 0 /\ RoomToCat(mem, p, q, Moved(mem, q, n) + 1) =>
          Str(strncat(mem, p, q, n), p)
            = Str(mem, p) \o SubSeq(Str(mem, q), 1, Min({n, strlen(mem, q)}))
    BY <2>1, LimitedCatIs
  <2>4. n > strlen(mem, q) /\ Room(mem, p, q, Moved(mem, q, n)) =>
          /\ Str(strncpy(mem, p, q, n), p) = Str(mem, q)
          /\ strxfrm(mem, p, q, n) = strlen(mem, q)
    BY <1>1, <2>1, LimitedCopyIs
  <2> QED
    BY <2>2, <2>3, <2>4
<1> QED
  BY <1>2, <1>3, <1>4, Zenon

-----------------------------------------------------------------------------
(* The memory stays one of bytes, whatever is written into it.              *)
LEMMA BytesWritten ==
  ASSUME mem \in [Cell -> Byte], NEW p \in Cell, NEW q \in Cell, NEW n \in 0 .. SIZE,
         write_mem(p, q, n) \/ write_string(p, q, n)
  PROVE  mem' \in [Cell -> Byte]
<1>1. mem \in Memory /\ SIZE \in Nat /\ p \in Nat /\ q \in Nat /\ n \in Nat
  BY MemorySizes DEF Cell
<1>2. CASE write_mem(p, q, n)
  <2>1. p + n <= SIZE /\ q + n <= SIZE
    BY <1>2 DEF write_mem
  <2>2. Moving(mem, p, q, n) \in [Cell -> Byte]
    BY <1>1, <2>1, MovingIs
  <2>3. memmove(mem, p, q, n) \in [Cell -> Byte]
    BY <1>1, <2>1, <2>2, MoveIs
  <2>4. Apart(p, n, q, n) => memcpy(mem, p, q, n) \in [Cell -> Byte]
    BY <1>1, <2>1, <2>2, MoveIs
  <2>5. \A c \in Byte : memset(mem, p, c, n) \in [Cell -> Byte]
    BY DEF memset
  <2> QED
    BY <1>2, <2>3, <2>4, <2>5 DEF write_mem
<1>3. CASE write_string(p, q, n)
  <2>1. CASE IsString(mem, q) /\ Room(mem, p, q, strlen(mem, q) + 1) /\ mem' = strcpy(mem, p, q)
    BY <1>1, <2>1, CopyIs
  <2>2. CASE /\ IsString(mem, q) /\ RoomToCat(mem, p, q, strlen(mem, q) + 1)
             /\ mem' = strcat(mem, p, q)
    <3>1. IsString(mem, p)
      BY <2>2 DEF RoomToCat
    <3> QED
      BY <1>1, <2>2, <3>1, CatIs
  <2>3. CASE IsString(mem, q) /\ Room(mem, p, q, Moved(mem, q, n)) /\ mem' = strncpy(mem, p, q, n)
    BY <1>1, <2>3, LimitedCopyIs
  <2>4. CASE /\ IsString(mem, q) /\ RoomToCat(mem, p, q, Moved(mem, q, n) + 1)
             /\ mem' = strncat(mem, p, q, n)
    <3>1. IsString(mem, p)
      BY <2>4 DEF RoomToCat
    <3> QED
      BY <1>1, <2>4, <3>1, LimitedCatIs
  <2> QED
    BY <1>3, <2>1, <2>2, <2>3, <2>4 DEF write_string
<1> QED
  BY <1>2, <1>3

(* What the string functions promise holds after every sequence of calls,   *)
(* for every size of the memory and every set of characters (string.c       *)
(* 22-450), because whatever bytes a memory holds they keep it.             *)
THEOREM CStringKeepsContract == CStringSpec => []StringContract
<1> DEFINE Bytes == mem \in [Cell -> Byte]
<1>1. CStringInit => Bytes
  BY MemorySizes DEF CStringInit
<1>2. Bytes /\ [CStringNext]_cstring_vars => Bytes'
  <2> SUFFICES ASSUME mem \in [Cell -> Byte], [CStringNext]_cstring_vars
               PROVE  mem' \in [Cell -> Byte]
    OBVIOUS
  <2>1. CASE \E p, q \in Cell, n \in 0 .. SIZE : write_mem(p, q, n) \/ write_string(p, q, n)
    BY <2>1, BytesWritten
  <2>2. CASE \E p \in Cell \cup {NULL}, q \in Cell : strtok(p, q)
    <3>1. mem' = mem \/ \E s : mem' = [mem EXCEPT ![s] = 0]
      BY <2>2 DEF strtok
    <3>2. 0 \in Byte
      BY MemorySizes
    <3> QED
      BY <3>1, <3>2
  <2>3. CASE UNCHANGED cstring_vars
    BY <2>3 DEF cstring_vars
  <2> QED
    BY <2>1, <2>2, <2>3 DEF CStringNext
<1>3. Bytes => StringContract
  BY MemorySizes, ComparisonsHold, SearchesHold, CopiesHold DEF StringContract
<1> HIDE DEF Bytes
<1> QED
  BY <1>1, <1>2, <1>3, PTL DEF CStringSpec

(* The same of the memories that hold a string, as the runs evaluate it.    *)
THEOREM CStringAgrees == CStringSpec => []StringsAgree
<1>1. StringContract => StringsAgree
  BY DEF StringsAgree
<1> QED
  BY <1>1, CStringKeepsContract, PTL

-----------------------------------------------------------------------------
(* What Split makes of the beginnings of a line, one after another.         *)
Splitting == [words : Seq(Seq(LineChars)) \ {<<>>}, quoted : BOOLEAN]

IsSplit(g, line) ==
  /\ g \in [0 .. Len(line) -> Splitting]
  /\ g[0] = [words |-> <<<<>>>>, quoted |-> FALSE]
  /\ \A k \in 1 .. Len(line) : g[k] = Typed(g[k - 1], line[k])

(* No character of a line is NUL, and the characters differ.                *)
LEMMA LineCharsDiffer ==
  /\ NUL \notin LineChars /\ SP # NUL /\ QUOTE # NUL /\ SP # QUOTE
  /\ SP \in LineChars /\ QUOTE \in LineChars
  /\ X_BUFF \in Nat /\ X_BUFF > 0 /\ Y_BUFF \in Nat /\ Y_BUFF > 0
<1>1. SP # NUL /\ QUOTE # NUL /\ SP # QUOTE
  BY DEF NUL, SP, QUOTE
<1>2. SP \in LineChars /\ QUOTE \in LineChars
  BY DEF LineChars
<1>3. NUL \notin LineChars
  BY <1>1, WordCharsAssumption DEF LineChars
<1> QED
  BY <1>1, <1>2, <1>3, CommandLineAssumption

(* A character more keeps the words and makes none shorter.                 *)
LEMMA TypedIs ==
  ASSUME NEW w \in Splitting, NEW c \in LineChars
  PROVE  /\ Typed(w, c) \in Splitting
         /\ Len(Typed(w, c).words) >= Len(w.words)
         /\ \A k \in 1 .. Len(w.words) : Len(Typed(w, c).words[k]) >= Len(w.words[k])
<1>1. w.words \in Seq(Seq(LineChars)) /\ w.words # <<>> /\ w.quoted \in BOOLEAN
  BY DEF Splitting
<1>2. /\ Len(w.words) \in Nat /\ Len(w.words) > 0
      /\ \A k \in 1 .. Len(w.words) : w.words[k] \in Seq(LineChars)
  <2>1. \A k \in 1 .. Len(w.words) : w.words[k] \in Seq(LineChars)
    BY <1>1, ElementOfSeq
  <2> QED
    BY <1>1, <2>1
<1>3. CASE c = QUOTE
  <2>1. Typed(w, c) = [w EXCEPT !.quoted = ~@]
    BY <1>3 DEF Typed
  <2>2. Typed(w, c) = [words |-> w.words, quoted |-> ~w.quoted]
    BY <2>1 DEF Splitting
  <2> QED
    BY <1>1, <1>2, <2>2 DEF Splitting
<1>4. CASE c # QUOTE /\ c = SP /\ ~w.quoted /\ ~Blank(Last(w.words))
  <2>1. Typed(w, c) = [w EXCEPT !.words = Append(@, <<>>)]
    BY <1>4 DEF Typed
  <2>2. Typed(w, c) = [words |-> Append(w.words, <<>>), quoted |-> w.quoted]
    BY <2>1 DEF Splitting
  <2>3. /\ Append(w.words, <<>>) \in Seq(Seq(LineChars)) /\ Append(w.words, <<>>) # <<>>
        /\ Len(Append(w.words, <<>>)) >= Len(w.words)
        /\ \A k \in 1 .. Len(w.words) : Append(w.words, <<>>)[k] = w.words[k]
    <3>1. <<>> \in Seq(LineChars)
      OBVIOUS
    <3>2. PICK e \in Seq(LineChars) : e = <<>>
      BY <3>1
    <3>3. /\ Append(w.words, e) \in Seq(Seq(LineChars)) /\ Len(Append(w.words, e)) = Len(w.words) + 1
          /\ \A k \in 1 .. Len(w.words) : Append(w.words, e)[k] = w.words[k]
      BY <1>1
    <3>4. Append(w.words, e) # <<>>
      BY <1>2, <3>3
    <3> QED
      BY <1>2, <3>2, <3>3, <3>4
  <2>4. \A k \in 1 .. Len(w.words) : Len(Append(w.words, <<>>)[k]) >= Len(w.words[k])
    BY <1>2, <2>3
  <2> QED
    BY <1>1, <2>2, <2>3, <2>4 DEF Splitting
<1>5. CASE c # QUOTE /\ ~(c = SP /\ ~w.quoted /\ ~Blank(Last(w.words)))
  <2> DEFINE n == Len(w.words)
             v == [w.words EXCEPT ![n] = Append(@, c)]
  <2>1. Typed(w, c) = [w EXCEPT !.words[n] = Append(@, c)]
    BY <1>5, Zenon DEF Typed
  <2>2. Typed(w, c) = [words |-> v, quoted |-> w.quoted]
    BY <2>1 DEF Splitting
  <2>3. n \in 1 .. n /\ w.words[n] \in Seq(LineChars)
    BY <1>2
  <2>4. Append(w.words[n], c) \in Seq(LineChars)
        /\ Len(Append(w.words[n], c)) >= Len(w.words[n])
    BY <2>3
  <2>5. v \in Seq(Seq(LineChars)) /\ Len(v) = n
    BY <1>1, <2>3, <2>4
  <2>6. v # <<>>
    BY <1>2, <2>5
  <2>7. \A k \in 1 .. n : Len(v[k]) >= Len(w.words[k])
    BY <1>1, <1>2, <2>3, <2>4
  <2> HIDE DEF v
  <2> QED
    BY <1>1, <1>2, <2>2, <2>5, <2>6, <2>7 DEF Splitting
<1> QED
  BY <1>3, <1>4, <1>5

(* Split is such a run.                                                     *)
LEMMA SplitRun ==
  ASSUME NEW line \in Seq(LineChars)
  PROVE  \E g : IsSplit(g, line) /\ Split(line) = g[Len(line)]
<1> DEFINE n == Len(line)
           start == [words |-> <<<<>>>>, quoted |-> FALSE]
           F == [a \in Splitting \X (1 .. n) |-> Typed(a[1], line[a[2]])]
           Is(h) == h = [r \in SUBSET (1 .. n) |->
                           IF r = {} THEN start
                           ELSE Typed(h[r \ {Max(r)}], line[Max(r)])]
           iter == CHOOSE h : Is(h)
           g == [k \in 0 .. n |-> iter[1 .. k]]
<1>1. n \in Nat /\ start \in Splitting
  <2>1. <<>> \in Seq(LineChars)
    OBVIOUS
  <2>2. <<<<>>>> \in Seq(Seq(LineChars)) /\ <<<<>>>> # <<>>
    BY <2>1
  <2> QED
    BY <2>2 DEF Splitting
<1>2. Split(line) = iter[1 .. n]
  <2>1. DOMAIN line = 1 .. n
    OBVIOUS
  <2> QED
    BY <2>1, Zenon DEF Split, FoldLeft, MapThenFoldSet
<1>3. ASSUME NEW w \in Splitting, NEW k \in 1 .. n PROVE Typed(w, line[k]) \in Splitting
  <2>1. line[k] \in LineChars
    BY ElementOfSeq
  <2> QED
    BY <2>1, TypedIs
<1>4. F \in [Splitting \X (1 .. n) -> Splitting]
  BY <1>3
<1>5. PICK h \in [SUBSET (1 .. n) -> Splitting] :
        \A r \in SUBSET (1 .. n) :
          /\ h[r] = IF r = {} THEN start ELSE F[<<h[r \ {Max(r)}], Max(r)>>]
          /\ r # {} => Max(r) \in 1 .. n
  <2> HIDE DEF F, start, n
  <2> QED
    BY <1>1, <1>4, FoldExists
<1>6. \A r \in SUBSET (1 .. n) :
        h[r] = IF r = {} THEN start ELSE Typed(h[r \ {Max(r)}], line[Max(r)])
  <2> SUFFICES ASSUME NEW r \in SUBSET (1 .. n), r # {}
               PROVE  h[r] = Typed(h[r \ {Max(r)}], line[Max(r)])
    BY <1>5
  <2>1. h[r \ {Max(r)}] \in Splitting /\ Max(r) \in 1 .. n
    BY <1>5
  <2> QED
    BY <1>5, <2>1
<1>7. Is(iter)
  <2>1. Is(h)
    BY <1>6
  <2> QED
    BY <2>1
<1> HIDE DEF iter, F
<1>8. /\ iter[1 .. 0] = start
      /\ \A k \in 1 .. n : iter[1 .. k] = Typed(iter[1 .. k - 1], line[k])
  <2>1. 1 .. 0 \in SUBSET (1 .. n) /\ 1 .. 0 = {}
    OBVIOUS
  <2>2. ASSUME NEW k \in 1 .. n
        PROVE  iter[1 .. k] = Typed(iter[1 .. k - 1], line[k])
    <3>1. /\ 1 .. k \in SUBSET (1 .. n) /\ Max(1 .. k) = k
          /\ (1 .. k) \ {k} = 1 .. k - 1 /\ 1 .. k # {}
      <4>1. k \in Nat /\ k # 0
        OBVIOUS
      <4>2. 1 .. k \subseteq 1 .. n
        OBVIOUS
      <4> QED
        BY <4>1, <4>2, FirstK
    <3>2. iter[1 .. k] = Typed(iter[(1 .. k) \ {Max(1 .. k)}], line[Max(1 .. k)])
      BY <1>7, <3>1
    <3> QED
      BY <3>1, <3>2
  <2> QED
    BY <1>7, <2>1, <2>2
<1> HIDE DEF Is
<1>9. /\ g[0] = start /\ g[n] = iter[1 .. n]
      /\ \A k \in 1 .. n : g[k] = Typed(g[k - 1], line[k])
  <2>1. ASSUME NEW k \in 1 .. n PROVE g[k] = Typed(g[k - 1], line[k])
    <3>1. k \in 0 .. n /\ k - 1 \in 0 .. n
      OBVIOUS
    <3>2. g[k] = iter[1 .. k] /\ g[k - 1] = iter[1 .. k - 1]
      BY <3>1
    <3> QED
      BY <1>8, <3>2, Zenon
  <2>2. g[0] = iter[1 .. 0] /\ g[n] = iter[1 .. n]
    OBVIOUS
  <2> QED
    BY <1>8, <2>1, <2>2
<1>10. g \in [0 .. n -> Splitting]
  <2> DEFINE W == {k \in 0 .. n : g[k] \in Splitting}
  <2>1. 0 \in W
    BY <1>1, <1>9
  <2>2. ASSUME NEW k \in 1 .. n, k - 1 \in W PROVE k \in W
    <3>1. g[k - 1] \in Splitting /\ k \in 0 .. n
      BY <2>2
    <3>2. g[k] \in Splitting
      <4> HIDE DEF g
      <4> QED
        BY <1>3, <1>9, <3>1
    <3> QED
      BY <3>1, <3>2
  <2>3. 0 .. n \subseteq W
    <3> HIDE DEF W
    <3> QED
      BY <1>1, <2>1, <2>2, UpTo
  <2> QED
    BY <2>3
<1> HIDE DEF g
<1>11. IsSplit(g, line)
  BY <1>9, <1>10 DEF IsSplit
<1> QED
  BY <1>2, <1>9, <1>11

(* Splitting a longer line goes on where a shorter one ended.               *)
LEMMA SplitOn ==
  ASSUME NEW line \in Seq(LineChars), NEW c \in LineChars
  PROVE  /\ Split(line) \in Splitting
         /\ Split(Append(line, c)) = Typed(Split(line), c)
<1> DEFINE n == Len(line)
           longer == Append(line, c)
<1>1. PICK g : IsSplit(g, line) /\ Split(line) = g[n]
  BY SplitRun
<1>2. /\ longer \in Seq(LineChars) /\ Len(longer) = n + 1 /\ longer[n + 1] = c /\ n \in Nat
      /\ \A k \in 1 .. n : longer[k] = line[k]
  OBVIOUS
<1> HIDE DEF longer
<1>3. PICK h : IsSplit(h, longer) /\ Split(longer) = h[Len(longer)]
  BY <1>2, SplitRun
<1> DEFINE W == {k \in 0 .. n : g[k] = h[k]}
<1>4. 0 \in W
  <2>1. g[0] = [words |-> <<<<>>>>, quoted |-> FALSE]
    BY <1>1 DEF IsSplit
  <2>2. h[0] = [words |-> <<<<>>>>, quoted |-> FALSE]
    BY <1>3 DEF IsSplit
  <2>3. 0 \in 0 .. n
    BY <1>2
  <2> QED
    BY <2>1, <2>2, <2>3, Zenon
<1>5. ASSUME NEW k \in 1 .. n, k - 1 \in W PROVE k \in W
  <2>1. k \in 1 .. Len(longer) /\ g[k - 1] = h[k - 1]
    BY <1>2, <1>5
  <2>2. g[k] = Typed(g[k - 1], line[k]) /\ h[k] = Typed(h[k - 1], longer[k])
    BY <1>1, <1>3, <2>1 DEF IsSplit
  <2> QED
    BY <1>2, <2>1, <2>2
<1>6. g[n] = h[n]
  <2>1. 0 .. n \subseteq W
    <3> HIDE DEF W
    <3> QED
      BY <1>2, <1>4, <1>5, UpTo
  <2> QED
    BY <1>2, <2>1
<1>7. h[n + 1] = Typed(h[n], c)
  <2>1. n + 1 \in 1 .. Len(longer) /\ (n + 1) - 1 = n
    BY <1>2
  <2> QED
    BY <1>2, <1>3, <2>1 DEF IsSplit
<1>8. g[n] \in Splitting
  BY <1>1, <1>2 DEF IsSplit
<1> QED
  BY <1>1, <1>2, <1>3, <1>6, <1>7, <1>8 DEF longer

(* Before the first character there is one word, empty.                     *)
LEMMA SplitStart == Split(<<>>) = [words |-> <<<<>>>>, quoted |-> FALSE]
<1>1. <<>> \in Seq(LineChars) /\ Len(<<>>) = 0
  OBVIOUS
<1>2. PICK g : IsSplit(g, <<>>) /\ Split(<<>>) = g[Len(<<>>)]
  BY <1>1, SplitRun
<1> QED
  BY <1>1, <1>2 DEF IsSplit

-----------------------------------------------------------------------------
(* The places of the array.                                                 *)
Rows == 0 .. X_BUFF - 1
Columns == 0 .. Y_BUFF - 1
Top == (X_BUFF + 1) * Y_BUFF

(* A row ends before the next one begins.                                   *)
LEMMA RowBehindRow ==
  ASSUME NEW j \in Nat, NEW k \in Nat, j < k
  PROVE  j * Y_BUFF + Y_BUFF <= k * Y_BUFF
BY LineCharsDiffer

(* Two places of the array are one only in the same row and column.         *)
LEMMA PlacesDiffer ==
  ASSUME NEW j \in Nat, NEW k \in Nat, NEW a \in Columns, NEW b \in Columns,
         CellAt(j, a) = CellAt(k, b)
  PROVE  j = k /\ a = b
<1>1. Y_BUFF \in Nat /\ j * Y_BUFF \in Nat /\ k * Y_BUFF \in Nat
  BY LineCharsDiffer
<1>2. j * Y_BUFF + a = k * Y_BUFF + b /\ a \in 0 .. Y_BUFF - 1 /\ b \in 0 .. Y_BUFF - 1
  BY DEF CellAt, Columns
<1>3. ~(j < k)
  BY <1>1, <1>2, RowBehindRow
<1>4. ~(k < j)
  BY <1>1, <1>2, RowBehindRow
<1>5. j = k
  BY <1>3, <1>4
<1>6. PICK r \in Nat : r = j * Y_BUFF /\ r = k * Y_BUFF
  BY <1>1, <1>5
<1>7. a = b
  BY <1>2, <1>6
<1> QED
  BY <1>5, <1>7

(* The rows lie in the array, one column after another.                     *)
LEMMA PlacesWithin ==
  /\ Top \in Nat /\ Max(ArrayPlaces) = Top /\ ArrayPlaces = -1 .. Top
  /\ \A k \in Rows, a \in Columns :
       /\ CellAt(k, a) \in 0 .. Top /\ CellAt(k, a) \in 0 .. X_BUFF * Y_BUFF - 1
       /\ CellAt(k, a) = CellAt(k, 0) + a /\ CellAt(k, 0) \in Nat
<1>1. Top \in Nat /\ ArrayPlaces = -1 .. Top
  BY LineCharsDiffer DEF Top, ArrayPlaces
<1>2. Max(ArrayPlaces) = Top
  <2>1. Top \in ArrayPlaces /\ \A i \in ArrayPlaces : Top >= i
    BY <1>1
  <2>2. \A t \in ArrayPlaces : (\A i \in ArrayPlaces : t >= i) => t = Top
    BY <1>1
  <2> QED
    BY <2>1, <2>2 DEF Max
<1>3. ASSUME NEW k \in Rows, NEW a \in Columns
      PROVE  /\ CellAt(k, a) \in 0 .. Top /\ CellAt(k, a) \in 0 .. X_BUFF * Y_BUFF - 1
             /\ CellAt(k, a) = CellAt(k, 0) + a /\ CellAt(k, 0) \in Nat
  <2>1. k \in Nat /\ k < X_BUFF /\ X_BUFF \in Nat /\ Y_BUFF \in Nat /\ a \in 0 .. Y_BUFF - 1
    BY LineCharsDiffer DEF Rows, Columns
  <2>2. k * Y_BUFF + Y_BUFF <= X_BUFF * Y_BUFF /\ k * Y_BUFF \in Nat /\ X_BUFF * Y_BUFF \in Nat
    BY <2>1, RowBehindRow
  <2>3. Top = X_BUFF * Y_BUFF + Y_BUFF
    BY <2>1 DEF Top
  <2> QED
    BY <2>1, <2>2, <2>3 DEF CellAt
<1> QED
  BY <1>1, <1>2, <1>3

(* The words in their rows, NUL behind them.                                *)
LetterOf(words, k, a) ==
  IF k < Len(words) /\ a < Len(words[k + 1]) THEN words[k + 1][a + 1] ELSE NUL
Shows(s, words) == \A k \in Rows, a \in Columns : s[CellAt(k, a)] = LetterOf(words, k, a)
FitsIn(words) == Len(words) <= X_BUFF /\ \A k \in DOMAIN words : Len(words[k]) < Y_BUFF

(* The same while the place at row, column holds c.                         *)
ShowsBut(s, words, row, column, c) ==
  \A k \in Rows, a \in Columns :
    s[CellAt(k, a)] = IF k = row /\ a = column THEN c ELSE LetterOf(words, k, a)

(* What WordAt reads from an array.                                         *)
TextOf(s, row) ==
  LET end == Min({i \in CellAt(row, 0) .. Max(ArrayPlaces) : s[i] = NUL})
  IN  [i \in 1 .. end - CellAt(row, 0) |-> s[CellAt(row, i - 1)]]

(* What is read from a row of an array that shows the words is the word.    *)
LEMMA WordsShown ==
  ASSUME NEW words \in Seq(Seq(LineChars)), FitsIn(words), NEW s, Shows(s, words),
         DOMAIN s = ArrayPlaces, NEW k \in 1 .. X_BUFF,
         NEW u, u = IF k <= Len(words) THEN words[k] ELSE <<>>
  PROVE  TextOf(s, k - 1) = u
<1> DEFINE b == CellAt(k - 1, 0)
           n == Len(u)
           N == {i \in b .. Max(ArrayPlaces) : s[i] = NUL}
<1>1. /\ u \in Seq(LineChars) /\ n \in Nat /\ n < Y_BUFF /\ k - 1 \in Rows
      /\ \A i \in 1 .. n : u[i] \in LineChars /\ u[i] # NUL
  <2>1. u \in Seq(LineChars) /\ Len(u) < Y_BUFF
    <3>1. CASE k <= Len(words)
      <4>1. k \in 1 .. Len(words) /\ k \in DOMAIN words
        BY <3>1
      <4> QED
        BY <3>1, <4>1, ElementOfSeq DEF FitsIn
    <3>2. CASE ~(k <= Len(words))
      BY <3>2, LineCharsDiffer
    <3> QED
      BY <3>1, <3>2
  <2>2. \A i \in 1 .. n : u[i] \in LineChars
    BY <2>1, ElementOfSeq
  <2>3. k - 1 \in Rows
    BY LineCharsDiffer DEF Rows
  <2> QED
    BY <2>1, <2>2, <2>3, LineCharsDiffer
<1>2. \A a \in Columns : LetterOf(words, k - 1, a) = IF a < n THEN u[a + 1] ELSE NUL
  <2> TAKE a \in Columns
  <2>1. (k - 1) + 1 = k /\ (k - 1 < Len(words) <=> k <= Len(words)) /\ a \in Nat
    BY DEF Columns
  <2> QED
    BY <2>1 DEF LetterOf
<1>3. \A a \in Columns : s[CellAt(k - 1, a)] = IF a < n THEN u[a + 1] ELSE NUL
  BY <1>1, <1>2 DEF Shows
<1>4. /\ b \in Nat /\ Max(ArrayPlaces) \in Nat
      /\ \A a \in Columns : CellAt(k - 1, a) = b + a /\ b + a <= Max(ArrayPlaces)
  <2>1. /\ Max(ArrayPlaces) = Top /\ Top \in Nat
        /\ \A a \in Columns : CellAt(k - 1, a) \in 0 .. Top /\ CellAt(k - 1, a) = b + a /\ b \in Nat
    BY <1>1, PlacesWithin
  <2>2. 0 \in Columns
    BY LineCharsDiffer DEF Columns
  <2> HIDE DEF b
  <2> QED
    BY <2>1, <2>2
<1> HIDE DEF b, n
<1>5. Min(N) = b + n
  <2>1. n \in Columns /\ \A a \in 0 .. n - 1 : a \in Columns /\ a + 1 \in 1 .. n
    BY <1>1, LineCharsDiffer DEF Columns
  <2>2. b + n \in N
    BY <1>1, <1>3, <1>4, <2>1
  <2>3. \A i \in N : b + n <= i
    <3> SUFFICES ASSUME NEW i \in N, i < b + n PROVE FALSE
      BY <1>1, <1>4
    <3>1. i - b \in 0 .. n - 1 /\ b + (i - b) = i
      BY <1>1, <1>4
    <3>4. PICK a \in 0 .. n - 1 : a = i - b
      BY <3>1
    <3>2. a \in Columns /\ a + 1 \in 1 .. n /\ b + a = i /\ a < n
      BY <1>1, <1>4, <2>1, <3>1, <3>4
    <3>3. s[i] = u[a + 1]
      BY <1>3, <1>4, <3>2
    <3> QED
      BY <1>1, <3>2, <3>3
  <2>4. N \subseteq Nat
    BY <1>4
  <2> HIDE DEF N
  <2>5. PICK e \in N : e = b + n
    BY <2>2
  <2> QED
    BY <2>3, <2>4, <2>5, MinIs
<1>6. [i \in 1 .. n |-> s[CellAt(k - 1, i - 1)]] = u
  <2>1. \A i \in 1 .. n : s[CellAt(k - 1, i - 1)] = u[i]
    <3> TAKE i \in 1 .. n
    <3>1. i - 1 \in Columns /\ i - 1 < n /\ (i - 1) + 1 = i
      BY <1>1, LineCharsDiffer DEF Columns
    <3> QED
      BY <1>3, <3>1
  <2>2. \A i \in 1 .. n : u[i] \in LineChars
    BY <1>1
  <2>3. u = [i \in 1 .. n |-> u[i]]
    BY <1>1 DEF n
  <2> QED
    BY <2>1, <2>3
<1>7. (b + n) - b = n
  BY <1>1, <1>4
<1> QED
  BY <1>5, <1>6, <1>7 DEF b, TextOf

(* A place written holds what is written, and no other place changes.       *)
LEMMA PlaceWritten ==
  ASSUME NEW s, DOMAIN s = ArrayPlaces, NEW words, NEW row \in Rows, NEW column \in Columns,
         Shows([s EXCEPT ![CellAt(row, column)] = NUL], words), NEW c
  PROVE  ShowsBut([s EXCEPT ![CellAt(row, column)] = c], words, row, column, c)
<1> SUFFICES ASSUME NEW k \in Rows, NEW a \in Columns
             PROVE  [s EXCEPT ![CellAt(row, column)] = c][CellAt(k, a)]
                      = IF k = row /\ a = column THEN c ELSE LetterOf(words, k, a)
  BY DEF ShowsBut
<1>1. CellAt(k, a) \in ArrayPlaces /\ CellAt(row, column) \in ArrayPlaces
  BY PlacesWithin
<1>2. [s EXCEPT ![CellAt(row, column)] = NUL][CellAt(k, a)] = LetterOf(words, k, a)
  BY DEF Shows
<1>3. CellAt(k, a) = CellAt(row, column) <=> k = row /\ a = column
  <2>1. k \in Nat /\ row \in Nat
    BY DEF Rows
  <2> QED
    BY <2>1, PlacesDiffer
<1> QED
  BY <1>1, <1>2, <1>3

(* A row read from its start: only spaces, if its word is.                  *)
LEMMA SpacesRead ==
  ASSUME NEW words \in Seq(Seq(LineChars)), words # <<>>, FitsIn(words),
         NEW row, row = Len(words) - 1, NEW word, word = words[Len(words)], NEW s,
         ShowsBut(s, words, row, Len(word), SP)
  PROVE  /\ ~Blank(word) => ~OnlySpaces(s, row)
         /\ Blank(word) /\ Len(word) + 1 < Y_BUFF => OnlySpaces(s, row)
<1> DEFINE n == Len(word)
           b == CellAt(row, 0)
           other == {i \in b .. Max(ArrayPlaces) : s[i] # SP}
<1>1. /\ Len(words) \in Nat /\ Len(words) > 0 /\ row \in Rows /\ Len(words) = row + 1
      /\ word \in Seq(LineChars) /\ n \in Nat /\ n < Y_BUFF
      /\ \A i \in 1 .. n : word[i] \in LineChars /\ word[i] # NUL
  <2>1. Len(words) \in Nat /\ Len(words) > 0 /\ Len(words) <= X_BUFF
    BY DEF FitsIn
  <2>2. Len(words) \in 1 .. Len(words) /\ Len(words) \in DOMAIN words
    BY <2>1
  <2>3. word \in Seq(LineChars) /\ n < Y_BUFF
    BY <2>2, ElementOfSeq DEF FitsIn
  <2>4. \A i \in 1 .. n : word[i] \in LineChars
    BY <2>3, ElementOfSeq
  <2>5. row \in Rows
    BY <2>1, LineCharsDiffer DEF Rows
  <2> QED
    BY <2>1, <2>3, <2>4, <2>5, LineCharsDiffer
<1>2. /\ Max(ArrayPlaces) \in Nat /\ b \in Nat
      /\ \A a \in Columns : CellAt(row, a) = b + a /\ b + a <= Max(ArrayPlaces)
  <2>1. /\ Max(ArrayPlaces) = Top /\ Top \in Nat
        /\ \A a \in Columns : CellAt(row, a) \in 0 .. Top /\ CellAt(row, a) = b + a /\ b \in Nat
    BY <1>1, PlacesWithin
  <2>2. 0 \in Columns
    BY LineCharsDiffer DEF Columns
  <2> HIDE DEF b
  <2> QED
    BY <2>1, <2>2
<1>3. \A a \in Columns : s[b + a] = IF a = n THEN SP ELSE IF a < n THEN word[a + 1] ELSE NUL
  <2> TAKE a \in Columns
  <2>1. s[CellAt(row, a)] = IF a = n THEN SP ELSE LetterOf(words, row, a)
    BY <1>1 DEF ShowsBut
  <2>2. LetterOf(words, row, a) = IF a < n THEN word[a + 1] ELSE NUL
    BY <1>1 DEF LetterOf
  <2> QED
    BY <1>2, <2>1, <2>2
<1>4. OnlySpaces(s, row) <=> other = {} \/ s[Min(other)] = NUL
  BY Zenon DEF OnlySpaces
<1>5. other \subseteq Nat
  BY <1>2
<1> HIDE DEF b, n
<1>6. ASSUME ~Blank(word) PROVE ~OnlySpaces(s, row)
  <2>1. PICK j \in 1 .. n : word[j] # SP
    BY <1>1, <1>6 DEF Blank, n
  <2>2. PICK a \in Columns : a = j - 1 /\ a < n /\ a + 1 = j
    BY <1>1, LineCharsDiffer DEF Columns
  <2>3. b + a \in other
    BY <1>2, <1>3, <1>1, <2>1, <2>2 DEF Columns
  <2> DEFINE m == Min(other)
  <2>4. m \in other /\ m <= b + a
    BY <1>5, <2>3, MinIsLeast
  <2> HIDE DEF m
  <2>5. PICK d \in Columns : b + d = m /\ d < n /\ d + 1 \in 1 .. n
    <3>1. m - b \in 0 .. a /\ a \in Nat /\ b + (m - b) = m
      BY <1>2, <2>2, <2>4 DEF Columns
    <3>2. m - b \in Columns /\ m - b < n /\ (m - b) + 1 \in 1 .. n
      BY <1>1, <2>2, <3>1, LineCharsDiffer DEF Columns
    <3> QED
      BY <3>1, <3>2
  <2>6. s[m] = word[d + 1]
    <3>1. d # n
      BY <1>1, <2>5 DEF Columns
    <3> QED
      BY <1>3, <2>5, <3>1
  <2>7. s[m] # NUL /\ other # {}
    BY <1>1, <2>3, <2>5, <2>6
  <2> QED
    BY <1>4, <2>7 DEF m
<1>7. ASSUME Blank(word), n + 1 < Y_BUFF PROVE OnlySpaces(s, row)
  <2>1. n + 1 \in Columns /\ n + 1 # n /\ ~(n + 1 < n)
    BY <1>1, <1>7, LineCharsDiffer DEF Columns
  <2>2. PICK e : e = b + (n + 1)
    OBVIOUS
  <2>3. s[e] = NUL /\ e <= Max(ArrayPlaces)
    BY <1>2, <1>3, <2>1, <2>2
  <2>4. e \in other
    BY <1>1, <1>2, <2>2, <2>3, LineCharsDiffer
  <2>5. \A i \in other : e <= i
    <3> SUFFICES ASSUME NEW i \in other, i < e PROVE FALSE
      BY <1>1, <1>2, <2>2
    <3>1. PICK a \in Columns : b + a = i /\ a <= n
      <4>1. i - b \in 0 .. n /\ b + (i - b) = i
        BY <1>1, <1>2, <2>2
      <4>2. i - b \in Columns
        BY <1>1, <4>1, LineCharsDiffer DEF Columns
      <4> QED
        BY <4>1, <4>2
    <3>2. s[i] = SP
      <4>1. CASE a = n
        BY <1>3, <3>1, <4>1
      <4>2. CASE a # n
        <5>1. a < n /\ a + 1 \in 1 .. n
          BY <1>1, <3>1, <4>2 DEF Columns
        <5>2. word[a + 1] = SP
          BY <1>1, <1>7, <5>1 DEF Blank, n
        <5> QED
          BY <1>3, <3>1, <4>2, <5>1, <5>2
      <4> QED
        BY <4>1, <4>2
    <3> QED
      BY <3>2
  <2>6. Min(other) = e
    BY <1>5, <2>4, <2>5, MinIs
  <2> QED
    BY <1>4, <2>3, <2>6
<1> QED
  BY <1>6, <1>7 DEF n

-----------------------------------------------------------------------------
(* HarmlessQuotes of a line, in a form that can be used of two of them.     *)
HarmlessAt(line, i) ==
  LET before == Split(SubSeq(line, 1, i - 1))
      word   == Last(before.words)
  IN  word # <<>> /\ (before.quoted => Last(word) # SP)
HarmlessIn(line) == \A i \in 1 .. Len(line) : line[i] = QUOTE => HarmlessAt(line, i)

(* The two forms say the same.                                              *)
LEMMA HarmlessIs ==
  ASSUME Input \in Seq(LineChars)
  PROVE  HarmlessQuotes <=> HarmlessIn(Input)
<1>1. DOMAIN Input = 1 .. Len(Input)
  OBVIOUS
<1>2. HarmlessQuotes <=> \A i \in {k \in DOMAIN Input : Input[k] = QUOTE} : HarmlessAt(Input, i)
  BY Zenon DEF HarmlessQuotes, HarmlessAt
<1> QED
  BY <1>1, <1>2 DEF HarmlessIn

(* Quotes are harmless only if those before were.                           *)
LEMMA HarmlessBefore ==
  ASSUME NEW line \in Seq(LineChars), NEW c \in LineChars, HarmlessIn(Append(line, c))
  PROVE  /\ HarmlessIn(line)
         /\ c = QUOTE => /\ Last(Split(line).words) # <<>>
                         /\ Split(line).quoted => Last(Last(Split(line).words)) # SP
<1> DEFINE n == Len(line)
           longer == Append(line, c)
<1>1. /\ longer \in Seq(LineChars) /\ Len(longer) = n + 1 /\ n \in Nat /\ longer[n + 1] = c
      /\ \A i \in 1 .. n : longer[i] = line[i]
  OBVIOUS
<1>2. ASSUME NEW i \in 1 .. n + 1
      PROVE  SubSeq(longer, 1, i - 1) = SubSeq(line, 1, i - 1)
  <2>1. PICK j \in 0 .. n : j = i - 1
    BY <1>1
  <2>2. \A k \in 1 .. j : longer[k] = line[k]
    BY <1>1, <2>1
  <2>3. SubSeq(longer, 1, j) = [k \in 1 .. j |-> longer[k]]
    <3>1. (j - 1) + 1 = j /\ \A k \in 1 .. j : (k + 1) - 1 = k
      BY <2>1
    <3> HIDE DEF longer
    <3> QED
      BY <1>1, <2>1, <3>1
  <2>4. SubSeq(line, 1, j) = [k \in 1 .. j |-> line[k]]
    BY <1>1, <2>1
  <2> HIDE DEF longer
  <2> QED
    BY <2>1, <2>2, <2>3, <2>4
<1>3. SubSeq(line, 1, (n + 1) - 1) = line
  <2>1. (n + 1) - 1 = n
    BY <1>1
  <2>2. SubSeq(line, 1, n) = line
    BY SubSeqFull
  <2> QED
    BY <2>1, <2>2
<1> HIDE DEF longer, n
<1>4. \A i \in 1 .. n : HarmlessAt(longer, i) <=> HarmlessAt(line, i)
  <2> TAKE i \in 1 .. n
  <2>1. i \in 1 .. n + 1
    BY <1>1
  <2>2. SubSeq(longer, 1, i - 1) = SubSeq(line, 1, i - 1)
    BY <1>2, <2>1
  <2> QED
    BY <2>2, Zenon DEF HarmlessAt
<1>5. HarmlessIn(line)
  <2>1. \A i \in 1 .. n : i \in 1 .. Len(longer)
    BY <1>1
  <2>2. HarmlessIn(longer)
    BY DEF longer
  <2> QED
    BY <1>1, <1>4, <2>1, <2>2 DEF HarmlessIn, n
<1>6. ASSUME c = QUOTE
      PROVE  /\ Last(Split(line).words) # <<>>
             /\ Split(line).quoted => Last(Last(Split(line).words)) # SP
  <2>1. PICK k \in 1 .. Len(longer) : k = n + 1 /\ k \in 1 .. n + 1
    BY <1>1
  <2>2. HarmlessIn(longer)
    BY DEF longer
  <2>3. HarmlessAt(longer, k)
    BY <1>1, <1>6, <2>1, <2>2 DEF HarmlessIn
  <2>4. SubSeq(longer, 1, k - 1) = line
    BY <1>2, <1>3, <2>1
  <2> QED
    BY <2>3, <2>4, Zenon DEF HarmlessAt
<1> QED
  BY <1>5, <1>6

(* While the line is read the words are in their rows, but for the place    *)
(* that is written next, where a quote may be left.                         *)
LineInv ==
  /\ Input \in Seq(LineChars) /\ Stringa \in [ArrayPlaces -> LineChars \cup {NUL}]
  /\ x \in Nat /\ y \in Nat /\ flag \in {0, 1} /\ reading \in BOOLEAN
  /\ HarmlessIn(Input) /\ FitsIn(Words) /\ reading =>
       /\ x = Len(Words) - 1 /\ y = Len(Last(Words))
       /\ flag = 1 <=> Split(Input).quoted
       /\ Shows([Stringa EXCEPT ![CellAt(x, y)] = NUL], Words)
  /\ HarmlessIn(Input) /\ FitsIn(Words) /\ ~reading => Shows(Stringa, Words)

(* Where the next character goes, if the words fit.                         *)
LEMMA NextPlace ==
  ASSUME NEW words \in Seq(Seq(LineChars)), words # <<>>, FitsIn(words)
  PROVE  /\ Len(words) - 1 \in Rows /\ Last(words) = words[Len(words)]
         /\ Last(words) \in Seq(LineChars) /\ Len(Last(words)) \in Columns
         /\ Len(Last(words)) < Y_BUFF /\ Len(words) \in 1 .. Len(words)
<1>1. Len(words) \in Nat /\ Len(words) > 0 /\ Len(words) <= X_BUFF
  BY DEF FitsIn
<1>2. Len(words) \in 1 .. Len(words) /\ Len(words) \in DOMAIN words
  BY <1>1
<1>3. Last(words) = words[Len(words)]
  BY DEF Last
<1>4. Last(words) \in Seq(LineChars) /\ Len(Last(words)) < Y_BUFF
  BY <1>2, <1>3, ElementOfSeq DEF FitsIn
<1>5. Len(words) - 1 \in Rows
  BY <1>1, LineCharsDiffer DEF Rows
<1>6. Len(Last(words)) \in Columns
  BY <1>4, LineCharsDiffer DEF Columns
<1> QED
  BY <1>2, <1>3, <1>4, <1>5, <1>6

(* Words fit only if they did before.                                       *)
LEMMA FitsBefore ==
  ASSUME NEW w \in Splitting, NEW c \in LineChars, FitsIn(Typed(w, c).words)
  PROVE  FitsIn(w.words)
<1> DEFINE v == Typed(w, c).words
<1>1. v \in Seq(Seq(LineChars)) /\ w.words \in Seq(Seq(LineChars))
  BY TypedIs DEF Splitting
<1>2. Len(v) >= Len(w.words) /\ \A k \in 1 .. Len(w.words) : Len(v[k]) >= Len(w.words[k])
  BY TypedIs
<1>3. FitsIn(v)
  OBVIOUS
<1> HIDE DEF v
<1>4. \A k \in 1 .. Len(w.words) : k \in 1 .. Len(v) /\ Len(v[k]) \in Nat /\ Len(w.words[k]) \in Nat
  <2> TAKE k \in 1 .. Len(w.words)
  <2>1. k \in 1 .. Len(v)
    BY <1>1, <1>2
  <2>2. v[k] \in Seq(LineChars) /\ w.words[k] \in Seq(LineChars)
    BY <1>1, <2>1, ElementOfSeq
  <2> QED
    BY <2>1, <2>2
<1>5. Len(w.words) <= X_BUFF
  BY <1>1, <1>2, <1>3, LineCharsDiffer DEF FitsIn
<1>6. \A k \in DOMAIN w.words : Len(w.words[k]) < Y_BUFF
  <2> SUFFICES ASSUME NEW k \in 1 .. Len(w.words) PROVE Len(w.words[k]) < Y_BUFF
    BY <1>1
  <2>1. Len(v[k]) < Y_BUFF
    BY <1>1, <1>3, <1>4 DEF FitsIn
  <2> QED
    BY <1>2, <1>4, <2>1, LineCharsDiffer
<1> QED
  BY <1>5, <1>6 DEF FitsIn

(* What one more character makes of the words.                              *)
LEMMA WordOpened ==
  ASSUME NEW words \in Seq(Seq(LineChars)), NEW k \in Rows, NEW a \in Columns
  PROVE  LetterOf(Append(words, <<>>), k, a) = LetterOf(words, k, a)
<1>1. PICK e \in Seq(LineChars) : e = <<>> /\ Len(e) = 0
  <2>1. <<>> \in Seq(LineChars) /\ Len(<<>>) = 0
    OBVIOUS
  <2> QED
    BY <2>1
<1> DEFINE v == Append(words, e)
<1>2. /\ Len(v) = Len(words) + 1 /\ v[Len(words) + 1] = e /\ Len(words) \in Nat
      /\ \A i \in 1 .. Len(words) : v[i] = words[i]
  OBVIOUS
<1>3. k \in Nat /\ a \in Nat
  BY DEF Rows, Columns
<1> HIDE DEF v
<1>4. CASE k < Len(words)
  <2>1. k + 1 \in 1 .. Len(words) /\ k < Len(v)
    BY <1>2, <1>3, <1>4
  <2> QED
    BY <1>1, <1>2, <1>4, <2>1 DEF LetterOf, v
<1>5. CASE k = Len(words)
  <2>1. v[k + 1] = e /\ ~(a < Len(e)) /\ ~(k < Len(words))
    BY <1>1, <1>2, <1>3, <1>5
  <2>2. LetterOf(v, k, a) = NUL /\ LetterOf(words, k, a) = NUL
    BY <2>1 DEF LetterOf
  <2> QED
    BY <1>1, <2>2 DEF v
<1>6. CASE k > Len(words)
  <2>1. ~(k < Len(v)) /\ ~(k < Len(words))
    BY <1>2, <1>3, <1>6
  <2> QED
    BY <1>1, <2>1 DEF LetterOf, v
<1> QED
  BY <1>2, <1>3, <1>4, <1>5, <1>6

(* A character more stands behind the last word.                            *)
LEMMA WordLonger ==
  ASSUME NEW words \in Seq(Seq(LineChars)), words # <<>>, NEW c \in LineChars,
         NEW k \in Rows, NEW a \in Columns
  PROVE  LetterOf([words EXCEPT ![Len(words)] = Append(@, c)], k, a)
           = IF k = Len(words) - 1 /\ a = Len(words[Len(words)]) THEN c ELSE LetterOf(words, k, a)
<1> DEFINE n == Len(words)
           word == words[n]
           long == Append(word, c)
           v == [words EXCEPT ![n] = long]
<1>1. n \in Nat /\ n > 0 /\ n \in 1 .. n
  OBVIOUS
<1>2. word \in Seq(LineChars)
  BY <1>1, ElementOfSeq
<1>3. /\ Len(long) = Len(word) + 1 /\ long[Len(word) + 1] = c /\ Len(word) \in Nat
      /\ \A i \in 1 .. Len(word) : long[i] = word[i]
  BY <1>2
<1>4. /\ Len(v) = n /\ v[n] = long /\ \A i \in 1 .. n : i # n => v[i] = words[i]
  BY <1>1
<1>5. k \in Nat /\ a \in Nat
  BY DEF Rows, Columns
<1>6. v = [words EXCEPT ![Len(words)] = Append(@, c)]
  OBVIOUS
<1>7. n = Len(words) /\ word = words[n]
  OBVIOUS
<1> HIDE DEF v, long, word, n
<1>8. CASE k = n - 1
  <2>1. k + 1 = n /\ k < n
    BY <1>1, <1>8
  <2>2. LetterOf(v, k, a) = IF a < Len(word) + 1 THEN long[a + 1] ELSE NUL
    BY <1>3, <1>4, <2>1 DEF LetterOf
  <2>3. LetterOf(words, k, a) = IF a < Len(word) THEN word[a + 1] ELSE NUL
    BY <1>7, <2>1 DEF LetterOf
  <2>4. a < Len(word) => a + 1 \in 1 .. Len(word)
    BY <1>3, <1>5
  <2> QED
    BY <1>3, <1>5, <1>6, <1>7, <1>8, <2>2, <2>3, <2>4
<1>9. CASE k # n - 1
  <2>1. k < n => k + 1 \in 1 .. n /\ k + 1 # n
    BY <1>1, <1>5, <1>9
  <2>2. LetterOf(v, k, a) = LetterOf(words, k, a)
    BY <1>4, <1>7, <2>1 DEF LetterOf
  <2> QED
    BY <1>6, <1>7, <1>9, <2>2
<1> QED
  BY <1>8, <1>9

(* A place that holds NUL already.                                          *)
LEMMA PlaceIsNul ==
  ASSUME NEW s, DOMAIN s = ArrayPlaces, NEW chars, s \in [ArrayPlaces -> chars],
         NEW words, Shows(s, words), NEW k \in Rows, NEW a \in Columns,
         LetterOf(words, k, a) = NUL
  PROVE  Shows([s EXCEPT ![CellAt(k, a)] = NUL], words)
<1>1. s[CellAt(k, a)] = NUL
  BY DEF Shows
<1>2. [s EXCEPT ![CellAt(k, a)] = NUL] = s
  BY <1>1
<1> QED
  BY <1>2

(* A character read keeps the invariant.                                    *)
LEMMA CharacterRead ==
  ASSUME LineInv, NEW c \in LineChars, LeggiStringa(c), Input' = Append(Input, c)
  PROVE  LineInv'
<1> DEFINE w == Split(Input)
           words == w.words
           word == Last(words)
           v == Typed(w, c)
           p == CellAt(x, y)
           s == [Stringa EXCEPT ![p] = c]
           quoted == IF c = QUOTE THEN 1 - flag ELSE flag
           column == IF c = QUOTE THEN y - 1 ELSE y
           chars == LineChars \cup {NUL}
<1>1. /\ Input \in Seq(LineChars) /\ Stringa \in [ArrayPlaces -> chars]
      /\ x \in Nat /\ y \in Nat /\ flag \in {0, 1} /\ reading
  BY DEF LineInv, LeggiStringa
<1>2. Input' \in Seq(LineChars) /\ w \in Splitting /\ Split(Input') = v
  BY <1>1, SplitOn
<1>3. words \in Seq(Seq(LineChars)) /\ words # <<>> /\ w.quoted \in BOOLEAN
  BY <1>2 DEF Splitting
<1>4. /\ s[CellAt(x, column)] = NUL =>
           reading' = FALSE /\ Stringa' = s /\ x' = x /\ y' = y
      /\ s[CellAt(x, column)] # NUL =>
           /\ reading' = TRUE
           /\ EndsWord(s, column, quoted) =>
                x' = x + 1 /\ y' = 0 /\ Stringa' = [s EXCEPT ![CellAt(x, column)] = NUL]
           /\ ~EndsWord(s, column, quoted) => x' = x /\ y' = column + 1 /\ Stringa' = s
      /\ flag' = quoted
  <2> HIDE DEF s, quoted, column
  <2> QED
    BY <1>1 DEF LeggiStringa, s, quoted, column, p
<1>5. s \in [ArrayPlaces -> chars] /\ column + 1 \in Nat /\ quoted \in {0, 1}
  <2>1. s \in [ArrayPlaces -> chars]
    BY <1>1
  <2>2. column + 1 \in Nat
    BY <1>1
  <2>3. quoted \in {0, 1}
    BY <1>1
  <2> HIDE DEF s, quoted, column
  <2> QED
    BY <2>1, <2>2, <2>3
<1>6. /\ Stringa' \in [ArrayPlaces -> chars]
      /\ x' \in Nat /\ y' \in Nat /\ flag' \in {0, 1} /\ reading' \in BOOLEAN
  <2>1. \A q : [s EXCEPT ![q] = NUL] \in [ArrayPlaces -> chars]
    <3> HIDE DEF s
    <3> QED
      BY <1>5
  <2> HIDE DEF s, quoted, column
  <2>2. Stringa' \in [ArrayPlaces -> chars]
    <3> HIDE DEF chars
    <3> QED
      BY <1>4, <1>5, <2>1
  <2>3. x' \in Nat /\ y' \in Nat
    BY <1>1, <1>4, <1>5
  <2>4. flag' \in {0, 1} /\ reading' \in BOOLEAN
    BY <1>4, <1>5
  <2> QED
    BY <2>2, <2>3, <2>4
<1>7. ASSUME HarmlessIn(Input'), FitsIn(Words')
      PROVE  /\ reading'
             /\ x' = Len(Words') - 1 /\ y' = Len(Last(Words'))
             /\ flag' = 1 <=> Split(Input').quoted
             /\ Shows([Stringa' EXCEPT ![CellAt(x', y')] = NUL], Words')
  <2>1. Words' = v.words /\ Words = words
    BY <1>2 DEF Words
  <2>2. /\ HarmlessIn(Input)
        /\ c = QUOTE => word # <<>> /\ (w.quoted => Last(word) # SP)
    BY <1>1, <1>7, HarmlessBefore
  <2>3. FitsIn(v.words) /\ FitsIn(words)
    BY <1>2, <1>7, <2>1, FitsBefore
  <2>4. /\ x = Len(words) - 1 /\ y = Len(word) /\ (flag = 1 <=> w.quoted)
        /\ Shows([Stringa EXCEPT ![p] = NUL], words)
    BY <1>1, <2>1, <2>2, <2>3 DEF LineInv
  <2>5. /\ x \in Rows /\ word = words[Len(words)] /\ word \in Seq(LineChars) /\ y \in Columns
        /\ y < Y_BUFF /\ Len(words) \in 1 .. Len(words) /\ x + 1 = Len(words)
    BY <1>3, <2>3, <2>4, NextPlace
  <2> HIDE DEF w, v, words, word
  <2>6. ShowsBut(s, words, x, y, c)
    <3>1. DOMAIN Stringa = ArrayPlaces
      BY <1>1
    <3> QED
      BY <2>4, <2>5, <3>1, PlaceWritten
  <2>7. s[CellAt(x, y)] = c /\ c # NUL
    BY <2>5, <2>6, LineCharsDiffer DEF ShowsBut
  <2>8. CASE c = QUOTE
    <3>1. y >= 1 /\ y - 1 \in Columns /\ y - 1 # y /\ (y - 1) + 1 = y
      <4>1. Len(word) # 0
        BY <2>2, <2>5, <2>8
      <4> QED
        BY <1>1, <2>4, <2>5, <4>1, LineCharsDiffer DEF Columns
    <3>2. LetterOf(words, x, y - 1) = word[y]
      <4>1. x < Len(words) /\ y - 1 < Len(words[x + 1])
        BY <1>1, <2>4, <2>5
      <4> QED
        BY <2>5, <3>1, <4>1 DEF LetterOf
    <3>3. s[CellAt(x, y - 1)] = word[y]
      BY <2>5, <2>6, <3>1, <3>2 DEF ShowsBut
    <3>4. word[y] \in LineChars /\ word[y] # NUL /\ Last(word) = word[y]
      <4>1. y \in 1 .. Len(word)
        BY <1>1, <2>4, <3>1
      <4>2. word[y] \in LineChars
        BY <2>5, <4>1, ElementOfSeq
      <4> QED
        BY <2>4, <4>2, LineCharsDiffer DEF Last
    <3>5. column = y - 1 /\ quoted = 1 - flag
      BY <2>8
    <3>6. ~EndsWord(s, column, quoted)
      <4> SUFFICES ASSUME s[CellAt(x, y - 1)] = SP, quoted = 0 PROVE FALSE
        BY <3>5 DEF EndsWord
      <4>1. flag = 1
        BY <1>1, <3>5
      <4> QED
        BY <2>2, <2>4, <2>8, <3>3, <3>4, <4>1
    <3>7. reading' /\ x' = x /\ y' = y /\ Stringa' = s /\ flag' = 1 - flag
      <4> HIDE DEF s, quoted, column
      <4> QED
        BY <1>4, <3>1, <3>3, <3>4, <3>5, <3>6
    <3>8. v = [words |-> words, quoted |-> ~w.quoted]
      BY <1>2, <2>8, <1>3 DEF v, Typed, Splitting, words
    <3>9. v.words = words /\ v.quoted = ~w.quoted
      BY <3>8
    <3>10. [Stringa' EXCEPT ![CellAt(x', y')] = NUL] = [Stringa EXCEPT ![p] = NUL]
      BY <1>1, <3>7
    <3>11. flag' = 1 <=> v.quoted
      <4>1. flag' = 1 <=> flag # 1
        BY <1>1, <3>7
      <4>2. w.quoted \in BOOLEAN
        BY <1>3 DEF w
      <4>3. v.quoted <=> ~w.quoted
        BY <3>9, <4>2, Zenon
      <4> QED
        BY <2>4, <4>1, <4>3
    <3>12. x' = Len(Words') - 1 /\ y' = Len(Last(Words'))
      BY <2>1, <2>4, <3>7, <3>9 DEF word
    <3>13. Shows([Stringa' EXCEPT ![CellAt(x', y')] = NUL], Words')
      BY <2>1, <2>4, <3>9, <3>10
    <3> QED
      BY <1>2, <3>7, <3>11, <3>12, <3>13
  <2>9. CASE c # QUOTE /\ c = SP /\ ~w.quoted /\ ~Blank(word)
    <3>1. column = y /\ quoted = flag /\ flag = 0
      BY <1>1, <2>4, <2>9
    <3>2. ~OnlySpaces(s, x)
      <4> HIDE DEF s
      <4> QED
        BY <1>3, <2>3, <2>4, <2>5, <2>6, <2>9, SpacesRead
    <3>3. EndsWord(s, column, quoted)
      BY <2>7, <2>9, <3>1, <3>2 DEF EndsWord
    <3>4. /\ reading' /\ x' = x + 1 /\ y' = 0 /\ flag' = flag
          /\ Stringa' = [s EXCEPT ![p] = NUL]
      <4> HIDE DEF s, quoted, column
      <4> QED
        BY <1>4, <2>7, <3>1, <3>3
    <3>5. Stringa' = [Stringa EXCEPT ![p] = NUL]
      BY <1>1, <3>4
    <3>6. v = [words |-> Append(words, <<>>), quoted |-> w.quoted]
      BY <1>2, <2>9 DEF v, Typed, Splitting, words, word
    <3>7. v.words = Append(words, <<>>) /\ v.quoted = w.quoted
      BY <3>6
    <3>8. /\ Len(v.words) = Len(words) + 1 /\ v.words[Len(words) + 1] = <<>>
          /\ Len(<<>>) = 0 /\ Len(words) \in Nat
      BY <1>3, <3>7
    <3>9. x' \in Rows /\ y' \in Columns
      BY <2>3, <2>4, <3>4, <3>8, LineCharsDiffer DEF FitsIn, Rows, Columns
    <3>10. Shows(Stringa', v.words)
      BY <1>3, <2>4, <3>5, <3>7, WordOpened DEF Shows
    <3>11. LetterOf(v.words, x', y') = NUL
      <4>1. v.words[x' + 1] = <<>> /\ ~(y' < 0)
        BY <2>5, <3>4, <3>8
      <4> QED
        BY <3>8, <4>1 DEF LetterOf
    <3>12. Shows([Stringa' EXCEPT ![CellAt(x', y')] = NUL], Words')
      <4>1. DOMAIN Stringa' = ArrayPlaces
        BY <1>6
      <4> HIDE DEF chars
      <4> QED
        BY <1>6, <2>1, <3>9, <3>10, <3>11, <4>1, PlaceIsNul
    <3>13. x' = Len(Words') - 1 /\ y' = Len(Last(Words'))
      BY <2>1, <2>5, <3>4, <3>8 DEF Last
    <3>14. flag' = 1 <=> v.quoted
      BY <2>4, <3>4, <3>7
    <3> QED
      BY <1>2, <3>4, <3>12, <3>13, <3>14
  <2>10. CASE c # QUOTE /\ ~(c = SP /\ ~w.quoted /\ ~Blank(word))
    <3>1. column = y /\ quoted = flag
      BY <2>10
    <3>2. v = [words |-> [words EXCEPT ![Len(words)] = Append(@, c)], quoted |-> w.quoted]
      <4>1. v = [w EXCEPT !.words[Len(w.words)] = Append(@, c)]
        BY <2>10, Zenon DEF v, Typed, words, word
      <4> QED
        BY <1>2, <4>1 DEF Splitting, words
    <3>3. v.words = [words EXCEPT ![Len(words)] = Append(@, c)] /\ v.quoted = w.quoted
      BY <3>2
    <3>4. /\ Len(v.words) = Len(words) /\ v.words[Len(words)] = Append(word, c)
          /\ Len(Append(word, c)) = y + 1
      BY <1>3, <2>4, <2>5, <3>3
    <3>5. y + 1 \in Columns /\ y + 1 < Y_BUFF
      <4>1. Len(words) \in DOMAIN v.words
        BY <1>3, <2>5, <3>3
      <4> QED
        BY <1>1, <2>3, <3>4, <4>1, LineCharsDiffer DEF FitsIn, Columns
    <3>6. ~EndsWord(s, column, quoted)
      <4> SUFFICES ASSUME c = SP, flag = 0, ~OnlySpaces(s, x) PROVE FALSE
        BY <2>7, <3>1 DEF EndsWord
      <4>1. Blank(word)
        BY <2>4, <2>10
      <4>2. Len(word) + 1 < Y_BUFF
        BY <2>4, <3>5
      <4>3. ShowsBut(s, words, x, Len(word), SP)
        BY <2>4, <2>6
      <4> HIDE DEF s
      <4> QED
        BY <1>3, <2>3, <2>4, <2>5, <4>1, <4>2, <4>3, SpacesRead
    <3>7. reading' /\ x' = x /\ y' = y + 1 /\ Stringa' = s /\ flag' = flag
      <4> HIDE DEF s, quoted, column
      <4> QED
        BY <1>4, <2>7, <3>1, <3>6
    <3>8. Shows(s, v.words)
      <4> SUFFICES ASSUME NEW k \in Rows, NEW a \in Columns
                   PROVE  s[CellAt(k, a)] = LetterOf(v.words, k, a)
        BY DEF Shows
      <4>1. s[CellAt(k, a)] = IF k = x /\ a = y THEN c ELSE LetterOf(words, k, a)
        BY <2>6 DEF ShowsBut
      <4>2. LetterOf([words EXCEPT ![Len(words)] = Append(@, c)], k, a)
              = IF k = Len(words) - 1 /\ a = Len(words[Len(words)]) THEN c ELSE LetterOf(words, k, a)
        BY <1>3, WordLonger
      <4> QED
        BY <2>4, <2>5, <3>3, <4>1, <4>2
    <3>9. LetterOf(v.words, x, y + 1) = NUL
      <4>1. ~(y + 1 < Len(v.words[x + 1]))
        BY <1>1, <2>5, <3>4
      <4> QED
        BY <4>1 DEF LetterOf
    <3>10. Shows([Stringa' EXCEPT ![CellAt(x', y')] = NUL], Words')
      <4>1. DOMAIN s = ArrayPlaces
        BY <1>5
      <4>2. PICK a \in Columns : a = y + 1
        BY <3>5
      <4>3. Shows([s EXCEPT ![CellAt(x, a)] = NUL], v.words)
        <5> HIDE DEF s, chars
        <5> QED
          BY <1>5, <2>5, <3>8, <3>9, <4>1, <4>2, PlaceIsNul
      <4> QED
        BY <2>1, <3>7, <4>2, <4>3
    <3>11. x' = Len(Words') - 1 /\ y' = Len(Last(Words'))
      BY <2>1, <2>4, <2>5, <3>4, <3>7 DEF Last
    <3>12. flag' = 1 <=> v.quoted
      BY <2>4, <3>3, <3>7
    <3> QED
      BY <1>2, <3>7, <3>10, <3>11, <3>12
  <2> QED
    BY <2>8, <2>9, <2>10
<1> HIDE DEF w, words, word, v, p, s, quoted, column
<1> QED
  BY <1>2, <1>6, <1>7 DEF LineInv

(* The end of the line keeps it too.                                        *)
LEMMA LineEnds ==
  ASSUME LineInv, read_end \/ read_too_far
  PROVE  LineInv'
<1>1. /\ Input \in Seq(LineChars) /\ Stringa \in [ArrayPlaces -> LineChars \cup {NUL}]
      /\ x \in Nat /\ y \in Nat /\ flag \in {0, 1} /\ reading
  BY DEF LineInv, LeggiStringa, read_end, read_too_far
<1>2. Input' = Input /\ Words' = Words
  BY DEF read_end, read_too_far, Words
<1>3. ASSUME HarmlessIn(Input), FitsIn(Words)
      PROVE  /\ x \in Rows /\ y \in Columns /\ y = Len(Last(Words)) /\ x = Len(Words) - 1
             /\ x <= X_BUFF /\ y <= Y_BUFF
             /\ Shows([Stringa EXCEPT ![CellAt(x, y)] = NUL], Words)
  <2>1. Split(Input) \in Splitting
    BY <1>1, LineCharsDiffer, SplitOn
  <2>2. Words \in Seq(Seq(LineChars)) /\ Words # <<>>
    BY <2>1 DEF Splitting, Words
  <2>3. /\ x = Len(Words) - 1 /\ y = Len(Last(Words))
        /\ Shows([Stringa EXCEPT ![CellAt(x, y)] = NUL], Words)
    BY <1>1, <1>3 DEF LineInv
  <2>4. x \in Rows /\ y \in Columns /\ y < Y_BUFF
    BY <1>3, <2>2, <2>3, NextPlace
  <2> QED
    BY <2>3, <2>4, LineCharsDiffer DEF Rows, Columns
<1>4. CASE read_end
  <2> DEFINE s == [Stringa EXCEPT ![CellAt(x, y)] = NUL]
             chars == LineChars \cup {NUL}
  <2>1. NUL # QUOTE
    BY LineCharsDiffer
  <2>2. /\ s[CellAt(x, y)] = NUL =>
             reading' = FALSE /\ Stringa' = s /\ x' = x /\ y' = y
        /\ s[CellAt(x, y)] # NUL =>
             /\ reading' = TRUE
             /\ EndsWord(s, y, flag) =>
                  x' = x + 1 /\ y' = 0 /\ Stringa' = [s EXCEPT ![CellAt(x, y)] = NUL]
             /\ ~EndsWord(s, y, flag) => x' = x /\ y' = y + 1 /\ Stringa' = s
        /\ flag' = flag
    <3> HIDE DEF s
    <3> QED
      BY <1>1, <1>4, <2>1 DEF read_end, LeggiStringa, s
  <2>3. CellAt(x, y) \in ArrayPlaces
    <3>1. x <= X_BUFF /\ y <= Y_BUFF
      BY <1>4 DEF read_end, LeggiStringa
    <3>2. x * Y_BUFF \in Nat /\ x * Y_BUFF <= X_BUFF * Y_BUFF
      <4>1. CASE x = X_BUFF
        BY <1>1, <4>1, LineCharsDiffer
      <4>2. CASE x # X_BUFF
        <5>1. x < X_BUFF /\ X_BUFF \in Nat /\ Y_BUFF \in Nat
          BY <1>1, <3>1, <4>2, LineCharsDiffer
        <5>2. x * Y_BUFF + Y_BUFF <= X_BUFF * Y_BUFF /\ x * Y_BUFF \in Nat /\ X_BUFF * Y_BUFF \in Nat
          BY <1>1, <5>1, RowBehindRow
        <5> QED
          BY <5>1, <5>2
      <4> QED
        BY <4>1, <4>2
    <3>3. (X_BUFF + 1) * Y_BUFF = X_BUFF * Y_BUFF + Y_BUFF /\ X_BUFF * Y_BUFF \in Nat
      BY LineCharsDiffer
    <3> QED
      BY <1>1, <3>1, <3>2, <3>3, LineCharsDiffer DEF CellAt, ArrayPlaces
  <2>4. s[CellAt(x, y)] = NUL /\ s \in [ArrayPlaces -> chars]
    BY <1>1, <2>3
  <2>5. reading' = FALSE /\ Stringa' = s /\ x' = x /\ y' = y /\ flag' = flag
    <3> HIDE DEF s
    <3> QED
      BY <2>2, <2>4
  <2>6. HarmlessIn(Input) /\ FitsIn(Words) => Shows(s, Words)
    BY <1>3
  <2>7. /\ Input' \in Seq(LineChars) /\ Stringa' \in [ArrayPlaces -> LineChars \cup {NUL}]
        /\ x' \in Nat /\ y' \in Nat /\ flag' \in {0, 1} /\ reading' \in BOOLEAN
    BY <1>1, <1>2, <2>4, <2>5
  <2>8. HarmlessIn(Input') /\ FitsIn(Words') /\ ~reading' => Shows(Stringa', Words')
    BY <1>2, <2>5, <2>6
  <2> QED
    BY <2>5, <2>7, <2>8 DEF LineInv
<1>5. CASE read_too_far
  <2>1. ~(HarmlessIn(Input) /\ FitsIn(Words))
    BY <1>3, <1>5 DEF read_too_far
  <2>2. ~(HarmlessIn(Input') /\ FitsIn(Words'))
    BY <1>2, <2>1
  <2>3. UNCHANGED <<Stringa, x, y, flag>> /\ reading' = FALSE
    BY <1>5 DEF read_too_far
  <2> QED
    BY <1>1, <1>2, <2>2, <2>3 DEF LineInv
<1> QED
  BY <1>4, <1>5

(* LeggiStringa splits every line whose quotes are harmless and whose words *)
(* fit, for any size of the array (shell.c 249-283): what is in the rows    *)
(* are the words read so far, but for the place written next.               *)
THEOREM LineSplitAsTyped == CommandLineSpec => []ArgumentsAsTyped
<1>1. LineInit => LineInv
  <2> SUFFICES ASSUME LineInit PROVE LineInv
    OBVIOUS
  <2> DEFINE words == <<<<>>>>
  <2>1. /\ Input = <<>> /\ x = 0 /\ y = 0 /\ flag = 0 /\ reading = TRUE
        /\ Input \in Seq(LineChars) /\ <<>> \in Seq(LineChars) /\ Len(<<>>) = 0
    BY DEF LineInit
  <2>2. PICK around \in {NUL, SP, QUOTE} :
          Stringa = [i \in ArrayPlaces |-> IF i \in 0 .. X_BUFF * Y_BUFF - 1 THEN NUL ELSE around]
    BY DEF LineInit
  <2>3. Stringa \in [ArrayPlaces -> LineChars \cup {NUL}]
    BY <2>2, LineCharsDiffer
  <2>4. \A k \in Rows, a \in Columns : Stringa[CellAt(k, a)] = NUL
    <3> SUFFICES ASSUME NEW k \in Rows, NEW a \in Columns PROVE Stringa[CellAt(k, a)] = NUL
      OBVIOUS
    <3>1. CellAt(k, a) \in ArrayPlaces /\ CellAt(k, a) \in 0 .. X_BUFF * Y_BUFF - 1
      BY PlacesWithin
    <3> QED
      BY <2>2, <3>1
  <2>5. Split(Input).words = words /\ Split(Input).quoted = FALSE
    BY <2>1, SplitStart
  <2>6. Words = words /\ Len(words) = 1 /\ words[1] = <<>> /\ Len(Last(words)) = 0
    BY <2>1, <2>5 DEF Words, Last
  <2>7. \A k \in Rows, a \in Columns : LetterOf(words, k, a) = NUL
    <3> SUFFICES ASSUME NEW k \in Rows, NEW a \in Columns, k < 1, a < Len(words[k + 1])
                 PROVE  FALSE
      BY <2>6 DEF LetterOf
    <3>1. k = 0 /\ a \in Nat
      BY DEF Rows, Columns
    <3> QED
      BY <2>1, <2>6, <3>1
  <2>8. Shows(Stringa, words)
    BY <2>4, <2>7 DEF Shows
  <2>9. Shows([Stringa EXCEPT ![CellAt(x, y)] = NUL], words)
    <3>1. 0 \in Rows /\ 0 \in Columns
      BY LineCharsDiffer DEF Rows, Columns
    <3>2. DOMAIN Stringa = ArrayPlaces
      BY <2>3
    <3> HIDE DEF words
    <3> QED
      BY <2>1, <2>3, <2>7, <2>8, <3>1, <3>2, PlaceIsNul
  <2> HIDE DEF words
  <2>10. x = Len(Words) - 1 /\ y = Len(Last(Words)) /\ (flag = 1 <=> Split(Input).quoted)
    BY <2>1, <2>5, <2>6
  <2> QED
    BY <2>1, <2>3, <2>6, <2>9, <2>10 DEF LineInv
<1>2. LineInv /\ [CommandLineNext]_line_vars => LineInv'
  <2> SUFFICES ASSUME LineInv, [CommandLineNext]_line_vars PROVE LineInv'
    OBVIOUS
  <2>1. CASE read_char
    BY <2>1, CharacterRead DEF read_char
  <2>2. CASE read_end \/ read_too_far
    BY <2>2, LineEnds
  <2>3. CASE UNCHANGED line_vars
    BY <2>3 DEF line_vars, LineInv, Words
  <2> QED
    BY <2>1, <2>2, <2>3 DEF CommandLineNext
<1>3. LineInv => ArgumentsAsTyped
  <2> SUFFICES ASSUME LineInv, ~reading, HarmlessQuotes, Fits, NEW k \in 1 .. X_BUFF,
                      NEW u, u = IF k <= Len(Words) THEN Words[k] ELSE <<>>
               PROVE  WordAt(k - 1) = u
    BY DEF ArgumentsAsTyped
  <2>1. Input \in Seq(LineChars) /\ Stringa \in [ArrayPlaces -> LineChars \cup {NUL}]
    BY DEF LineInv
  <2>2. HarmlessIn(Input) /\ FitsIn(Words)
    BY <2>1, HarmlessIs DEF Fits, FitsIn
  <2>3. Shows(Stringa, Words)
    BY <2>2 DEF LineInv
  <2>4. Words \in Seq(Seq(LineChars))
    <3>1. Split(Input) \in Splitting
      BY <2>1, LineCharsDiffer, SplitOn
    <3> QED
      BY <3>1 DEF Splitting, Words
  <2>5. DOMAIN Stringa = ArrayPlaces
    BY <2>1
  <2>6. TextOf(Stringa, k - 1) = u
    BY <2>2, <2>3, <2>4, <2>5, WordsShown
  <2>7. WordAt(k - 1) = TextOf(Stringa, k - 1)
    BY Zenon DEF WordAt, TextOf
  <2> QED
    BY <2>6, <2>7
<1> QED
  BY <1>1, <1>2, <1>3, PTL DEF CommandLineSpec
=============================================================================
