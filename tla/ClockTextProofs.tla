---------------------------- MODULE ClockTextProofs ----------------------------
(***************************************************************************)
(* Proofs about the text that a task makes of numbers while the timer      *)
(* interrupt draws the clock (module ClockText), for any times, any        *)
(* numbers and any number of drawings; a task that prints a number of more *)
(* than six digits, or of six and a sign, is followed no further.          *)
(***************************************************************************)
EXTENDS ClockText, SequenceLemmas

-----------------------------------------------------------------------------
(* The invariant that holds whatever is drawn.                              *)

Character == {"0", "1", "2", "3", "4", "5", "6", "7", "8", "9", "-", Terminator}
Value == 0 .. Five

Made == Character \cup (Named \X Value)

Dating == {"select", "read", "localtime", "strftime", "strcat"}
Printing == {"strlen", "vsprintf"}
Converting == {"conv", "digits", "order"}

TextTyped ==
  /\ now \in 1 .. Len(Instant) /\ index \in Field
  /\ StTempo \in [Field -> Value] /\ StLocal \in [Field -> Value]
  /\ str_buffer \in [BufferPlace -> Character]
  /\ pc \in {"idle", "done", "overrun"} \cup Dating \cup Printing \cup Converting
  /\ at \in 1 .. 8 /\ num \in Number /\ num_neg \in BOOLEAN
  /\ buffer \in 0 .. 6 /\ i \in 0 .. 6 /\ j \in 0 .. 7 /\ s \in BufferPlace /\ len \in Nat
  /\ out \in Seq(Made)

(* What the task works at is the job it has taken up.                       *)
JobKept ==
  /\ pc # "overrun" => job[2] \in Number
  /\ job[1] = "data" => job[2] = 0
  /\ pc \in Dating => job[1] = "data"
  /\ pc \in Printing => job[1] = "number"
  /\ pc \in Converting \cup {"done"} => job[1] \in {"data", "number"}
  /\ pc \in {"select", "read", "localtime"} => at <= 7
  /\ job[1] = "data" /\ pc \in Converting \cup {"strcat"} => at <= 7 /\ TextOrder[at] \notin Named

(* A number of up to five digits leaves room for its text behind them and   *)
(* for the NUL.                                                             *)
RoomLeft ==
  /\ pc = "conv" => /\ buffer = 0 /\ i = 0 /\ j = 0 /\ ~num_neg
                    /\ num = job[2] \/ (job[2] = 0 /\ num \in Value)
  /\ pc = "digits" =>
       /\ num > 0 /\ i = buffer /\ i <= 5 /\ num < Power[7 - i]
       /\ job[2] > Five \/ num < Power[6 - i]
       /\ j = (IF num_neg THEN 1 ELSE 0) /\ (num_neg => job[2] <= Five)
  /\ pc = "order" =>
       i + j <= 7 /\ buffer + i + j <= LastPlace + (IF job[2] > Five THEN 1 ELSE 0)
  /\ pc = "vsprintf" => s + len <= LastPlace + 1

EndsInv == TextTyped /\ JobKept /\ RoomLeft /\ TextEnds

-----------------------------------------------------------------------------
(* Numbers and their digits.                                                *)

(* Each power of ten is ten times the one before, and two of them bound the *)
(* numbers of five and of six digits.                                       *)
LEMMA Powers ==
  /\ Five \in Nat /\ Six \in Nat /\ Five <= Six /\ Five < Power[6] /\ Six < Power[7] /\ Power[6] <= Five + 1
  /\ Power[1] = 1 /\ \A k \in 1 .. 7 : Power[k] \in Nat \ {0}
  /\ Power[2] = 10 * Power[1] /\ Power[3] = 10 * Power[2] /\ Power[4] = 10 * Power[3]
  /\ Power[5] = 10 * Power[4] /\ Power[6] = 10 * Power[5] /\ Power[7] = 10 * Power[6]
BY SMT DEF Power, Five, Six

(* What can be converted: the fields, and what there is room for.           *)
LEMMA NumbersKnown ==
  /\ \A n \in Value : n \in Number
  /\ 0 \in Number
  /\ \A n \in Number : n \in Int /\ -Five <= n /\ n <= Six
<1>1. \A n \in Number : n \in Int /\ -Five <= n /\ n <= Six
  BY Powers DEF Number
<1>3. \A n \in 0 .. Five : n \in Number
  BY Powers DEF Number
<1>4. 0 \in Number
  BY Powers DEF Number
<1> QED
  BY <1>1, <1>3, <1>4 DEF Value

(* A digit is a character that is no NUL.                                   *)
LEMMA DigitIsCharacter ==
  ASSUME NEW n \in Nat
  PROVE  DigitOf(n) \in Character \ {Terminator}
<1>1. n % 10 \in 0 .. 9
  OBVIOUS
<1> QED
  BY <1>1 DEF DigitOf, Digit, Character, Terminator

(* The places of a number are those its size needs.                         *)
LEMMA PlacesOfNumber ==
  ASSUME NEW n \in 0 .. Six
  PROVE  /\ PlacesOf(n) \in 1 .. 6 /\ n < Power[PlacesOf(n) + 1]
         /\ PlacesOf(n) = 1 \/ Power[PlacesOf(n)] <= n
         /\ n <= Five => PlacesOf(n) <= 5
<1>1. n \in Nat /\ n < Power[7]
  BY Powers
<1>2. \E d \in 1 .. 6 : n < Power[d + 1] /\ (d = 1 \/ Power[d] <= n)
  <2>1. CASE n < Power[2]
    <3>1. 1 \in 1 .. 6 /\ n < Power[1 + 1]
      BY <1>1, <2>1, Powers
    <3> QED
      BY <2>1, <3>1
  <2>2. CASE Power[2] <= n /\ n < Power[3]
    <3>1. 2 \in 1 .. 6 /\ n < Power[2 + 1]
      BY <1>1, <2>2, Powers
    <3> QED
      BY <2>2, <3>1
  <2>3. CASE Power[3] <= n /\ n < Power[4]
    <3>1. 3 \in 1 .. 6 /\ n < Power[3 + 1]
      BY <1>1, <2>3, Powers
    <3> QED
      BY <2>3, <3>1
  <2>4. CASE Power[4] <= n /\ n < Power[5]
    <3>1. 4 \in 1 .. 6 /\ n < Power[4 + 1]
      BY <1>1, <2>4, Powers
    <3> QED
      BY <2>4, <3>1
  <2>5. CASE Power[5] <= n /\ n < Power[6]
    <3>1. 5 \in 1 .. 6 /\ n < Power[5 + 1]
      BY <1>1, <2>5, Powers
    <3> QED
      BY <2>5, <3>1
  <2>6. CASE Power[6] <= n
    <3>1. 6 \in 1 .. 6 /\ n < Power[6 + 1]
      BY <1>1, <2>6, Powers
    <3> QED
      BY <2>6, <3>1
  <2> QED
    BY <1>1, <2>1, <2>2, <2>3, <2>4, <2>5, <2>6, Powers
<1>3. PlacesOf(n) \in 1 .. 6 /\ n < Power[PlacesOf(n) + 1] /\ (PlacesOf(n) = 1 \/ Power[PlacesOf(n)] <= n)
  BY <1>2 DEF PlacesOf
<1>4. n <= Five => PlacesOf(n) # 6
  BY <1>1, <1>3, Powers
<1> QED
  BY <1>3, <1>4

(* What is divided by a power of ten and then by ten is divided by the next.*)
LEMMA NextPower ==
  ASSUME NEW n \in Nat, NEW k \in 1 .. 6
  PROVE  (n \div Power[k]) \div 10 = n \div Power[k + 1] /\ n \div Power[k] \in Nat
<1>1. CASE k = 1
  BY <1>1, Powers
<1>2. CASE k = 2
  BY <1>2, Powers
<1>3. CASE k = 3
  BY <1>3, Powers
<1>4. CASE k = 4
  BY <1>4, Powers
<1>5. CASE k = 5
  BY <1>5, Powers
<1>6. CASE k = 6
  BY <1>6, Powers
<1> QED
  BY <1>1, <1>2, <1>3, <1>4, <1>5, <1>6

(* The digits of a number are characters.                                   *)
LEMMA DigitsTyped ==
  ASSUME NEW n \in 0 .. Six
  PROVE  /\ Digits(n) \in Seq(Character \ {Terminator}) /\ Len(Digits(n)) = PlacesOf(n)
         /\ DOMAIN Digits(n) = 1 .. PlacesOf(n)
         /\ \A k \in 1 .. PlacesOf(n) :
              /\ Digits(n)[k] = DigitOf(n \div Power[PlacesOf(n) - k + 1])
              /\ Digits(n)[k] \in Character \ {Terminator}
<1>1. PlacesOf(n) \in 1 .. 6
  BY PlacesOfNumber
<1>2. ASSUME NEW k \in 1 .. PlacesOf(n)
      PROVE  DigitOf(n \div Power[PlacesOf(n) - k + 1]) \in Character \ {Terminator}
  <2>1. PlacesOf(n) - k + 1 \in 1 .. 6
    BY <1>1
  <2>2. n \in Nat
    BY Powers
  <2> QED
    BY <2>1, <2>2, NextPower, DigitIsCharacter
<1>3. Digits(n) \in [1 .. PlacesOf(n) -> Character \ {Terminator}]
  BY <1>2 DEF Digits
<1>4. \A k \in 1 .. PlacesOf(n) : Digits(n)[k] = DigitOf(n \div Power[PlacesOf(n) - k + 1])
  BY DEF Digits
<1> HIDE DEF Digits
<1> QED
  BY <1>1, <1>3, <1>4

(* A conversion by the interrupt leaves a NUL at or behind every place that *)
(* had one at or behind it.                                                 *)
LEMMA ConvertedEnds ==
  ASSUME NEW b \in [BufferPlace -> Character], NEW n \in Value
  PROVE  /\ Converted(b, n) \in [BufferPlace -> Character]
         /\ \A k \in BufferPlace : b[k] = Terminator =>
              \E m \in k .. LastPlace + 1 :
                Converted(b, n)[m] = Terminator /\ (m = k \/ m <= LastPlace)
<1> DEFINE d == PlacesOf(n)
           first == IF n = 0 THEN 0 ELSE d
           c == Converted(b, n)
<1>0. n \in 0 .. Six /\ n <= Five
  BY Powers DEF Value
<1>1. d \in 1 .. 5 /\ first \in 0 .. 5 /\ first <= d
  BY <1>0, PlacesOfNumber
<1>2. \A k \in 1 .. d : Digits(n)[k] \in Character
  BY <1>0, DigitsTyped
<1>3. Terminator \in Character
  BY DEF Character
<1>4. c = [k \in BufferPlace |-> IF k < first THEN Digits(n)[d - k]
                                 ELSE IF k < first + d THEN Digits(n)[k - first + 1]
                                 ELSE IF k = first + d THEN Terminator ELSE b[k]]
  BY DEF Converted
<1> HIDE DEF d, first, c
<1>5. \A k \in BufferPlace : k \in Int /\ k >= 0
  BY DEF BufferPlace
<1>6. ASSUME NEW k \in BufferPlace
      PROVE  /\ k < first => c[k] = Digits(n)[d - k] /\ d - k \in 1 .. d
             /\ k \in first .. first + d - 1
                  => c[k] = Digits(n)[k - first + 1] /\ k - first + 1 \in 1 .. d
             /\ k = first + d => c[k] = Terminator
             /\ k > first + d => c[k] = b[k]
  BY <1>1, <1>4, <1>5
<1>7. c \in [BufferPlace -> Character]
  <2>1. ASSUME NEW k \in BufferPlace PROVE c[k] \in Character
    <3>1. k < first \/ k \in first .. first + d - 1 \/ k = first + d \/ k > first + d
      BY <1>1, <1>5
    <3> QED
      BY <1>2, <1>3, <1>6, <3>1
  <2> QED
    BY <1>4, <2>1
<1>8. ASSUME NEW k \in BufferPlace, b[k] = Terminator
      PROVE  \E m \in k .. LastPlace + 1 : c[m] = Terminator /\ (m = k \/ m <= LastPlace)
  <2>1. CASE k > first + d
    BY <1>6, <1>8, <2>1 DEF BufferPlace, LastPlace
  <2>2. CASE k <= first + d
    <3>1. first + d \in k .. LastPlace + 1 /\ first + d <= LastPlace /\ first + d \in BufferPlace
      BY <1>1, <1>5, <2>2 DEF BufferPlace, LastPlace
    <3> QED
      BY <1>6, <3>1
  <2> QED
    BY <1>1, <1>5, <2>1, <2>2
<1> QED
  BY <1>7, <1>8 DEF c

-----------------------------------------------------------------------------
(* What each action keeps.                                                  *)

LEMMA EndsInit == TextInit => EndsInv
<1> SUFFICES ASSUME TextInit PROVE EndsInv
  OBVIOUS
<1>1. Len(Instant) \in Nat /\ Len(Instant) >= 1 /\ Five \in Nat /\ Six \in Nat
  BY ClockTextAssumption, Powers, LenProperties
<1>2. TextTyped
  <2>1. StTempo \in [Field -> Value] /\ StLocal \in [Field -> Value] /\ index \in Field
    BY <1>1 DEF TextInit, Value, Field
  <2>2. str_buffer \in [BufferPlace -> Character]
    BY DEF TextInit, Character
  <2>3. now \in 1 .. Len(Instant) /\ at \in 1 .. 8 /\ num \in Number
    BY <1>1, NumbersKnown DEF TextInit
  <2>4. out \in Seq(Made) /\ pc \in {"idle", "done", "overrun"} \cup Dating \cup Printing \cup Converting
    BY DEF TextInit
  <2>5. buffer \in 0 .. 6 /\ i \in 0 .. 6 /\ j \in 0 .. 7 /\ s \in BufferPlace /\ len \in Nat
    BY DEF TextInit, BufferPlace, LastPlace
  <2>6. num_neg \in BOOLEAN
    BY DEF TextInit
  <2> QED
    BY <2>1, <2>2, <2>3, <2>4, <2>5, <2>6 DEF TextTyped
<1>3. JobKept /\ RoomLeft /\ TextEnds
  BY <1>1, NumbersKnown DEF TextInit, JobKept, RoomLeft, TextEnds, Dating, Printing, Converting
<1> QED
  BY <1>2, <1>3 DEF EndsInv

LEMMA OrologioEnds ==
  ASSUME EndsInv, orologio
  PROVE  EndsInv'
<1> DEFINE t == Instant[now]
           b1 == Converted(str_buffer, t["hour"])
           b2 == Converted(b1, t["min"])
           b3 == Converted(b2, t["sec"])
<1>1. t \in [Field -> Value]
  BY ClockTextAssumption, ElementOfSeq DEF EndsInv, TextTyped, Value
<1>2. t["hour"] \in Value /\ t["min"] \in Value /\ t["sec"] \in Value
  BY <1>1 DEF Field
<1>3. str_buffer \in [BufferPlace -> Character]
  BY DEF EndsInv, TextTyped
<1>4. str_buffer' = b3 /\ index' = "year" /\ StTempo' = t
  BY DEF orologio
<1> HIDE DEF t
<1>5. b1 \in [BufferPlace -> Character] /\ b2 \in [BufferPlace -> Character]
      /\ b3 \in [BufferPlace -> Character]
  <2>1. b1 \in [BufferPlace -> Character]
    BY <1>2, <1>3, ConvertedEnds
  <2> HIDE DEF b1
  <2>2. b2 \in [BufferPlace -> Character]
    BY <1>2, <2>1, ConvertedEnds
  <2> HIDE DEF b2
  <2>3. b3 \in [BufferPlace -> Character]
    BY <1>2, <2>2, ConvertedEnds
  <2> QED
    BY <2>1, <2>2, <2>3
<1>6. ASSUME NEW k \in BufferPlace, str_buffer[k] = Terminator
      PROVE  \E m \in k .. LastPlace + 1 : b3[m] = Terminator /\ (m = k \/ m <= LastPlace)
  <2>1. PICK m1 \in k .. LastPlace + 1 : b1[m1] = Terminator /\ (m1 = k \/ m1 <= LastPlace)
    BY <1>2, <1>3, <1>6, ConvertedEnds
  <2> HIDE DEF b1
  <2>2. m1 \in BufferPlace
    BY <2>1 DEF BufferPlace
  <2>3. PICK m2 \in m1 .. LastPlace + 1 : b2[m2] = Terminator /\ (m2 = m1 \/ m2 <= LastPlace)
    BY <1>2, <1>5, <2>1, <2>2, ConvertedEnds
  <2> HIDE DEF b2
  <2>4. m2 \in BufferPlace
    BY <2>2, <2>3 DEF BufferPlace
  <2>5. PICK m3 \in m2 .. LastPlace + 1 : b3[m3] = Terminator /\ (m3 = m2 \/ m3 <= LastPlace)
    BY <1>2, <1>5, <2>3, <2>4, ConvertedEnds
  <2> QED
    BY <2>1, <2>3, <2>5 DEF BufferPlace, LastPlace
<1> HIDE DEF b3
<1>7. TextTyped'
  BY <1>1, <1>4, <1>5 DEF EndsInv, TextTyped, orologio, local_vars, conv_vars, Field
<1>8. JobKept' /\ RoomLeft'
  BY DEF EndsInv, JobKept, RoomLeft, orologio, local_vars, conv_vars
<1>9. TextEnds'
  <2> SUFFICES ASSUME pc' \in {"strcat", "strlen"}
               PROVE  \E m \in EndsBehind' : m <= LastPlace \/ job'[2] > Five
    BY DEF TextEnds
  <2>1. PICK k \in EndsBehind : k <= LastPlace \/ job[2] > Five
    BY DEF EndsInv, TextEnds, orologio
  <2>2. s \in BufferPlace /\ k \in BufferPlace /\ k >= s /\ str_buffer[k] = Terminator
    BY DEF EndsInv, TextTyped, EndsBehind, BufferPlace
  <2>3. PICK m \in k .. LastPlace + 1 : b3[m] = Terminator /\ (m = k \/ m <= LastPlace)
    BY <1>6, <2>2
  <2>4. s' = s /\ job' = job
    BY DEF orologio, local_vars
  <2>5. m \in EndsBehind'
    BY <1>4, <2>2, <2>3, <2>4 DEF EndsBehind, BufferPlace, LastPlace
  <2> QED
    BY <2>1, <2>3, <2>4, <2>5
<1> QED
  BY <1>7, <1>8, <1>9 DEF EndsInv

LEMMA RtcEnds ==
  ASSUME EndsInv, rtc_second
  PROVE  EndsInv'
<1>1. now' \in 1 .. Len(Instant)
  BY ClockTextAssumption, LenProperties DEF EndsInv, TextTyped, rtc_second
<1>2. TextTyped'
  BY <1>1 DEF EndsInv, TextTyped, rtc_second, local_vars, conv_vars
<1>3. JobKept' /\ RoomLeft' /\ TextEnds'
  BY DEF EndsInv, JobKept, RoomLeft, TextEnds, EndsBehind, rtc_second, local_vars, conv_vars
<1> QED
  BY <1>2, <1>3 DEF EndsInv

LEMMA BeginEnds ==
  ASSUME EndsInv, begin_data \/ \E n \in Numbers : begin_printk(n) \/ overrun(n)
  PROVE  EndsInv'
<1>1. CASE begin_data
  <2>1. TextTyped'
    BY <1>1 DEF EndsInv, TextTyped, begin_data, World, local_vars, conv_vars, Dating
  <2>2. JobKept'
    BY <1>1, NumbersKnown DEF begin_data, JobKept, Dating, Printing, Converting
  <2>3. RoomLeft' /\ TextEnds'
    BY <1>1 DEF begin_data, RoomLeft, TextEnds
  <2> QED
    BY <2>1, <2>2, <2>3 DEF EndsInv
<1>2. CASE \E n \in Numbers : begin_printk(n)
  <2>1. PICK n \in Numbers : begin_printk(n)
    BY <1>2
  <2>2. n \in Number
    BY <2>1 DEF begin_printk
  <2>3. TextTyped'
    <3>1. num_neg' \in BOOLEAN
      BY <2>1 DEF begin_printk
    <3>2. buffer' \in 0 .. 6 /\ i' \in 0 .. 6 /\ j' \in 0 .. 7
      BY <2>1 DEF begin_printk
    <3> QED
      BY <2>1, <2>2, <3>1, <3>2 DEF EndsInv, TextTyped, begin_printk, World, local_vars, Converting
  <2>4. JobKept'
    BY <2>1, <2>2 DEF begin_printk, JobKept, Dating, Printing, Converting
  <2>5. RoomLeft' /\ TextEnds'
    BY <2>1, <2>2 DEF begin_printk, RoomLeft, TextEnds
  <2> QED
    BY <2>3, <2>4, <2>5 DEF EndsInv
<1>3. CASE \E n \in Numbers : overrun(n)
  <2>1. PICK n \in Numbers : overrun(n)
    BY <1>3
  <2>2. TextTyped'
    BY <2>1 DEF EndsInv, TextTyped, overrun, World, local_vars, conv_vars
  <2>3. JobKept'
    BY <2>1 DEF overrun, JobKept, Dating, Printing, Converting
  <2>4. RoomLeft' /\ TextEnds'
    BY <2>1 DEF overrun, RoomLeft, TextEnds
  <2> QED
    BY <2>2, <2>3, <2>4 DEF EndsInv
<1> QED
  BY <1>1, <1>2, <1>3

(* The orders in which the fields are read, stored and written out.         *)
LEMMA Orders ==
  ASSUME NEW k \in 1 .. 7
  PROVE  ReadOrder[k] \in Field /\ StoreOrder[k] \in Field /\ TextOrder[k] \in Field
BY DEF ReadOrder, StoreOrder, TextOrder, Field

LEMMA ReadEnds ==
  ASSUME EndsInv, readcmos_select \/ readcmos_read \/ localtime_store
  PROVE  EndsInv'
<1>1. at \in 1 .. 7 /\ Instant[now] \in [Field -> Value]
  BY ClockTextAssumption, ElementOfSeq
     DEF EndsInv, TextTyped, JobKept, readcmos_select, readcmos_read, localtime_store, Value
<1>2. CASE readcmos_select
  <2>1. TextTyped'
    BY <1>1, <1>2, Orders DEF EndsInv, TextTyped, readcmos_select, World, local_vars, conv_vars, Dating
  <2>2. JobKept' /\ RoomLeft' /\ TextEnds'
    BY <1>2 DEF EndsInv, JobKept, RoomLeft, TextEnds, readcmos_select, Dating, Printing, Converting
  <2> QED
    BY <2>1, <2>2 DEF EndsInv
<1>3. CASE readcmos_read
  <2>1. StLocal' \in [Field -> Value]
    BY <1>1, <1>3, Orders DEF EndsInv, TextTyped, readcmos_read
  <2>2. at' \in 1 .. 7 /\ pc' \in {"select", "localtime"}
    BY <1>1, <1>3 DEF readcmos_read
  <2>3. TextTyped'
    BY <1>3, <2>1, <2>2 DEF EndsInv, TextTyped, readcmos_read, World, conv_vars, Dating
  <2>4. JobKept' /\ RoomLeft' /\ TextEnds'
    BY <1>3, <2>2 DEF EndsInv, JobKept, RoomLeft, TextEnds, readcmos_read, Dating, Printing, Converting
  <2> QED
    BY <2>3, <2>4 DEF EndsInv
<1>4. CASE localtime_store
  <2>1. StTempo' \in [Field -> Value]
    BY <1>1, <1>4, Orders DEF EndsInv, TextTyped, localtime_store
  <2>2. at' \in 1 .. 7 /\ pc' \in {"localtime", "strftime"}
    BY <1>1, <1>4 DEF localtime_store
  <2>3. TextTyped'
    BY <1>4, <2>1, <2>2 DEF EndsInv, TextTyped, localtime_store, World, local_vars, conv_vars, Dating
  <2>4. JobKept' /\ RoomLeft' /\ TextEnds'
    BY <1>4, <2>2 DEF EndsInv, JobKept, RoomLeft, TextEnds, localtime_store, Dating, Printing, Converting
  <2> QED
    BY <2>3, <2>4 DEF EndsInv
<1> QED
  BY <1>2, <1>3, <1>4

LEMMA StrftimeEnds ==
  ASSUME EndsInv, strftime_name \/ strftime_number \/ strftime_end
  PROVE  EndsInv'
<1>1. CASE strftime_name
  <2>1. at \in 1 .. 7
    BY <1>1 DEF EndsInv, TextTyped, strftime_name
  <2>2. <<TextOrder[at], StTempo[TextOrder[at]]>> \in Made
    BY <1>1, <2>1, Orders DEF EndsInv, TextTyped, strftime_name, Made
  <2>3. out' \in Seq(Made)
    BY <1>1, <2>2, AppendProperties DEF EndsInv, TextTyped, strftime_name
  <2>4. TextTyped'
    BY <1>1, <2>1, <2>3 DEF EndsInv, TextTyped, strftime_name, World, conv_vars
  <2>5. JobKept' /\ RoomLeft' /\ TextEnds'
    BY <1>1 DEF EndsInv, JobKept, RoomLeft, TextEnds, strftime_name, Dating, Printing, Converting
  <2> QED
    BY <2>4, <2>5 DEF EndsInv
<1>2. CASE strftime_number
  <2>1. at \in 1 .. 7
    BY <1>2 DEF EndsInv, TextTyped, strftime_number
  <2>2. num' \in Value /\ num' \in Number
    BY <1>2, <2>1, Orders, NumbersKnown DEF EndsInv, TextTyped, strftime_number
  <2>3. TextTyped'
    <3>1. num_neg' \in BOOLEAN
      BY <1>2 DEF strftime_number
    <3>2. buffer' \in 0 .. 6 /\ i' \in 0 .. 6 /\ j' \in 0 .. 7
      BY <1>2 DEF strftime_number
    <3> QED
      BY <1>2, <2>2, <3>1, <3>2 DEF EndsInv, TextTyped, strftime_number, World, local_vars, Converting
  <2>4. JobKept'
    BY <1>2, <2>1 DEF EndsInv, JobKept, strftime_number, Dating, Printing, Converting
  <2>5. RoomLeft' /\ TextEnds'
    BY <1>2, <2>2 DEF EndsInv, JobKept, RoomLeft, TextEnds, strftime_number, Dating
  <2> QED
    BY <2>3, <2>4, <2>5 DEF EndsInv
<1>3. CASE strftime_end
  <2>1. TextTyped'
    BY <1>3 DEF EndsInv, TextTyped, strftime_end, World, local_vars, conv_vars
  <2>2. JobKept' /\ RoomLeft' /\ TextEnds'
    BY <1>3 DEF EndsInv, JobKept, RoomLeft, TextEnds, strftime_end, Dating, Printing, Converting
  <2> QED
    BY <2>1, <2>2 DEF EndsInv
<1> QED
  BY <1>1, <1>2, <1>3

(* What the first access of a conversion finds.                             *)
LEMMA ConvStarts ==
  ASSUME EndsInv, pc = "conv"
  PROVE  /\ buffer = 0 /\ i = 0 /\ j = 0 /\ num_neg = FALSE
         /\ num \in Int /\ -Five <= num /\ num <= Six
         /\ job[2] <= Five => num <= Five
         /\ num < 0 => job[2] <= Five
<1>1. num \in Int /\ -Five <= num /\ num <= Six
  BY NumbersKnown DEF EndsInv, TextTyped
<1>2. num = job[2] \/ (job[2] = 0 /\ num \in Value)
  BY DEF EndsInv, RoomLeft
<1>3. \A n \in Value : n \in Int /\ 0 <= n /\ n <= Five
  BY Powers DEF Value
<1>4. job[2] <= Five => num <= Five
  BY <1>2, <1>3
<1>5. num < 0 => job[2] <= Five
  BY <1>1, <1>2, <1>3, Powers
<1> QED
  BY <1>1, <1>4, <1>5 DEF EndsInv, RoomLeft, TextTyped

LEMMA ConvZeroEnds ==
  ASSUME EndsInv, conv_zero
  PROVE  EndsInv'
<1>1. str_buffer' \in [BufferPlace -> Character]
  BY DEF EndsInv, TextTyped, conv_zero, Character, BufferPlace, LastPlace
<1>2. TextTyped'
  BY <1>1 DEF EndsInv, TextTyped, conv_zero, World, local_vars, Converting
<1>3. JobKept' /\ TextEnds'
  BY DEF EndsInv, JobKept, TextEnds, conv_zero, Dating, Printing, Converting
<1>4. buffer = 0 /\ i = 0
  BY ConvStarts DEF conv_zero
<1>5. RoomLeft'
  BY <1>4 DEF RoomLeft, conv_zero, LastPlace
<1> QED
  BY <1>2, <1>3, <1>5 DEF EndsInv

LEMMA ConvNegativeEnds ==
  ASSUME EndsInv, conv_negative
  PROVE  EndsInv'
<1>1. /\ buffer = 0 /\ i = 0 /\ num \in Int /\ -Five <= num /\ num < 0 /\ job[2] <= Five
  BY ConvStarts DEF conv_negative
<1>2. num' \in Value /\ num' > 0 /\ num' < Power[6] /\ num' < Power[7]
  BY <1>1, Powers DEF conv_negative, Value
<1>3. num' \in Number
  BY <1>2, NumbersKnown
<1>4. num_neg' \in BOOLEAN
  BY DEF conv_negative
<1>5. TextTyped'
  BY <1>3, <1>4 DEF EndsInv, TextTyped, conv_negative, World, local_vars, Converting
<1>6. JobKept' /\ TextEnds'
  BY DEF EndsInv, JobKept, TextEnds, conv_negative, Dating, Printing, Converting
<1>7. RoomLeft'
  <2>1. pc' = "digits" /\ i' = 0 /\ buffer' = 0 /\ j' = 1 /\ job' = job /\ num_neg' = TRUE
    BY <1>1 DEF conv_negative
  <2>2. num' < Power[7 - i'] /\ num' < Power[6 - i']
    BY <1>2, <2>1
  <2> QED
    BY <1>1, <1>2, <2>1, <2>2 DEF RoomLeft
<1> QED
  BY <1>5, <1>6, <1>7 DEF EndsInv

(* What the next digit finds: as much room as the number has digits left.   *)
LEMMA DigitsLeft ==
  ASSUME EndsInv, conv_digit
  PROVE  /\ num \in Nat \ {0} /\ i \in 0 .. 5 /\ buffer = i /\ j \in 0 .. 1
         /\ num < Power[7 - i] /\ (job[2] > Five \/ num < Power[6 - i])
         /\ j = (IF num_neg THEN 1 ELSE 0) /\ (num_neg => job[2] <= Five)
<1>1. num \in Int /\ num > 0
  BY NumbersKnown DEF EndsInv, TextTyped, conv_digit
<1>2. CASE pc = "conv"
  <2>1. /\ buffer = 0 /\ i = 0 /\ j = 0 /\ num_neg = FALSE /\ num <= Six
        /\ job[2] <= Five => num <= Five
    BY <1>2, ConvStarts
  <2>2. num < Power[7] /\ (job[2] > Five \/ num < Power[6])
    <3>1. num < Power[7]
      BY <1>1, <2>1, Powers
    <3>2. job[2] \in Int
      BY <1>2, NumbersKnown DEF EndsInv, JobKept
    <3>3. CASE job[2] <= Five
      BY <1>1, <2>1, <3>1, <3>3, Powers
    <3>4. CASE job[2] > Five
      BY <3>1, <3>4
    <3> QED
      BY <3>2, <3>3, <3>4, Powers
  <2> QED
    BY <1>1, <2>1, <2>2
<1>3. CASE pc = "digits"
  <2>1. /\ i = buffer /\ i <= 5 /\ num < Power[7 - i] /\ (job[2] > Five \/ num < Power[6 - i])
        /\ j = (IF num_neg THEN 1 ELSE 0) /\ (num_neg => job[2] <= Five) /\ i \in 0 .. 6
    BY <1>3 DEF EndsInv, RoomLeft, TextTyped
  <2> QED
    BY <1>1, <2>1
<1> QED
  BY <1>2, <1>3 DEF conv_digit

(* A number loses its last place.                                           *)
LEMMA OnePlaceLess ==
  ASSUME NEW n \in Nat
  PROVE  /\ n \div 10 \in Nat /\ n \div 10 <= n /\ (n >= 10 => n \div 10 > 0)
         /\ \A k \in 1 .. 6 : n < Power[k + 1] => n \div 10 < Power[k]
<1>1. n \div 10 \in Nat /\ n \div 10 <= n /\ (n >= 10 => n \div 10 > 0)
  OBVIOUS
<1>2. ASSUME NEW p \in Nat, n < 10 * p PROVE n \div 10 < p
  BY <1>2
<1>3. ASSUME NEW k \in 1 .. 6 PROVE Power[k + 1] = 10 * Power[k] /\ Power[k] \in Nat
  <2>1. k = 1 \/ k = 2 \/ k = 3 \/ k = 4 \/ k = 5 \/ k = 6
    OBVIOUS
  <2> QED
    BY <2>1, Powers
<1>4. ASSUME NEW k \in 1 .. 6, n < Power[k + 1] PROVE n \div 10 < Power[k]
  <2>1. Power[k + 1] = 10 * Power[k] /\ Power[k] \in Nat
    BY <1>3
  <2> QED
    BY <1>2, <1>4, <2>1
<1> QED
  BY <1>1, <1>4

LEMMA ConvDigitEnds ==
  ASSUME EndsInv, conv_digit
  PROVE  EndsInv'
<1>1. /\ num \in Nat \ {0} /\ i \in 0 .. 5 /\ buffer = i /\ j \in 0 .. 1
      /\ num < Power[7 - i] /\ (job[2] > Five \/ num < Power[6 - i])
      /\ j = (IF num_neg THEN 1 ELSE 0) /\ (num_neg => job[2] <= Five)
  BY DigitsLeft
<1>2. num' = num \div 10 /\ i' = i + 1 /\ buffer' = i + 1 /\ job' = job
      /\ pc' = (IF num < 10 THEN "order" ELSE "digits")
      /\ str_buffer' = [str_buffer EXCEPT ![i] = DigitOf(num)]
  BY <1>1 DEF conv_digit
<1>9. j' = j /\ num_neg' = num_neg
  BY DEF conv_digit
<1>3. str_buffer' \in [BufferPlace -> Character]
  BY <1>1, <1>2, DigitIsCharacter DEF EndsInv, TextTyped
<1>4. num' \in Nat /\ num' <= num /\ (num >= 10 => num' > 0)
  BY <1>1, <1>2, OnePlaceLess
<1>5. num' \in Number
  <2>1. num <= Six
    BY NumbersKnown DEF EndsInv, TextTyped
  <2> QED
    BY <1>1, <1>4, <2>1, Powers DEF Number
<1>6. TextTyped'
  <2>1. i' \in 0 .. 6 /\ buffer' \in 0 .. 6
    BY <1>1, <1>2
  <2>2. pc' \in {"idle", "done"} \cup Dating \cup Printing \cup Converting
    BY <1>2 DEF Converting
  <2> QED
    BY <1>3, <1>5, <2>1, <2>2 DEF EndsInv, TextTyped, conv_digit, World, local_vars
<1>7. JobKept' /\ TextEnds'
  BY DEF EndsInv, JobKept, TextEnds, conv_digit, Dating, Printing, Converting
<1>8. RoomLeft'
  <2>1. CASE num < 10
    <3>1. pc' = "order"
      BY <1>2, <2>1
    <3>2. job[2] > Five => j = 0
      <4>1. pc # "overrun"
        BY DEF conv_digit
      <4> QED
        BY <1>1, <4>1, Powers, NumbersKnown DEF EndsInv, JobKept
    <3>3. job[2] > Five \/ i <= 4
      <4>1. i = 5 => 6 - i = 1
        OBVIOUS
      <4> QED
        BY <1>1, <4>1, Powers
    <3>4. i' + j' <= 7 /\ buffer' + i' + j' <= LastPlace + (IF job'[2] > Five THEN 1 ELSE 0)
      BY <1>1, <1>2, <1>9, <3>2, <3>3 DEF LastPlace
    <3> QED
      BY <3>1, <3>4 DEF RoomLeft
  <2>2. CASE num >= 10
    <3>1. pc' = "digits" /\ num' > 0
      BY <1>1, <1>2, <1>4, <2>2
    <3>2. i <= 4
      <4>1. i = 5 => 7 - i = 2
        OBVIOUS
      <4>2. i = 5 => num < 10 * Power[1] /\ Power[1] = 1
        BY <1>1, <4>1, Powers
      <4> QED
        BY <1>1, <2>2, <4>2
    <3>3. 6 - i \in 1 .. 6 /\ 5 - i \in 1 .. 6 /\ 7 - i = (6 - i) + 1 /\ 6 - i = (5 - i) + 1
          /\ 7 - (i + 1) = 6 - i /\ 6 - (i + 1) = 5 - i
      BY <1>1, <3>2
    <3>4. num \div 10 < Power[6 - i] /\ (job[2] > Five \/ num \div 10 < Power[5 - i])
      BY <1>1, <3>3, OnePlaceLess
    <3>5. num' < Power[7 - i'] /\ (job'[2] > Five \/ num' < Power[6 - i'])
      BY <1>2, <3>3, <3>4
    <3>6. i' = buffer' /\ i' <= 5
      BY <1>1, <1>2, <3>2
    <3>7. j' = (IF num_neg' THEN 1 ELSE 0) /\ (num_neg' => job'[2] <= Five)
      BY <1>1, <1>2, <1>9
    <3> QED
      BY <3>1, <3>5, <3>6, <3>7 DEF RoomLeft
  <2> QED
    BY <1>1, <2>1, <2>2
<1> QED
  BY <1>6, <1>7, <1>8 DEF EndsInv

LEMMA ConvOrderEnds ==
  ASSUME EndsInv, conv_order
  PROVE  EndsInv'
<1> DEFINE top == IF job[2] > Five THEN 1 ELSE 0
<1>1. /\ i \in 1 .. 6 /\ j \in 0 .. 6 /\ buffer \in 0 .. 6 /\ i + j <= 7
      /\ buffer + i + j <= LastPlace + top /\ top \in 0 .. 1
  BY DEF EndsInv, TextTyped, RoomLeft, conv_order
<1>2. /\ i' = i - 1 /\ j' = j + 1 /\ buffer' = buffer /\ job' = job /\ pc' = "order"
      /\ str_buffer' = [str_buffer EXCEPT ![buffer + j] = str_buffer[i - 1]]
  BY DEF conv_order, Reordered
<1> HIDE DEF top
<1>3. str_buffer' \in [BufferPlace -> Character]
  <2>1. i - 1 \in BufferPlace
    BY <1>1 DEF BufferPlace, LastPlace
  <2> QED
    BY <1>2, <2>1 DEF EndsInv, TextTyped
<1>4. TextTyped'
  <2>1. i' \in 0 .. 6 /\ j' \in 0 .. 7
    BY <1>1, <1>2
  <2> QED
    BY <1>2, <1>3, <2>1 DEF EndsInv, TextTyped, conv_order, World, local_vars
<1>5. JobKept' /\ TextEnds'
  BY DEF EndsInv, JobKept, TextEnds, conv_order, Dating, Printing, Converting
<1>6. i' + j' <= 7 /\ buffer' + i' + j' <= LastPlace + top
  BY <1>1, <1>2 DEF LastPlace
<1> QED
  BY <1>2, <1>4, <1>5, <1>6 DEF EndsInv, RoomLeft, top

(* A conversion closes its text behind the place it has reached.            *)
LEMMA ConvReturnEnds ==
  ASSUME EndsInv, conv_return
  PROVE  EndsInv'
<1> DEFINE top == IF job[2] > Five THEN 1 ELSE 0
           close == buffer + j
<1>1. /\ buffer \in 0 .. 6 /\ j \in 0 .. 7 /\ close <= LastPlace + top /\ top \in 0 .. 1
      /\ str_buffer \in [BufferPlace -> Character]
  BY DEF EndsInv, TextTyped, RoomLeft, conv_return
<1>2. close \in BufferPlace /\ buffer \in BufferPlace /\ close >= buffer
  BY <1>1 DEF BufferPlace, LastPlace
<1> HIDE DEF top, close
<1>3. Signed(str_buffer) \in [BufferPlace -> Character]
  BY <1>1 DEF Signed, Character
<1>4. str_buffer' = [Signed(str_buffer) EXCEPT ![close] = Terminator]
  BY DEF conv_return, Closed, close
<1>5. str_buffer' \in [BufferPlace -> Character] /\ str_buffer'[close] = Terminator
  BY <1>2, <1>3, <1>4 DEF Character
<1>6. s' = buffer /\ job' = job /\ pc' = (IF job[1] = "data" THEN "strcat" ELSE "strlen")
  BY DEF conv_return
<1>7. TextTyped'
  <2>1. pc' \in {"idle", "done"} \cup Dating \cup Printing \cup Converting
    BY <1>6 DEF Dating, Printing
  <2> QED
    BY <1>2, <1>5, <1>6, <2>1 DEF EndsInv, TextTyped, conv_return, World, conv_vars
<1>8. JobKept'
  BY DEF EndsInv, JobKept, conv_return, World, conv_vars, Dating, Printing, Converting
<1>9. RoomLeft'
  BY <1>6 DEF RoomLeft
<1>10. TextEnds'
  <2>1. close \in EndsBehind'
    BY <1>2, <1>5, <1>6 DEF EndsBehind, BufferPlace
  <2>2. close <= LastPlace \/ job'[2] > Five
    BY <1>1, <1>2, <1>6 DEF top, BufferPlace, LastPlace
  <2> QED
    BY <2>1, <2>2 DEF TextEnds
<1> QED
  BY <1>7, <1>8, <1>9, <1>10 DEF EndsInv

(* strcat goes on only from a place that is not the end.                    *)
LEMMA StrcatEnds ==
  ASSUME EndsInv, strcat_char
  PROVE  EndsInv'
<1>1. at \in 1 .. 7 /\ s \in BufferPlace /\ str_buffer \in [BufferPlace -> Character]
      /\ out \in Seq(Made)
  BY DEF EndsInv, TextTyped, JobKept, strcat_char, Dating, Printing, Converting
<1>2. CASE str_buffer[s] = Terminator
  <2>1. pc' = "strftime" /\ at' = at + 1 /\ s' = s /\ out' = out
    BY <1>2 DEF strcat_char
  <2>2. TextTyped'
    BY <1>1, <2>1 DEF EndsInv, TextTyped, strcat_char, World, conv_vars, Dating
  <2>3. JobKept' /\ RoomLeft' /\ TextEnds'
    BY <2>1 DEF EndsInv, JobKept, RoomLeft, TextEnds, strcat_char, Dating, Printing, Converting
  <2> QED
    BY <2>2, <2>3 DEF EndsInv
<1>3. CASE str_buffer[s] # Terminator
  <2>1. pc' = "strcat" /\ at' = at /\ s' = s + 1 /\ out' = Append(out, str_buffer[s])
        /\ str_buffer' = str_buffer /\ job' = job
    BY <1>3 DEF strcat_char
  <2>2. PICK k \in EndsBehind : k <= LastPlace \/ job[2] > Five
    BY DEF EndsInv, TextEnds, strcat_char
  <2>3. k # s /\ k \in s .. LastPlace + 1 /\ str_buffer[k] = Terminator
    BY <1>3, <2>2 DEF EndsBehind
  <2>4. s + 1 \in BufferPlace /\ k \in s + 1 .. LastPlace + 1
    BY <1>1, <2>3 DEF BufferPlace, LastPlace
  <2>5. out' \in Seq(Made)
    <3>1. str_buffer[s] \in Made
      BY <1>1 DEF Made
    <3> QED
      BY <1>1, <2>1, <3>1, AppendProperties
  <2>6. TextTyped'
    BY <2>1, <2>4, <2>5 DEF EndsInv, TextTyped, strcat_char, World, conv_vars
  <2>7. JobKept' /\ RoomLeft'
    BY <2>1 DEF EndsInv, JobKept, RoomLeft, strcat_char
  <2>8. TextEnds'
    <3>1. k \in EndsBehind'
      BY <2>1, <2>3, <2>4 DEF EndsBehind
    <3> QED
      BY <2>1, <2>2, <3>1 DEF TextEnds
  <2> QED
    BY <2>6, <2>7, <2>8 DEF EndsInv
<1> QED
  BY <1>2, <1>3

(* The length is that up to the first end.                                  *)
LEMMA FirstEnd ==
  ASSUME s \in BufferPlace, EndsBehind # {}
  PROVE  Min(EndsBehind) \in EndsBehind /\ \A k \in EndsBehind : Min(EndsBehind) <= k
<1>1. EndsBehind \subseteq Nat
  BY DEF EndsBehind, BufferPlace
<1> QED
  BY <1>1, LeastNatural DEF Min

LEMMA StrlenEnds ==
  ASSUME EndsInv, vsprintf_strlen
  PROVE  EndsInv'
<1> DEFINE m == Min(EndsBehind)
<1>1. s \in BufferPlace
  BY DEF EndsInv, TextTyped
<1>2. m \in EndsBehind
  BY <1>1, FirstEnd DEF vsprintf_strlen
<1>3. len' = m - s
  BY DEF vsprintf_strlen
<1> HIDE DEF m
<1>4. len' \in Nat /\ s + len' <= LastPlace + 1
  BY <1>1, <1>2, <1>3 DEF EndsBehind, BufferPlace, LastPlace
<1>5. TextTyped'
  BY <1>4 DEF EndsInv, TextTyped, vsprintf_strlen, World, conv_vars, Printing
<1>6. JobKept' /\ RoomLeft' /\ TextEnds'
  BY <1>4 DEF EndsInv, JobKept, RoomLeft, TextEnds, vsprintf_strlen, Dating, Printing, Converting
<1> QED
  BY <1>5, <1>6 DEF EndsInv

LEMMA VsprintfEnds ==
  ASSUME EndsInv, vsprintf_char
  PROVE  EndsInv'
<1>1. CASE len = 0
  <2>1. pc' = "done" /\ UNCHANGED <<s, len, out>>
    BY <1>1 DEF vsprintf_char
  <2>2. TextTyped'
    BY <2>1 DEF EndsInv, TextTyped, vsprintf_char, World, conv_vars
  <2>3. JobKept' /\ RoomLeft' /\ TextEnds'
    BY <2>1 DEF EndsInv, JobKept, RoomLeft, TextEnds, vsprintf_char, Dating, Printing, Converting
  <2> QED
    BY <2>2, <2>3 DEF EndsInv
<1>2. CASE len # 0
  <2>1. pc' = "vsprintf" /\ s' = s + 1 /\ len' = len - 1 /\ out' = Append(out, str_buffer[s])
    BY <1>2 DEF vsprintf_char
  <2>2. s \in BufferPlace /\ len \in Nat \ {0} /\ s + len <= LastPlace + 1
    BY <1>2 DEF EndsInv, TextTyped, RoomLeft, vsprintf_char
  <2>3. s' \in BufferPlace /\ len' \in Nat /\ s' + len' <= LastPlace + 1
    BY <2>1, <2>2 DEF BufferPlace, LastPlace
  <2>4. out' \in Seq(Made)
    <3>1. str_buffer[s] \in Made
      BY <2>2 DEF EndsInv, TextTyped, Made
    <3> QED
      BY <2>1, <3>1, AppendProperties DEF EndsInv, TextTyped
  <2>5. TextTyped'
    BY <2>1, <2>3, <2>4 DEF EndsInv, TextTyped, vsprintf_char, World, conv_vars
  <2>6. JobKept' /\ RoomLeft' /\ TextEnds'
    BY <2>1, <2>3 DEF EndsInv, JobKept, RoomLeft, TextEnds, vsprintf_char
  <2> QED
    BY <2>5, <2>6 DEF EndsInv
<1> QED
  BY <1>1, <1>2

LEMMA PrintEnds ==
  ASSUME EndsInv, print
  PROVE  EndsInv'
<1>1. StLocal' \in [Field -> Value]
  BY Powers DEF print, Value
<1>2. num' \in Number /\ job'[2] \in Number
  BY NumbersKnown DEF print
<1>3. num_neg' \in BOOLEAN
  BY DEF print
<1>4. buffer' \in 0 .. 6 /\ i' \in 0 .. 6 /\ j' \in 0 .. 7 /\ s' \in BufferPlace /\ len' \in Nat
  BY DEF print, BufferPlace, LastPlace
<1>5. out' \in Seq(Made) /\ at' \in 1 .. 8
  BY DEF print
<1>6. TextTyped'
  BY <1>1, <1>2, <1>3, <1>4, <1>5 DEF EndsInv, TextTyped, print
<1>7. JobKept'
  BY <1>2 DEF JobKept, print, Dating, Printing, Converting
<1>8. RoomLeft' /\ TextEnds'
  BY DEF RoomLeft, TextEnds, print
<1> QED
  BY <1>6, <1>7, <1>8 DEF EndsInv

-----------------------------------------------------------------------------
(* What EndsInv gives.                                                      *)

LEMMA EndsStays == EndsInv /\ [TextNext]_text_vars => EndsInv'
<1> SUFFICES ASSUME EndsInv, [TextNext]_text_vars PROVE EndsInv'
  OBVIOUS
<1>1. CASE UNCHANGED text_vars
  <2>1. TextTyped' /\ JobKept' /\ RoomLeft' /\ TextEnds'
    BY <1>1 DEF EndsInv, TextTyped, JobKept, RoomLeft, TextEnds, EndsBehind, text_vars, local_vars,
                conv_vars
  <2> QED
    BY <2>1 DEF EndsInv
<1>2. CASE TextNext
  BY <1>2, OrologioEnds, RtcEnds, BeginEnds, ReadEnds, StrftimeEnds, ConvZeroEnds, ConvNegativeEnds,
     ConvDigitEnds, ConvOrderEnds, ConvReturnEnds, StrcatEnds, StrlenEnds, VsprintfEnds, PrintEnds
  DEF TextNext
<1> QED
  BY <1>1, <1>2

(* However often the clock is drawn while a task makes a text, the text the *)
(* task copies out of str_buffer ends inside it, or in the byte behind it   *)
(* for a number of six digits (libc/string.c:474, 521), for any times and   *)
(* numbers, up to the first number of more than six digits or of six and a  *)
(* sign.                                                                    *)
THEOREM ClockTextEnds == TextSpec => []TextEnds
<1>1. TextInit => EndsInv
  BY EndsInit
<1>2. EndsInv /\ [TextNext]_text_vars => EndsInv'
  BY EndsStays
<1>3. EndsInv => TextEnds
  BY DEF EndsInv
<1> QED
  BY <1>1, <1>2, <1>3, PTL DEF TextSpec

-----------------------------------------------------------------------------
(* The invariant that holds of a text made undisturbed.                     *)

(* The number that is converted, its size, and its sign.                    *)
Given == IF job[1] = "data" THEN StTempo[TextOrder[at]] ELSE job[2]

Size == IF Given < 0 THEN -Given ELSE Given

Sign == IF Given < 0 THEN 1 ELSE 0

(* The date up to its n-th field.                                           *)
Before(t, n) ==
  LET P(k) == Piece(t, TextOrder[k])
  IN  << <<>>, P(1), P(1) \o P(2), P(1) \o P(2) \o P(3), P(1) \o P(2) \o P(3) \o P(4),
         P(1) \o P(2) \o P(3) \o P(4) \o P(5), P(1) \o P(2) \o P(3) \o P(4) \o P(5) \o P(6),
         TextOf(t) >>[n]

(* A text is another one and the first n members of a third.                *)
Follows(text, first, second, n) ==
  /\ Len(text) = Len(first) + n /\ n <= Len(second)
  /\ \A k \in 1 .. Len(first) : text[k] = first[k]
  /\ \A k \in 1 .. n : text[Len(first) + k] = second[k]

(* The registers are read at one instant, and copied to StTempo.            *)
DateRead ==
  /\ pc \in {"select", "read"} =>
       \A k \in 1 .. at - 1 : StLocal[ReadOrder[k]] = Instant[now][ReadOrder[k]]
  /\ pc = "read" => index = ReadOrder[at]
  /\ pc = "localtime" =>
       /\ \E m \in 1 .. now : StLocal = Instant[m]
       /\ \A k \in 1 .. at - 1 : StTempo[StoreOrder[k]] = StLocal[StoreOrder[k]]
  /\ job[1] = "data" /\ pc \in Converting \cup {"strftime", "strcat", "done"} =>
       \E m \in 1 .. now : StTempo = Instant[m]

(* The digits of the number are in the buffer, as far as they are made: in  *)
(* reverse, then partly in order, then with the sign and the NUL.           *)
Reversed(n) == \A k \in 0 .. n - 1 : str_buffer[k] = DigitOf(Size \div Power[k + 1])

InOrder(n) == \A k \in 1 .. n : str_buffer[buffer + Sign + k - 1] = Digits(Size)[k]

Held ==
  /\ \A k \in 1 .. Len(Decimal(Given)) : str_buffer[buffer + k - 1] = Decimal(Given)[k]
  /\ str_buffer[buffer + Len(Decimal(Given))] = Terminator

NumberConverted ==
  /\ pc = "conv" => num = Given
  /\ pc = "digits" =>
       (num_neg <=> Given < 0) /\ num = Size \div Power[i + 1] /\ Reversed(i)
  /\ pc = "order" =>
       /\ num_neg <=> Given < 0
       /\ i <= buffer /\ Sign <= j /\ i + j = PlacesOf(Size) + Sign
       /\ Reversed(i) /\ InOrder(j - Sign)
  /\ pc \in {"strcat", "strlen", "vsprintf"} => Held /\ buffer <= s
  /\ pc = "strlen" => s = buffer
  /\ pc = "vsprintf" => s - buffer + len = Len(Decimal(Given))

(* What has been copied out is the text so far.                             *)
TextCopied ==
  /\ pc \in {"idle", "select", "read", "localtime"} => out = <<>>
  /\ job[1] = "number" /\ pc \in Converting \cup {"strlen"} => out = <<>>
  /\ job[1] = "data" /\ pc \in Converting \cup {"strftime"} => out = Before(StTempo, at)
  /\ pc = "strcat" => Follows(out, Before(StTempo, at), Decimal(Given), s - buffer)
  /\ pc = "vsprintf" => Follows(out, <<>>, Decimal(Given), s - buffer)
  /\ pc = "done" => out = IF job[1] = "data" THEN TextOf(StTempo) ELSE Decimal(job[2])

Undisturbed == DateRead /\ NumberConverted /\ TextCopied

RightInv == EndsInv /\ (~disturbed => Undisturbed)

-----------------------------------------------------------------------------
(* Texts.                                                                   *)

(* A text follows another with none of the third; one member more; with all *)
(* of them it is their concatenation.                                       *)
LEMMA FollowsNone ==
  ASSUME NEW S, NEW a \in Seq(S), NEW b \in Seq(S)
  PROVE  Follows(a, a, b, 0)
<1>1. Len(a) \in Nat /\ Len(b) \in Nat
  BY LenProperties
<1> QED
  BY <1>1 DEF Follows

LEMMA FollowsOneMore ==
  ASSUME NEW S, NEW t \in Seq(S), NEW a \in Seq(S), NEW b \in Seq(S),
         NEW n \in 0 .. Len(b) - 1, Follows(t, a, b, n)
  PROVE  Follows(Append(t, b[n + 1]), a, b, n + 1)
<1> DEFINE la == Len(a)
           u == Append(t, b[n + 1])
<1>1. la \in Nat /\ Len(b) \in Nat /\ Len(t) = la + n
  BY LenProperties DEF Follows
<1>2. b[n + 1] \in S
  BY <1>1, ElementOfSeq
<1>3. /\ Len(u) = la + n + 1 /\ u[la + n + 1] = b[n + 1]
      /\ \A k \in 1 .. la + n : u[k] = t[k]
  BY <1>1, <1>2, AppendProperties
<1> HIDE DEF u, la
<1>4. \A k \in 1 .. la : u[k] = a[k]
  <2>1. \A k \in 1 .. la : t[k] = a[k] /\ k \in 1 .. la + n
    BY <1>1 DEF Follows, la
  <2> QED
    BY <1>3, <2>1
<1>5. ASSUME NEW k \in 1 .. n + 1 PROVE u[la + k] = b[k]
  <2>1. CASE k = n + 1
    BY <1>1, <1>3, <2>1
  <2>2. CASE k \in 1 .. n
    <3>1. t[la + k] = b[k] /\ la + k \in 1 .. la + n
      BY <1>1, <2>2 DEF Follows, la
    <3> QED
      BY <1>3, <3>1
  <2> QED
    BY <2>1, <2>2
<1>6. Len(u) = la + (n + 1) /\ n + 1 <= Len(b)
  BY <1>1, <1>3
<1> QED
  BY <1>4, <1>5, <1>6 DEF Follows, u, la

LEMMA FollowsAll ==
  ASSUME NEW S, NEW t \in Seq(S), NEW a \in Seq(S), NEW b \in Seq(S),
         Follows(t, a, b, Len(b))
  PROVE  t = a \o b
<1> DEFINE la == Len(a)
           lb == Len(b)
           c == a \o b
<1>1. la \in Nat /\ lb \in Nat /\ Len(t) = la + lb
  BY LenProperties DEF Follows
<1>2. c \in Seq(S) /\ Len(c) = la + lb
      /\ \A k \in 1 .. la + lb : c[k] = IF k <= la THEN a[k] ELSE b[k - la]
  BY ConcatProperties
<1>3. (\A k \in 1 .. la : t[k] = a[k]) /\ (\A k \in 1 .. lb : t[la + k] = b[k])
  BY DEF Follows
<1> HIDE DEF la, lb, c
<1>4. ASSUME NEW k \in 1 .. la + lb PROVE t[k] = c[k]
  <2>1. CASE k <= la
    <3>1. k \in 1 .. la
      BY <1>1, <2>1
    <3>2. c[k] = a[k]
      BY <1>2, <2>1
    <3> QED
      BY <1>3, <3>1, <3>2
  <2>2. CASE k > la
    <3>1. k - la \in 1 .. lb /\ la + (k - la) = k
      BY <1>1, <2>2
    <3>2. c[k] = b[k - la]
      BY <1>1, <1>2, <2>2
    <3>3. t[la + (k - la)] = b[k - la]
      BY <1>3, <3>1
    <3> QED
      BY <3>1, <3>2, <3>3
  <2> QED
    BY <1>1, <2>1, <2>2
<1>5. t = c
  BY <1>1, <1>2, <1>4, SeqEqual
<1> QED
  BY <1>5 DEF c

(* The text of a number is its digits behind the sign, without a NUL.       *)
LEMMA DecimalTyped ==
  ASSUME NEW n \in Number
  PROVE  /\ Decimal(n) \in Seq(Character \ {Terminator}) /\ Decimal(n) \in Seq(Made)
         /\ Len(Decimal(n)) = PlacesOf(IF n < 0 THEN -n ELSE n) + (IF n < 0 THEN 1 ELSE 0)
         /\ \A k \in 1 .. Len(Decimal(n)) : Decimal(n)[k] =
              IF n >= 0 THEN Digits(n)[k] ELSE IF k = 1 THEN "-" ELSE Digits(-n)[k - 1]
<1> DEFINE w == IF n < 0 THEN -n ELSE n
<1>1. n \in Int /\ -Five <= n /\ n <= Six
  BY NumbersKnown
<1>2. w \in 0 .. Six
  BY <1>1, Powers
<1> HIDE DEF w
<1>3. Digits(w) \in Seq(Character \ {Terminator}) /\ Len(Digits(w)) = PlacesOf(w)
      /\ PlacesOf(w) \in 1 .. 6
  BY <1>2, DigitsTyped, PlacesOfNumber
<1>4. CASE n >= 0
  <2>1. w = n /\ Decimal(n) = Digits(w) /\ ~(n < 0)
    BY <1>1, <1>4 DEF w, Decimal
  <2>2. Decimal(n) \in Seq(Character \ {Terminator})
    BY <1>3, <2>1
  <2>3. Len(Decimal(n)) = PlacesOf(w) + 0
    BY <1>3, <2>1
  <2>4. Decimal(n) \in Seq(Made)
    BY <2>2 DEF Made
  <2> QED
    BY <1>4, <2>1, <2>2, <2>3, <2>4 DEF w
<1>5. CASE n < 0
  <2>1. w = -n /\ Decimal(n) = <<"-">> \o Digits(w) /\ ~(n >= 0)
    BY <1>1, <1>5 DEF w, Decimal
  <2>2. <<"-">> \in Seq(Character \ {Terminator}) /\ Len(<<"-">>) = 1 /\ <<"-">>[1] = "-"
    BY DEF Character, Terminator
  <2>3. /\ Decimal(n) \in Seq(Character \ {Terminator})
        /\ Len(Decimal(n)) = 1 + PlacesOf(w)
        /\ \A k \in 1 .. 1 + PlacesOf(w) : Decimal(n)[k] =
             IF k <= 1 THEN <<"-">>[k] ELSE Digits(w)[k - 1]
    BY <1>3, <2>1, <2>2, ConcatProperties
  <2>4. Decimal(n) \in Seq(Made)
    BY <2>3 DEF Made
  <2>5. Len(Decimal(n)) = PlacesOf(w) + 1
    BY <1>3, <2>3
  <2>6. \A k \in 1 .. Len(Decimal(n)) : Decimal(n)[k] = IF k = 1 THEN "-" ELSE Digits(w)[k - 1]
    BY <1>3, <2>2, <2>3
  <2> QED
    BY <1>5, <2>1, <2>3, <2>4, <2>5, <2>6 DEF w
<1> QED
  BY <1>1, <1>4, <1>5

(* A field is written as a name or as its digits.                           *)
LEMMA PieceTyped ==
  ASSUME NEW t \in [Field -> Value], NEW f \in Field
  PROVE  Piece(t, f) \in Seq(Made)
<1>1. CASE f \in Named
  <2>1. <<f, t[f]>> \in Made
    BY <1>1 DEF Made
  <2> QED
    BY <1>1, <2>1 DEF Piece
<1>2. CASE f \notin Named
  <2>1. t[f] \in Number
    BY NumbersKnown
  <2> QED
    BY <1>2, <2>1, DecimalTyped DEF Piece
<1> QED
  BY <1>1, <1>2

(* The date up to the next field is that up to this one, and this one.      *)
LEMMA BeforeNext ==
  ASSUME NEW t \in [Field -> Value]
  PROVE  /\ Before(t, 1) = <<>> /\ Before(t, 8) = TextOf(t)
         /\ \A n \in 1 .. 7 : Before(t, n + 1) = Before(t, n) \o Piece(t, TextOrder[n])
         /\ \A n \in 1 .. 8 : Before(t, n) \in Seq(Made)
<1> DEFINE P == [k \in 1 .. 7 |-> Piece(t, TextOrder[k])]
           q2 == P[1] \o P[2]
           q3 == q2 \o P[3]
           q4 == q3 \o P[4]
           q5 == q4 \o P[5]
           q6 == q5 \o P[6]
           q7 == q6 \o P[7]
<1>1. /\ Before(t, 1) = <<>> /\ Before(t, 2) = P[1] /\ Before(t, 3) = q2 /\ Before(t, 4) = q3
      /\ Before(t, 5) = q4 /\ Before(t, 6) = q5 /\ Before(t, 7) = q6
      /\ Before(t, 8) = q7 /\ TextOf(t) = q7
  <2>1. P[1] = Piece(t, TextOrder[1]) /\ P[2] = Piece(t, TextOrder[2])
        /\ P[3] = Piece(t, TextOrder[3]) /\ P[4] = Piece(t, TextOrder[4])
        /\ P[5] = Piece(t, TextOrder[5]) /\ P[6] = Piece(t, TextOrder[6])
        /\ P[7] = Piece(t, TextOrder[7])
    OBVIOUS
  <2> HIDE DEF P
  <2> QED
    BY <2>1 DEF Before, TextOf
<1>2. \A k \in 1 .. 7 : P[k] \in Seq(Made)
  BY Orders, PieceTyped
<1>3. \A k \in 1 .. 7 : P[k] = Piece(t, TextOrder[k])
  OBVIOUS
<1> HIDE DEF P
<1>4. q2 \in Seq(Made) /\ q3 \in Seq(Made) /\ q4 \in Seq(Made) /\ q5 \in Seq(Made)
      /\ q6 \in Seq(Made) /\ q7 \in Seq(Made)
  <2>1. q2 \in Seq(Made)
    BY <1>2, ConcatProperties
  <2> HIDE DEF q2
  <2>2. q3 \in Seq(Made)
    BY <1>2, <2>1, ConcatProperties
  <2> HIDE DEF q3
  <2>3. q4 \in Seq(Made)
    BY <1>2, <2>2, ConcatProperties
  <2> HIDE DEF q4
  <2>4. q5 \in Seq(Made)
    BY <1>2, <2>3, ConcatProperties
  <2> HIDE DEF q5
  <2>5. q6 \in Seq(Made)
    BY <1>2, <2>4, ConcatProperties
  <2> HIDE DEF q6
  <2>6. q7 \in Seq(Made)
    BY <1>2, <2>5, ConcatProperties
  <2> QED
    BY <2>1, <2>2, <2>3, <2>4, <2>5, <2>6
<1>5. P[1] = <<>> \o P[1]
  BY <1>2, ConcatEmptySeq
<1>6. ASSUME NEW n \in 1 .. 8 PROVE Before(t, n) \in Seq(Made)
  <2>1. n = 1 \/ n = 2 \/ n = 3 \/ n = 4 \/ n = 5 \/ n = 6 \/ n = 7 \/ n = 8
    OBVIOUS
  <2>2. <<>> \in Seq(Made)
    OBVIOUS
  <2> HIDE DEF q2, q3, q4, q5, q6, q7
  <2>3. CASE n = 1
    BY <1>1, <2>2, <2>3
  <2>4. CASE n = 2
    BY <1>1, <1>2, <2>4
  <2>5. CASE n = 3
    BY <1>1, <1>4, <2>5
  <2>6. CASE n = 4
    BY <1>1, <1>4, <2>6
  <2>7. CASE n = 5
    BY <1>1, <1>4, <2>7
  <2>8. CASE n = 6
    BY <1>1, <1>4, <2>8
  <2>9. CASE n = 7
    BY <1>1, <1>4, <2>9
  <2>10. CASE n = 8
    BY <1>1, <1>4, <2>10
  <2> QED
    BY <2>1, <2>3, <2>4, <2>5, <2>6, <2>7, <2>8, <2>9, <2>10
<1>7. ASSUME NEW n \in 1 .. 7 PROVE Before(t, n + 1) = Before(t, n) \o P[n]
  <2>1. n = 1 \/ n = 2 \/ n = 3 \/ n = 4 \/ n = 5 \/ n = 6 \/ n = 7
    OBVIOUS
  <2>2. /\ Before(t, 2) = Before(t, 1) \o P[1] /\ Before(t, 3) = Before(t, 2) \o P[2]
        /\ Before(t, 4) = Before(t, 3) \o P[3] /\ Before(t, 5) = Before(t, 4) \o P[4]
        /\ Before(t, 6) = Before(t, 5) \o P[5] /\ Before(t, 7) = Before(t, 6) \o P[6]
        /\ Before(t, 8) = Before(t, 7) \o P[7]
    BY <1>1, <1>5
  <2> HIDE DEF q2, q3, q4, q5, q6, q7
  <2>3. CASE n = 1
    BY <2>2, <2>3
  <2>4. CASE n = 2
    BY <2>2, <2>4
  <2>5. CASE n = 3
    BY <2>2, <2>5
  <2>6. CASE n = 4
    BY <2>2, <2>6
  <2>7. CASE n = 5
    BY <2>2, <2>7
  <2>8. CASE n = 6
    BY <2>2, <2>8
  <2>9. CASE n = 7
    BY <2>2, <2>9
  <2> QED
    BY <2>1, <2>3, <2>4, <2>5, <2>6, <2>7, <2>8, <2>9
<1> QED
  BY <1>1, <1>3, <1>6, <1>7

(* What is being converted, from its start until it is copied out.          *)
LEMMA GivenTyped ==
  ASSUME EndsInv, pc \in Converting \cup Printing \cup {"strcat"}
  PROVE  /\ Given \in Number /\ Size \in 0 .. Six /\ Sign \in 0 .. 1
         /\ Decimal(Given) \in Seq(Character \ {Terminator}) /\ Decimal(Given) \in Seq(Made)
         /\ Len(Decimal(Given)) = PlacesOf(Size) + Sign /\ PlacesOf(Size) \in 1 .. 6
         /\ \A k \in 1 .. PlacesOf(Size) : Decimal(Given)[k + Sign] = Digits(Size)[k]
         /\ Sign = 1 => Decimal(Given)[1] = "-"
<1>1. Given \in Number
  <2>1. CASE job[1] = "data"
    <3>1. at \in 1 .. 7
      BY <2>1 DEF EndsInv, TextTyped, JobKept, Printing
    <3>2. StTempo[TextOrder[at]] \in Value
      BY <3>1, Orders DEF EndsInv, TextTyped
    <3> QED
      BY <2>1, <3>2, NumbersKnown DEF Given
  <2>2. CASE job[1] # "data"
    <3>1. pc # "overrun"
      BY DEF Converting, Printing
    <3> QED
      BY <2>2, <3>1 DEF Given, EndsInv, JobKept
  <2> QED
    BY <2>1, <2>2
<1> DEFINE g == Given
           d == Decimal(g)
<1>2. g \in Int /\ -Five <= g /\ g <= Six /\ g \in Number
  BY <1>1, NumbersKnown
<1>3. Size \in 0 .. Six /\ Sign \in 0 .. 1
  BY <1>2, Powers DEF Size, Sign
<1>4. PlacesOf(Size) \in 1 .. 6
  BY <1>3, PlacesOfNumber
<1>5. /\ d \in Seq(Character \ {Terminator}) /\ d \in Seq(Made)
      /\ Len(d) = PlacesOf(Size) + Sign
      /\ \A k \in 1 .. PlacesOf(Size) + Sign : d[k] =
           IF g >= 0 THEN Digits(g)[k] ELSE IF k = 1 THEN "-" ELSE Digits(-g)[k - 1]
  BY <1>2, DecimalTyped DEF Size, Sign
<1> HIDE DEF d
<1>6. ASSUME NEW k \in 1 .. PlacesOf(Size) PROVE d[k + Sign] = Digits(Size)[k]
  <2>1. CASE g >= 0
    <3>1. Sign = 0 /\ Size = g /\ k + 0 = k
      BY <1>2, <1>4, <2>1 DEF Sign, Size
    <3> HIDE DEF g
    <3>2. k + Sign = k /\ k \in 1 .. PlacesOf(Size) + Sign
      BY <1>4, <3>1
    <3> QED
      BY <1>5, <2>1, <3>1, <3>2
  <2>2. CASE g < 0
    <3>1. Sign = 1 /\ Size = -g /\ ~(g >= 0)
      BY <1>2, <2>2 DEF Sign, Size
    <3> HIDE DEF g
    <3>2. k + Sign \in 1 .. PlacesOf(Size) + Sign /\ k + Sign # 1 /\ k + Sign - 1 = k
      BY <1>4, <3>1
    <3>3. d[k + Sign] = Digits(-g)[k + Sign - 1]
      BY <1>5, <3>1, <3>2
    <3> QED
      BY <3>1, <3>2, <3>3
  <2> QED
    BY <1>2, <2>1, <2>2
<1>7. Sign = 1 => d[1] = "-"
  <2> SUFFICES ASSUME Sign = 1 PROVE d[1] = "-"
    OBVIOUS
  <2>1. ~(g >= 0)
    BY <1>2 DEF Sign
  <2>2. 1 \in 1 .. PlacesOf(Size) + Sign
    BY <1>3, <1>4
  <2> QED
    BY <1>5, <2>1, <2>2
<1> QED
  BY <1>1, <1>3, <1>4, <1>5, <1>6, <1>7 DEF d

(* The powers of ten grow, and bound what is left of a number.              *)
LEMMA PowersGrow ==
  ASSUME NEW d \in 1 .. 7, NEW e \in 1 .. 7, d <= e
  PROVE  Power[d] <= Power[e] /\ Power[d] \in Nat /\ Power[e] \in Nat
<1>1. ASSUME NEW k \in 1 .. 6 PROVE Power[k] <= Power[k + 1] /\ Power[k] \in Nat
  <2>1. k = 1 \/ k = 2 \/ k = 3 \/ k = 4 \/ k = 5 \/ k = 6
    OBVIOUS
  <2> QED
    BY <2>1, Powers
<1>2. /\ Power[1] <= Power[2] /\ Power[2] <= Power[3] /\ Power[3] <= Power[4]
      /\ Power[4] <= Power[5] /\ Power[5] <= Power[6] /\ Power[6] <= Power[7]
  BY Powers
<1>3. \A k \in 1 .. 7 : Power[k] \in Nat
  BY Powers
<1>4. d = 1 \/ d = 2 \/ d = 3 \/ d = 4 \/ d = 5 \/ d = 6 \/ d = 7
  OBVIOUS
<1>5. e = 1 \/ e = 2 \/ e = 3 \/ e = 4 \/ e = 5 \/ e = 6 \/ e = 7
  OBVIOUS
<1> QED
  BY <1>2, <1>3, <1>4, <1>5

(* A number has as many places as the powers it lies between say.           *)
LEMMA PlacesUnique ==
  ASSUME NEW n \in 0 .. Six, NEW d \in 1 .. 6, n < Power[d + 1], d = 1 \/ Power[d] <= n
  PROVE  PlacesOf(n) = d
<1> DEFINE e == PlacesOf(n)
<1>1. e \in 1 .. 6 /\ n < Power[e + 1] /\ (e = 1 \/ Power[e] <= n)
  BY PlacesOfNumber
<1>2. n \in Int
  BY Powers
<1> HIDE DEF e
<1>3. ~(e < d)
  <2> SUFFICES ASSUME e < d PROVE FALSE
    OBVIOUS
  <2>1. Power[e + 1] <= Power[d] /\ Power[e + 1] \in Nat /\ Power[d] \in Nat /\ d # 1
    BY <1>1, PowersGrow
  <2> QED
    BY <1>1, <1>2, <2>1
<1>4. ~(d < e)
  <2> SUFFICES ASSUME d < e PROVE FALSE
    OBVIOUS
  <2>1. Power[d + 1] <= Power[e] /\ Power[d + 1] \in Nat /\ Power[e] \in Nat /\ e # 1
    BY <1>1, PowersGrow
  <2> QED
    BY <1>1, <1>2, <2>1
<1> QED
  BY <1>1, <1>3, <1>4 DEF e

(* A number of which one digit is left has been divided by its highest      *)
(* power.                                                                   *)
LEMMA LastDigit ==
  ASSUME NEW n \in 0 .. Six, NEW k \in 1 .. 6, n \div Power[k] \in 1 .. 9
  PROVE  PlacesOf(n) = k
<1>1. n \in Nat
  BY Powers
<1>2. n < Power[k + 1] /\ Power[k] <= n
  <2>1. CASE k = 1
    BY <1>1, <2>1, Powers
  <2>2. CASE k = 2
    BY <1>1, <2>2, Powers
  <2>3. CASE k = 3
    BY <1>1, <2>3, Powers
  <2>4. CASE k = 4
    BY <1>1, <2>4, Powers
  <2>5. CASE k = 5
    BY <1>1, <2>5, Powers
  <2>6. CASE k = 6
    BY <1>1, <2>6, Powers
  <2> QED
    BY <2>1, <2>2, <2>3, <2>4, <2>5, <2>6
<1> QED
  BY <1>2, PlacesUnique

LEMMA NothingDivided == \A n \in Nat : n \div Power[1] = n
BY Powers

-----------------------------------------------------------------------------
(* What each action does to an undisturbed text.                            *)

(* The clock is drawn undisturbing only between two texts.                  *)
LEMMA OrologioRight ==
  ASSUME EndsInv, Undisturbed, orologio, ~disturbed'
  PROVE  Undisturbed'
<1>1. pc' = "idle" /\ out' = <<>>
  BY DEF orologio, Undisturbed, TextCopied, local_vars
<1> QED
  BY <1>1 DEF Undisturbed, DateRead, NumberConverted, TextCopied, Converting

LEMMA RtcRight ==
  ASSUME EndsInv, Undisturbed, rtc_second, ~disturbed'
  PROVE  Undisturbed'
<1>1. pc \notin {"select", "read"}
  BY Zenon DEF rtc_second
<1>8. now \in Int /\ now' = now + 1
  BY DEF rtc_second, EndsInv, TextTyped
<1>2. UNCHANGED <<index, StTempo, str_buffer, pc, job, at, StLocal, s, len, out>>
      /\ UNCHANGED <<num, buffer, i, j, num_neg>>
  BY DEF rtc_second, local_vars, conv_vars
<1>3. Given' = Given /\ Size' = Size /\ Sign' = Sign
  BY <1>2 DEF Given, Size, Sign
<1>4. \A m \in 1 .. now : m \in 1 .. now'
  BY <1>8
<1>5. DateRead'
  BY <1>1, <1>2, <1>4 DEF Undisturbed, DateRead
<1>6. NumberConverted'
  BY <1>2, <1>3 DEF Undisturbed, NumberConverted, Held, Reversed, InOrder
<1>7. TextCopied'
  BY <1>2, <1>3 DEF Undisturbed, TextCopied
<1> QED
  BY <1>5, <1>6, <1>7 DEF Undisturbed

LEMMA BeginRight ==
  ASSUME EndsInv, Undisturbed,
         begin_data \/ \E n \in Numbers : begin_printk(n) \/ overrun(n)
  PROVE  Undisturbed'
<1>1. out = <<>>
  BY DEF Undisturbed, TextCopied, begin_data, begin_printk, overrun
<1>2. CASE begin_data
  BY <1>1, <1>2 DEF Undisturbed, DateRead, NumberConverted, TextCopied, begin_data, local_vars, Converting
<1>3. CASE \E n \in Numbers : begin_printk(n)
  <2>1. PICK n \in Numbers : begin_printk(n)
    BY <1>3
  <2>2. Given' = n
    BY <2>1 DEF Given, begin_printk
  <2> QED
    BY <1>1, <2>1, <2>2
    DEF Undisturbed, DateRead, NumberConverted, TextCopied, begin_printk, local_vars
<1>4. CASE \E n \in Numbers : overrun(n)
  BY <1>1, <1>4
  DEF Undisturbed, DateRead, NumberConverted, TextCopied, overrun, local_vars, Converting
<1> QED
  BY <1>2, <1>3, <1>4

(* The fields are all those read, and all those stored.                     *)
LEMMA FieldsRead ==
  /\ \A f \in Field : \E k \in 1 .. 7 : f = ReadOrder[k]
  /\ \A f \in Field : \E k \in 1 .. 7 : f = StoreOrder[k]
  /\ \A k, l \in 1 .. 7 : k # l => ReadOrder[k] # ReadOrder[l] /\ StoreOrder[k] # StoreOrder[l]
<1>1. /\ ReadOrder[1] = "sec" /\ ReadOrder[2] = "min" /\ ReadOrder[3] = "hour" /\ ReadOrder[4] = "wday"
      /\ ReadOrder[5] = "mday" /\ ReadOrder[6] = "mon" /\ ReadOrder[7] = "year"
  BY DEF ReadOrder
<1>2. /\ StoreOrder[1] = "mday" /\ StoreOrder[2] = "mon" /\ StoreOrder[3] = "year"
      /\ StoreOrder[4] = "wday" /\ StoreOrder[5] = "sec" /\ StoreOrder[6] = "min"
      /\ StoreOrder[7] = "hour"
  BY DEF StoreOrder
<1>3. \A k \in 1 .. 7 : k = 1 \/ k = 2 \/ k = 3 \/ k = 4 \/ k = 5 \/ k = 6 \/ k = 7
  OBVIOUS
<1>4. \A f \in Field : \E k \in 1 .. 7 : f = ReadOrder[k]
  BY <1>1 DEF Field
<1>5. \A f \in Field : \E k \in 1 .. 7 : f = StoreOrder[k]
  BY <1>2 DEF Field
<1>6. \A k, l \in 1 .. 7 : k # l => ReadOrder[k] # ReadOrder[l]
  BY <1>1, <1>3
<1>7. \A k, l \in 1 .. 7 : k # l => StoreOrder[k] # StoreOrder[l]
  BY <1>2, <1>3
<1> QED
  BY <1>4, <1>5, <1>6, <1>7

LEMMA SelectRight ==
  ASSUME EndsInv, Undisturbed, readcmos_select
  PROVE  Undisturbed'
<1>1. out = <<>>
  BY DEF Undisturbed, TextCopied, readcmos_select
<1> QED
  BY <1>1 DEF Undisturbed, DateRead, NumberConverted, TextCopied, readcmos_select, World, local_vars,
              Converting

LEMMA ReadRight ==
  ASSUME EndsInv, Undisturbed, readcmos_read
  PROVE  Undisturbed'
<1>1. at \in 1 .. 7 /\ StLocal \in [Field -> Value] /\ now \in 1 .. Len(Instant)
      /\ Instant[now] \in [Field -> Value]
  <2>1. at \in 1 .. 7 /\ StLocal \in [Field -> Value] /\ now \in 1 .. Len(Instant)
    BY DEF EndsInv, TextTyped, JobKept, readcmos_read
  <2> QED
    BY <2>1, ClockTextAssumption, ElementOfSeq DEF Value
<1>2. ReadOrder[at] \in Field /\ index = ReadOrder[at]
      /\ \A k \in 1 .. at - 1 : StLocal[ReadOrder[k]] = Instant[now][ReadOrder[k]]
  BY <1>1, Orders DEF Undisturbed, DateRead, readcmos_read
<1>3. out' = <<>> /\ now' = now
  BY DEF Undisturbed, TextCopied, readcmos_read, World
<1>4. StLocal' = [StLocal EXCEPT ![ReadOrder[at]] = Instant[now][ReadOrder[at]]]
  BY <1>2 DEF readcmos_read
<1>5. \A k \in 1 .. at : StLocal'[ReadOrder[k]] = Instant[now][ReadOrder[k]]
  <2> SUFFICES ASSUME NEW k \in 1 .. at PROVE StLocal'[ReadOrder[k]] = Instant[now][ReadOrder[k]]
    OBVIOUS
  <2>1. k \in 1 .. 7 /\ ReadOrder[k] \in Field
    BY <1>1, Orders
  <2>2. CASE k = at
    BY <1>1, <1>2, <1>4, <2>2
  <2>3. CASE k # at
    <3>1. k \in 1 .. at - 1 /\ ReadOrder[k] # ReadOrder[at]
      BY <1>1, <2>1, <2>3, FieldsRead
    <3> QED
      BY <1>1, <1>2, <1>4, <2>1, <3>1
  <2> QED
    BY <2>2, <2>3
<1>6. CASE at < 7
  <2>1. pc' = "select" /\ at' = at + 1 /\ (at + 1) - 1 = at
    BY <1>1, <1>6 DEF readcmos_read
  <2> QED
    BY <1>3, <1>5, <2>1 DEF Undisturbed, DateRead, NumberConverted, TextCopied, Converting
<1>7. CASE at = 7
  <2>1. pc' = "localtime" /\ at' = 1
    BY <1>7 DEF readcmos_read
  <2>2. StLocal' = Instant[now]
    <3>1. StLocal' \in [Field -> Value]
      BY <1>1, <1>2, <1>4
    <3>2. \A f \in Field : StLocal'[f] = Instant[now][f]
      BY <1>5, <1>7, FieldsRead
    <3> QED
      BY <1>1, <3>1, <3>2
  <2>3. now \in 1 .. now
    BY <1>1
  <2> QED
    BY <1>3, <2>1, <2>2, <2>3 DEF Undisturbed, DateRead, NumberConverted, TextCopied, Converting
<1> QED
  BY <1>1, <1>6, <1>7

LEMMA StoreRight ==
  ASSUME EndsInv, Undisturbed, localtime_store
  PROVE  Undisturbed'
<1>1. at \in 1 .. 7 /\ StLocal \in [Field -> Value] /\ StTempo \in [Field -> Value]
  BY DEF EndsInv, TextTyped, JobKept, localtime_store
<1>2. StoreOrder[at] \in Field
      /\ \A k \in 1 .. at - 1 : StTempo[StoreOrder[k]] = StLocal[StoreOrder[k]]
  BY <1>1, Orders DEF Undisturbed, DateRead, localtime_store
<1>3. out' = <<>> /\ now' = now /\ StLocal' = StLocal
  BY DEF Undisturbed, TextCopied, localtime_store, World, local_vars
<1>4. PICK m \in 1 .. now : StLocal = Instant[m]
  BY DEF Undisturbed, DateRead, localtime_store
<1>5. StTempo' = [StTempo EXCEPT ![StoreOrder[at]] = StLocal[StoreOrder[at]]]
  BY DEF localtime_store
<1>6. \A k \in 1 .. at : StTempo'[StoreOrder[k]] = StLocal[StoreOrder[k]]
  <2> SUFFICES ASSUME NEW k \in 1 .. at PROVE StTempo'[StoreOrder[k]] = StLocal[StoreOrder[k]]
    OBVIOUS
  <2>1. k \in 1 .. 7 /\ StoreOrder[k] \in Field
    BY <1>1, Orders
  <2>2. CASE k = at
    BY <1>1, <1>2, <1>5, <2>2
  <2>3. CASE k # at
    <3>1. k \in 1 .. at - 1 /\ StoreOrder[k] # StoreOrder[at]
      BY <1>1, <2>1, <2>3, FieldsRead
    <3> QED
      BY <1>1, <1>2, <1>5, <2>1, <3>1
  <2> QED
    BY <2>2, <2>3
<1>7. CASE at < 7
  <2>1. pc' = "localtime" /\ at' = at + 1 /\ (at + 1) - 1 = at
    BY <1>1, <1>7 DEF localtime_store
  <2> QED
    BY <1>3, <1>4, <1>6, <2>1 DEF Undisturbed, DateRead, NumberConverted, TextCopied, Converting
<1>8. CASE at = 7
  <2>1. pc' = "strftime" /\ at' = 1
    BY <1>8 DEF localtime_store
  <2>2. StTempo' \in [Field -> Value] /\ StTempo' = Instant[m]
    <3>1. StTempo' \in [Field -> Value]
      BY <1>1, <1>2, <1>5
    <3>2. \A f \in Field : StTempo'[f] = StLocal[f]
      BY <1>6, <1>8, FieldsRead
    <3> QED
      BY <1>1, <1>4, <3>1, <3>2
  <2>3. Before(StTempo', 1) = <<>>
    BY <2>2, BeforeNext
  <2>4. DateRead'
    BY <1>3, <1>4, <2>1, <2>2 DEF DateRead
  <2>5. NumberConverted' /\ TextCopied'
    BY <1>3, <2>1, <2>3 DEF NumberConverted, TextCopied, Converting
  <2> QED
    BY <2>4, <2>5 DEF Undisturbed
<1> QED
  BY <1>1, <1>7, <1>8

LEMMA StrftimeRight ==
  ASSUME EndsInv, Undisturbed, strftime_name \/ strftime_number \/ strftime_end
  PROVE  Undisturbed'
<1>1. /\ StTempo \in [Field -> Value] /\ at \in 1 .. 8 /\ job[1] = "data" /\ pc = "strftime"
      /\ out = Before(StTempo, at)
  BY DEF EndsInv, TextTyped, JobKept, Undisturbed, TextCopied, Dating,
         strftime_name, strftime_number, strftime_end
<1>2. /\ now' = now /\ StTempo' = StTempo /\ job' = job
      /\ \E m \in 1 .. now : StTempo = Instant[m]
  BY <1>1 DEF Undisturbed, DateRead, World, strftime_name, strftime_number, strftime_end
<1>3. CASE strftime_name
  <2>1. at \in 1 .. 7 /\ TextOrder[at] \in Named /\ TextOrder[at] \in Field
    BY <1>1, <1>3, Orders DEF strftime_name
  <2>2. Piece(StTempo, TextOrder[at]) = << <<TextOrder[at], StTempo[TextOrder[at]]>> >>
    BY <2>1 DEF Piece
  <2>3. <<TextOrder[at], StTempo[TextOrder[at]]>> \in Made
    BY <1>1, <2>1 DEF Made
  <2>4. Before(StTempo, at) \in Seq(Made)
        /\ Before(StTempo, at + 1) = Before(StTempo, at) \o Piece(StTempo, TextOrder[at])
    BY <1>1, <2>1, BeforeNext
  <2>5. out' = Append(out, <<TextOrder[at], StTempo[TextOrder[at]]>>) /\ at' = at + 1
        /\ pc' = "strftime"
    BY <1>1, <1>3 DEF strftime_name
  <2>6. out' = Before(StTempo', at')
    BY <1>1, <1>2, <2>2, <2>3, <2>4, <2>5, AppendIsConcat
  <2>7. DateRead'
    BY <1>2, <2>5 DEF DateRead
  <2>8. NumberConverted' /\ TextCopied'
    BY <1>1, <1>2, <2>5, <2>6 DEF NumberConverted, TextCopied
  <2> QED
    BY <2>7, <2>8 DEF Undisturbed
<1>4. CASE strftime_number
  <2>1. pc' = "conv" /\ at' = at /\ out' = out /\ num' = StTempo[TextOrder[at]]
    BY <1>4 DEF strftime_number, local_vars
  <2>2. num' = Given'
    BY <1>1, <1>2, <2>1 DEF Given
  <2>3. DateRead'
    BY <1>2, <2>1 DEF DateRead
  <2>4. NumberConverted'
    BY <2>1, <2>2 DEF NumberConverted
  <2>5. TextCopied'
    BY <1>1, <1>2, <2>1 DEF TextCopied
  <2> QED
    BY <2>3, <2>4, <2>5 DEF Undisturbed
<1>5. CASE strftime_end
  <2>1. pc' = "done" /\ out' = out /\ at = 8
    BY <1>1, <1>5 DEF strftime_end, local_vars
  <2>2. out' = TextOf(StTempo')
    BY <1>1, <1>2, <2>1, BeforeNext
  <2>3. DateRead'
    BY <1>2, <2>1 DEF DateRead
  <2>4. NumberConverted' /\ TextCopied'
    BY <1>1, <1>2, <2>1, <2>2 DEF NumberConverted, TextCopied, Converting
  <2> QED
    BY <2>3, <2>4 DEF Undisturbed
<1> QED
  BY <1>3, <1>4, <1>5

(* A step of the conversion that changes nothing but its own variables      *)
(* keeps the times and the text so far.                                     *)
LEMMA ConversionAlone ==
  ASSUME EndsInv, Undisturbed, pc \in Converting, pc' \in Converting,
         UNCHANGED <<World, index, StTempo, job, at, local_vars>>
  PROVE  /\ DateRead' /\ TextCopied' /\ Given' = Given /\ Size' = Size /\ Sign' = Sign
         /\ job[1] \in {"data", "number"}
<1>1. Given' = Given /\ Size' = Size /\ Sign' = Sign
  BY DEF Given, Size, Sign
<1>2. job[1] \in {"data", "number"}
  BY DEF EndsInv, JobKept
<1>3. DateRead'
  BY <1>2 DEF Undisturbed, DateRead, World, local_vars, Converting
<1>4. TextCopied'
  BY <1>2 DEF Undisturbed, TextCopied, World, local_vars, Converting
<1> QED
  BY <1>1, <1>2, <1>3, <1>4

LEMMA ConvZeroRight ==
  ASSUME EndsInv, Undisturbed, conv_zero
  PROVE  Undisturbed'
<1>1. DateRead' /\ TextCopied' /\ Given' = Given /\ Size' = Size /\ Sign' = Sign
  BY ConversionAlone DEF conv_zero, Converting
<1>2. Given = 0
  BY DEF Undisturbed, NumberConverted, conv_zero
<1>3. Size = 0 /\ Sign = 0
  BY <1>2 DEF Size, Sign
<1>4. 0 \in 0 .. Six /\ 0 < Power[1 + 1]
  BY Powers
<1>5. PlacesOf(0) = 1
  BY <1>4, PlacesUnique
<1>6. Digits(0)[1] = "0"
  <2>1. Digits(0)[1] = DigitOf(0 \div Power[PlacesOf(0) - 1 + 1])
    BY <1>4, <1>5, DigitsTyped
  <2>2. PlacesOf(0) - 1 + 1 = 1 /\ 0 \div Power[1] = 0
    BY <1>5, NothingDivided
  <2>3. DigitOf(0) = "0"
    BY DEF DigitOf, Digit
  <2> QED
    BY <2>1, <2>2, <2>3
<1>7. buffer = 0 /\ i = 0 /\ num_neg = FALSE
  BY ConvStarts DEF conv_zero
<1>8. pc' = "order" /\ j' = 1 /\ buffer' = 0 /\ i' = 0 /\ num_neg' = FALSE /\ str_buffer'[0] = "0"
  BY <1>7 DEF conv_zero, EndsInv, TextTyped, BufferPlace, LastPlace
<1>9. Reversed(0)' /\ InOrder(1)'
  <2>1. Reversed(0)'
    BY DEF Reversed
  <2>2. \A k \in 1 .. 1 : str_buffer'[buffer' + Sign' + k - 1] = Digits(Size')[k]
    BY <1>1, <1>3, <1>6, <1>8
  <2> QED
    BY <2>1, <2>2 DEF InOrder
<1>10. ~(Given' < 0) /\ num_neg' = FALSE
  BY <1>1, <1>2, <1>8
<1>11. i' <= buffer' /\ Sign' <= j' /\ i' + j' = PlacesOf(Size') + Sign' /\ j' - Sign' = 1
  BY <1>1, <1>3, <1>5, <1>8
<1>12. NumberConverted'
  <2>1. num_neg' <=> Given' < 0
    BY <1>10, Zenon
  <2>2. Reversed(i)' /\ InOrder(j - Sign)'
    BY <1>8, <1>9, <1>11 DEF Reversed, InOrder
  <2> QED
    BY <1>8, <1>11, <2>1, <2>2 DEF NumberConverted
<1> QED
  BY <1>1, <1>12 DEF Undisturbed

LEMMA ConvNegativeRight ==
  ASSUME EndsInv, Undisturbed, conv_negative
  PROVE  Undisturbed'
<1>1. DateRead' /\ TextCopied' /\ Given' = Given /\ Size' = Size /\ Sign' = Sign
  BY ConversionAlone DEF conv_negative, Converting
<1>2. /\ num = Given /\ i = 0 /\ i' = 0 /\ num \in Int /\ num < 0
      /\ num' = -num /\ num_neg' = TRUE /\ pc' = "digits"
  BY ConvStarts DEF Undisturbed, NumberConverted, conv_negative
<1>3. Size = -num /\ -num \in Nat
  BY <1>2 DEF Size
<1>4. num' = Size' \div Power[i' + 1]
  BY <1>1, <1>2, <1>3, NothingDivided
<1>5. Reversed(i)'
  BY <1>2 DEF Reversed
<1>6. num_neg' <=> Given' < 0
  BY <1>1, <1>2
<1> QED
  BY <1>1, <1>2, <1>4, <1>5, <1>6 DEF Undisturbed, NumberConverted

(* What the next digit finds, when the text is undisturbed.                 *)
LEMMA DigitFinds ==
  ASSUME EndsInv, Undisturbed, conv_digit
  PROVE  /\ num = Size \div Power[i + 1] /\ Reversed(i) /\ (num_neg <=> Given < 0)
<1>1. CASE pc = "conv"
  <2>1. num = Given /\ i = 0 /\ num_neg = FALSE /\ num \in Int /\ num > 0
    BY <1>1, ConvStarts DEF Undisturbed, NumberConverted, conv_digit
  <2>2. Size = num /\ num \in Nat /\ ~(Given < 0)
    BY <2>1 DEF Size
  <2>3. num = Size \div Power[i + 1]
    BY <2>1, <2>2, NothingDivided
  <2>4. Reversed(i)
    BY <2>1 DEF Reversed
  <2> QED
    BY <2>1, <2>2, <2>3, <2>4
<1>2. CASE pc = "digits"
  BY <1>2 DEF Undisturbed, NumberConverted
<1> QED
  BY <1>1, <1>2 DEF conv_digit

LEMMA ConvDigitRight ==
  ASSUME EndsInv, Undisturbed, conv_digit
  PROVE  Undisturbed'
<1>1. DateRead' /\ TextCopied' /\ Given' = Given /\ Size' = Size /\ Sign' = Sign
  <2>1. pc' \in Converting /\ pc \in Converting
    BY DEF conv_digit, Converting
  <2> QED
    BY <2>1, ConversionAlone DEF conv_digit
<1>2. /\ num \in Nat \ {0} /\ i \in 0 .. 5 /\ buffer = i /\ j = (IF num_neg THEN 1 ELSE 0)
      /\ str_buffer \in [BufferPlace -> Character] /\ Size \in 0 .. Six /\ Size \in Nat
      /\ Sign \in 0 .. 1
  <2>1. Size \in 0 .. Six /\ Sign \in 0 .. 1
    BY GivenTyped DEF conv_digit, Converting
  <2> QED
    BY <2>1, DigitsLeft, Powers DEF EndsInv, TextTyped
<1>3. num = Size \div Power[i + 1] /\ Reversed(i) /\ (num_neg <=> Given < 0)
  BY DigitFinds
<1>4. /\ i' = i + 1 /\ buffer' = i + 1 /\ num' = num \div 10
      /\ str_buffer' = [str_buffer EXCEPT ![i] = DigitOf(num)]
      /\ pc' = (IF num < 10 THEN "order" ELSE "digits")
  BY <1>2 DEF conv_digit
<1>5. j' = j /\ num_neg' = num_neg
  BY DEF conv_digit
<1>6. Reversed(i)'
  <2> SUFFICES ASSUME NEW k \in 0 .. i' - 1
               PROVE  str_buffer'[k] = DigitOf(Size' \div Power[k + 1])
    BY DEF Reversed
  <2>1. k \in BufferPlace /\ k \in 0 .. i
    BY <1>2, <1>4 DEF BufferPlace, LastPlace
  <2>2. CASE k = i
    BY <1>1, <1>2, <1>3, <1>4, <2>1, <2>2
  <2>3. CASE k # i
    <3>1. k \in 0 .. i - 1
      BY <1>2, <2>1, <2>3
    <3>2. str_buffer[k] = DigitOf(Size \div Power[k + 1])
      BY <1>3, <3>1 DEF Reversed
    <3> QED
      BY <1>1, <1>2, <1>4, <2>1, <2>3, <3>2
  <2> QED
    BY <2>2, <2>3
<1>7. num_neg' <=> Given' < 0
  BY <1>1, <1>3, <1>5, Zenon
<1>8. CASE num >= 10
  <2>1. pc' = "digits"
    BY <1>2, <1>4, <1>8
  <2>2. num' = Size' \div Power[i' + 1]
    <3>1. i + 1 \in 1 .. 6 /\ i' + 1 = (i + 1) + 1
      BY <1>2, <1>4
    <3>2. (Size \div Power[i + 1]) \div 10 = Size \div Power[(i + 1) + 1]
      BY <1>2, <3>1, NextPower
    <3> QED
      BY <1>1, <1>3, <1>4, <3>1, <3>2
  <2>3. NumberConverted'
    BY <1>6, <1>7, <2>1, <2>2 DEF NumberConverted
  <2> QED
    BY <1>1, <2>3 DEF Undisturbed
<1>9. CASE num < 10
  <2>1. pc' = "order"
    BY <1>4, <1>9
  <2>2. PlacesOf(Size) = i + 1
    <3>1. i + 1 \in 1 .. 6 /\ Size \div Power[i + 1] \in 1 .. 9
      BY <1>2, <1>3, <1>9
    <3> QED
      BY <1>2, <3>1, LastDigit
  <2>3. j = Sign
    <3>1. CASE num_neg
      BY <1>2, <1>3, <3>1 DEF Sign
    <3>2. CASE ~num_neg
      BY <1>2, <1>3, <3>2 DEF Sign
    <3> QED
      BY <3>1, <3>2
  <2>4. i' <= buffer' /\ Sign' <= j' /\ i' + j' = PlacesOf(Size') + Sign' /\ j' - Sign' = 0
    BY <1>1, <1>2, <1>4, <1>5, <2>2, <2>3
  <2>5. InOrder(j - Sign)'
    BY <2>4 DEF InOrder
  <2>6. NumberConverted'
    BY <1>6, <1>7, <2>1, <2>4, <2>5 DEF NumberConverted
  <2> QED
    BY <1>1, <2>6 DEF Undisturbed
<1> QED
  BY <1>2, <1>8, <1>9

LEMMA ConvOrderRight ==
  ASSUME EndsInv, Undisturbed, conv_order
  PROVE  Undisturbed'
<1>1. DateRead' /\ TextCopied' /\ Given' = Given /\ Size' = Size /\ Sign' = Sign
  BY ConversionAlone DEF conv_order, Converting
<1>2. /\ i \in 1 .. 6 /\ j \in 0 .. 7 /\ buffer \in 0 .. 6 /\ buffer + i + j <= LastPlace + 1
      /\ str_buffer \in [BufferPlace -> Character]
  BY DEF EndsInv, TextTyped, RoomLeft, conv_order, LastPlace
<1>3. /\ Size \in 0 .. Six /\ Sign \in 0 .. 1 /\ PlacesOf(Size) \in 1 .. 6
  BY GivenTyped DEF conv_order, Converting
<1>4. /\ i <= buffer /\ Sign <= j /\ i + j = PlacesOf(Size) + Sign
      /\ Reversed(i) /\ InOrder(j - Sign) /\ (num_neg <=> Given < 0)
  BY DEF Undisturbed, NumberConverted, conv_order
<1>5. /\ i' = i - 1 /\ j' = j + 1 /\ buffer' = buffer /\ pc' = "order"
      /\ str_buffer' = [str_buffer EXCEPT ![buffer + j] = str_buffer[i - 1]]
  BY DEF conv_order, Reordered
<1>6. num_neg' = num_neg
  BY DEF conv_order
<1>7. Reversed(i)'
  <2> SUFFICES ASSUME NEW k \in 0 .. i' - 1
               PROVE  str_buffer'[k] = DigitOf(Size' \div Power[k + 1])
    BY DEF Reversed
  <2>1. k \in BufferPlace /\ k \in 0 .. i - 1 /\ k # buffer + j
    BY <1>2, <1>4, <1>5 DEF BufferPlace, LastPlace
  <2>2. str_buffer[k] = DigitOf(Size \div Power[k + 1])
    BY <1>4, <2>1 DEF Reversed
  <2> QED
    BY <1>1, <1>2, <1>5, <2>1, <2>2
<1>8. InOrder(j - Sign)'
  <2> SUFFICES ASSUME NEW k \in 1 .. j' - Sign'
               PROVE  str_buffer'[buffer' + Sign' + k - 1] = Digits(Size')[k]
    BY DEF InOrder
  <2>1. k \in 1 .. j - Sign + 1 /\ buffer + Sign + k - 1 \in BufferPlace
    BY <1>1, <1>2, <1>3, <1>4, <1>5 DEF BufferPlace, LastPlace
  <2>2. CASE k = j - Sign + 1
    <3>1. buffer + Sign + k - 1 = buffer + j
      BY <1>2, <1>3, <2>2
    <3>2. i - 1 \in 0 .. i - 1 /\ (i - 1) + 1 = i
      BY <1>2
    <3>3. str_buffer[i - 1] = DigitOf(Size \div Power[i])
      <4>1. str_buffer[i - 1] = DigitOf(Size \div Power[(i - 1) + 1])
        BY <1>4, <3>2 DEF Reversed
      <4> QED
        BY <3>2, <4>1
    <3>4. k \in 1 .. PlacesOf(Size) /\ PlacesOf(Size) - k + 1 = i
      BY <1>2, <1>3, <1>4, <2>2
    <3>5. Digits(Size)[k] = DigitOf(Size \div Power[PlacesOf(Size) - k + 1])
      BY <1>3, <3>4, DigitsTyped
    <3>6. str_buffer'[buffer + j] = str_buffer[i - 1]
      BY <1>2, <1>5, <2>1, <3>1
    <3> QED
      BY <1>1, <1>5, <3>1, <3>3, <3>4, <3>5, <3>6
  <2>3. CASE k # j - Sign + 1
    <3>1. k \in 1 .. j - Sign /\ buffer + Sign + k - 1 # buffer + j
      BY <1>2, <1>3, <2>1, <2>3
    <3>2. str_buffer[buffer + Sign + k - 1] = Digits(Size)[k]
      BY <1>4, <3>1 DEF InOrder
    <3> QED
      BY <1>1, <1>2, <1>5, <2>1, <3>1, <3>2
  <2> QED
    BY <2>2, <2>3
<1>9. num_neg' <=> Given' < 0
  BY <1>1, <1>4, <1>6, Zenon
<1>10. i' <= buffer' /\ Sign' <= j' /\ i' + j' = PlacesOf(Size') + Sign'
  BY <1>1, <1>2, <1>3, <1>4, <1>5
<1>11. NumberConverted'
  BY <1>5, <1>7, <1>8, <1>9, <1>10 DEF NumberConverted
<1> QED
  BY <1>1, <1>11 DEF Undisturbed

(* The sign and the NUL complete the text of the number.                    *)
LEMMA ConvReturnRight ==
  ASSUME EndsInv, Undisturbed, conv_return
  PROVE  Undisturbed'
<1> DEFINE d == Decimal(Given)
           p == PlacesOf(Size)
<1>1. /\ j \in 0 .. 7 /\ buffer \in 0 .. 6 /\ i = 0 /\ buffer + j <= LastPlace + 1
      /\ str_buffer \in [BufferPlace -> Character]
  BY DEF EndsInv, TextTyped, RoomLeft, conv_return, LastPlace
<1>2. /\ Sign \in 0 .. 1 /\ p \in 1 .. 6 /\ Len(d) = p + Sign /\ (Sign = 1 => d[1] = "-")
      /\ \A k \in 1 .. p : d[k + Sign] = Digits(Size)[k]
  BY GivenTyped DEF conv_return, Converting
<1>3. /\ Sign <= j /\ i + j = p + Sign /\ InOrder(j - Sign) /\ (num_neg <=> Given < 0)
  BY DEF Undisturbed, NumberConverted, conv_return
<1> HIDE DEF d, p
<1>4. j = p + Sign /\ Len(d) = j /\ j - Sign = p
  BY <1>1, <1>2, <1>3
<1>5. /\ Given' = Given /\ Size' = Size /\ Sign' = Sign /\ job' = job
      /\ pc' = (IF job[1] = "data" THEN "strcat" ELSE "strlen")
      /\ s' = buffer /\ buffer' = buffer /\ out' = out /\ at' = at /\ StTempo' = StTempo
      /\ now' = now
  BY DEF conv_return, World, conv_vars, Given, Size, Sign
<1>6. str_buffer' = [Signed(str_buffer) EXCEPT ![buffer + j] = Terminator]
  BY DEF conv_return, Closed
<1>7. Signed(str_buffer) \in [BufferPlace -> Character]
  BY <1>1 DEF Signed, Character
<1>8. buffer + j \in BufferPlace /\ buffer \in BufferPlace
  BY <1>1 DEF BufferPlace, LastPlace
<1>9. Held'
  <2>1. str_buffer'[buffer + j] = Terminator
    BY <1>6, <1>7, <1>8
  <2>2. ASSUME NEW k \in 1 .. j PROVE str_buffer'[buffer + k - 1] = d[k]
    <3>1. buffer + k - 1 \in BufferPlace /\ buffer + k - 1 # buffer + j
      BY <1>1 DEF BufferPlace, LastPlace
    <3>2. str_buffer'[buffer + k - 1] = Signed(str_buffer)[buffer + k - 1]
      BY <1>6, <1>7, <1>8, <3>1
    <3>3. CASE num_neg /\ k = 1
      <4>1. Sign = 1 /\ buffer + k - 1 = buffer
        BY <1>1, <1>3, <3>3 DEF Sign
      <4>2. Signed(str_buffer)[buffer] = "-"
        BY <1>1, <1>8, <3>3 DEF Signed
      <4> QED
        BY <1>2, <3>2, <3>3, <4>1, <4>2
    <3>4. CASE ~(num_neg /\ k = 1)
      <4>1. k - Sign \in 1 .. p /\ buffer + Sign + (k - Sign) - 1 = buffer + k - 1
            /\ (k - Sign) + Sign = k
        <5>1. CASE num_neg
          <6>1. Sign = 1 /\ k # 1
            BY <1>3, <3>4, <5>1 DEF Sign
          <6> QED
            BY <1>1, <1>2, <1>4, <6>1
        <5>2. CASE ~num_neg
          <6>1. Sign = 0
            BY <1>3, <5>2 DEF Sign
          <6> QED
            BY <1>1, <1>2, <1>4, <6>1
        <5> QED
          BY <5>1, <5>2
      <4>2. str_buffer[buffer + k - 1] = Digits(Size)[k - Sign]
        BY <1>3, <1>4, <4>1 DEF InOrder
      <4>3. d[k] = Digits(Size)[k - Sign]
        BY <1>2, <4>1
      <4>4. Signed(str_buffer)[buffer + k - 1] = str_buffer[buffer + k - 1]
        <5>1. CASE num_neg
          <6>1. buffer + k - 1 # buffer
            BY <1>1, <3>4, <5>1
          <6> QED
            BY <1>1, <1>8, <3>1, <6>1 DEF Signed
        <5>2. CASE ~num_neg
          BY <5>2 DEF Signed
        <5> QED
          BY <5>1, <5>2
      <4> QED
        BY <3>2, <4>2, <4>3, <4>4
    <3> QED
      BY <3>3, <3>4
  <2> QED
    BY <1>4, <1>5, <2>1, <2>2 DEF Held, d
<1>10. NumberConverted'
  <2>1. buffer' <= s'
    BY <1>1, <1>5
  <2> QED
    BY <1>5, <1>9, <2>1 DEF NumberConverted
<1>11. job[1] \in {"data", "number"} /\ pc = "order"
  BY DEF EndsInv, JobKept, conv_return, Converting
<1>12. DateRead'
  BY <1>5, <1>11 DEF Undisturbed, DateRead, Converting
<1>13. TextCopied'
  <2>1. CASE job[1] = "data"
    <3>1. out = Before(StTempo, at) /\ StTempo \in [Field -> Value] /\ at \in 1 .. 7
      BY <1>11, <2>1 DEF Undisturbed, TextCopied, EndsInv, TextTyped, JobKept, Converting
    <3>2. Before(StTempo, at) \in Seq(Made)
      BY <3>1, BeforeNext
    <3>3. d \in Seq(Made)
      BY <1>11, GivenTyped DEF d, Converting
    <3>4. Follows(out, Before(StTempo, at), d, 0)
      BY <3>1, <3>2, <3>3, FollowsNone
    <3>5. s' - buffer' = 0
      BY <1>1, <1>5
    <3> QED
      BY <1>5, <2>1, <3>4, <3>5 DEF TextCopied, d, Converting
  <2>2. CASE job[1] = "number"
    BY <1>5, <1>11, <2>2 DEF Undisturbed, TextCopied, Converting
  <2> QED
    BY <1>11, <2>1, <2>2
<1> QED
  BY <1>10, <1>12, <1>13 DEF Undisturbed

(* A held text ends where its number does.                                  *)
LEMMA HeldEnds ==
  ASSUME EndsInv, Held, pc \in Printing \cup {"strcat"}, buffer <= s
  PROVE  /\ \A k \in s .. LastPlace + 1 :
              /\ k < buffer + Len(Decimal(Given)) =>
                   /\ k - buffer + 1 \in 1 .. Len(Decimal(Given))
                   /\ str_buffer[k] = Decimal(Given)[k - buffer + 1]
                   /\ str_buffer[k] # Terminator
              /\ k = buffer + Len(Decimal(Given)) => str_buffer[k] = Terminator
         /\ buffer \in 0 .. 6 /\ s \in BufferPlace /\ Len(Decimal(Given)) \in 1 .. 7
<1> DEFINE d == Decimal(Given)
           l == Len(d)
<1>1. /\ d \in Seq(Character \ {Terminator}) /\ Len(d) = PlacesOf(Size) + Sign
      /\ PlacesOf(Size) \in 1 .. 6 /\ Sign \in 0 .. 1
  BY GivenTyped
<1>2. l \in 1 .. 7 /\ buffer \in 0 .. 6 /\ s \in BufferPlace
  BY <1>1 DEF EndsInv, TextTyped
<1>3. /\ \A k \in 1 .. l : str_buffer[buffer + k - 1] = d[k]
      /\ str_buffer[buffer + l] = Terminator
  BY DEF Held
<1> HIDE DEF d
<1>4. \A k \in 1 .. l : d[k] # Terminator
  BY <1>1, ElementOfSeq
<1> HIDE DEF l
<1>5. ASSUME NEW k \in s .. LastPlace + 1, k < buffer + l
      PROVE  /\ k - buffer + 1 \in 1 .. l /\ str_buffer[k] = d[k - buffer + 1]
             /\ str_buffer[k] # Terminator
  <2>1. k - buffer + 1 \in 1 .. l /\ buffer + (k - buffer + 1) - 1 = k
    BY <1>2, <1>5 DEF BufferPlace, LastPlace
  <2> QED
    BY <1>3, <1>4, <2>1
<1> QED
  BY <1>2, <1>3, <1>5 DEF d, l

LEMMA StrcatRight ==
  ASSUME EndsInv, Undisturbed, strcat_char
  PROVE  Undisturbed'
<1> DEFINE d == Decimal(Given)
           b == Before(StTempo, at)
<1>1. /\ pc = "strcat" /\ job[1] = "data" /\ at \in 1 .. 7 /\ TextOrder[at] \notin Named
      /\ StTempo \in [Field -> Value] /\ out \in Seq(Made)
  BY DEF EndsInv, TextTyped, JobKept, strcat_char, Dating
<1>2. Held /\ buffer <= s /\ Follows(out, b, d, s - buffer)
  BY DEF Undisturbed, NumberConverted, TextCopied, strcat_char
<1>3. /\ buffer \in 0 .. 6 /\ s \in BufferPlace /\ Len(d) \in 1 .. 7
      /\ s < buffer + Len(d) => /\ s - buffer + 1 \in 1 .. Len(d)
                               /\ str_buffer[s] = d[s - buffer + 1]
                               /\ str_buffer[s] # Terminator
      /\ s = buffer + Len(d) => str_buffer[s] = Terminator
  <2>1. s \in s .. LastPlace + 1
    BY DEF EndsInv, TextTyped, BufferPlace, LastPlace
  <2> QED
    BY <1>1, <1>2, <2>1, HeldEnds
<1>4. b \in Seq(Made) /\ d \in Seq(Made)
  BY <1>1, BeforeNext, GivenTyped
<1>5. Before(StTempo, at + 1) = b \o d
  BY <1>1, BeforeNext DEF Piece, Given
<1>6. UNCHANGED <<World, index, StTempo, str_buffer, job, StLocal, len, conv_vars>>
  BY DEF strcat_char
<1>7. s \in Int /\ s - buffer <= Len(d)
  BY <1>2, <1>3 DEF Follows, BufferPlace, LastPlace
<1>8. \E m \in 1 .. now : StTempo = Instant[m]
  BY <1>1 DEF Undisturbed, DateRead
<1> HIDE DEF d, b
<1>9. CASE str_buffer[s] = Terminator
  <2>1. pc' = "strftime" /\ at' = at + 1 /\ out' = out
    BY <1>9 DEF strcat_char
  <2>2. s - buffer = Len(d)
    BY <1>3, <1>7, <1>9
  <2>3. out = b \o d
    BY <1>1, <1>2, <1>4, <2>2, FollowsAll
  <2>4. out' = Before(StTempo', at')
    BY <1>5, <1>6, <2>1, <2>3
  <2>5. DateRead'
    BY <1>6, <1>8, <2>1 DEF DateRead, World
  <2>6. NumberConverted' /\ TextCopied'
    BY <1>1, <1>6, <2>1, <2>4 DEF NumberConverted, TextCopied
  <2> QED
    BY <2>5, <2>6 DEF Undisturbed
<1>10. CASE str_buffer[s] # Terminator
  <2>1. pc' = "strcat" /\ at' = at /\ s' = s + 1 /\ out' = Append(out, str_buffer[s])
    BY <1>1, <1>10 DEF strcat_char
  <2>2. s - buffer \in 0 .. Len(d) - 1 /\ str_buffer[s] = d[s - buffer + 1]
    BY <1>2, <1>3, <1>7, <1>10
  <2>3. Follows(out', b, d, s - buffer + 1)
    <3> DEFINE n == s - buffer
    <3>1. n \in 0 .. Len(d) - 1 /\ Follows(out, b, d, n) /\ out' = Append(out, d[n + 1])
      BY <1>2, <2>1, <2>2
    <3> HIDE DEF n
    <3>2. Follows(Append(out, d[n + 1]), b, d, n + 1)
      BY <1>1, <1>4, <3>1, FollowsOneMore
    <3> QED
      BY <3>1, <3>2 DEF n
  <2>4. Given' = Given /\ buffer' = buffer
    BY <1>6, <2>1 DEF Given, conv_vars
  <2>5. s' - buffer' = s - buffer + 1 /\ buffer' <= s'
    <3>1. s \in Int /\ buffer \in Int /\ buffer <= s
      BY <1>2, <1>3, <1>7
    <3>2. s' = s + 1 /\ buffer' = buffer
      BY <2>1, <2>4
    <3> QED
      BY <3>1, <3>2
  <2>6. DateRead'
    BY <1>6, <1>8, <2>1 DEF DateRead, World
  <2>7. NumberConverted'
    BY <1>2, <1>6, <2>1, <2>4, <2>5 DEF NumberConverted, Held
  <2>8. TextCopied'
    BY <1>6, <2>1, <2>3, <2>4, <2>5 DEF TextCopied, b, d, Converting
  <2> QED
    BY <2>6, <2>7, <2>8 DEF Undisturbed
<1> QED
  BY <1>9, <1>10

LEMMA StrlenRight ==
  ASSUME EndsInv, Undisturbed, vsprintf_strlen
  PROVE  Undisturbed'
<1> DEFINE d == Decimal(Given)
           m == Min(EndsBehind)
<1>1. /\ pc = "strlen" /\ job[1] = "number" /\ Held /\ s = buffer /\ buffer <= s /\ out = <<>>
  BY DEF EndsInv, JobKept, Undisturbed, NumberConverted, TextCopied, vsprintf_strlen, Printing
<1>2. /\ buffer \in 0 .. 6 /\ s \in BufferPlace /\ Len(d) \in 1 .. 7
      /\ \A k \in s .. LastPlace + 1 :
           (k < buffer + Len(d) => str_buffer[k] # Terminator)
           /\ (k = buffer + Len(d) => str_buffer[k] = Terminator)
  BY <1>1, HeldEnds DEF Printing
<1>3. m \in EndsBehind /\ \A k \in EndsBehind : m <= k
  BY <1>2, FirstEnd DEF vsprintf_strlen
<1>4. d \in Seq(Made)
  BY <1>1, GivenTyped DEF Printing
<1>5. UNCHANGED <<World, index, StTempo, str_buffer, job, at, StLocal, s, out, conv_vars>>
      /\ len' = m - s /\ pc' = "vsprintf"
  BY DEF vsprintf_strlen
<1> HIDE DEF d, m
<1>6. m = buffer + Len(d)
  <2>1. m \in s .. LastPlace + 1 /\ str_buffer[m] = Terminator
    BY <1>3 DEF EndsBehind
  <2>2. ~(m < buffer + Len(d)) /\ m \in Int /\ m <= LastPlace + 1
    BY <1>2, <2>1 DEF BufferPlace, LastPlace
  <2>3. buffer + Len(d) \in s .. LastPlace + 1
    BY <1>1, <1>2, <2>2 DEF LastPlace
  <2>4. buffer + Len(d) \in EndsBehind
    BY <1>2, <2>3 DEF EndsBehind
  <2>5. m <= buffer + Len(d)
    BY <1>3, <2>4
  <2> QED
    BY <1>2, <2>2, <2>5
<1>7. Given' = Given /\ buffer' = buffer
  BY <1>5 DEF Given, conv_vars
<1>8. s' - buffer' + len' = Len(d) /\ s' - buffer' = 0 /\ buffer' <= s'
  BY <1>1, <1>2, <1>5, <1>6, <1>7
<1>9. DateRead'
  BY <1>1, <1>5 DEF DateRead
<1>10. NumberConverted'
  BY <1>1, <1>5, <1>7, <1>8 DEF NumberConverted, Held, d
<1>11. TextCopied'
  <2>1. <<>> \in Seq(Made)
    OBVIOUS
  <2>2. Follows(<<>>, <<>>, d, 0)
    BY <1>4, <2>1, FollowsNone
  <2> QED
    BY <1>1, <1>5, <1>7, <1>8, <2>2 DEF TextCopied, d, Converting
<1> QED
  BY <1>9, <1>10, <1>11 DEF Undisturbed

LEMMA VsprintfRight ==
  ASSUME EndsInv, Undisturbed, vsprintf_char
  PROVE  Undisturbed'
<1> DEFINE d == Decimal(Given)
<1>1. /\ pc = "vsprintf" /\ job[1] = "number" /\ Held /\ buffer <= s /\ len \in Nat
      /\ s - buffer + len = Len(d) /\ Follows(out, <<>>, d, s - buffer)
      /\ out \in Seq(Made) /\ s + len <= LastPlace + 1
  BY DEF EndsInv, TextTyped, JobKept, RoomLeft, Undisturbed, NumberConverted, TextCopied, vsprintf_char,
         Printing
<1>2. /\ buffer \in 0 .. 6 /\ s \in BufferPlace /\ Len(d) \in 1 .. 7
      /\ \A k \in s .. LastPlace + 1 :
           k < buffer + Len(d) => /\ k - buffer + 1 \in 1 .. Len(d)
                                /\ str_buffer[k] = d[k - buffer + 1]
  BY <1>1, HeldEnds DEF Printing
<1>3. d \in Seq(Made) /\ <<>> \in Seq(Made)
  BY <1>1, GivenTyped DEF Printing
<1>4. UNCHANGED <<World, index, StTempo, str_buffer, job, at, StLocal, conv_vars>>
  BY DEF vsprintf_char
<1>5. Given' = Given /\ buffer' = buffer /\ Given = job[2]
  BY <1>1, <1>4 DEF Given, conv_vars
<1> HIDE DEF d
<1>6. CASE len = 0
  <2>1. pc' = "done" /\ out' = out
    BY <1>6 DEF vsprintf_char
  <2>2. s - buffer = Len(d)
    BY <1>1, <1>2, <1>6 DEF BufferPlace
  <2>3. out = <<>> \o d
    BY <1>1, <1>3, <2>2, FollowsAll
  <2>4. out = d
    BY <1>3, <2>3, ConcatEmptySeq
  <2>5. DateRead' /\ NumberConverted'
    BY <1>1, <1>4, <2>1 DEF DateRead, NumberConverted
  <2>6. TextCopied'
    BY <1>1, <1>4, <1>5, <2>1, <2>4 DEF TextCopied, d, Converting
  <2> QED
    BY <2>5, <2>6 DEF Undisturbed
<1>7. CASE len # 0
  <2>1. pc' = "vsprintf" /\ s' = s + 1 /\ len' = len - 1 /\ out' = Append(out, str_buffer[s])
    BY <1>1, <1>7 DEF vsprintf_char
  <2>2. s \in s .. LastPlace + 1 /\ s < buffer + Len(d) /\ s - buffer \in 0 .. Len(d) - 1
    BY <1>1, <1>2, <1>7 DEF BufferPlace, LastPlace
  <2>3. str_buffer[s] = d[s - buffer + 1]
    BY <1>2, <2>2
  <2>4. Follows(out', <<>>, d, s - buffer + 1)
    <3> DEFINE n == s - buffer
    <3>1. n \in 0 .. Len(d) - 1 /\ Follows(out, <<>>, d, n) /\ out' = Append(out, d[n + 1])
      BY <1>1, <2>1, <2>2, <2>3
    <3> HIDE DEF n
    <3>2. Follows(Append(out, d[n + 1]), <<>>, d, n + 1)
      BY <1>1, <1>3, <3>1, FollowsOneMore
    <3> QED
      BY <3>1, <3>2 DEF n
  <2>5. s' - buffer' = s - buffer + 1 /\ buffer' <= s' /\ s' - buffer' + len' = Len(d)
    BY <1>1, <1>2, <1>5, <2>1 DEF BufferPlace, LastPlace
  <2>6. DateRead'
    BY <1>1, <1>4, <2>1 DEF DateRead
  <2>7. NumberConverted'
    BY <1>1, <1>4, <1>5, <2>1, <2>5 DEF NumberConverted, Held, d
  <2>8. TextCopied'
    BY <1>1, <1>4, <1>5, <2>1, <2>4, <2>5 DEF TextCopied, d, Converting
  <2> QED
    BY <2>6, <2>7, <2>8 DEF Undisturbed
<1> QED
  BY <1>6, <1>7

-----------------------------------------------------------------------------
(* What RightInv gives.                                                     *)

LEMMA RightInit == TextInit => RightInv
<1> SUFFICES ASSUME TextInit PROVE RightInv
  OBVIOUS
<1>1. EndsInv
  BY EndsInit
<1>2. Undisturbed
  BY DEF TextInit, Undisturbed, DateRead, NumberConverted, TextCopied, Converting
<1> QED
  BY <1>1, <1>2 DEF RightInv

LEMMA RightStays == RightInv /\ [TextNext]_text_vars => RightInv'
<1> SUFFICES ASSUME RightInv, [TextNext]_text_vars PROVE RightInv'
  OBVIOUS
<1>1. EndsInv' /\ EndsInv
  BY EndsStays DEF RightInv
<1>2. CASE UNCHANGED text_vars
  <2>1. disturbed' = disturbed
    BY <1>2 DEF text_vars
  <2>2. Undisturbed => Undisturbed'
    <3> SUFFICES ASSUME Undisturbed PROVE DateRead' /\ NumberConverted' /\ TextCopied'
      BY DEF Undisturbed
    <3>1. UNCHANGED <<now, index, StTempo, str_buffer, pc, job, at, StLocal, s, len, out>>
          /\ UNCHANGED <<num, buffer, i, j, num_neg>>
      BY <1>2 DEF text_vars, local_vars, conv_vars
    <3>2. Given' = Given /\ Size' = Size /\ Sign' = Sign
      BY <3>1 DEF Given, Size, Sign
    <3> QED
      BY <3>1, <3>2 DEF Undisturbed, DateRead, NumberConverted, TextCopied, Held, Reversed, InOrder
  <2> QED
    BY <1>1, <2>1, <2>2 DEF RightInv
<1>3. CASE orologio
  <2>1. ~disturbed' => ~disturbed
    BY <1>3, Zenon DEF orologio
  <2> QED
    BY <1>1, <1>3, <2>1, OrologioRight DEF RightInv
<1>4. CASE rtc_second
  <2>1. ~disturbed' => ~disturbed
    BY <1>4, Zenon DEF rtc_second
  <2> QED
    BY <1>1, <1>4, <2>1, RtcRight DEF RightInv
<1>5. CASE print
  <2>1. Undisturbed'
    BY <1>5 DEF print, Undisturbed, DateRead, NumberConverted, TextCopied, Converting
  <2> QED
    BY <1>1, <2>1 DEF RightInv
<1>6. CASE begin_data \/ \E n \in Numbers : begin_printk(n) \/ overrun(n)
  <2>1. disturbed' = disturbed
    BY <1>6 DEF begin_data, begin_printk, overrun, World
  <2> QED
    BY <1>1, <1>6, <2>1, BeginRight DEF RightInv
<1>7. CASE readcmos_select \/ readcmos_read \/ localtime_store
  <2>1. disturbed' = disturbed
    BY <1>7 DEF readcmos_select, readcmos_read, localtime_store, World
  <2> QED
    BY <1>1, <1>7, <2>1, SelectRight, ReadRight, StoreRight DEF RightInv
<1>8. CASE strftime_name \/ strftime_number \/ strftime_end
  <2>1. disturbed' = disturbed
    BY <1>8 DEF strftime_name, strftime_number, strftime_end, World
  <2> QED
    BY <1>1, <1>8, <2>1, StrftimeRight DEF RightInv
<1>9. CASE conv_zero \/ conv_negative \/ conv_digit \/ conv_order \/ conv_return
  <2>1. disturbed' = disturbed
    BY <1>9 DEF conv_zero, conv_negative, conv_digit, conv_order, conv_return, World
  <2> QED
    BY <1>1, <1>9, <2>1, ConvZeroRight, ConvNegativeRight, ConvDigitRight, ConvOrderRight,
       ConvReturnRight DEF RightInv
<1>10. CASE strcat_char \/ vsprintf_strlen \/ vsprintf_char
  <2>1. disturbed' = disturbed
    BY <1>10 DEF strcat_char, vsprintf_strlen, vsprintf_char, World
  <2> QED
    BY <1>1, <1>10, <2>1, StrcatRight, StrlenRight, VsprintfRight DEF RightInv
<1> QED
  BY <1>2, <1>3, <1>4, <1>5, <1>6, <1>7, <1>8, <1>9, <1>10 DEF TextNext

(* Unless the clock is drawn, or its second changes while it is read, a     *)
(* task prints the number it was given or the date of one instant, whatever *)
(* earlier texts left in the static buffers (libc/time.c:439,               *)
(* libc/string.c:474).                                                      *)
THEOREM ClockTextRight == TextSpec => []RightUnlessDisturbed
<1>1. TextInit => RightInv
  BY RightInit
<1>2. RightInv /\ [TextNext]_text_vars => RightInv'
  BY RightStays
<1>3. RightInv => RightUnlessDisturbed
  <2> SUFFICES ASSUME RightInv, pc = "done", ~disturbed
               PROVE  IF job[1] = "data" THEN \E k \in 1 .. now : out = TextOf(Instant[k])
                      ELSE out = Decimal(job[2])
    BY DEF RightUnlessDisturbed
  <2>1. out = IF job[1] = "data" THEN TextOf(StTempo) ELSE Decimal(job[2])
    BY DEF RightInv, Undisturbed, TextCopied
  <2>2. job[1] = "data" => \E m \in 1 .. now : StTempo = Instant[m]
    BY DEF RightInv, Undisturbed, DateRead
  <2> QED
    BY <2>1, <2>2
<1> QED
  BY <1>1, <1>2, <1>3, PTL DEF TextSpec
=============================================================================
