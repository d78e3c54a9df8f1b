------------------------------- MODULE ClockText -------------------------------
(***************************************************************************)
(* What a task and the timer interrupt share without a lock: the index     *)
(* register of the CMOS (kernel/io_port.c), the static struct tm of        *)
(* localtime (libc/time.c) and the static buffer of conv_int_string        *)
(* (libc/string.c).  The task prints numbers (libc/vsprintf.c) or the date *)
(* (the command data: time, ctime); orologio (interrupt/timer.c) reads the *)
(* time, makes a struct tm and three numbers of it whenever it interrupts. *)
(*                                                                         *)
(* An instant is a function from the registers to numbers; how mktime and  *)
(* localtime change them is the module Calendar and touches nothing else   *)
(* that is shared but tm_yday, which neither prints.                       *)
(***************************************************************************)
EXTENDS Integers, Sequences, FiniteSetsExt

CONSTANTS
  Instant,     (* the times that pass, a sequence of register contents      *)
  Numbers,     (* what printk("%d") is given                                *)
  DrawBound    (* bound: drawings of the clock while a text is made         *)

Field == {"sec", "min", "hour", "wday", "mday", "mon", "year"}

(* The largest numbers of five and of six digits, and the numbers whose     *)
(* digits, written twice, reach no further than the byte behind str_buffer. *)
Five == 99999
Six == 999999
Number == -Five .. Six

ASSUME ClockTextAssumption ==
  /\ Instant \in Seq([Field -> 0 .. Five]) /\ Len(Instant) > 0
  /\ Numbers \subseteq Int /\ DrawBound \in Nat

VARIABLES
  now,         (* which instant it is                                       *)
  index,       (* the register that port 0x71 gives                         *)
  StTempo,     (* static in localtime                                       *)
  str_buffer,  (* static in conv_int_string                                 *)
  pc, job,     (* where the task is, and which text it makes                *)
  at,          (* the register, field or number it is at                    *)
  StLocal,     (* what GetCurrentTime has read                              *)
  num, buffer, i, j, num_neg,    (* the locals of conv_int_string           *)
  s, len,      (* the pointer it returned, and the characters to copy       *)
  out,         (* the text made so far                                      *)
  drawn, disturbed               (* history: drawings, and whether the text *)
                                 (* met one or a change of the time         *)

conv_vars == <<num, buffer, i, j, num_neg>>
local_vars == <<StLocal, s, len, out>>
text_vars == <<now, index, StTempo, str_buffer, pc, job, at, local_vars, conv_vars,
               drawn, disturbed>>

Terminator == "NUL"
LastPlace == 11
BufferPlace == 0 .. LastPlace + 1       (* and the byte behind the buffer   *)
Digit == <<"0", "1", "2", "3", "4", "5", "6", "7", "8", "9">>
DigitOf(n) == Digit[(n % 10) + 1]
ReadOrder == <<"sec", "min", "hour", "wday", "mday", "mon", "year">>
StoreOrder == <<"mday", "mon", "year", "wday", "sec", "min", "hour">>
TextOrder == <<"wday", "mon", "mday", "hour", "min", "sec", "year">>
Named == {"wday", "mon"}

TextInit ==
  /\ now = 1 /\ index = "sec" /\ StTempo = [f \in Field |-> 0]
  /\ str_buffer = [k \in BufferPlace |-> Terminator]
  /\ pc = "idle" /\ job = <<"none", 0>> /\ at = 1 /\ StLocal = [f \in Field |-> 0]
  /\ num = 0 /\ buffer = 0 /\ i = 0 /\ j = 0 /\ num_neg = FALSE /\ s = 0 /\ len = 0
  /\ out = <<>> /\ drawn = 0 /\ disturbed = FALSE

-----------------------------------------------------------------------------
(* The digits of a number, and what a whole conversion leaves in the        *)
(* buffer: the digits of a positive number in reverse, then the text.       *)
Power == <<1, 10, 100, 1000, 10000, 100000, 1000000>>
PlacesOf(n) == CHOOSE d \in 1 .. 6 : n < Power[d + 1] /\ (d = 1 \/ Power[d] <= n)
Digits(n) == [k \in 1 .. PlacesOf(n) |-> DigitOf(n \div Power[PlacesOf(n) - k + 1])]
Decimal(n) == IF n < 0 THEN <<"-">> \o Digits(-n) ELSE Digits(n)

Converted(b, n) ==
  LET d == PlacesOf(n)
      first == IF n = 0 THEN 0 ELSE d
  IN  [k \in BufferPlace |-> IF k < first THEN Digits(n)[d - k]
                             ELSE IF k < first + d THEN Digits(n)[k - first + 1]
                             ELSE IF k = first + d THEN Terminator ELSE b[k]]

(* orologio runs with the interrupts disabled and leaves the last register  *)
(* selected, the time in StTempo, and hour, minute and second in turn in    *)
(* the buffer.                                                              *)
orologio ==
  /\ drawn < DrawBound
  /\ drawn' = IF pc = "idle" THEN 0 ELSE drawn + 1
  /\ disturbed' = (disturbed \/ pc # "idle")
  /\ index' = "year" /\ StTempo' = Instant[now]
  /\ str_buffer' = LET t == Instant[now]
                   IN  Converted(Converted(Converted(str_buffer, t["hour"]), t["min"]), t["sec"])
  /\ UNCHANGED <<now, pc, job, at, local_vars, conv_vars>>

(* The real time clock goes on (external).                                  *)
rtc_second ==
  /\ now < Len(Instant) /\ now' = now + 1
  /\ disturbed' = (disturbed \/ pc \in {"select", "read"})
  /\ UNCHANGED <<index, StTempo, str_buffer, pc, job, at, local_vars, conv_vars, drawn>>

World == <<now, drawn, disturbed>>

-----------------------------------------------------------------------------
(* The task takes up a text: a number, or the date.                         *)
begin_printk(n) ==
  /\ n \in Number /\ pc = "idle" /\ pc' = "conv" /\ job' = <<"number", n>>
  /\ num' = n /\ buffer' = 0 /\ i' = 0 /\ j' = 0 /\ num_neg' = FALSE
  /\ UNCHANGED <<World, index, StTempo, str_buffer, at, local_vars>>

(* conv_int_string does not look at the size of its number: a longer one is *)
(* written over what lies behind str_buffer.  What the task does from there *)
(* on is not defined, and it is followed no further.                        *)
overrun(n) ==
  /\ n \notin Number /\ pc = "idle" /\ pc' = "overrun" /\ job' = <<"number", n>>
  /\ UNCHANGED <<World, index, StTempo, str_buffer, at, local_vars, conv_vars>>

begin_data ==
  /\ pc = "idle" /\ pc' = "select" /\ job' = <<"data", 0>> /\ at' = 1
  /\ UNCHANGED <<World, index, StTempo, str_buffer, local_vars, conv_vars>>

(* readcmos: the register is selected and, 64 iterations later, read.       *)
readcmos_select ==
  /\ pc = "select" /\ pc' = "read" /\ index' = ReadOrder[at]
  /\ UNCHANGED <<World, StTempo, str_buffer, job, at, local_vars, conv_vars>>

readcmos_read ==
  /\ pc = "read"
  /\ StLocal' = [StLocal EXCEPT ![ReadOrder[at]] = Instant[now][index]]
  /\ at' = IF at < 7 THEN at + 1 ELSE 1
  /\ pc' = IF at < 7 THEN "select" ELSE "localtime"
  /\ UNCHANGED <<World, index, StTempo, str_buffer, job, s, len, out, conv_vars>>

localtime_store ==
  /\ pc = "localtime"
  /\ StTempo' = [StTempo EXCEPT ![StoreOrder[at]] = StLocal[StoreOrder[at]]]
  /\ at' = IF at < 7 THEN at + 1 ELSE 1
  /\ pc' = IF at < 7 THEN "localtime" ELSE "strftime"
  /\ UNCHANGED <<World, index, str_buffer, job, local_vars, conv_vars>>

(* %c: two names, and numbers converted one after the other.                *)
strftime_name ==
  /\ pc = "strftime" /\ at <= 7 /\ TextOrder[at] \in Named
  /\ out' = Append(out, <<TextOrder[at], StTempo[TextOrder[at]]>>) /\ at' = at + 1
  /\ UNCHANGED <<World, index, StTempo, str_buffer, pc, job, StLocal, s, len, conv_vars>>

strftime_number ==
  /\ pc = "strftime" /\ at <= 7 /\ TextOrder[at] \notin Named
  /\ num' = StTempo[TextOrder[at]] /\ buffer' = 0 /\ i' = 0 /\ j' = 0 /\ num_neg' = FALSE
  /\ pc' = "conv"
  /\ UNCHANGED <<World, index, StTempo, str_buffer, job, at, local_vars>>

strftime_end ==
  /\ pc = "strftime" /\ at > 7 /\ pc' = "done"
  /\ UNCHANGED <<World, index, StTempo, str_buffer, job, at, local_vars, conv_vars>>

-----------------------------------------------------------------------------
(* conv_int_string, one access to the buffer at a time.                     *)
conv_zero ==
  /\ pc = "conv" /\ num = 0
  /\ str_buffer' = [str_buffer EXCEPT ![0] = "0"] /\ j' = 1 /\ pc' = "order"
  /\ UNCHANGED <<World, index, StTempo, job, at, local_vars, num, buffer, i, num_neg>>

conv_negative ==
  /\ pc = "conv" /\ num < 0
  /\ j' = 1 /\ num' = -num /\ num_neg' = TRUE /\ pc' = "digits"
  /\ UNCHANGED <<World, index, StTempo, str_buffer, job, at, local_vars, buffer, i>>

conv_digit ==
  /\ pc \in {"conv", "digits"} /\ num > 0
  /\ str_buffer' = [str_buffer EXCEPT ![buffer] = DigitOf(num)]
  /\ buffer' = buffer + 1 /\ num' = num \div 10 /\ i' = i + 1
  /\ pc' = IF num < 10 THEN "order" ELSE "digits"
  /\ UNCHANGED <<World, index, StTempo, job, at, local_vars, j, num_neg>>

Reordered_early(k) == str_buffer[i]                       (* faulty variant *)
Reordered(k) == str_buffer[k]

conv_order ==
  /\ pc = "order" /\ i > 0
  /\ i' = i - 1 /\ j' = j + 1
  /\ str_buffer' = [str_buffer EXCEPT ![buffer + j] = Reordered(i - 1)]
  /\ UNCHANGED <<World, index, StTempo, pc, job, at, local_vars, num, buffer, num_neg>>

Closed_not(b) == b                                        (* faulty variant *)
Closed(b) == [b EXCEPT ![buffer + j] = Terminator]

Signed(b) == IF num_neg THEN [b EXCEPT ![buffer] = "-"] ELSE b

(* The sign and the NUL, and back to the caller: strcat copies up to the    *)
(* NUL, vsprintf takes the length first.                                    *)
conv_return ==
  /\ pc = "order" /\ i = 0
  /\ str_buffer' = Closed(Signed(str_buffer))
  /\ s' = buffer /\ pc' = IF job[1] = "data" THEN "strcat" ELSE "strlen"
  /\ UNCHANGED <<World, index, StTempo, job, at, StLocal, len, out, conv_vars>>

EndsBehind == {k \in s .. LastPlace + 1 : str_buffer[k] = Terminator}

strcat_char ==
  /\ pc = "strcat" /\ s \in BufferPlace
  /\ IF str_buffer[s] = Terminator
       THEN pc' = "strftime" /\ at' = at + 1 /\ UNCHANGED <<s, out>>
       ELSE s' = s + 1 /\ out' = Append(out, str_buffer[s]) /\ UNCHANGED <<pc, at>>
  /\ UNCHANGED <<World, index, StTempo, str_buffer, job, StLocal, len, conv_vars>>

vsprintf_strlen ==
  /\ pc = "strlen" /\ EndsBehind # {} /\ len' = Min(EndsBehind) - s /\ pc' = "vsprintf"
  /\ UNCHANGED <<World, index, StTempo, str_buffer, job, at, StLocal, s, out, conv_vars>>

vsprintf_char ==
  /\ pc = "vsprintf"
  /\ IF len = 0 THEN pc' = "done" /\ UNCHANGED <<s, len, out>>
     ELSE s' = s + 1 /\ len' = len - 1 /\ out' = Append(out, str_buffer[s]) /\ UNCHANGED pc
  /\ UNCHANGED <<World, index, StTempo, str_buffer, job, at, StLocal, conv_vars>>

(* The text is printed; the locals are gone, the static variables stay.     *)
print ==
  /\ pc = "done" /\ pc' = "idle" /\ job' = <<"none", 0>> /\ at' = 1
  /\ StLocal' = [f \in Field |-> 0] /\ out' = <<>>
  /\ num' = 0 /\ buffer' = 0 /\ i' = 0 /\ j' = 0 /\ num_neg' = FALSE /\ s' = 0 /\ len' = 0
  /\ drawn' = 0 /\ disturbed' = FALSE
  /\ UNCHANGED <<now, index, StTempo, str_buffer>>

TextNext ==
  \/ orologio \/ rtc_second
  \/ \E n \in Numbers : begin_printk(n) \/ overrun(n)
  \/ begin_data \/ readcmos_select \/ readcmos_read \/ localtime_store
  \/ strftime_name \/ strftime_number \/ strftime_end
  \/ conv_zero \/ conv_negative \/ conv_digit \/ conv_order \/ conv_return
  \/ strcat_char \/ vsprintf_strlen \/ vsprintf_char \/ print

TextSpec == TextInit /\ [][TextNext]_text_vars

-----------------------------------------------------------------------------
(* However the clock interrupts, the text a task copies out of str_buffer   *)
(* ends inside it, although longer numbers were left there before: the      *)
(* conversions of the interrupt overwrite the digits and perhaps the NUL of *)
(* the task, but leave a NUL at or behind the place the task is at.  A      *)
(* number of six digits does not fit twice, and ends behind the buffer      *)
(* (string.c:474, 521); of one that has more, or six and a sign, no text is *)
(* copied here (overrun).                                                   *)
TextEnds ==
  pc \in {"strcat", "strlen"} =>
    \E k \in EndsBehind : k <= LastPlace \/ job[2] > Five

Piece(t, f) == IF f \in Named THEN <<<<f, t[f]>>>> ELSE Decimal(t[f])
TextOf(t) ==
  LET P(k) == Piece(t, TextOrder[k])
  IN  P(1) \o P(2) \o P(3) \o P(4) \o P(5) \o P(6) \o P(7)

(* A text is right unless the clock was drawn, or its second changed, while *)
(* it was made: then it is the number given, or the date of that instant.   *)
RightUnlessDisturbed ==
  pc = "done" /\ ~disturbed =>
    IF job[1] = "data" THEN \E k \in 1 .. now : out = TextOf(Instant[k])
    ELSE out = Decimal(job[2])
=============================================================================
