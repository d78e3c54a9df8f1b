-------------------------------- MODULE Strftime --------------------------------
(***************************************************************************)
(* strftime (libc/time.c): a format is worked through directive by         *)
(* directive, and before each one the characters counted so far, the NUL   *)
(* included, are compared with the length of the buffer.  Of the text only *)
(* its length is kept; the format is chosen as it goes.                    *)
(***************************************************************************)
EXTENDS Integers, FiniteSets, Sequences

CONSTANTS
  Tm,              (* the times that are written                            *)
  Lengths,         (* lengths of buffers                                    *)
  Strays,          (* lengths of what is read as a name of month 12 or 13   *)
  DirectiveBound   (* bound: directives of a format                         *)

ASSUME StrftimeAssumption ==
  /\ \A t \in Tm : /\ t.wday \in 0 .. 6 /\ t.mon \in 0 .. 13 /\ t.mday \in 0 .. 31
                   /\ t.hour \in 0 .. 23 /\ t.min \in 0 .. 59 /\ t.sec \in 0 .. 59
                   /\ t.year \in 70 .. 206 /\ t.yday \in 0 .. 366
  /\ Lengths \subseteq Nat \ {0} /\ Strays \subseteq Nat /\ DirectiveBound \in Nat

VARIABLES
  tm, BufferLen,
  Written,             (* the length of the string in Buffer                *)
  CaratteriScritti,    (* what strftime counts                              *)
  format,              (* the directives so far                             *)
  ended                (* what it returned: running, full, or done          *)

strftime_vars == <<tm, BufferLen, Written, CaratteriScritti, format, ended>>

Giorni == <<6, 6, 7, 9, 8, 6, 8>>                    (* lengths of the names *)
Mesi == <<7, 8, 5, 5, 3, 4, 4, 6, 9, 7, 8, 8>>
Abbreviato == 3

StrftimeInit ==
  /\ tm \in Tm /\ BufferLen \in Lengths
  /\ Written = 0 /\ CaratteriScritti = 1 /\ format = <<>> /\ ended = "running"

(* The length of a number.                                                  *)
conv_int_string(n) == IF n < 10 THEN 1 ELSE IF n < 100 THEN 2 ELSE IF n < 1000 THEN 3 ELSE 4

(* n characters are needed and written, and counted of them are added to    *)
(* the count; or there is no room, and the text ends where it is.           *)
Appended(d, needed, n, counted) ==
  /\ format' = Append(format, d)
  /\ IF CaratteriScritti + needed > BufferLen
       THEN ended' = "full" /\ UNCHANGED <<Written, CaratteriScritti>>
       ELSE /\ Written' = Written + n /\ CaratteriScritti' = CaratteriScritti + counted
            /\ UNCHANGED ended
  /\ UNCHANGED <<tm, BufferLen>>

Running == ended = "running" /\ Len(format) < DirectiveBound

(* At the turn of some years localtime gives month 12 or 13 (Calendar): its *)
(* name is read behind the table, where the build decides what is found.    *)
NameLengths(d) ==
  CASE d = "a" -> {Abbreviato}
    [] d = "A" -> {Giorni[tm.wday + 1]}
    [] d \in {"b", "B"} /\ tm.mon > 11 -> Strays
    [] d = "b" /\ tm.mon < 12 -> {Abbreviato}
    [] d = "B" /\ tm.mon < 12 -> {Mesi[tm.mon + 1]}
name(d) == Running /\ \E n \in NameLengths(d) : Appended(d, n, n, n)

(* The numbers are written without leading zeros; %U and %W are the day of  *)
(* the year by 7.                                                           *)
NumberOf(d) ==
  CASE d = "d" -> tm.mday
    [] d = "H" -> tm.hour
    [] d = "I" -> (IF tm.hour > 12 THEN tm.hour - 12 ELSE tm.hour)
    [] d = "j" -> tm.yday
    [] d = "m" -> tm.mon + 1
    [] d = "M" -> tm.min
    [] d = "S" -> tm.sec
    [] d \in {"U", "W"} -> tm.yday \div 7
    [] d = "w" -> tm.wday
    [] d = "y" -> tm.year
    [] d = "Y" -> tm.year + 1900
number(d) == LET n == conv_int_string(NumberOf(d)) IN Running /\ Appended(d, n, n, n)

(* "Tue Jul 12 14:35:46 2005" counts as 24 characters, and is shorter when  *)
(* a number has one digit.                                                  *)
DateLength(month) ==
  13 + month + conv_int_string(tm.mday) + conv_int_string(tm.hour)
     + conv_int_string(tm.min) + conv_int_string(tm.sec)

date_and_time_short(d) ==                                 (* faulty variant *)
  Running /\ \E month \in NameLengths("b") : Appended(d, 20, DateLength(month), 20)

date_and_time(d) ==
  Running /\ \E month \in NameLengths("b") : Appended(d, 24, DateLength(month), 24)

half(d) == Running /\ Appended(d, 2, 2, 2)

(* "07/12/05" and "15:35:48" are compared but never counted.                *)
padded(d) == Running /\ Appended(d, 8, 8, 0)

zone(d) == Running /\ Appended(d, 0, 0, 0)

(* A character is counted before it is compared; a percent sign once more   *)
(* behind.                                                                  *)
percent(d) == Running /\ Appended(d, 1, 1, 2)
character(d) == Running /\ Appended(d, 1, 1, 1)

strftime_return ==
  /\ ended = "running" /\ ended' = "done"
  /\ UNCHANGED <<tm, BufferLen, Written, CaratteriScritti, format>>

StrftimeNext ==
  \/ \E d \in {"a", "A", "b", "B"} : name(d)
  \/ \E d \in {"d", "H", "I", "j", "m", "M", "S", "U", "W", "w", "y", "Y"} : number(d)
  \/ date_and_time("c") \/ half("p") \/ zone("Z") \/ percent("%") \/ character("char")
  \/ \E d \in {"x", "X"} : padded(d)
  \/ strftime_return

StrftimeSpec == StrftimeInit /\ [][StrftimeNext]_strftime_vars

(* The text and its NUL fit the buffer but for the eight characters of each *)
(* %x and %X behind which more was written, and unless %c named a month 12  *)
(* or 13; the callers, with "%X", "%X %x" and "%c\n" in 20, 20 and 26      *)
(* bytes, never exceed theirs, "%c\n" unless it is of such a month.         *)
Uncounted == {i \in 1 .. Len(format) : format[i] \in {"x", "X"}}
NamedBehindTable == tm.mon > 11 /\ \E i \in 1 .. Len(format) : format[i] = "c"
TextFits ==
  ~NamedBehindTable => Written + 1 <= BufferLen + 8 * Cardinality(Uncounted)
CallersFit ==
  /\ format \in {<<"X">>, <<"X", "char", "x">>} /\ BufferLen >= 20 => Written + 1 <= BufferLen
  /\ format = <<"c", "char">> /\ BufferLen >= 26 => ended # "full"
BufferKept == TextFits /\ CallersFit
=============================================================================
