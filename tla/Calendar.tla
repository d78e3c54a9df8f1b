-------------------------------- MODULE Calendar --------------------------------
(***************************************************************************)
(* Dates (libc/time.c): the real time clock gives the time in BCD          *)
(* registers, GetCurrentTime reads them, mktime makes a number of it and   *)
(* localtime a date again, with a loop that walks day after day from the   *)
(* first of January 1970.  A time_t is <<days, seconds of the day>>, for   *)
(* the seconds since 1970 do not fit TLC's integers; unsigned long holds   *)
(* them until 2106.                                                        *)
(*                                                                         *)
(* The loop does not look at the date it is to stop at, so the walk is     *)
(* shared: passed counts its iterations, and the call about a date leaves  *)
(* it where passed is the GiorniTotali of that date.                       *)
(***************************************************************************)
EXTENDS Integers

CONSTANTS
  Years,       (* tm_year of the dates asked about: 100 is 2000             *)
  Clock,       (* seconds of the day at which they are asked about          *)
  LastDay      (* bound: days the loop walks                                *)

ASSUME CalendarAssumption ==
  /\ Years \subseteq 100 .. 179 /\ LastDay \in Nat
  /\ \A s \in Clock : s \in Nat /\ s < 86400

VARIABLES
  walk,        (* Anno, Mese, Giorno, GiornoDellaSettimana and the tm_yday  *)
               (* of the static struct tm, in the loop of localtime         *)
  passed,      (* iterations of the loop                                    *)
  asked,       (* the date and time asked about, or NoDate                  *)
  shown        (* the struct tm that localtime made of it                   *)

calendar_vars == <<walk, passed, asked, shown>>

NUMERO_GIORNI == <<31, 28, 31, 30, 31, 30, 31, 31, 30, 31, 30, 31>>
NoDate == [year |-> 0, mon |-> 0, mday |-> 0, time |-> 0]

-----------------------------------------------------------------------------
(* The calendar, and the registers the clock (external) keeps.              *)
MonthLength(y, m) == IF m = 1 /\ y % 4 = 0 THEN 29 ELSE NUMERO_GIORNI[m + 1]
IsDate(d) == d.mday \in 1 .. MonthLength(d.year, d.mon)

bcd(n) == 16 * (n \div 10) + (n % 10)
Registers(d) ==
  [sec |-> bcd(d.time % 60), min |-> bcd((d.time \div 60) % 60),
   hour |-> bcd(d.time \div 3600), mday |-> bcd(d.mday),
   mon |-> bcd(d.mon + 1), year |-> bcd(d.year - 100)]

(* byte_bcd is a char, whose sign the shift keeps.                          *)
Decoded(byte) ==
  LET byte_bcd == IF byte > 127 THEN byte - 256 ELSE byte
  IN  (byte_bcd \div 16) * 10 + (byte % 16)

Added(y, Mese) ==
  IF Mese = 2 THEN IF y % 4 = 0 THEN 29 ELSE 28
  ELSE IF Mese \in {4, 6, 9, 11} THEN 30 ELSE 31

GetCurrentTime(r) ==
  LET y == Decoded(r.year) + 100
      n == Decoded(r.mon) - 1
      Yday[Mese \in 0 .. n] == IF Mese = 0 THEN Decoded(r.mday)
                               ELSE Yday[Mese - 1] + Added(y, Mese)
  IN  [sec |-> Decoded(r.sec), min |-> Decoded(r.min), hour |-> Decoded(r.hour),
       mday |-> Decoded(r.mday), mon |-> n, year |-> y, yday |-> Yday[n]]

-----------------------------------------------------------------------------
(* mktime carries a month when mday reaches the length of the month, which  *)
(* the last day of each month does, and takes 200 seconds less than the     *)
(* 25568 days from 1900 to 1970.                                            *)
Divisor(tm) ==
  IF tm.mon \in {3, 5, 8, 10} THEN 30
  ELSE IF tm.mon # 1 THEN 31 ELSE IF tm.year % 4 = 0 THEN 29 ELSE 28

mktime(tm) ==
  LET year == tm.year + (tm.mon + tm.mday \div Divisor(tm)) \div 12
      secs == tm.sec + 60 * tm.min + 3600 * tm.hour + 200
      days == tm.yday + 366 * (year \div 4) + 365 * (year - year \div 4)
  IN  <<days - 25568 + secs \div 86400, secs % 86400>>

time(d) == mktime(GetCurrentTime(Registers(d)))

(* One iteration of the loop, its increments included.                      *)
NewYear(w) ==
  IF w.mon = 12 THEN [w EXCEPT !.yday = 0, !.mon = 0, !.year = @ + 1] ELSE w

MonthEnds_every_leap(w) ==                                (* faulty variant *)
  \/ w.mon = 1 /\ w.mday = 29
  \/ w.mon \in {3, 5, 8, 10} /\ w.mday = 30
  \/ w.mday = 31

MonthEnds(w) ==
  \/ w.mon = 1 /\ w.mday >= 28 /\ (w.year % 4 # 0 \/ w.mday = 29)
  \/ w.mon \in {3, 5, 8, 10} /\ w.mday = 30
  \/ w.mon \notin {3, 5, 8, 10} /\ w.mday = 31

NextDay(w) ==
  LET n == NewYear(w)
  IN  [n EXCEPT !.wday = (@ + 1) % 7, !.yday = @ + 1,
                !.mon = IF MonthEnds(n) THEN @ + 1 ELSE @,
                !.mday = IF MonthEnds(n) THEN 1 ELSE @ + 1]

(* What is done behind the loop, to a year that is no leap year: one day    *)
(* more.  The length of month 12 is read behind NUMERO_GIORNI and may be    *)
(* anything.                                                                *)
LongerThanMonth(w) ==
  IF w.mon = 12 THEN BOOLEAN ELSE {w.mday + 1 > NUMERO_GIORNI[w.mon + 1]}

OneDayMore(w, over) ==
  LET n == IF over THEN [w EXCEPT !.mday = 0, !.mon = @ + 1]
           ELSE [w EXCEPT !.mday = @ + 1]
  IN  [NewYear(n) EXCEPT !.wday = (@ + 1) % 7]

Corrected(w) ==
  IF w.year % 4 = 0 THEN {w} ELSE {OneDayMore(w, over) : over \in LongerThanMonth(w)}

struct_tm(w, secs) ==
  [sec |-> secs % 60, min |-> (secs \div 60) % 60, hour |-> secs \div 3600,
   mday |-> w.mday, mon |-> w.mon, year |-> w.year + 68, wday |-> w.wday, yday |-> w.yday]

-----------------------------------------------------------------------------
Start(yday) == [year |-> 2, mon |-> 0, mday |-> 1, wday |-> 3, yday |-> yday]
NoTime == struct_tm(Start(0), 0)

CalendarInit == walk = Start(0) /\ passed = 0 /\ asked = NoDate /\ shown = NoTime

localtime_day ==
  /\ asked = NoDate /\ passed < LastDay
  /\ walk' = NextDay(walk) /\ passed' = passed + 1
  /\ UNCHANGED <<asked, shown>>

(* The dates near the walk are tried, the others cannot be where it stands. *)
localtime_return ==
  /\ asked = NoDate
  /\ \E y \in {x \in Years : (x - 70) * 365 - passed \in -760 .. 0}, m \in 0 .. 11, d \in 1 .. 31,
        s \in Clock :
       LET date == [year |-> y, mon |-> m, mday |-> d, time |-> s]
           Tempo == time(date)
       IN  /\ IsDate(date) /\ Tempo[1] - 1 = passed
           /\ asked' = date
           /\ \E w \in Corrected(walk) : shown' = struct_tm(w, Tempo[2])
  /\ UNCHANGED <<walk, passed>>

(* The next call: the locals start again, tm_yday goes on.                  *)
localtime_call ==
  /\ asked # NoDate
  /\ walk' = Start(shown.yday) /\ passed' = 0 /\ asked' = NoDate /\ shown' = NoTime

CalendarNext == localtime_day \/ localtime_return \/ localtime_call
CalendarSpec == CalendarInit /\ [][CalendarNext]_calendar_vars

-----------------------------------------------------------------------------
(* Days since the first of January 1970, by the calendar.                   *)
DayNumber(d) ==
  LET Before[m \in 0 .. 12] == IF m = 0 THEN 0 ELSE Before[m - 1] + MonthLength(d.year, m - 1)
  IN  365 * (d.year - 70) + (d.year - 69) \div 4 + Before[d.mon] + d.mday - 1

FirstOfMonth(d) == d.mday = 1 /\ d.mon > 0 /\ d.year % 4 # 0
TurnOfYear(d) ==
  \/ d.mon = 11 /\ d.mday = 31
  \/ d.mon = 0 /\ d.mday = 1
  \/ d.mon = 0 /\ d.mday = 2 /\ d.year % 4 # 0
Late(d) == d.time >= 86200

(* A date that the clock gives is the date that is shown, with its day of   *)
(* the week counted from Monday (time.c:585) and a time 200 seconds ahead,  *)
(* on every day but three kinds: the first of a month in a year that is no  *)
(* leap year is shown as day 0, the three days at the turn of the year may  *)
(* be shown a year or a day off, and the last 200 seconds of a day belong   *)
(* to the next.                                                             *)
DateKept ==
  asked # NoDate /\ ~FirstOfMonth(asked) /\ ~TurnOfYear(asked) /\ ~Late(asked) =>
    /\ <<shown.year, shown.mon, shown.mday>> = <<asked.year, asked.mon, asked.mday>>
    /\ shown.wday = (DayNumber(asked) + 3) % 7
    /\ 3600 * shown.hour + 60 * shown.min + shown.sec = asked.time + 200
=============================================================================
