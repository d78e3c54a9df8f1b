-------------------------------- MODULE MCParts --------------------------------
(***************************************************************************)
(* Instance for TLC of the parts that share no variable with another       *)
(* module: the string functions, the calendar, the texts of the clock,     *)
(* strftime, the command line, the output of hidden consoles and the       *)
(* virtual floppy.  Each behaviour is one of one part, the others stay at  *)
(* their beginning.                                                        *)
(***************************************************************************)
EXTENDS CString, Calendar, ClockText, Strftime, CommandLine, ConsoleOutput, VFloppy

VARIABLE part

(* Two seconds around an hour, and two dates: one short text, one long.     *)
MCInstant ==
  <<[sec |-> 9, min |-> 59, hour |-> 9, wday |-> 1, mday |-> 30, mon |-> 11, year |-> 2005],
    [sec |-> 10, min |-> 0, hour |-> 10, wday |-> 2, mday |-> 31, mon |-> 11, year |-> 2005]>>
MCNumbers == {0, 7, -42, 123456, 1000000}
MCTm ==
  {[wday |-> 3, mon |-> 8, mday |-> 9, hour |-> 9, min |-> 5, sec |-> 0, year |-> 99, yday |-> 7],
   [wday |-> 0, mon |-> 0, mday |-> 31, hour |-> 23, min |-> 59, sec |-> 59, year |-> 105,
    yday |-> 365],
   [wday |-> 1, mon |-> 12, mday |-> 1, hour |-> 12, min |-> 30, sec |-> 7, year |-> 104,
    yday |-> 366]}

(* The strings, strftime, the line and the output have several initial      *)
(* states; where they only stay at their beginning it is one, for the       *)
(* strings a memory with no string in it.                                   *)
PartsInit ==
  /\ part \in {"strings", "calendar", "clock", "strftime", "line", "output", "floppy"}
  /\ CalendarInit /\ TextInit /\ OutInit /\ VFloppyInit
  /\ CStringInit /\ (part # "strings" => \A cell \in Cell : mem[cell] = 65)
  /\ StrftimeInit /\ (part # "strftime" => BufferLen = 20 /\ tm.wday = 0)
  /\ LineInit /\ (part # "line" => Stringa[-1] = NUL)
  /\ (part # "output" => buffer_temp[0][TEMP_SIZE] = 0)

PartsNext ==
  \/ /\ part = "strings" /\ CStringNext
     /\ UNCHANGED <<part, calendar_vars, text_vars, strftime_vars, line_vars, out_vars,
                    vfloppy_vars>>
  \/ /\ part = "calendar" /\ CalendarNext
     /\ UNCHANGED <<part, cstring_vars, text_vars, strftime_vars, line_vars, out_vars,
                    vfloppy_vars>>
  \/ /\ part = "clock" /\ TextNext
     /\ UNCHANGED <<part, cstring_vars, calendar_vars, strftime_vars, line_vars, out_vars,
                    vfloppy_vars>>
  \/ /\ part = "strftime" /\ StrftimeNext
     /\ UNCHANGED <<part, cstring_vars, calendar_vars, text_vars, line_vars, out_vars,
                    vfloppy_vars>>
  \/ /\ part = "line" /\ CommandLineNext
     /\ UNCHANGED <<part, cstring_vars, calendar_vars, text_vars, strftime_vars, out_vars,
                    vfloppy_vars>>
  \/ /\ part = "output" /\ OutNext
     /\ UNCHANGED <<part, cstring_vars, calendar_vars, text_vars, strftime_vars, line_vars,
                    vfloppy_vars>>
  \/ /\ part = "floppy" /\ VFloppyNext
     /\ UNCHANGED <<part, cstring_vars, calendar_vars, text_vars, strftime_vars, line_vars,
                    out_vars>>

PartsSpec ==
  PartsInit /\ [][PartsNext]_<<part, cstring_vars, calendar_vars, text_vars, strftime_vars,
                                line_vars, out_vars, vfloppy_vars>>
=============================================================================
