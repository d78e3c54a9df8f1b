-------------------------------- MODULE Screen --------------------------------
(***************************************************************************)
(* The text screen of one console: kernel/printk.c over the fields x, y,   *)
(* pos_video and block_videomem of struct console_s and the video memory   *)
(* of the console, the echo of sys_getche (kernel/syscall.c) and           *)
(* info_cur_console (driver/console.c).  Colours are left out.             *)
(*                                                                         *)
(* A console is a record: x and y are unsigned words, pos and block count  *)
(* characters from init_video (the code counts two bytes for each), and    *)
(* cell is the video memory.  A write outside it is not seen here.         *)
(***************************************************************************)
EXTENDS Integers, Sequences, SequencesExt

CONSTANTS
  SCR_C, SCR_R,  (* columns and rows of the screen, 80 and 25               *)
  HEADER,        (* rows of the header that never scroll, 2                 *)
  CLOCK,         (* columns of the clock in the header, 13                  *)
  DIM_TAB,       (* width of a tab, 8                                       *)
  WORD           (* values of an unsigned long, 2^32                        *)

ASSUME ScreenAssumption ==
  /\ {SCR_C, SCR_R, HEADER, CLOCK, DIM_TAB, WORD} \subseteq Nat \ {0}
  /\ CLOCK < SCR_C /\ DIM_TAB < SCR_C /\ HEADER = 2 /\ SCR_R > HEADER + 1
  /\ SCR_C * SCR_R < WORD

Cells == 0 .. SCR_C * SCR_R - 1
Blank == " "
NUL == "NUL"                 (* '\0', which ends a string                   *)
BEL == "BEL"                 (* '\a', which prints nothing                  *)
Spaces(n) == [i \in 1 .. n |-> Blank]

(* make_console: an empty screen with the cursor in its corner.             *)
make_console ==
  [x |-> 0, y |-> 0, pos |-> 0, block |-> 0, cell |-> [i \in Cells |-> Blank]]

goto_xy(s, new_x, new_y) ==
  IF new_x \in 0 .. SCR_C - 1 /\ new_y \in 0 .. SCR_R - 1
  THEN [s EXCEPT !.x = new_x, !.y = new_y, !.pos = new_y * SCR_C + new_x]
  ELSE s

clear_line(s, row) ==
  [s EXCEPT !.cell = [i \in Cells |-> IF i \div SCR_C = row THEN Blank ELSE s.cell[i]]]

(* The rows under the header move up, the last one is cleared.              *)
screen_scroll(s) ==
  clear_line(
    [s EXCEPT !.cell = [i \in Cells |->
       IF i \div SCR_C \in HEADER .. SCR_R - 2 THEN s.cell[i + SCR_C] ELSE s.cell[i]]],
    SCR_R - 1)

Write(s, c) ==
  [s EXCEPT !.cell = [i \in Cells |-> IF i = s.pos THEN c ELSE s.cell[i]]]

(* The character itself, with the column it leaves.                         *)
Printed(s, c) ==
  IF c = "\n" THEN [s EXCEPT !.y = @ + 1, !.x = 0]
  ELSE IF c = "\t" THEN [s EXCEPT !.x = @ + DIM_TAB]
  ELSE IF c = BEL THEN s
  ELSE [Write(s, c) EXCEPT !.x = (@ + 1) % WORD]

Wrapped(s) ==
  IF s.x >= SCR_C THEN [s EXCEPT !.y = @ + 1, !.x = 0] ELSE s

(* Faulty variant: block_videomem does not follow the text.                 *)
Scrolled_block_stays(s) ==
  IF s.y >= SCR_R THEN [screen_scroll(s) EXCEPT !.y = SCR_R - 1] ELSE s

Scrolled(s) ==
  IF s.y >= SCR_R
  THEN [screen_scroll(s) EXCEPT !.y = SCR_R - 1, !.block = (@ - SCR_C) % WORD]
  ELSE s

putk(s, c) ==
  LET t == Scrolled(Wrapped(Printed(s, c))) IN goto_xy(t, t.x, t.y)

(* sys_puts on the console of the screen.                                   *)
puts(s, text) == FoldLeft(putk, s, text)

klear(s) ==
  goto_xy([s EXCEPT !.cell = [i \in Cells |->
             IF i \div SCR_C >= HEADER THEN Blank ELSE s.cell[i]]], 0, 2)

(* "[Go]" at the end of the row, or on the next row where it does not fit.  *)
printok(s) ==
  LET len == 3
      at  == IF SCR_C - s.x > len THEN goto_xy(s, SCR_C - len, s.y) ELSE puts(s, <<"\n">>)
  IN puts(at, <<"G", "o", "\n">>)

(* sys_getche erases the character before the cursor, but none before       *)
(* block_videomem.                                                          *)
echo_backspace(s) ==
  IF s.pos = s.block THEN s
  ELSE LET t == [s EXCEPT !.pos = (@ - 1) % WORD, !.x = (@ - 1) % WORD]
           u == IF t.x = 0 THEN [t EXCEPT !.y = @ - 1, !.x = SCR_C] ELSE t
       IN Write(u, Blank)

(* What sys_getche shows of the key it returns: of a NUL, an empty string.  *)
echo(s, key) ==
  IF key = "bksp" THEN echo_backspace(s) ELSE IF key = NUL THEN s ELSE putk(s, key)

(* The header: the consoles in the first row (their text is one character   *)
(* longer than the row), the leds in the second.  The cursor returns to     *)
(* where it was, when that is a position of the screen.                     *)
info_cur_console(s) ==
  LET row0 == puts(goto_xy(s, 0, 0), Spaces(SCR_C))
      tabs == puts(goto_xy(row0, 0, 0), [i \in 1 .. SCR_C + 1 |-> "h"])
      row1 == puts(goto_xy(tabs, 0, 1), Spaces(SCR_C - CLOCK))
      leds == puts(goto_xy(row1, 0, 1), <<"\t", "i">>)
  IN IF s.x = 0 /\ s.y = 0 THEN goto_xy(leds, 0, 2) ELSE goto_xy(leds, s.x, s.y)

-----------------------------------------------------------------------------
(* A console record is well formed.                                         *)
IsConsole(s) ==
  /\ s.x \in 0 .. WORD - 1 /\ s.y \in 0 .. SCR_R - 1
  /\ s.pos \in Cells /\ s.block \in 0 .. WORD - 1
=============================================================================
