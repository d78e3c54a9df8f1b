--------------------------------- MODULE Shell ---------------------------------
(***************************************************************************)
(* The line editor of the shell (apps/shell.c, LeggiDaKeyboard) on the     *)
(* console of Screen: each key is echoed by sys_getche, changes the line   *)
(* in arrays of characters, and the line is drawn again.                   *)
(*                                                                         *)
(* The interrupts are enabled between the two, and a key that changes a    *)
(* led draws the header there; anywhere else between two keys it restores  *)
(* a valid cursor.  A key is a character or the name of its function; the  *)
(* echo of a function key is a glyph.  The console stays on the screen: a  *)
(* switch to another one, and the flush of what was printed while this one *)
(* was hidden, are not here.                                               *)
(***************************************************************************)
EXTENDS Screen

CONSTANTS
  Letter,      (* the characters that are typed, but for '\0' and '\a'      *)
  PROMPT,      (* PROMPT_TEXT, as a sequence of characters                  *)
  HISTORY,     (* lines that can be recalled, 5                             *)
  Welcome,     (* what the kernel prints first, lines and an end of line    *)
  Message,     (* what it prints then, and what commands print              *)
  MaxLen,      (* bound: characters of a line (LINE_MAXLEN is not checked)  *)
  LineBound,   (* bound: lines entered                                      *)
  BootBound    (* bound: messages at start-up                               *)

Moves == {"up", "down", "left", "right"}
Functions == Moves \cup {"bksp", "del", "home", "end", "enter", "tab"}
Typed == Letter \cup {NUL, BEL}
Garbage == "?"               (* what malloc found in the memory             *)

ASSUME ShellAssumption ==
  /\ Letter \subseteq STRING
  /\ Letter \cap (Functions \cup {NUL, BEL, Garbage, "\n", "\t"}) = {}
  /\ PROMPT \in Seq(STRING)
  /\ \A i \in 1 .. Len(PROMPT) : PROMPT[i] \notin {"\n", "\t", NUL, BEL}
  /\ {Welcome} \cup Message \subseteq Seq(STRING)
  /\ \E i, j \in 1 .. Len(Welcome) : i < j /\ Welcome[i] = "\n" /\ Welcome[j] = "\n"
  /\ HISTORY \in Nat \ {0} /\ MaxLen \in Nat /\ LineBound \in Nat /\ BootBound \in Nat
  /\ (Len(PROMPT) + MaxLen) \div SCR_C + 1 < SCR_R - HEADER
  /\ Len(PROMPT) < SCR_C

VARIABLES
  con,          (* the console                                              *)
  pc,           (* boot, prompt, getche, handle, command, undefined         *)
  key,          (* the key that getche returned                             *)
  buffer, tmpBuffer,       (* the line, and a copy of it                    *)
  offs, offs_backup,       (* places of the cursor in the line             *)
  inCrono, history,
  startline,
  booted,       (* messages printed at start-up                             *)
  drawn,        (* history: the line was drawn since its prompt             *)
  entered       (* history: the lines entered that were not empty           *)

shell_vars == <<con, pc, key, buffer, tmpBuffer, offs, offs_backup,
                inCrono, history, startline, booted, drawn, entered>>

Keys == Typed \cup Functions
Echoed(k) == IF k = "enter" THEN "\n" ELSE IF k = "tab" THEN "\t" ELSE k

Places == 0 .. MaxLen
AnyArray == [i \in Places |-> Garbage]

(* tmpBuffer is an array, for edits write its beginning without a NUL.  The *)
(* line is the sequence of its len characters, for nothing after them is    *)
(* read; a NUL that was typed is one of them, and ends the string they are. *)
String(line) ==
  SubSeq(line, 1, CHOOSE n \in 0 .. Len(line) :
                    /\ n < Len(line) => line[n + 1] = NUL
                    /\ \A i \in 1 .. n : line[i] # NUL)
IsString(a) ==
  \E i \in Places : a[i] = NUL /\ \A j \in 0 .. i - 1 : a[j] # Garbage
strlen(a) == CHOOSE i \in Places : a[i] = NUL /\ \A j \in 0 .. i - 1 : a[j] # NUL
StringIn(a) == [i \in 1 .. strlen(a) |-> a[i - 1]]
memcpy(a, text) == [i \in Places |-> IF i < Len(text) THEN text[i + 1] ELSE a[i]]
strcpy(a, text) == memcpy(a, Append(text, NUL))

ShellInit ==
  /\ con = make_console /\ pc = "boot" /\ key = "enter"
  /\ buffer = <<>> /\ tmpBuffer = AnyArray
  /\ offs = 0 /\ offs_backup = 0 /\ inCrono = HISTORY
  /\ history = [i \in 0 .. HISTORY - 1 |-> <<>>]
  /\ startline = 0 /\ booted = 0 /\ drawn = FALSE /\ entered = <<>>

-----------------------------------------------------------------------------
(* The messages of start-up, each a text and then "[Go]".                   *)
boot_message ==
  /\ pc = "boot" /\ booted < BootBound
  /\ \E text \in IF booted = 0 THEN {Welcome} ELSE Message :
       con' = printok(puts(con, text))
  /\ booted' = booted + 1
  /\ UNCHANGED <<pc, key, buffer, tmpBuffer, offs, offs_backup, inCrono,
                 history, startline, drawn, entered>>

(* shell(): the screen is cleared, but not by the first shell of the system,*)
(* which finds the messages of start-up, the header is drawn and the time   *)
(* of the log on is printed.                                                *)
shell_start(init_console) ==
  /\ pc = "boot" /\ init_console = (booted > 0)
  /\ \E text \in Message :
       con' = puts(info_cur_console(IF init_console THEN con ELSE klear(con)), text)
  /\ pc' = "prompt" /\ booted' = 0
  /\ UNCHANGED <<key, buffer, tmpBuffer, offs, offs_backup, inCrono,
                 history, startline, drawn, entered>>

(* The beginning of LeggiDaKeyboard, after Keyboard[0] = '\0'.              *)
prompt ==
  /\ pc = "prompt"
  /\ LET fresh == IF con.x # 0 THEN puts(con, <<"\n">>) ELSE con
         shown == puts(fresh, PROMPT \o <<"\n">>)
         at    == goto_xy(shown, Len(PROMPT), shown.y - 1)
     IN /\ con' = [at EXCEPT !.block = at.pos]
        /\ startline' = at.y
  /\ buffer' = <<>> /\ tmpBuffer' = AnyArray
  /\ offs' = 0 /\ inCrono' = HISTORY
  /\ drawn' = FALSE /\ pc' = "getche"
  /\ UNCHANGED <<key, offs_backup, history, booted, entered>>

(* getche: the key is echoed at the cursor.                                 *)
press(k) ==
  /\ pc = "getche"
  /\ k \in Typed => Len(buffer) < MaxLen
  /\ Len(entered) < LineBound
  /\ key' = k
  /\ con' = echo(con, Echoed(k))
  /\ pc' = IF k = "enter" THEN "done" ELSE "handle"
  /\ UNCHANGED <<buffer, tmpBuffer, offs, offs_backup, inCrono, history,
                 startline, booted, drawn, entered>>

(* A key that changes a led: isr_kbd draws the header.                      *)
led_key ==
  /\ pc \in {"getche", "handle", "prompt"}
  /\ con' = info_cur_console(con)
  /\ UNCHANGED <<pc, key, buffer, tmpBuffer, offs, offs_backup, inCrono,
                 history, startline, booted, drawn, entered>>

-----------------------------------------------------------------------------
(* What the keys do to the line: e holds the variables of LeggiDaKeyboard.  *)
Edited(e) == [e EXCEPT !.inCrono = HISTORY]

insert(e, c) ==
  LET line == SubSeq(e.buffer, 1, e.offs) \o <<c>> \o SubSeq(e.buffer, e.offs + 1, Len(e.buffer))
  IN [e EXCEPT !.tmpBuffer = memcpy(@, line), !.buffer = line, !.offs = @ + 1]

Removed(e, at) ==
  LET line == SubSeq(e.buffer, 1, at) \o SubSeq(e.buffer, at + 2, Len(e.buffer))
  IN [e EXCEPT !.tmpBuffer = memcpy(@, line), !.buffer = line]

backspace(e) ==
  IF e.offs = 0 THEN e ELSE [Removed(e, e.offs - 1) EXCEPT !.offs = @ - 1]

del(e) == IF e.offs >= Len(e.buffer) THEN e ELSE Removed(e, e.offs)

Showing(e, line) == [e EXCEPT !.buffer = line, !.offs = Len(line)]

(* The nearest line of the history that is not empty.                       *)
Older(i) ==
  LET above == {j \in 0 .. i - 1 : history[j] # <<>>}
  IN IF above = {} THEN 0 ELSE CHOOSE j \in above : \A k \in above : k <= j
Newer(i) ==
  LET below == {j \in i + 1 .. HISTORY - 1 : history[j] # <<>>}
  IN IF below = {} THEN HISTORY ELSE CHOOSE j \in below : \A k \in below : j <= k

(* Faulty variant: the line being written is saved at every step up.        *)
Saved_always(e) ==
  [e EXCEPT !.tmpBuffer = strcpy(@, String(e.buffer)), !.offs_backup = e.offs]

Saved(e) ==
  IF e.inCrono = HISTORY
  THEN [e EXCEPT !.tmpBuffer = strcpy(@, String(e.buffer)), !.offs_backup = e.offs]
  ELSE e

arrow_up(e) ==
  LET older == [Saved(e) EXCEPT !.inCrono = Older(@)]
  IN IF history[older.inCrono] = <<>> THEN older ELSE Showing(older, history[older.inCrono])

(* nul: history[HISTORY], past the end of the array, points to a NUL.       *)
arrow_down(e, nul) ==
  LET newer == [e EXCEPT !.inCrono = Newer(@)]
  IN CASE newer.inCrono < HISTORY -> Showing(newer, history[newer.inCrono])
       [] newer.inCrono = HISTORY /\ nul -> newer
       [] OTHER -> [newer EXCEPT !.buffer = StringIn(e.tmpBuffer), !.offs = e.offs_backup]

(* The copy that a step down reads is a string in which the cursor that was *)
(* saved has its place.                                                     *)
Readable(e, nul) ==
  \/ nul \/ Newer(e.inCrono) < HISTORY
  \/ IsString(e.tmpBuffer) /\ e.offs_backup <= strlen(e.tmpBuffer)

Handled(e, k, nul) ==
  CASE k = "up"    -> arrow_up(e)
    [] k = "down"  -> arrow_down(e, nul)
    [] k = "left"  -> IF e.offs = 0 THEN e ELSE [e EXCEPT !.offs = @ - 1]
    [] k = "right" -> IF e.offs = Len(e.buffer) THEN e ELSE [e EXCEPT !.offs = @ + 1]
    [] k = "bksp"  -> Edited(backspace(e))
    [] k = "del"   -> Edited(del(e))
    [] k = "home"  -> Edited([e EXCEPT !.offs = 0])
    [] k = "end"   -> Edited([e EXCEPT !.offs = Len(e.buffer)])
    [] k = "tab"   -> Edited(e)
    [] OTHER       -> Edited(insert(e, k))

righe_occupate(n) == (Len(PROMPT) + n) \div SCR_C + 1

(* Faulty variant: the last row is not cleared.                             *)
ClearRows_short(s, from, n) ==
  [s EXCEPT !.cell = [i \in Cells |->
     IF i \div SCR_C \in from .. from + n - 2 THEN Blank ELSE s.cell[i]]]

ClearRows(s, from, n) ==
  [s EXCEPT !.cell = [i \in Cells |->
     IF i \div SCR_C \in from .. from + n - 1 THEN Blank ELSE s.cell[i]]]

Start(below, n) == below.y - n

(* The end of the loop: room is made for the line, which is drawn again up  *)
(* to a NUL in it.                                                          *)
redraw(line, cursor) ==
  LET n     == righe_occupate(Len(line))
      below == puts(goto_xy(con, 0, startline), [i \in 1 .. n |-> "\n"])
      start == Start(below, n)
      text  == puts(goto_xy(ClearRows(below, start, n), 0, start), PROMPT \o String(line))
      k     == Len(PROMPT) + cursor
  IN /\ con' = goto_xy(text, k % SCR_C, start + k \div SCR_C)
     /\ startline' = start

Editor == [buffer |-> buffer, tmpBuffer |-> tmpBuffer, offs |-> offs,
           offs_backup |-> offs_backup, inCrono |-> inCrono]

(* The key is handled and the line drawn again.                             *)
handle(nul) ==
  /\ pc = "handle"
  /\ key = "down" => Readable(Editor, nul)
  /\ LET e == Handled(Editor, key, nul) IN
       /\ buffer' = e.buffer /\ tmpBuffer' = e.tmpBuffer /\ offs' = e.offs
       /\ offs_backup' = e.offs_backup /\ inCrono' = e.inCrono
       /\ redraw(e.buffer, e.offs)
  /\ drawn' = TRUE /\ pc' = "getche"
  /\ key' = "enter"                (* not read again before the next getche *)
  /\ UNCHANGED <<history, booted, entered>>

(* A step down that reads a copy without end, or that leaves the cursor     *)
(* behind the end of a line which a NUL had cut: nothing is known of the    *)
(* rest.                                                                    *)
handle_undefined ==
  /\ pc = "handle" /\ key = "down" /\ ~Readable(Editor, FALSE)
  /\ pc' = "undefined"
  /\ UNCHANGED <<con, key, buffer, tmpBuffer, offs, offs_backup, inCrono,
                 history, startline, booted, drawn, entered>>

Remembered(line) ==
  [i \in 0 .. HISTORY - 1 |-> IF i = HISTORY - 1 THEN line ELSE history[i + 1]]

(* LeggiDaKeyboard_Done: the line is entered up to a NUL in it.             *)
done ==
  /\ pc = "done"
  /\ LET line == String(buffer) IN
       /\ history' = IF line = <<>> THEN history ELSE Remembered(line)
       /\ entered' = IF line = <<>> THEN entered ELSE Append(entered, line)
       /\ pc' = IF line = <<>> THEN "prompt" ELSE "command"
  /\ tmpBuffer' = AnyArray
  /\ inCrono' = HISTORY /\ offs' = 0 /\ offs_backup' = 0 /\ buffer' = <<>>
  /\ UNCHANGED <<con, key, startline, booted, drawn>>

(* Esegui prints something or clears the screen.                            *)
command ==
  /\ pc = "command"
  /\ \/ \E text \in Message : con' = puts(con, text)
     \/ con' = klear(con)
  /\ pc' = "prompt"
  /\ UNCHANGED <<key, buffer, tmpBuffer, offs, offs_backup, inCrono, history,
                 startline, booted, drawn, entered>>

ShellNext ==
  \/ boot_message
  \/ \E init_console \in BOOLEAN : shell_start(init_console)
  \/ prompt
  \/ \E k \in Keys : press(k)
  \/ led_key
  \/ \E nul \in BOOLEAN : handle(nul)
  \/ handle_undefined
  \/ done
  \/ command

ShellSpec == ShellInit /\ [][ShellNext]_shell_vars

-----------------------------------------------------------------------------
ShellTypeOK ==
  /\ IsConsole(con)
  /\ pc \in {"boot", "prompt", "getche", "handle", "done", "command", "undefined"}
  /\ key \in Keys
  /\ Len(buffer) <= MaxLen /\ offs \in 0 .. Len(buffer)
  /\ inCrono \in 0 .. HISTORY /\ startline \in 0 .. SCR_R - 1

Text == PROMPT \o String(buffer)
CellAt(i) == con.cell[startline * SCR_C + i]

(* What is on the screen is the line: after every key the rows of the line  *)
(* show the prompt and the text up to a NUL in it, then blanks, and the     *)
(* cursor is at its place, wherever the line wrapped or the screen scrolled *)
(* (shell.c:221-236).  Behind a '\a', which takes no column, the text stands *)
(* before its place.                                                        *)
LineShown ==
  pc = "getche" =>
    /\ (\A i \in 1 .. Len(Text) : Text[i] # BEL) =>
         \A i \in 1 .. Len(Text) : CellAt(i - 1) = Text[i]
    /\ drawn => \A i \in Len(Text) .. righe_occupate(Len(buffer)) * SCR_C - 1 :
                  CellAt(i) = Blank
    /\ con.y * SCR_C + con.x = startline * SCR_C + Len(PROMPT) + offs

(* No backspace erases the prompt: the block of the screen stays right      *)
(* after it while the screen scrolls (console.h:36, shell.c:128).           *)
BlockAfterPrompt ==
  /\ pc = "getche" => con.block = startline * SCR_C + Len(PROMPT)
  /\ pc = "handle" => \A i \in 1 .. Len(PROMPT) : CellAt(i - 1) = PROMPT[i]

(* The arrays, offsets and history of LeggiDaKeyboard implement an editor   *)
(* of a line with a cursor.                                                 *)
Editing == pc \in {"getche", "handle", "done"}
Before(line, n) == SubSeq(line, 1, n)
After(line, n) == SubSeq(line, n + 1, Len(line))
Left == IF Editing THEN Before(buffer, offs) ELSE <<>>
Right == IF Editing THEN After(buffer, offs) ELSE <<>>
Browsing == Editing /\ inCrono < HISTORY
Draft == IF Browsing THEN <<StringIn(tmpBuffer), offs_backup>> ELSE <<<<>>, 0>>

Abstract == INSTANCE LineEditor WITH
  Letter <- Typed, NUL <- NUL, Depth <- HISTORY, left <- Left, right <- Right,
  draft <- Draft, browsing <- Browsing, past <- entered

ImplementsLineEditor == Abstract!EditorSpec
=============================================================================
