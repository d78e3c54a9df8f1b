----------------------------- MODULE ConsoleOutput -----------------------------
(***************************************************************************)
(* The output of a task whose console is not on the screen: sys_puts of    *)
(* kernel/syscall.c appends it to buffer_temp of the console, and          *)
(* switch_to_console of driver/console.c prints the buffer when the        *)
(* console comes back.  Both run with the interrupts disabled: a switch is *)
(* one action, and nothing else happens between the steps of sys_puts, one *)
(* for each turn of its loop.                                              *)
(*                                                                         *)
(* One task prints on each console.  Its characters are numbered from 1    *)
(* since its console left the screen, so the model sees which of them are  *)
(* kept and in which order; 0 is the terminating NUL.                      *)
(***************************************************************************)
EXTENDS Naturals

CONSTANTS
  N_CONSOLES,   (* number of consoles, 8 in console.h                       *)
  TEMP_SIZE,    (* size of buffer_temp, SCR_C * SCR_R = 2000                *)
  PutsLen,      (* the lengths of the strings given to puts                 *)
  OutBound      (* bound: characters printed while a console is away        *)

ASSUME OutputAssumption ==
  /\ N_CONSOLES \in Nat \ {0} /\ TEMP_SIZE \in Nat \ {0}
  /\ PutsLen \subseteq Nat /\ OutBound \in Nat

VARIABLES
  cur_console,    (* the console on the screen                               *)
  buffer_temp,    (* console[c].buffer_temp, and in cell TEMP_SIZE the byte  *)
                  (* behind it: padding, index_buffer is two bytes further   *)
  index_buffer,   (* console[c].index_buffer                                 *)
  putting,        (* the console whose task is inside sys_puts, or NoConsole *)
  puts_i,         (* there, the local i                                     *)
  puts_left,      (* and the characters of *s that are left                  *)
  printed         (* history: characters printed since c left the screen     *)

out_vars == <<cur_console, buffer_temp, index_buffer, putting, puts_i, puts_left, printed>>

Consoles == 0 .. N_CONSOLES - 1
Cells == 0 .. TEMP_SIZE

(* memset of the whole buffer, which the padding is no part of.             *)
Cleared(b) == [i \in Cells |-> IF i < TEMP_SIZE THEN 0 ELSE b[i]]

(* No console has this number.                                              *)
NoConsole == N_CONSOLES

(* init_consoles: make_console for every console, console 0 on the screen;  *)
(* nothing is said of the padding.                                          *)
OutInit ==
  /\ cur_console = 0
  /\ \E pad \in {0, 1} : buffer_temp = [c \in Consoles |-> Cleared([i \in Cells |-> pad])]
  /\ index_buffer = [c \in Consoles |-> 0]
  /\ putting = NoConsole /\ puts_i = 0 /\ puts_left = 0
  /\ printed = [c \in Consoles |-> 0]

(* sys_puts of n characters by the task of console c, which is not on the   *)
(* screen.  The interrupts are disabled from here to sys_puts_return.       *)
sys_puts_call(c, n) ==
  /\ putting = NoConsole /\ c # cur_console
  /\ printed[c] + n <= OutBound
  /\ putting' = c /\ puts_i' = index_buffer[c] /\ puts_left' = n
  /\ UNCHANGED <<cur_console, buffer_temp, index_buffer, printed>>

(* One character: it is stored, or, finding the buffer full, dropped, and   *)
(* the next one goes to the beginning.  What is cleared then is the buffer  *)
(* of the console on the screen.                                            *)
sys_puts_char ==
  /\ puts_left > 0 /\ puts_left' = puts_left - 1
  /\ printed' = [printed EXCEPT ![putting] = @ + 1]
  /\ IF puts_i >= TEMP_SIZE
       THEN /\ buffer_temp' = [buffer_temp EXCEPT ![cur_console] = Cleared(@)]
            /\ index_buffer' = [index_buffer EXCEPT ![cur_console] = 0]
            /\ puts_i' = 0
       ELSE /\ buffer_temp' = [buffer_temp EXCEPT ![putting][puts_i] = printed'[putting]]
            /\ puts_i' = puts_i + 1 /\ UNCHANGED index_buffer
  /\ UNCHANGED <<cur_console, putting>>

(* Faulty variant: the string is not terminated.                            *)
Terminated_not(b) == b

(* The NUL after the last character, of a full buffer in the padding.       *)
Terminated(b) == [b EXCEPT ![puts_i] = 0]

sys_puts_return ==
  /\ putting # NoConsole /\ puts_left = 0
  /\ buffer_temp' = [buffer_temp EXCEPT ![putting] = Terminated(@)]
  /\ index_buffer' = [index_buffer EXCEPT ![putting] = puts_i]
  /\ putting' = NoConsole /\ puts_i' = 0
  /\ UNCHANGED <<cur_console, puts_left, printed>>

(* sys_puts by the task of the console on the screen prints at once, through*)
(* putk; nothing of it is buffered.                                         *)
sys_puts_screen == UNCHANGED out_vars

(* switch_to_console prints the buffer up to the first NUL and empties it.  *)
switch_flush(n) ==
  /\ putting = NoConsole /\ n # cur_console
  /\ cur_console' = n
  /\ buffer_temp' = [buffer_temp EXCEPT ![n] = Cleared(@)]
  /\ index_buffer' = [index_buffer EXCEPT ![n] = 0]
  /\ printed' = [printed EXCEPT ![n] = 0]
  /\ UNCHANGED <<putting, puts_i, puts_left>>

OutNext ==
  \/ \E c \in Consoles, n \in PutsLen : sys_puts_call(c, n)
  \/ sys_puts_char \/ sys_puts_return
  \/ sys_puts_screen
  \/ \E n \in Consoles : switch_flush(n)

OutSpec == OutInit /\ [][OutNext]_out_vars

-----------------------------------------------------------------------------
(* What a switch to console c prints: the characters before the first NUL.  *)
Shown(c, i) == \A j \in 0 .. i : buffer_temp[c][j] # 0

(* The loop of switch_to_console over the buffer (console.c:152) ends inside*)
(* the buffer or at the byte after it.                                      *)
FlushEnds == \A c \in Consoles : \E i \in Cells : buffer_temp[c][i] = 0

(* However often the buffer fills and starts again, what a switch prints is *)
(* in the order of the task's output: no old text after newer text          *)
(* (syscall.c:245-263).                                                     *)
FlushInOrder ==
  \A c \in Consoles : \A i, j \in 0 .. TEMP_SIZE - 1 :
    i < j /\ Shown(c, j) => buffer_temp[c][i] < buffer_temp[c][j]

(* Output that fits the buffer is kept whole until its console comes back.  *)
KeptWhileItFits ==
  \A c \in Consoles :
    c # cur_console /\ printed[c] <= TEMP_SIZE =>
      \A i \in 0 .. printed[c] - 1 : buffer_temp[c][i] = i + 1

(* The buffer of the console on the screen is empty, which makes the        *)
(* memset of cur_console's buffer by another console's task harmless        *)
(* (syscall.c:251) and keeps the task's direct output after the buffered one.*)
ScreenHasNoBacklog ==
  /\ \A i \in 0 .. TEMP_SIZE - 1 : buffer_temp[cur_console][i] = 0
  /\ index_buffer[cur_console] = 0

(* What a switch shows of a console that was away is its output: it ends,   *)
(* it is in order, all of it while it fits, and nothing is left over for    *)
(* the next time, for any lengths of strings and any order of switches      *)
(* (syscall.c:245-266, console.c:147-158).                                  *)
FlushFaithful ==
  putting = NoConsole =>
    FlushEnds /\ FlushInOrder /\ KeptWhileItFits /\ ScreenHasNoBacklog
=============================================================================
