------------------------------- MODULE Keyboard -------------------------------
(***************************************************************************)
(* The keyboard of BeWos: isr_kbd of driver/keyboard.c, which turns        *)
(* scancodes into characters of buffer_kbd, and sys_getche of              *)
(* kernel/syscall.c, which enables the keyboard, waits for a flag of       *)
(* isr_kbd and returns the last character of the buffer.                   *)
(*                                                                         *)
(* isr_kbd is one action, for it runs inside an interrupt.  sys_getche     *)
(* runs with the interrupts enabled and is cut wherever one may arrive     *)
(* between two accesses of what it shares with isr_kbd.  A character is    *)
(* its ASCII code; the maps are given for a few keys of each kind.         *)
(***************************************************************************)
EXTENDS Integers

CONSTANTS
  Reader,      (* the tasks that call getche                                *)
  N_CONSOLES,  (* number of consoles, 8 in console.h                        *)
  BUF_SIZE,    (* size of buffer_kbd, 1024 in keyboard.h                    *)
  Scancodes,   (* the scancodes that the keyboard sends                     *)
  Undefined,   (* what conv_scancode_to_char may return for a key without   *)
               (* a character: its return statement has no value            *)
  NpadBound    (* bound: Alt-nnn numbers are typed up to this value         *)

ASSUME KeyboardAssumption ==
  /\ BUF_SIZE \in Nat \ {0} /\ N_CONSOLES \in Nat \ {0} /\ NpadBound \in Nat
  /\ Scancodes \subseteq 0 .. 255 /\ Undefined \subseteq 0 .. 255

VARIABLES
  buffer_kbd,          (* the buffer, and at index -1 the byte before it    *)
  pos_buffer_kbd,      (* where the next character goes                     *)
  active_press_enter, active_press_key,      (* set by isr_kbd              *)
  key,                 (* the last character converted                      *)
  npadch,              (* the number typed with Alt held                    *)
  alt_flag, shift_flag, ext_flag,
  key_leds,            (* console[c].key_leds, as a set of lit leds         *)
  cur_console,         (* number of the console on the screen               *)
  kbd_enabled,         (* interrupt 1 unmasked and bit 7 of port 61 clear   *)
  getche_pc,           (* where each reader is in sys_getche                *)
  typed                (* history: last character stored since the keyboard *)
                       (* was enabled, or None                              *)

kbd_vars == <<buffer_kbd, pos_buffer_kbd, active_press_enter,
              active_press_key, key, npadch, alt_flag, shift_flag, ext_flag,
              key_leds, cur_console, kbd_enabled, getche_pc, typed>>

Consoles == 0 .. N_CONSOLES - 1
Index == -1 .. BUF_SIZE - 1
None == -1
Released(sc) == sc + 128

LSHIFT == 42   ALT == 56   ENTER == 28   BACKSPACE == 14   EXT_FIRSTSTAGE == 224
LedOf == [sc \in {58, 69, 70} |->
            CASE sc = 58 -> "caps" [] sc = 69 -> "num" [] sc = 70 -> "scroll"]

(* key_map, shift_map, pad_map and the extended codes, for some keys: digits,*)
(* a letter, space, F1 (no character), the arrows, Del.                     *)
key_map ==
  [sc \in {2, 3, 11, 30, 57, 59} |->
     CASE sc = 2 -> 49 [] sc = 3 -> 50 [] sc = 11 -> 48 [] sc = 30 -> 97
       [] sc = 57 -> 32 [] sc = 59 -> 0]

shift_map ==
  [sc \in {2, 3, 11, 30, 57, 59} |->
     CASE sc = 2 -> 33 [] sc = 3 -> 34 [] sc = 11 -> 61 [] sc = 30 -> 65
       [] sc = 57 -> 32 [] sc = 59 -> 0]

pad_map ==
  [sc \in {71, 72, 75, 79, 80, 82} |->
     CASE sc = 71 -> 55 [] sc = 72 -> 56 [] sc = 75 -> 52 [] sc = 79 -> 49
       [] sc = 80 -> 50 [] sc = 82 -> 48]

ext_map ==
  [sc \in {72, 80, 77, 75, 83} |->
     CASE sc = 72 -> 24 [] sc = 80 -> 25 [] sc = 77 -> 26 [] sc = 75 -> 27
       [] sc = 83 -> 127]

Digit == 48 .. 57

-----------------------------------------------------------------------------
(* initKBD, after init_consoles.                                            *)
KbdInit ==
  /\ buffer_kbd = [i \in Index |-> 0]
  /\ pos_buffer_kbd = 0
  /\ active_press_enter = FALSE /\ active_press_key = FALSE
  /\ key = 0 /\ npadch = 0
  /\ alt_flag = FALSE /\ shift_flag = FALSE /\ ext_flag = FALSE
  /\ key_leds = [c \in Consoles |-> {"num"}]
  /\ cur_console = 0
  /\ kbd_enabled = FALSE
  /\ getche_pc = [r \in Reader |-> "out"]
  /\ typed = None

(* A full buffer is emptied by the next interrupt, whatever its scancode.   *)
Full == pos_buffer_kbd >= BUF_SIZE
Pos == IF Full THEN 0 ELSE pos_buffer_kbd
fflush == [i \in Index |-> IF i >= 0 /\ Full THEN 0 ELSE buffer_kbd[i]]

Led(l) == l \in key_leds[cur_console]

current_map == IF Led("caps") # shift_flag THEN shift_map ELSE key_map

(* The outcomes of conv_scancode_to_char.                                   *)
conv_scancode_to_char(sc) ==
  IF current_map[sc] = 0 THEN Undefined ELSE {current_map[sc]}

(* Nothing is stored by this interrupt.                                     *)
NoChar ==
  /\ buffer_kbd' = fflush
  /\ pos_buffer_kbd' = Pos
  /\ UNCHANGED <<active_press_enter, active_press_key, typed>>

(* Faulty variant: the position is not advanced.                            *)
StoreKey_in_place(c) ==
  /\ buffer_kbd' = [fflush EXCEPT ![Pos] = c]
  /\ pos_buffer_kbd' = Pos
  /\ active_press_key' = TRUE
  /\ typed' = c
  /\ UNCHANGED active_press_enter

StoreKey(c) ==
  /\ buffer_kbd' = [fflush EXCEPT ![Pos] = c]
  /\ pos_buffer_kbd' = Pos + 1
  /\ active_press_key' = TRUE
  /\ typed' = c
  /\ UNCHANGED active_press_enter

StoreEnter ==
  /\ buffer_kbd' = [fflush EXCEPT ![Pos] = 10]
  /\ pos_buffer_kbd' = Pos + 1
  /\ active_press_enter' = TRUE
  /\ typed' = 10
  /\ UNCHANGED active_press_key

(* Faulty variant: the reader is not told of a backspace.                   *)
StoreBackspace_silent ==
  /\ buffer_kbd' = [fflush EXCEPT ![Pos - 1] = 8]
  /\ pos_buffer_kbd' = Pos
  /\ typed' = 8
  /\ UNCHANGED <<active_press_enter, active_press_key>>

(* A backspace replaces the last character; at position 0 it is written in  *)
(* front of the buffer.                                                     *)
StoreBackspace ==
  /\ buffer_kbd' = [fflush EXCEPT ![Pos - 1] = 8]
  /\ pos_buffer_kbd' = Pos
  /\ active_press_key' = TRUE
  /\ typed' = 8
  /\ UNCHANGED active_press_enter

-----------------------------------------------------------------------------
(* The scancode that follows 224.  A code the switch does not know stores   *)
(* the character of an earlier key.                                         *)
isr_ext(sc) ==
  /\ ext_flag
  /\ ext_flag' = FALSE
  /\ IF sc >= 128
     THEN NoChar /\ UNCHANGED key
     ELSE /\ key' = IF sc \in DOMAIN ext_map THEN ext_map[sc] ELSE key
          /\ StoreKey(key')
  /\ UNCHANGED <<npadch, alt_flag, shift_flag, key_leds>>

isr_first_stage(sc) ==
  /\ sc = EXT_FIRSTSTAGE
  /\ ext_flag' = TRUE
  /\ NoChar
  /\ UNCHANGED <<key, npadch, alt_flag, shift_flag, key_leds>>

isr_shift(sc) ==
  /\ sc \in {LSHIFT, Released(LSHIFT)}
  /\ shift_flag' = (sc = LSHIFT)
  /\ NoChar
  /\ UNCHANGED <<key, npadch, alt_flag, ext_flag, key_leds>>

isr_enter(sc) ==
  /\ sc = ENTER
  /\ StoreEnter
  /\ UNCHANGED <<key, npadch, alt_flag, shift_flag, ext_flag, key_leds>>

isr_backspace(sc) ==
  /\ sc = BACKSPACE
  /\ StoreBackspace
  /\ UNCHANGED <<key, npadch, alt_flag, shift_flag, ext_flag, key_leds>>

isr_alt(sc) ==
  /\ sc = ALT
  /\ alt_flag' = TRUE
  /\ NoChar
  /\ UNCHANGED <<key, npadch, shift_flag, ext_flag, key_leds>>

(* Releasing Alt types the character whose number was entered.              *)
isr_alt_release(sc) ==
  /\ sc = Released(ALT)
  /\ alt_flag' = FALSE
  /\ npadch' = 0
  /\ IF npadch # 0 THEN key' = npadch % 256 /\ StoreKey(key')
                   ELSE NoChar /\ UNCHANGED key
  /\ UNCHANGED <<shift_flag, ext_flag, key_leds>>

isr_led(sc) ==
  /\ sc \in DOMAIN LedOf
  /\ key_leds' = [key_leds EXCEPT ![cur_console] =
                    IF Led(LedOf[sc]) THEN @ \ {LedOf[sc]} ELSE @ \cup {LedOf[sc]}]
  /\ NoChar
  /\ UNCHANGED <<key, npadch, alt_flag, shift_flag, ext_flag>>

(* The numeric pad: nothing without its led, a digit of npadch with Alt.    *)
isr_pad(sc) ==
  /\ sc \in DOMAIN pad_map
  /\ IF Led("num")
     THEN /\ key' = pad_map[sc]
          /\ IF alt_flag
             THEN /\ npadch' = npadch * 10 + (key' - 48)
                  /\ npadch' <= NpadBound
                  /\ NoChar
             ELSE StoreKey(key') /\ UNCHANGED npadch
     ELSE NoChar /\ UNCHANGED <<key, npadch>>
  /\ UNCHANGED <<alt_flag, shift_flag, ext_flag, key_leds>>

(* The other keys; Alt with a digit switches console and stores nothing.    *)
isr_char(sc) ==
  /\ sc \in DOMAIN key_map
  /\ key' \in conv_scancode_to_char(sc)
  /\ IF alt_flag /\ key' \in Digit THEN NoChar ELSE StoreKey(key')
  /\ UNCHANGED <<npadch, alt_flag, shift_flag, ext_flag, key_leds>>

(* Released keys, and acknowledgements of the controller.                   *)
isr_ignored(sc) ==
  /\ sc >= 128
  /\ sc \notin {EXT_FIRSTSTAGE, Released(LSHIFT), Released(ALT)}
  /\ NoChar
  /\ UNCHANGED <<key, npadch, alt_flag, shift_flag, ext_flag, key_leds>>

(* isr_kbd; what it does to cur_console is left to SwitchRequested.         *)
isr_kbd(sc) ==
  /\ kbd_enabled
  /\ \/ isr_ext(sc)
     \/ /\ ~ext_flag
        /\ \/ isr_first_stage(sc) \/ isr_shift(sc) \/ isr_enter(sc)
           \/ isr_backspace(sc) \/ isr_alt(sc) \/ isr_alt_release(sc)
           \/ isr_led(sc) \/ isr_pad(sc) \/ isr_char(sc) \/ isr_ignored(sc)
  /\ UNCHANGED <<kbd_enabled, getche_pc>>

(* This interrupt calls switch_to_console(key - '0').                       *)
SwitchRequested(sc) ==
  ~ext_flag /\ sc \in DOMAIN key_map /\ alt_flag /\ key' \in Digit

-----------------------------------------------------------------------------
GetcheStep(r, from, to) ==
  /\ getche_pc[r] = from
  /\ getche_pc' = [getche_pc EXCEPT ![r] = to]

KeptByGetche == <<buffer_kbd, pos_buffer_kbd, key, npadch, alt_flag,
                  shift_flag, ext_flag, key_leds, cur_console>>

getche_call(r) ==
  /\ GetcheStep(r, "out", "called")
  /\ active_press_enter' = FALSE /\ active_press_key' = FALSE
  /\ UNCHANGED <<kbd_enabled, typed, KeptByGetche>>

(* Faulty variant: the keyboard is not enabled.                             *)
getche_enable_not(r) ==
  /\ GetcheStep(r, "called", "wait")
  /\ typed' = None
  /\ UNCHANGED <<active_press_enter, active_press_key, kbd_enabled, KeptByGetche>>

getche_enable(r) ==
  /\ GetcheStep(r, "called", "wait")
  /\ kbd_enabled' = TRUE
  /\ typed' = None
  /\ UNCHANGED <<active_press_enter, active_press_key, KeptByGetche>>

(* The loop ends when one of the two flags is seen.                         *)
getche_seen(r) ==
  /\ active_press_key \/ active_press_enter
  /\ GetcheStep(r, "wait", "seen")
  /\ UNCHANGED <<active_press_enter, active_press_key, kbd_enabled, typed,
                 KeptByGetche>>

getche_disable(r) ==
  /\ GetcheStep(r, "seen", "disabled")
  /\ kbd_enabled' = FALSE
  /\ UNCHANGED <<active_press_enter, active_press_key, typed, KeptByGetche>>

getche_reset(r) ==
  /\ GetcheStep(r, "disabled", "read")
  /\ active_press_enter' = FALSE /\ active_press_key' = FALSE
  /\ UNCHANGED <<kbd_enabled, typed, KeptByGetche>>

(* What sys_getche echoes and returns.                                      *)
GetcheChar == buffer_kbd[pos_buffer_kbd - 1]

getche_return(r) ==
  /\ GetcheStep(r, "read", "out")
  /\ UNCHANGED <<active_press_enter, active_press_key, kbd_enabled, typed,
                 KeptByGetche>>

sys_getche(r) ==
  \/ getche_call(r) \/ getche_enable(r) \/ getche_seen(r)
  \/ getche_disable(r) \/ getche_reset(r) \/ getche_return(r)

-----------------------------------------------------------------------------
(* The keyboard alone.  Switching is reduced to the console it selects.     *)
kbd_irq ==
  \E sc \in Scancodes :
    /\ isr_kbd(sc)
    /\ cur_console' = IF SwitchRequested(sc) /\ key' - 48 \in Consoles
                      THEN key' - 48 ELSE cur_console

KbdNext == kbd_irq \/ \E r \in Reader : sys_getche(r)

KbdSpec == KbdInit /\ [][KbdNext]_kbd_vars

(* A reader that is inside sys_getche goes on executing.                    *)
KbdFairSpec ==
  KbdSpec /\ \A r \in Reader : WF_kbd_vars(getche_pc[r] # "out" /\ sys_getche(r))

-----------------------------------------------------------------------------
KbdTypeOK ==
  /\ buffer_kbd \in [Index -> 0 .. 255]
  /\ pos_buffer_kbd \in 0 .. BUF_SIZE
  /\ active_press_enter \in BOOLEAN /\ active_press_key \in BOOLEAN
  /\ key \in 0 .. 255 /\ npadch \in 0 .. NpadBound
  /\ alt_flag \in BOOLEAN /\ shift_flag \in BOOLEAN /\ ext_flag \in BOOLEAN
  /\ key_leds \in [Consoles -> SUBSET {"caps", "num", "scroll"}]
  /\ cur_console \in Consoles /\ kbd_enabled \in BOOLEAN
  /\ getche_pc \in [Reader -> {"out", "called", "wait", "seen", "disabled", "read"}]
  /\ typed \in {None} \cup 0 .. 255

(* When sys_getche reads the buffer, the character at pos - 1 is the last   *)
(* one typed since it enabled the keyboard, however many keys came between  *)
(* the flag and disabilita_kbd, and also when a backspace was written in    *)
(* front of the buffer.  The exception is a full buffer emptied by a later  *)
(* interrupt of the same call (syscall.c:172-213, keyboard.c:131).          *)
ReadsTypedKey ==
  \A r \in Reader :
    getche_pc[r] = "read" =>
      /\ typed # None
      /\ \/ GetcheChar = typed
         \/ pos_buffer_kbd = 0 /\ \A i \in 0 .. BUF_SIZE - 1 : buffer_kbd[i] = 0

(* Every key stored for a waiting reader makes its sys_getche return,       *)
(* whichever of the two flags the key sets (keyboard.c:192, 234, 245, 368). *)
KeyEndsGetche ==
  \A r \in Reader :
    (getche_pc[r] = "wait" /\ typed # None) ~> (getche_pc[r] = "out")
=============================================================================
