------------------------------ MODULE MCKeyboard ------------------------------
(* Instance of Keyboard for TLC: one shell reads, a buffer of two places.    *)
EXTENDS Keyboard

(* Keys of every kind: 1 and a, F1, Enter, Backspace, Shift, Alt, a led, a   *)
(* pad digit (with 224 the upper arrow), 224 and a release.                  *)
MCScancodes == {2, 30, 59, 28, 14, 42, 170, 56, 184, 69, 72, 224, 158}
=============================================================================
