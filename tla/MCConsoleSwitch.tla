---------------------------- MODULE MCConsoleSwitch ----------------------------
(* Instance of ConsoleSwitch for TLC: three consoles, three shells at most;  *)
(* the keys a, Alt, 0, 1 and 2.                                              *)
EXTENDS ConsoleSwitch

MCShell == 1 .. TaskBound - 1
=============================================================================
