--------------------------------- MODULE MCShell ---------------------------------
(* Instance of Shell for TLC: three rows of text, in which a line of one      *)
(* character fills its row, one of two wraps, and commands make it scroll.    *)
EXTENDS Shell

MCPrompt == <<"B", ">">>
MCWelcome == <<"o", "\n", "\n", "\t", "o">>
MCMessage == {<<"o", "\n", "\t", "o">>}
=============================================================================
