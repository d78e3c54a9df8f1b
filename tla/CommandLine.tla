------------------------------ MODULE CommandLine ------------------------------
(***************************************************************************)
(* LeggiStringa (apps/shell.c): the line of the shell is split into the    *)
(* name of a command and its arguments, the rows of an array of X_BUFF by  *)
(* Y_BUFF characters, one character of the line after another.  The array  *)
(* is flat, as in memory: a column -1 is the last place of the row before. *)
(* No line holds a backspace, for the editor handles every one.            *)
(***************************************************************************)
EXTENDS Integers, SequencesExt, FiniteSetsExt

CONSTANTS
  X_BUFF, Y_BUFF,      (* rows and columns, 10 and 512                      *)
  WordChars,             (* the characters other than space, quote and NUL    *)
  LineBound            (* bound: characters of a line                       *)

ASSUME CommandLineAssumption ==
  X_BUFF \in Nat \ {0} /\ Y_BUFF \in Nat \ {0} /\ LineBound \in Nat

NUL == "NUL"
SP == " "
QUOTE == "quote"
LineChars == WordChars \cup {SP, QUOTE}

ASSUME WordCharsAssumption == WordChars \cap {NUL, SP, QUOTE} = {}

VARIABLES
  Input,       (* the characters read so far                                *)
  Stringa,     (* the array, and the memory before and behind it            *)
  x, y, flag,
  reading      (* the loop is not over                                      *)

line_vars == <<Input, Stringa, x, y, flag, reading>>

(* x and y may each reach the size itself.                                  *)
ArrayPlaces == -1 .. (X_BUFF + 1) * Y_BUFF
CellAt(row, column) == row * Y_BUFF + column

(* shell() clears the array; what lies around it is anything.               *)
LineInit ==
  /\ Input = <<>> /\ x = 0 /\ y = 0 /\ flag = 0 /\ reading = TRUE
  /\ \E around \in {NUL, SP, QUOTE} :
       Stringa = [i \in ArrayPlaces |-> IF i \in 0 .. X_BUFF * Y_BUFF - 1 THEN NUL ELSE around]

(* strspn(Stringa[x], " ") = strlen(Stringa[x]); if spaces fill the memory  *)
(* to the end of the model, its NUL is behind.                              *)
OnlySpaces(s, row) ==
  LET other == {i \in CellAt(row, 0) .. Max(ArrayPlaces) : s[i] # SP}
  IN  other = {} \/ s[Min(other)] = NUL

(* Faulty variant: a space always ends the word.                            *)
EndsWord_always(s, column, quoted) == s[CellAt(x, column)] = SP /\ quoted = 0

EndsWord(s, column, quoted) ==
  s[CellAt(x, column)] = SP /\ ~OnlySpaces(s, x) /\ quoted = 0

(* One iteration of the loop.  A quote is taken back by y--, after which    *)
(* the character before it is looked at again.                              *)
LeggiStringa(c) ==
  /\ reading /\ x <= X_BUFF /\ y <= Y_BUFF
  /\ LET s      == [Stringa EXCEPT ![CellAt(x, y)] = c]
         quoted == IF c = QUOTE THEN 1 - flag ELSE flag
         column == IF c = QUOTE THEN y - 1 ELSE y
     IN  IF s[CellAt(x, column)] = NUL
         THEN reading' = FALSE /\ Stringa' = s /\ UNCHANGED <<x, y>> /\ flag' = quoted
         ELSE /\ flag' = quoted /\ UNCHANGED reading
              /\ IF EndsWord(s, column, quoted)
                 THEN x' = x + 1 /\ y' = 0 /\ Stringa' = [s EXCEPT ![CellAt(x, column)] = NUL]
                 ELSE UNCHANGED x /\ y' = column + 1 /\ Stringa' = s

read_char == \E c \in LineChars :
  Len(Input) < LineBound /\ LeggiStringa(c) /\ Input' = Append(Input, c)

read_end == LeggiStringa(NUL) /\ UNCHANGED Input

(* The loop ends in front of a row or a column that is too far.             *)
read_too_far ==
  /\ reading /\ ~(x <= X_BUFF /\ y <= Y_BUFF)
  /\ reading' = FALSE /\ UNCHANGED <<Input, Stringa, x, y, flag>>

CommandLineNext == read_char \/ read_end \/ read_too_far
CommandLineSpec == LineInit /\ [][CommandLineNext]_line_vars

-----------------------------------------------------------------------------
(* The words of a line: a space outside quotes ends a word that is not only *)
(* spaces, and quotes are left out.                                         *)
Blank(word) == \A i \in DOMAIN word : word[i] = SP

Typed(w, c) ==
  IF c = QUOTE THEN [w EXCEPT !.quoted = ~@]
  ELSE IF c = SP /\ ~w.quoted /\ ~Blank(Last(w.words))
  THEN [w EXCEPT !.words = Append(@, <<>>)]
  ELSE [w EXCEPT !.words[Len(w.words)] = Append(@, c)]

Split(line) == FoldLeft(Typed, [words |-> <<<<>>>>, quoted |-> FALSE], line)

Words == Split(Input).words

(* The quotes that go wrong: at the beginning of a word, where the loop     *)
(* looks in front of the row; and a closing one behind a space.             *)
HarmlessQuotes ==
  \A i \in {k \in DOMAIN Input : Input[k] = QUOTE} :
    LET before == Split(SubSeq(Input, 1, i - 1))
        word   == Last(before.words)
    IN  word # <<>> /\ (before.quoted => Last(word) # SP)

Fits == Len(Words) <= X_BUFF /\ \A k \in DOMAIN Words : Len(Words[k]) < Y_BUFF

WordAt(row) ==
  LET end == Min({i \in CellAt(row, 0) .. Max(ArrayPlaces) : Stringa[i] = NUL})
  IN  [i \in 1 .. end - CellAt(row, 0) |-> Stringa[CellAt(row, i - 1)]]

(* A line whose words fit the array is split into them, with the spaces     *)
(* between quotes and in front of a word kept, and the rows behind the last *)
(* word are empty (shell.c:249-283), but for the quotes that go wrong.      *)
ArgumentsAsTyped ==
  ~reading /\ HarmlessQuotes /\ Fits =>
    \A k \in 1 .. X_BUFF :
      WordAt(k - 1) = IF k <= Len(Words) THEN Words[k] ELSE <<>>
=============================================================================
