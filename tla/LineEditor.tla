------------------------------ MODULE LineEditor ------------------------------
(***************************************************************************)
(* What the line editor of the shell promises: a line with a cursor, kept  *)
(* as the text on its two sides, and the recall of the last lines entered. *)
(* While a recalled line is shown (browsing), going down gives a recalled  *)
(* line or the draft that was being written, as it was left.  A NUL is a   *)
(* character of the line, but a line is stored only up to its first NUL.   *)
(***************************************************************************)
EXTENDS Sequences, Integers

CONSTANTS Letter, NUL, Depth (* Depth: how many lines can be recalled        *)

VARIABLES left, right, draft, browsing, past

editor_vars == <<left, right, draft, browsing, past>>

Line == left \o right
Stored(line) ==
  SubSeq(line, 1, CHOOSE n \in 0 .. Len(line) :
                    /\ n < Len(line) => line[n + 1] = NUL
                    /\ \A i \in 1 .. n : line[i] # NUL)

(* A draft is a text and the place of the cursor in it.                     *)
NoDraft == <<<<>>, 0>>
Recent == {past[i] : i \in {j \in 1 .. Len(past) : j > Len(past) - Depth}}

EditorInit ==
  /\ left = <<>> /\ right = <<>> /\ draft = NoDraft
  /\ browsing = FALSE /\ past = <<>>

(* A key that edits the line, or moves to an end of it, makes a recalled    *)
(* line the one being written.                                              *)
Written == browsing' = FALSE /\ draft' = NoDraft /\ UNCHANGED past

Type(c)   == left' = Append(left, c) /\ UNCHANGED right /\ Written
Backspace == /\ left # <<>> /\ left' = SubSeq(left, 1, Len(left) - 1)
             /\ UNCHANGED right /\ Written
Delete    == right # <<>> /\ right' = Tail(right) /\ UNCHANGED left /\ Written
Home      == left' = <<>> /\ right' = Line /\ Written
End       == left' = Line /\ right' = <<>> /\ Written
Ignored   == UNCHANGED <<left, right>> /\ Written

MoveLeft ==
  /\ left # <<>>
  /\ left' = SubSeq(left, 1, Len(left) - 1)
  /\ right' = <<left[Len(left)]>> \o right
  /\ UNCHANGED <<draft, browsing, past>>
MoveRight ==
  /\ right # <<>>
  /\ left' = Append(left, Head(right)) /\ right' = Tail(right)
  /\ UNCHANGED <<draft, browsing, past>>

(* Up and down through the last lines.  The first step up leaves the draft. *)
Recall ==
  /\ \E line \in Recent \cup {Line} :
       \/ line = Line /\ UNCHANGED <<left, right>>
       \/ left' = line /\ right' = <<>>
  /\ browsing' = TRUE
  /\ draft' = IF browsing THEN draft ELSE <<Stored(Line), Len(left)>>
  /\ UNCHANGED past

(* Down from the most recent line: back to the draft, or the recalled line  *)
(* is kept as the one being written.  Of a draft that was stored up to a    *)
(* NUL in front of its cursor nothing is promised.                          *)
Restore ==
  /\ browsing
  /\ \/ draft[2] <= Len(draft[1]) =>
          /\ left' = SubSeq(draft[1], 1, draft[2])
          /\ right' = SubSeq(draft[1], draft[2] + 1, Len(draft[1]))
     \/ UNCHANGED <<left, right>>
  /\ Written

(* Down with no recalled line shown promises nothing of the line.           *)
Unspecified == ~browsing /\ Written

Enter ==
  /\ left' = <<>> /\ right' = <<>>
  /\ past' = IF Stored(Line) = <<>> THEN past ELSE Append(past, Stored(Line))
  /\ browsing' = FALSE /\ draft' = NoDraft

EditorNext ==
  \/ \E c \in Letter : Type(c)
  \/ Backspace \/ Delete \/ Home \/ End \/ Ignored
  \/ MoveLeft \/ MoveRight \/ Recall \/ Restore \/ Unspecified \/ Enter

EditorSpec == EditorInit /\ [][EditorNext]_editor_vars
=============================================================================
