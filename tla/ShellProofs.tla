------------------------------- MODULE ShellProofs -------------------------------
(***************************************************************************)
(* Proofs about the shell (module Shell): what the keys do to the line is  *)
(* an editor of a line with a cursor (module LineEditor), and what is on   *)
(* the screen is the prompt and that line, with the block at its cursor.   *)
(***************************************************************************)
EXTENDS Shell, SequenceLemmas, FiniteSetTheorems

(* The line editor of the shell (Shell) implements LineEditor.              *)

(* The lines that fit a buffer, and the arrays they are copied to.          *)
Lines == {s \in Seq(Typed) : Len(s) <= MaxLen}
Arrays == [Places -> Typed \cup {Garbage}]

(* The type of what the editor changes.                                     *)
EditorTypeOK ==
  /\ pc \in {"boot", "prompt", "getche", "handle", "done", "command", "undefined"}
  /\ key \in Keys
  /\ buffer \in Lines /\ offs \in 0 .. Len(buffer)
  /\ tmpBuffer \in Arrays /\ offs_backup \in 0 .. MaxLen
  /\ inCrono \in 0 .. HISTORY
  /\ history \in [0 .. HISTORY - 1 -> Lines]
  /\ entered \in Seq(Lines)

(* A letter comes only while there is room for it, and Enter is not handled.*)
KeyToHandle ==
  pc = "handle" => key # "enter" /\ (key \in Typed => Len(buffer) < MaxLen)

(* While a recalled line is shown the copy is a string.                     *)
DraftKept == Browsing => IsString(tmpBuffer)

(* The history holds the last lines entered.                                *)
HistoryKept ==
  \A j \in 0 .. HISTORY - 1 :
    history[j] = IF Len(entered) >= HISTORY - j
                 THEN entered[Len(entered) - (HISTORY - j) + 1] ELSE <<>>

EditorInv == EditorTypeOK /\ KeyToHandle /\ DraftKept /\ HistoryKept

-----------------------------------------------------------------------------
(* The two sides of a cursor.                                               *)
LEMMA Sides ==
  ASSUME NEW S, NEW b \in Seq(S), NEW n \in 0 .. Len(b)
  PROVE  /\ Before(b, n) \in Seq(S) /\ Len(Before(b, n)) = n
         /\ \A i \in 1 .. n : Before(b, n)[i] = b[i]
         /\ After(b, n) \in Seq(S) /\ Len(After(b, n)) = Len(b) - n
         /\ \A i \in 1 .. Len(b) - n : After(b, n)[i] = b[n + i]
<1>1. Len(b) \in Nat /\ \A i \in 1 .. Len(b) : b[i] \in S
  BY ElementOfSeq, LenProperties
<1>2. /\ SubSeq(b, 1, n) \in Seq(S) /\ Len(SubSeq(b, 1, n)) = n
      /\ \A i \in 1 .. n : SubSeq(b, 1, n)[i] = b[i]
  <2>1. \A i \in 1 .. n : b[i] \in S
    BY <1>1
  <2>2. /\ SubSeq(b, 1, n) \in Seq(S)
        /\ Len(SubSeq(b, 1, n)) = IF 1 <= n THEN n - 1 + 1 ELSE 0
        /\ \A i \in 1 .. n - 1 + 1 : SubSeq(b, 1, n)[i] = b[1 + i - 1]
    BY <2>1, SubSeqProperties
  <2> QED
    BY <1>1, <2>2
<1>3. /\ SubSeq(b, n + 1, Len(b)) \in Seq(S) /\ Len(SubSeq(b, n + 1, Len(b))) = Len(b) - n
      /\ \A i \in 1 .. Len(b) - n : SubSeq(b, n + 1, Len(b))[i] = b[n + i]
  <2>1. \A i \in n + 1 .. Len(b) : b[i] \in S
    BY <1>1
  <2>2. n + 1 \in Int /\ Len(b) \in Int
    BY <1>1
  <2>3. /\ SubSeq(b, n + 1, Len(b)) \in Seq(S)
        /\ Len(SubSeq(b, n + 1, Len(b))) = IF n + 1 <= Len(b) THEN Len(b) - (n + 1) + 1 ELSE 0
        /\ \A i \in 1 .. Len(b) - (n + 1) + 1 :
             SubSeq(b, n + 1, Len(b))[i] = b[n + 1 + i - 1]
    BY <2>1, <2>2, SubSeqProperties
  <2> QED
    BY <1>1, <2>3
<1> QED
  BY <1>2, <1>3 DEF Before, After

(* All of a line is on one side of an end of it, and the two sides are the  *)
(* line.                                                                    *)
LEMMA BothEnds ==
  ASSUME NEW S, NEW b \in Seq(S)
  PROVE  /\ Before(b, 0) = <<>> /\ After(b, 0) = b
         /\ Before(b, Len(b)) = b /\ After(b, Len(b)) = <<>>
         /\ \A n \in 0 .. Len(b) : Before(b, n) \o After(b, n) = b
<1>1. Len(b) \in Nat
  BY LenProperties
<1>2. SubSeq(b, 1, Len(b)) = b
  BY SubSeqFull
<1>3. SubSeq(b, 1, 0) = <<>> /\ SubSeq(b, Len(b) + 1, Len(b)) = <<>>
  BY <1>1, SubSeqEmpty
<1>4. ASSUME NEW n \in 0 .. Len(b)
      PROVE  Before(b, n) \o After(b, n) = b
  <2>1. 1 \in 1 .. Len(b) + 1 /\ n \in 1 - 1 .. Len(b) /\ Len(b) \in n .. Len(b)
    BY <1>1
  <2>2. SubSeq(b, 1, n) \o SubSeq(b, n + 1, Len(b)) = SubSeq(b, 1, Len(b))
    BY <2>1, ConcatAdjacentSubSeq
  <2> QED
    BY <1>2, <2>2 DEF Before, After
<1>5. Before(b, 0) = <<>> /\ Before(b, Len(b)) = b /\ After(b, Len(b)) = <<>>
  BY <1>2, <1>3 DEF Before, After
<1>6. After(b, 0) = b
  <2>1. 0 + 1 = 1
    OBVIOUS
  <2> QED
    BY <1>2, <2>1 DEF After
<1> QED
  BY <1>4, <1>5, <1>6

(* Two texts put together, and the cursor between them.                     *)
LEMMA Joined ==
  ASSUME NEW S, NEW s \in Seq(S), NEW t \in Seq(S)
  PROVE  /\ s \o t \in Seq(S) /\ Len(s \o t) = Len(s) + Len(t)
         /\ Before(s \o t, Len(s)) = s /\ After(s \o t, Len(s)) = t
<1>1. Len(s) \in Nat /\ Len(t) \in Nat
  BY LenProperties
<1>2. /\ s \o t \in Seq(S) /\ Len(s \o t) = Len(s) + Len(t)
      /\ \A i \in 1 .. Len(s) + Len(t) :
           (s \o t)[i] = IF i <= Len(s) THEN s[i] ELSE t[i - Len(s)]
  BY ConcatProperties
<1> DEFINE u == s \o t
           f == Before(u, Len(s))
           g == After(u, Len(s))
<1>3. Len(s) \in 0 .. Len(u) /\ u \in Seq(S)
  BY <1>1, <1>2
<1>4. /\ f \in Seq(S) /\ Len(f) = Len(s) /\ \A i \in 1 .. Len(s) : f[i] = u[i]
      /\ g \in Seq(S) /\ Len(g) = Len(u) - Len(s)
      /\ \A i \in 1 .. Len(u) - Len(s) : g[i] = u[Len(s) + i]
  <2> HIDE DEF u
  <2> QED
    BY <1>3, Sides
<1>5. Len(u) - Len(s) = Len(t) /\ \A i \in 1 .. Len(s) : u[i] = s[i]
  BY <1>1, <1>2
<1>6. \A i \in 1 .. Len(t) : u[Len(s) + i] = t[i]
  <2> TAKE i \in 1 .. Len(t)
  <2>1. /\ Len(s) + i \in 1 .. Len(s) + Len(t) /\ ~(Len(s) + i <= Len(s))
        /\ Len(s) + i - Len(s) = i
    BY <1>1
  <2> QED
    BY <1>2, <2>1
<1> HIDE DEF u, f, g
<1>7. f = s
  BY <1>4, <1>5, SeqEqual
<1>8. g = t
  <2>1. Len(g) = Len(t) /\ \A i \in 1 .. Len(g) : g[i] = t[i]
    BY <1>4, <1>5, <1>6
  <2> QED
    BY <1>4, <2>1, SeqEqual
<1> QED
  BY <1>2, <1>7, <1>8 DEF u, f, g

(* A character typed comes before the cursor.                               *)
LEMMA Inserted ==
  ASSUME NEW S, NEW b \in Seq(S), NEW n \in 0 .. Len(b), NEW c \in S
  PROVE  LET line == SubSeq(b, 1, n) \o <<c>> \o SubSeq(b, n + 1, Len(b))
         IN /\ line \in Seq(S) /\ Len(line) = Len(b) + 1
            /\ Before(line, n + 1) = Append(Before(b, n), c)
            /\ After(line, n + 1) = After(b, n)
<1> DEFINE s == Before(b, n)
           t == After(b, n)
<1>1. Len(b) \in Nat /\ s \in Seq(S) /\ Len(s) = n /\ t \in Seq(S) /\ Len(t) = Len(b) - n
  BY Sides, LenProperties
<1>2. SubSeq(b, 1, n) = s /\ SubSeq(b, n + 1, Len(b)) = t
  BY DEF Before, After
<1> HIDE DEF s, t
<1>3. Append(s, c) = s \o <<c>> /\ Append(s, c) \in Seq(S) /\ Len(Append(s, c)) = n + 1
  BY <1>1, AppendIsConcat, AppendProperties
<1> DEFINE u == Append(s, c)
<1>4. u \in Seq(S) /\ Len(u) = n + 1
  BY <1>3
<1> HIDE DEF u
<1>5. /\ u \o t \in Seq(S) /\ Len(u \o t) = Len(b) + 1
      /\ Before(u \o t, n + 1) = u /\ After(u \o t, n + 1) = t
  <2>1. /\ u \o t \in Seq(S) /\ Len(u \o t) = Len(u) + Len(t)
        /\ Before(u \o t, Len(u)) = u /\ After(u \o t, Len(u)) = t
    BY <1>1, <1>4, Joined
  <2> QED
    BY <1>1, <1>4, <2>1
<1>6. SubSeq(b, 1, n) \o <<c>> \o SubSeq(b, n + 1, Len(b)) = u \o t
  BY <1>2, <1>3 DEF u
<1> QED
  BY <1>5, <1>6 DEF s, t, u

(* One that is removed leaves the text on both sides of it.                 *)
LEMMA RemovedAt ==
  ASSUME NEW S, NEW b \in Seq(S), NEW n \in 0 .. Len(b) - 1
  PROVE  LET line == SubSeq(b, 1, n) \o SubSeq(b, n + 2, Len(b))
         IN /\ line \in Seq(S) /\ Len(line) = Len(b) - 1
            /\ Before(line, n) = Before(b, n)
            /\ After(line, n) = After(b, n + 1)
<1>1. Len(b) \in Nat /\ n \in 0 .. Len(b) /\ n + 1 \in 0 .. Len(b) /\ n + 1 + 1 = n + 2
  BY LenProperties
<1> DEFINE s == Before(b, n)
           t == After(b, n + 1)
<1>2. s \in Seq(S) /\ Len(s) = n
  BY <1>1, Sides
<1>3. t \in Seq(S) /\ Len(t) = Len(b) - (n + 1)
  BY <1>1, Sides
<1>4. SubSeq(b, 1, n) = s /\ SubSeq(b, n + 2, Len(b)) = t
  BY <1>1 DEF Before, After
<1> HIDE DEF s, t
<1>5. /\ s \o t \in Seq(S) /\ Len(s \o t) = Len(s) + Len(t)
      /\ Before(s \o t, Len(s)) = s /\ After(s \o t, Len(s)) = t
  BY <1>2, <1>3, Joined
<1>6. Len(s) + Len(t) = Len(b) - 1
  BY <1>1, <1>2, <1>3
<1> QED
  BY <1>2, <1>4, <1>5, <1>6 DEF s, t

(* A cursor that moves takes one character from one side to the other.      *)
LEMMA OneLess ==
  ASSUME NEW S, NEW b \in Seq(S), NEW n \in 0 .. Len(b) - 1
  PROVE  /\ Before(b, n) = SubSeq(Before(b, n + 1), 1, n)
         /\ Before(b, n + 1) = Append(Before(b, n), b[n + 1])
         /\ Before(b, n + 1)[n + 1] = b[n + 1]
         /\ After(b, n) = <<b[n + 1]>> \o After(b, n + 1)
         /\ After(b, n) # <<>> /\ Head(After(b, n)) = b[n + 1]
         /\ After(b, n + 1) = Tail(After(b, n))
<1>1. Len(b) \in Nat /\ n \in 0 .. Len(b) /\ n + 1 \in 0 .. Len(b) /\ n + 1 \in 1 .. Len(b)
  BY LenProperties
<1> DEFINE s == Before(b, n)
           u == Before(b, n + 1)
           t == After(b, n + 1)
           v == After(b, n)
           c == b[n + 1]
<1>2. c \in S
  BY <1>1, ElementOfSeq
<1>3. s \in Seq(S) /\ Len(s) = n /\ \A i \in 1 .. n : s[i] = b[i]
  BY <1>1, Sides
<1>4. u \in Seq(S) /\ Len(u) = n + 1 /\ \A i \in 1 .. n + 1 : u[i] = b[i]
  BY <1>1, Sides
<1>5. /\ t \in Seq(S) /\ Len(t) = Len(b) - (n + 1)
      /\ \A i \in 1 .. Len(b) - (n + 1) : t[i] = b[n + 1 + i]
  BY <1>1, Sides
<1>6. /\ v \in Seq(S) /\ Len(v) = Len(b) - n
      /\ \A i \in 1 .. Len(b) - n : v[i] = b[n + i]
  BY <1>1, Sides
<1> HIDE DEF s, t, u, v
<1>7. u = Append(s, c)
  <2>1. /\ Append(s, c) \in Seq(S) /\ Len(Append(s, c)) = n + 1
        /\ \A i \in 1 .. n : Append(s, c)[i] = s[i]
        /\ Append(s, c)[n + 1] = c
    BY <1>2, <1>3, AppendProperties
  <2>2. \A i \in 1 .. n + 1 : Append(s, c)[i] = u[i]
    <3>1. \A i \in 1 .. n + 1 : i = n + 1 \/ i \in 1 .. n
      BY <1>1
    <3> QED
      BY <1>1, <1>3, <1>4, <2>1, <3>1
  <2> HIDE DEF c
  <2> QED
    BY <1>4, <2>1, <2>2, SeqEqual
<1>8. u[n + 1] = c
  BY <1>1, <1>4
<1>9. s = SubSeq(u, 1, n)
  <2>1. Before(u, n) \in Seq(S) /\ Len(Before(u, n)) = n /\ \A i \in 1 .. n : Before(u, n)[i] = u[i]
    <3>1. n \in 0 .. Len(u) /\ u \in Seq(S)
      BY <1>1, <1>4
    <3> QED
      BY <3>1, Sides
  <2>2. \A i \in 1 .. n : Before(u, n)[i] = s[i]
    BY <1>1, <1>3, <1>4, <2>1
  <2>3. Before(u, n) = s
    BY <1>3, <2>1, <2>2, SeqEqual
  <2> QED
    BY <2>3 DEF Before
<1>10. v # <<>> /\ Head(v) = c
  <2>1. v # <<>>
    BY <1>1, <1>6, EmptySeq
  <2>2. v[1] = c
    BY <1>1, <1>6
  <2> QED
    BY <1>6, <2>1, <2>2
<1>11. t = Tail(v)
  <2>1. /\ Tail(v) \in Seq(S) /\ Len(Tail(v)) = Len(v) - 1
        /\ \A i \in 1 .. Len(Tail(v)) : Tail(v)[i] = v[i + 1]
    BY <1>6, <1>10, HeadTailProperties
  <2>2. Len(Tail(v)) = Len(t) /\ Len(t) = Len(b) - (n + 1)
    BY <1>1, <1>5, <1>6, <2>1
  <2>3. \A i \in 1 .. Len(t) : Tail(v)[i] = t[i]
    <3> TAKE i \in 1 .. Len(t)
    <3>1. /\ i \in 1 .. Len(Tail(v)) /\ i + 1 \in 1 .. Len(b) - n
          /\ i \in 1 .. Len(b) - (n + 1) /\ n + (i + 1) = n + 1 + i
      BY <1>1, <2>2
    <3> QED
      BY <1>5, <1>6, <2>1, <3>1
  <2> QED
    BY <1>5, <2>1, <2>2, <2>3, SeqEqual
<1>12. v = <<c>> \o t
  <2>1. n + 1 \in 1 .. Len(b) /\ Len(b) \in n + 1 .. Len(b)
    BY <1>1
  <2>2. SubSeq(b, n + 1, Len(b)) = <<b[n + 1]>> \o SubSeq(b, n + 1 + 1, Len(b))
    BY <2>1, SubSeqRecursiveFirst
  <2> QED
    BY <2>2 DEF After, v, t
<1> QED
  BY <1>7, <1>8, <1>9, <1>10, <1>11, <1>12 DEF s, t, u, v

-----------------------------------------------------------------------------
(* The array tmpBuffer.                                                     *)

(* What the assumption says of the names and the sizes.                     *)
LEMMA EditorSizes ==
  /\ MaxLen \in Nat /\ HISTORY \in Nat \ {0} /\ NUL # Garbage
  /\ NUL \in Typed /\ Garbage \notin Typed /\ \A k \in Functions : k \notin Typed
  /\ \A i : i \in Places <=> i \in Nat /\ i <= MaxLen
  /\ \A t \in Lines : t \in Seq(Typed) /\ Len(t) \in Places
BY LenProperties, ShellAssumption
DEF ShellAssumption, Places, Typed, NUL, BEL, Garbage, Functions, Moves, Lines

(* The string a line is ends at its first NUL.                              *)
LEMMA StringOfLine ==
  ASSUME NEW t \in Lines
  PROVE  /\ String(t) \in Lines /\ Len(String(t)) <= Len(t)
         /\ \A i \in 1 .. Len(String(t)) : String(t)[i] = t[i] /\ t[i] # NUL
         /\ Abstract!Stored(t) = String(t)
<1>1. t \in Seq(Typed) /\ Len(t) \in Nat /\ Len(t) <= MaxLen /\ MaxLen \in Nat
  BY EditorSizes
<1> DEFINE Ends(n) == /\ n < Len(t) => t[n + 1] = NUL
                      /\ \A i \in 1 .. n : t[i] # NUL
           Z == {n \in 0 .. Len(t) : n < Len(t) => t[n + 1] = NUL}
<1>2. \E n \in 0 .. Len(t) : Ends(n)
  <2>1. Z \subseteq Nat /\ Len(t) \in Z
    BY <1>1
  <2>2. PICK n \in Z : \A m \in Z : n <= m
    BY <2>1, LeastNatural
  <2>3. n \in 0 .. Len(t) /\ (n < Len(t) => t[n + 1] = NUL)
    OBVIOUS
  <2>4. ASSUME NEW i \in 1 .. n
        PROVE  t[i] # NUL
    <3>1. i - 1 \in 0 .. Len(t) /\ i - 1 < Len(t) /\ i - 1 + 1 = i /\ ~(n <= i - 1)
      BY <1>1, <2>3
    <3>2. i - 1 \notin Z
      BY <2>2, <3>1
    <3> QED
      BY <3>1, <3>2
  <2> QED
    BY <2>3, <2>4
<1> DEFINE n == CHOOSE n \in 0 .. Len(t) : Ends(n)
<1>3. n \in 0 .. Len(t) /\ Ends(n)
  BY <1>2
<1>4. String(t) = SubSeq(t, 1, n) /\ Abstract!Stored(t) = SubSeq(t, 1, n)
  BY DEF String, Abstract!Stored
<1> HIDE DEF n, Z
<1>5. /\ SubSeq(t, 1, n) \in Seq(Typed) /\ Len(SubSeq(t, 1, n)) = n
      /\ \A i \in 1 .. n : SubSeq(t, 1, n)[i] = t[i]
  BY <1>1, <1>3, Sides DEF Before
<1> QED
  BY <1>1, <1>3, <1>4, <1>5 DEF Lines

(* A string in an array ends at its first NUL, and is a line.               *)
LEMMA StringInArray ==
  ASSUME NEW a \in Arrays, IsString(a)
  PROVE  /\ strlen(a) \in Places /\ a[strlen(a)] = NUL
         /\ StringIn(a) \in Lines /\ Len(StringIn(a)) = strlen(a)
<1>1. PICK i \in Places : a[i] = NUL /\ \A j \in 0 .. i - 1 : a[j] # Garbage
  BY DEF IsString
<1> DEFINE Z == {j \in Places : a[j] = NUL}
<1>2. PICK m \in Z : \A j \in Z : m <= j
  <2>1. Z \subseteq Nat /\ i \in Z
    BY <1>1, EditorSizes
  <2> HIDE DEF Z
  <2> QED
    BY <2>1, LeastNatural
<1>3. /\ m \in Places /\ a[m] = NUL /\ m <= i
      /\ \A j \in 0 .. m - 1 : j \in Places /\ a[j] # NUL
  <2>1. m \in Nat /\ m <= MaxLen /\ MaxLen \in Nat
    BY <1>2, EditorSizes
  <2>2. \A j \in 0 .. m - 1 : j \in Places /\ ~(m <= j)
    BY <2>1, EditorSizes
  <2> QED
    BY <1>1, <1>2, <2>2
<1>4. ASSUME NEW k \in Places, a[k] = NUL, \A j \in 0 .. k - 1 : a[j] # NUL
      PROVE  k = m
  <2>1. m <= k /\ ~(m < k)
    <3>1. k \in Nat /\ m \in Nat
      BY <1>3, EditorSizes
    <3>2. m < k => m \in 0 .. k - 1
      BY <3>1
    <3> QED
      BY <1>2, <1>3, <1>4, <3>2
  <2> QED
    BY <1>3, <2>1, EditorSizes
<1>5. strlen(a) = m
  BY <1>3, <1>4 DEF strlen
<1>6. \A j \in 0 .. m - 1 : a[j] \in Typed
  <2>1. i \in Nat /\ m \in Nat
    BY <1>1, <1>3, EditorSizes
  <2>2. \A j \in 0 .. m - 1 : j \in 0 .. i - 1
    BY <1>3, <2>1
  <2> QED
    BY <1>1, <1>3, <2>2 DEF Arrays
<1>7. StringIn(a) \in [1 .. m -> Typed]
  <2>1. m \in Nat
    BY <1>3, EditorSizes
  <2>2. \A j \in 1 .. m : a[j - 1] \in Typed
    BY <1>6, <2>1
  <2> QED
    BY <1>5, <2>2 DEF StringIn
<1>8. m \in Nat /\ m <= MaxLen
  BY <1>3, EditorSizes
<1>9. StringIn(a) \in Seq(Typed) /\ Len(StringIn(a)) = m
  BY <1>7, <1>8
<1> QED
  BY <1>3, <1>5, <1>8, <1>9 DEF Lines

(* strcpy makes a string of an array,                                       *)
LEMMA Copied ==
  ASSUME NEW a \in Arrays, NEW t \in Lines, \A i \in 1 .. Len(t) : t[i] # NUL
  PROVE  /\ strcpy(a, t) \in Arrays /\ IsString(strcpy(a, t))
         /\ StringIn(strcpy(a, t)) = t
<1> DEFINE n == Len(t)
           d == strcpy(a, t)
<1>1. /\ t \in Seq(Typed) /\ n \in Nat /\ n \in Places /\ n <= MaxLen
      /\ \A i \in 1 .. n : t[i] \in Typed /\ t[i] # NUL
  BY EditorSizes, ElementOfSeq
<1>2. \A j \in Places : d[j] = IF j < n THEN t[j + 1] ELSE IF j = n THEN NUL ELSE a[j]
  <2>1. /\ Len(Append(t, NUL)) = n + 1 /\ Append(t, NUL)[n + 1] = NUL
        /\ \A i \in 1 .. n : Append(t, NUL)[i] = t[i]
    BY <1>1, EditorSizes, AppendProperties
  <2> DEFINE u == Append(t, NUL)
  <2> HIDE DEF u
  <2>2. \A j \in Places : d[j] = IF j < Len(u) THEN u[j + 1] ELSE a[j]
    BY DEF strcpy, memcpy, u
  <2>3. Len(u) = n + 1 /\ u[n + 1] = NUL /\ \A i \in 1 .. n : u[i] = t[i]
    BY <2>1 DEF u
  <2> HIDE DEF d, n
  <2> TAKE j \in Places
  <2>4. /\ j \in Nat /\ (j < n => j + 1 \in 1 .. n /\ j < n + 1)
        /\ j < n + 1 <=> j < n \/ j = n
    BY <1>1, EditorSizes
  <2> QED
    BY <2>2, <2>3, <2>4
<1>3. d \in Arrays
  <2>1. \A j \in Places : d[j] \in Typed \cup {Garbage}
    <3>1. \A j \in Places : j < n => t[j + 1] \in Typed
      BY <1>1, EditorSizes
    <3>2. \A j \in Places : a[j] \in Typed \cup {Garbage}
      BY DEF Arrays
    <3>3. NUL \in Typed \cup {Garbage}
      BY EditorSizes
    <3> HIDE DEF d, n
    <3> QED
      BY <1>2, <3>1, <3>2, <3>3
  <2> QED
    BY <2>1 DEF strcpy, memcpy, Arrays
<1>4. \A j \in Places : j < n => d[j] \in Typed /\ d[j] # NUL /\ d[j] # Garbage
  <2>1. \A j \in Places : j < n => j + 1 \in 1 .. n
    BY <1>1, EditorSizes
  <2> HIDE DEF d, n
  <2> QED
    BY <1>1, <1>2, <2>1, EditorSizes
<1>5. d[n] = NUL
  <2> HIDE DEF d, n
  <2> QED
    BY <1>1, <1>2
<1> HIDE DEF d, n
<1>6. \A j \in 0 .. n - 1 : j \in Places /\ j < n
  BY <1>1, EditorSizes
<1>7. IsString(d)
  BY <1>1, <1>4, <1>5, <1>6 DEF IsString
<1>8. strlen(d) = n
  <2>1. strlen(d) \in Places /\ d[strlen(d)] = NUL
    BY <1>3, <1>7, StringInArray
  <2>2. ~(strlen(d) < n)
    BY <1>4, <2>1
  <2>3. ASSUME NEW k \in Places, d[k] = NUL, \A j \in 0 .. k - 1 : d[j] # NUL
        PROVE  k = n
    <3>1. k \in Nat /\ n \in Nat
      BY <1>1, EditorSizes
    <3>2. ~(k < n)
      BY <1>4, <2>3
    <3>3. ~(n < k)
      <4>1. n < k => n \in 0 .. k - 1
        BY <3>1
      <4> QED
        BY <1>5, <2>3, <4>1
    <3> QED
      BY <3>1, <3>2, <3>3
  <2>4. n \in Places /\ d[n] = NUL /\ \A j \in 0 .. n - 1 : d[j] # NUL
    BY <1>1, <1>4, <1>5, <1>6
  <2> QED
    BY <2>3, <2>4 DEF strlen
<1>9. StringIn(d) = t
  <2>1. StringIn(d) \in Seq(Typed) /\ Len(StringIn(d)) = n
    BY <1>3, <1>7, <1>8, StringInArray DEF Lines
  <2>2. \A i \in 1 .. n : StringIn(d)[i] = d[i - 1]
    BY <1>8 DEF StringIn
  <2>3. \A i \in 1 .. n : i - 1 \in Places /\ i - 1 < n /\ i - 1 + 1 = i
    BY <1>1, EditorSizes
  <2>4. \A i \in 1 .. n : StringIn(d)[i] = t[i]
    BY <1>2, <2>2, <2>3
  <2>5. Len(t) = n
    BY DEF n
  <2> QED
    BY <1>1, <2>1, <2>4, <2>5, SeqEqual
<1> QED
  BY <1>3, <1>4, <1>7, <1>9 DEF d, n

(* and an edit writes characters in it.                                     *)
LEMMA Overwritten ==
  ASSUME NEW a \in Arrays, NEW t \in Lines
  PROVE  memcpy(a, t) \in Arrays
<1> DEFINE d == memcpy(a, t)
<1>1. \A j \in Places : d[j] = IF j < Len(t) THEN t[j + 1] ELSE a[j]
  BY DEF memcpy
<1>2. \A j \in Places : j < Len(t) => t[j + 1] \in Typed
  <2>1. t \in Seq(Typed) /\ Len(t) \in Nat /\ \A i \in 1 .. Len(t) : t[i] \in Typed
    BY EditorSizes, ElementOfSeq
  <2>2. \A j \in Places : j < Len(t) => j + 1 \in 1 .. Len(t)
    BY <2>1, EditorSizes
  <2> QED
    BY <2>1, <2>2
<1>3. \A j \in Places : d[j] \in Typed \cup {Garbage}
  <2>1. \A j \in Places : a[j] \in Typed \cup {Garbage}
    BY DEF Arrays
  <2> HIDE DEF d
  <2> QED
    BY <1>1, <1>2, <2>1
<1> QED
  BY <1>3 DEF memcpy, Arrays

-----------------------------------------------------------------------------
(* What the editor of LineEditor sees of the state.                         *)
LEMMA WhatIsSeen ==
  ASSUME EditorTypeOK, Editing
  PROVE  /\ buffer \in Seq(Typed) /\ Len(buffer) \in Nat /\ offs \in 0 .. Len(buffer)
         /\ Left = Before(buffer, offs) /\ Right = After(buffer, offs)
         /\ Left \in Seq(Typed) /\ Len(Left) = offs
         /\ Right \in Seq(Typed) /\ Len(Right) = Len(buffer) - offs
         /\ Abstract!Line = buffer
<1>1. /\ buffer \in Seq(Typed) /\ Len(buffer) \in Nat /\ offs \in 0 .. Len(buffer)
      /\ Left = Before(buffer, offs) /\ Right = After(buffer, offs)
  BY EditorSizes, LenProperties DEF EditorTypeOK, Left, Right
<1>2. /\ Left \in Seq(Typed) /\ Len(Left) = offs
      /\ Right \in Seq(Typed) /\ Len(Right) = Len(buffer) - offs
  BY <1>1, Sides
<1>3. Left \o Right = buffer
  BY <1>1, BothEnds
<1> QED
  BY <1>1, <1>2, <1>3 DEF Abstract!Line

(* A line that is shown is on the left of the cursor.                       *)
LEMMA NotBrowsing ==
  ASSUME ~Browsing
  PROVE  Draft = <<<<>>, 0>>
BY DEF Draft

(* What handling a key must leave.                                          *)
LEMMA EditKeeps ==
  ASSUME EditorInv, pc' = "getche", key' = "enter", UNCHANGED <<history, entered>>,
         buffer' \in Lines, offs' \in 0 .. Len(buffer'), tmpBuffer' \in Arrays,
         offs_backup' \in 0 .. MaxLen, inCrono' \in 0 .. HISTORY,
         inCrono' < HISTORY => IsString(tmpBuffer')
  PROVE  EditorInv'
<1>1. EditorTypeOK'
  BY DEF EditorInv, EditorTypeOK, Keys, Functions
<1>2. KeyToHandle'
  BY DEF KeyToHandle
<1>3. DraftKept'
  BY DEF DraftKept, Browsing
<1>4. HistoryKept'
  BY DEF EditorInv, HistoryKept
<1> QED
  BY <1>1, <1>2, <1>3, <1>4 DEF EditorInv

(* A key that edits the line keeps the invariant, and makes what is shown   *)
(* the line being written.                                                  *)
LEMMA WrittenKeeps ==
  ASSUME EditorInv, pc' = "getche", key' = "enter", UNCHANGED <<history, entered>>,
         buffer' \in Lines, offs' \in 0 .. Len(buffer'),
         tmpBuffer' \in {tmpBuffer, memcpy(tmpBuffer, buffer')},
         offs_backup' = offs_backup, inCrono' = HISTORY
  PROVE  EditorInv' /\ Abstract!Written /\ Editing'
<1>1. tmpBuffer \in Arrays /\ offs_backup \in 0 .. MaxLen
  BY DEF EditorInv, EditorTypeOK
<1>2. tmpBuffer' \in Arrays
  BY <1>1, Overwritten
<1>3. inCrono' \in 0 .. HISTORY /\ ~(inCrono' < HISTORY)
  BY EditorSizes
<1>4. EditorInv'
  BY <1>1, <1>2, <1>3, EditKeeps
<1>5. ~Browsing' /\ Editing'
  BY <1>3 DEF Browsing, Editing
<1>6. Draft' = <<<<>>, 0>>
  BY <1>5 DEF Draft
<1> QED
  BY <1>4, <1>5, <1>6 DEF Abstract!Written, Abstract!NoDraft

(* What is known when a key is handled.                                     *)
LEMMA HandleStarts ==
  ASSUME EditorInv, NEW nul \in BOOLEAN, handle(nul)
  PROVE  /\ pc = "handle" /\ pc' = "getche" /\ Editing /\ Editing'
         /\ key' = "enter" /\ UNCHANGED <<history, entered>>
         /\ key = "down" => Readable(Editor, nul)
         /\ LET e == Handled(Editor, key, nul)
            IN /\ buffer' = e.buffer /\ tmpBuffer' = e.tmpBuffer /\ offs' = e.offs
               /\ offs_backup' = e.offs_backup /\ inCrono' = e.inCrono
BY DEF handle, Editing

(* A letter is put at the cursor.                                           *)
LEMMA LetterStep ==
  ASSUME EditorInv, NEW nul \in BOOLEAN, handle(nul), key \in Typed
  PROVE  EditorInv' /\ Abstract!EditorNext
<1>1. /\ pc = "handle" /\ pc' = "getche" /\ Editing /\ key' = "enter"
      /\ UNCHANGED <<history, entered>>
  BY HandleStarts
<1>2. Handled(Editor, key, nul) = Edited(insert(Editor, key))
  BY EditorSizes DEF Handled, Functions, Moves
<1> DEFINE line == SubSeq(buffer, 1, offs) \o <<key>> \o SubSeq(buffer, offs + 1, Len(buffer))
<1>3. /\ buffer' = line /\ tmpBuffer' = memcpy(tmpBuffer, line) /\ offs' = offs + 1
      /\ offs_backup' = offs_backup /\ inCrono' = HISTORY
  BY <1>2, HandleStarts DEF Edited, insert, Editor
<1>4. /\ buffer \in Seq(Typed) /\ Len(buffer) \in Nat /\ offs \in 0 .. Len(buffer)
      /\ Left = Before(buffer, offs) /\ Right = After(buffer, offs)
  BY <1>1, WhatIsSeen DEF EditorInv
<1>5. /\ line \in Seq(Typed) /\ Len(line) = Len(buffer) + 1
      /\ Before(line, offs + 1) = Append(Before(buffer, offs), key)
      /\ After(line, offs + 1) = After(buffer, offs)
  BY <1>4, Inserted
<1>6. Len(buffer) < MaxLen
  BY <1>1 DEF EditorInv, KeyToHandle
<1> HIDE DEF line
<1>7. buffer' \in Lines /\ offs' \in 0 .. Len(buffer')
  BY <1>3, <1>4, <1>5, <1>6, EditorSizes DEF Lines
<1>8. EditorInv' /\ Abstract!Written /\ Editing'
  BY <1>1, <1>3, <1>7, WrittenKeeps
<1>9. Left' = Append(Left, key) /\ Right' = Right
  BY <1>3, <1>4, <1>5, <1>8 DEF Left, Right
<1>10. Abstract!Type(key)
  BY <1>8, <1>9 DEF Abstract!Type
<1> QED
  BY <1>8, <1>10 DEF Abstract!EditorNext

(* Backspace takes away the character on the left of the cursor.            *)
LEMMA BackspaceStep ==
  ASSUME EditorInv, NEW nul \in BOOLEAN, handle(nul), key = "bksp"
  PROVE  EditorInv' /\ Abstract!EditorNext
<1>1. /\ pc = "handle" /\ pc' = "getche" /\ Editing /\ key' = "enter"
      /\ UNCHANGED <<history, entered>>
  BY HandleStarts
<1>2. Handled(Editor, key, nul) = Edited(backspace(Editor))
  BY DEF Handled
<1>3. /\ buffer \in Seq(Typed) /\ Len(buffer) \in Nat /\ offs \in 0 .. Len(buffer)
      /\ Left = Before(buffer, offs) /\ Right = After(buffer, offs) /\ Len(Left) = offs
  BY <1>1, WhatIsSeen DEF EditorInv
<1>4. buffer \in Lines
  BY DEF EditorInv, EditorTypeOK
<1>5. CASE offs = 0
  <2>1. /\ buffer' = buffer /\ tmpBuffer' = tmpBuffer /\ offs' = offs
        /\ offs_backup' = offs_backup /\ inCrono' = HISTORY
    BY <1>2, <1>5, HandleStarts DEF Edited, backspace, Editor
  <2>2. EditorInv' /\ Abstract!Written /\ Editing'
    BY <1>1, <1>3, <1>4, <2>1, WrittenKeeps
  <2>3. Left' = Left /\ Right' = Right
    BY <1>3, <2>1, <2>2 DEF Left, Right
  <2> QED
    BY <2>2, <2>3 DEF Abstract!Ignored, Abstract!EditorNext
<1>6. CASE offs # 0
  <2> DEFINE n == offs - 1
             line == SubSeq(buffer, 1, n) \o SubSeq(buffer, n + 2, Len(buffer))
  <2>1. /\ buffer' = line /\ tmpBuffer' = memcpy(tmpBuffer, line) /\ offs' = n
        /\ offs_backup' = offs_backup /\ inCrono' = HISTORY
    <3>1. Editor.offs = offs /\ Editor.buffer = buffer /\ Editor.tmpBuffer = tmpBuffer
      BY DEF Editor
    <3>2. Removed(Editor, n) = [Editor EXCEPT !.tmpBuffer = memcpy(tmpBuffer, line), !.buffer = line]
      BY <3>1 DEF Removed
    <3> HIDE DEF line
    <3>3. backspace(Editor) = [Removed(Editor, n) EXCEPT !.offs = Removed(Editor, n).offs - 1]
      BY <1>6, <3>1 DEF backspace
    <3>4. Removed(Editor, n).offs = offs
      BY <3>1, <3>2 DEF Editor
    <3> DEFINE r == [Editor EXCEPT !.tmpBuffer = memcpy(tmpBuffer, line), !.buffer = line,
                                   !.offs = n]
    <3>5. backspace(Editor) = r
      BY <3>2, <3>3, <3>4 DEF Editor
    <3>6. Handled(Editor, key, nul) = Edited(r)
      BY <1>2, <3>5
    <3> QED
      BY <3>6, HandleStarts DEF Edited, Editor
  <2>2. n \in 0 .. Len(buffer) - 1 /\ n + 1 = offs /\ Len(Left) - 1 = n
    BY <1>3, <1>6
  <2> HIDE DEF n
  <2>3. /\ line \in Seq(Typed) /\ Len(line) = Len(buffer) - 1
        /\ Before(line, n) = Before(buffer, n) /\ After(line, n) = After(buffer, n + 1)
    BY <1>3, <2>2, RemovedAt
  <2>4. Before(buffer, n) = SubSeq(Before(buffer, n + 1), 1, n)
    BY <1>3, <2>2, OneLess
  <2> HIDE DEF line
  <2>5. buffer' \in Lines /\ offs' \in 0 .. Len(buffer')
    BY <1>3, <1>4, <2>1, <2>2, <2>3, EditorSizes DEF Lines
  <2>6. EditorInv' /\ Abstract!Written /\ Editing'
    BY <1>1, <2>1, <2>5, WrittenKeeps
  <2>7. Left' = SubSeq(Left, 1, Len(Left) - 1) /\ Right' = Right
    BY <1>3, <2>1, <2>2, <2>3, <2>4, <2>6 DEF Left, Right
  <2>8. Left # <<>>
    BY <1>3, <1>6, EmptySeq
  <2> QED
    BY <2>6, <2>7, <2>8 DEF Abstract!Backspace, Abstract!EditorNext
<1> QED
  BY <1>5, <1>6

(* Delete takes away the character on the right of the cursor.              *)
LEMMA DeleteStep ==
  ASSUME EditorInv, NEW nul \in BOOLEAN, handle(nul), key = "del"
  PROVE  EditorInv' /\ Abstract!EditorNext
<1>1. /\ pc = "handle" /\ pc' = "getche" /\ Editing /\ key' = "enter"
      /\ UNCHANGED <<history, entered>>
  BY HandleStarts
<1>2. Handled(Editor, key, nul) = Edited(del(Editor))
  BY DEF Handled
<1>3. /\ buffer \in Seq(Typed) /\ Len(buffer) \in Nat /\ offs \in 0 .. Len(buffer)
      /\ Left = Before(buffer, offs) /\ Right = After(buffer, offs)
  BY <1>1, WhatIsSeen DEF EditorInv
<1>4. buffer \in Lines
  BY DEF EditorInv, EditorTypeOK
<1>5. CASE offs >= Len(buffer)
  <2>1. /\ buffer' = buffer /\ tmpBuffer' = tmpBuffer /\ offs' = offs
        /\ offs_backup' = offs_backup /\ inCrono' = HISTORY
    BY <1>2, <1>5, HandleStarts DEF Edited, del, Editor
  <2>2. EditorInv' /\ Abstract!Written /\ Editing'
    BY <1>1, <1>3, <1>4, <2>1, WrittenKeeps
  <2>3. Left' = Left /\ Right' = Right
    BY <1>3, <2>1, <2>2 DEF Left, Right
  <2> QED
    BY <2>2, <2>3 DEF Abstract!Ignored, Abstract!EditorNext
<1>6. CASE ~(offs >= Len(buffer))
  <2> DEFINE line == SubSeq(buffer, 1, offs) \o SubSeq(buffer, offs + 2, Len(buffer))
  <2>1. /\ buffer' = line /\ tmpBuffer' = memcpy(tmpBuffer, line) /\ offs' = offs
        /\ offs_backup' = offs_backup /\ inCrono' = HISTORY
    <3>1. Editor.offs = offs /\ Editor.buffer = buffer /\ Editor.tmpBuffer = tmpBuffer
      BY DEF Editor
    <3>2. Removed(Editor, offs)
            = [Editor EXCEPT !.tmpBuffer = memcpy(tmpBuffer, line), !.buffer = line]
      BY <3>1 DEF Removed
    <3>3. del(Editor) = Removed(Editor, offs)
      BY <1>6, <3>1 DEF del
    <3> HIDE DEF line
    <3>4. Handled(Editor, key, nul)
            = Edited([Editor EXCEPT !.tmpBuffer = memcpy(tmpBuffer, line), !.buffer = line])
      BY <1>2, <3>2, <3>3
    <3> QED
      BY <3>4, HandleStarts DEF Edited, Editor
  <2>2. offs \in 0 .. Len(buffer) - 1
    BY <1>3, <1>6
  <2>3. /\ line \in Seq(Typed) /\ Len(line) = Len(buffer) - 1
        /\ Before(line, offs) = Before(buffer, offs) /\ After(line, offs) = After(buffer, offs + 1)
    BY <1>3, <2>2, RemovedAt
  <2>4. After(buffer, offs) # <<>> /\ After(buffer, offs + 1) = Tail(After(buffer, offs))
    BY <1>3, <2>2, OneLess
  <2> HIDE DEF line
  <2>5. buffer' \in Lines /\ offs' \in 0 .. Len(buffer')
    BY <1>3, <1>4, <2>1, <2>2, <2>3, EditorSizes DEF Lines
  <2>6. EditorInv' /\ Abstract!Written /\ Editing'
    BY <1>1, <2>1, <2>5, WrittenKeeps
  <2>7. Left' = Left /\ Right # <<>> /\ Right' = Tail(Right)
    BY <1>3, <2>1, <2>3, <2>4, <2>6 DEF Left, Right
  <2> QED
    BY <2>6, <2>7 DEF Abstract!Delete, Abstract!EditorNext
<1> QED
  BY <1>5, <1>6

(* Home, end and tab change no character.                                   *)
LEMMA HomeEndTabStep ==
  ASSUME EditorInv, NEW nul \in BOOLEAN, handle(nul), key \in {"home", "end", "tab"}
  PROVE  EditorInv' /\ Abstract!EditorNext
<1>1. /\ pc = "handle" /\ pc' = "getche" /\ Editing /\ key' = "enter"
      /\ UNCHANGED <<history, entered>>
  BY HandleStarts
<1>2. /\ buffer \in Seq(Typed) /\ Len(buffer) \in Nat /\ offs \in 0 .. Len(buffer)
      /\ Left = Before(buffer, offs) /\ Right = After(buffer, offs)
      /\ Abstract!Line = buffer /\ buffer \in Lines
  BY <1>1, WhatIsSeen DEF EditorInv, EditorTypeOK
<1> DEFINE n == IF key = "home" THEN 0 ELSE IF key = "end" THEN Len(buffer) ELSE offs
<1>3. Handled(Editor, key, nul) = Edited([Editor EXCEPT !.offs = n])
  <2>1. CASE key = "home"
    BY <2>1 DEF Handled
  <2>2. CASE key = "end"
    BY <2>2 DEF Handled, Editor
  <2>3. CASE key = "tab"
    <3>1. [Editor EXCEPT !.offs = offs] = Editor
      BY DEF Editor
    <3> QED
      BY <2>3, <3>1 DEF Handled
  <2> QED
    BY <2>1, <2>2, <2>3
<1>4. n \in 0 .. Len(buffer)
  BY <1>2
<1> HIDE DEF n
<1>5. /\ buffer' = buffer /\ tmpBuffer' = tmpBuffer /\ offs' = n
      /\ offs_backup' = offs_backup /\ inCrono' = HISTORY
  BY <1>3, HandleStarts DEF Edited, Editor
<1>6. EditorInv' /\ Abstract!Written /\ Editing'
  BY <1>1, <1>2, <1>4, <1>5, WrittenKeeps
<1>7. Left' = Before(buffer, n) /\ Right' = After(buffer, n)
  BY <1>5, <1>6 DEF Left, Right
<1>8. /\ Before(buffer, 0) = <<>> /\ After(buffer, 0) = buffer
      /\ Before(buffer, Len(buffer)) = buffer /\ After(buffer, Len(buffer)) = <<>>
  BY <1>2, BothEnds
<1>9. Abstract!Home \/ Abstract!End \/ Abstract!Ignored
  <2>1. CASE key = "home"
    BY <1>2, <1>6, <1>7, <1>8, <2>1 DEF n, Abstract!Home
  <2>2. CASE key = "end"
    BY <1>2, <1>6, <1>7, <1>8, <2>2 DEF n, Abstract!End
  <2>3. CASE key = "tab"
    BY <1>2, <1>6, <1>7, <2>3 DEF n, Abstract!Ignored
  <2> QED
    BY <2>1, <2>2, <2>3
<1> QED
  BY <1>6, <1>9 DEF Abstract!EditorNext

(* The cursor moves, and a recalled line stays one.                         *)
LEMMA MoveStep ==
  ASSUME EditorInv, NEW nul \in BOOLEAN, handle(nul), key \in {"left", "right"}
  PROVE  EditorInv' /\ [Abstract!EditorNext]_(Abstract!editor_vars)
<1>1. /\ pc = "handle" /\ pc' = "getche" /\ Editing /\ Editing' /\ key' = "enter"
      /\ UNCHANGED <<history, entered>>
  BY HandleStarts
<1>2. /\ buffer \in Seq(Typed) /\ Len(buffer) \in Nat /\ offs \in 0 .. Len(buffer)
      /\ Left = Before(buffer, offs) /\ Right = After(buffer, offs) /\ Len(Left) = offs
      /\ Left \in Seq(Typed) /\ Len(Right) = Len(buffer) - offs
  BY <1>1, WhatIsSeen DEF EditorInv
<1> DEFINE n == IF key = "left" THEN (IF offs = 0 THEN offs ELSE offs - 1)
                ELSE IF offs = Len(buffer) THEN offs ELSE offs + 1
<1>3. Handled(Editor, key, nul) = [Editor EXCEPT !.offs = n]
  <2>1. [Editor EXCEPT !.offs = offs] = Editor
    BY DEF Editor
  <2>2. Editor.offs = offs /\ Editor.buffer = buffer
    BY DEF Editor
  <2>3. CASE key = "left"
    <3>1. Handled(Editor, key, nul)
            = IF Editor.offs = 0 THEN Editor ELSE [Editor EXCEPT !.offs = Editor.offs - 1]
      BY <2>3 DEF Handled
    <3> QED
      BY <2>1, <2>2, <2>3, <3>1
  <2>4. CASE key = "right"
    <3>1. Handled(Editor, key, nul)
            = IF Editor.offs = Len(Editor.buffer) THEN Editor
              ELSE [Editor EXCEPT !.offs = Editor.offs + 1]
      BY <2>4 DEF Handled
    <3> QED
      BY <2>1, <2>2, <2>4, <3>1
  <2> QED
    BY <2>3, <2>4
<1>4. n \in 0 .. Len(buffer)
  BY <1>2
<1> HIDE DEF n
<1>5. /\ buffer' = buffer /\ tmpBuffer' = tmpBuffer /\ offs' = n
      /\ offs_backup' = offs_backup /\ inCrono' = inCrono
  BY <1>3, HandleStarts DEF Editor
<1>6. EditorInv'
  <2>1. /\ buffer \in Lines /\ tmpBuffer \in Arrays /\ offs_backup \in 0 .. MaxLen
        /\ inCrono \in 0 .. HISTORY
        /\ inCrono < HISTORY => IsString(tmpBuffer)
    BY <1>1 DEF EditorInv, EditorTypeOK, DraftKept, Browsing
  <2> QED
    BY <1>1, <1>4, <1>5, <2>1, EditKeeps
<1>7. Draft' = Draft /\ Browsing' = Browsing /\ entered' = entered
  BY <1>1, <1>5 DEF Draft, Browsing
<1>8. Left' = Before(buffer, n) /\ Right' = After(buffer, n)
  BY <1>1, <1>5 DEF Left, Right
<1>9. CASE n = offs
  BY <1>2, <1>6, <1>7, <1>8, <1>9 DEF Abstract!editor_vars
<1>10. CASE key = "left" /\ n # offs
  <2>1. n \in 0 .. Len(buffer) - 1 /\ n + 1 = offs /\ Len(Left) - 1 = n
    BY <1>2, <1>10 DEF n
  <2>2. /\ Before(buffer, n) = SubSeq(Before(buffer, n + 1), 1, n)
        /\ Before(buffer, n + 1)[n + 1] = buffer[n + 1]
        /\ After(buffer, n) = <<buffer[n + 1]>> \o After(buffer, n + 1)
    BY <1>2, <2>1, OneLess
  <2>3. Left # <<>>
    BY <1>2, <2>1, EmptySeq
  <2>4. Left' = SubSeq(Left, 1, Len(Left) - 1) /\ Right' = <<Left[Len(Left)]>> \o Right
    BY <1>2, <1>8, <2>1, <2>2
  <2> QED
    BY <1>6, <1>7, <2>3, <2>4 DEF Abstract!MoveLeft, Abstract!EditorNext
<1>11. CASE key = "right" /\ n # offs
  <2>1. offs \in 0 .. Len(buffer) - 1 /\ n = offs + 1
    BY <1>2, <1>11 DEF n
  <2>2. /\ Before(buffer, offs + 1) = Append(Before(buffer, offs), buffer[offs + 1])
        /\ After(buffer, offs) # <<>> /\ Head(After(buffer, offs)) = buffer[offs + 1]
        /\ After(buffer, offs + 1) = Tail(After(buffer, offs))
    BY <1>2, <2>1, OneLess
  <2>3. Left' = Append(Left, Head(Right)) /\ Right # <<>> /\ Right' = Tail(Right)
    BY <1>2, <1>8, <2>1, <2>2
  <2> QED
    BY <1>6, <1>7, <2>3 DEF Abstract!MoveRight, Abstract!EditorNext
<1> QED
  BY <1>6, <1>9, <1>10, <1>11

-----------------------------------------------------------------------------
(* The history.                                                             *)

(* What is in it was entered, and not too long ago.                         *)
LEMMA RememberedIsRecent ==
  ASSUME EditorInv, NEW j \in 0 .. HISTORY - 1, history[j] # <<>>
  PROVE  history[j] \in Abstract!Recent
<1> DEFINE l == Len(entered)
<1>1. l \in Nat /\ HISTORY \in Nat \ {0} /\ j \in Nat /\ j <= HISTORY - 1
  BY EditorSizes, LenProperties DEF EditorInv, EditorTypeOK
<1>2. l >= HISTORY - j /\ history[j] = entered[l - (HISTORY - j) + 1]
  BY DEF EditorInv, HistoryKept
<1> HIDE DEF l
<1>3. l - (HISTORY - j) + 1 \in {i \in 1 .. l : i > l - HISTORY}
  BY <1>1, <1>2
<1> QED
  BY <1>2, <1>3 DEF Abstract!Recent, l

(* The steps up and down stay in it, or go down out of it.                  *)
LEMMA OlderInHistory ==
  ASSUME NEW i \in 0 .. HISTORY
  PROVE  Older(i) \in 0 .. HISTORY - 1
<1> DEFINE above == {j \in 0 .. i - 1 : history[j] # <<>>}
<1>1. i \in Nat /\ i <= HISTORY /\ HISTORY \in Nat \ {0} /\ above \subseteq 0 .. i
  BY EditorSizes
<1>2. Older(i) = IF above = {} THEN 0 ELSE CHOOSE j \in above : \A k \in above : k <= j
  BY DEF Older
<1>3. \A j \in above : j \in 0 .. HISTORY - 1
  BY <1>1
<1> HIDE DEF above
<1>4. ASSUME above # {}
      PROVE  \E j \in above : \A k \in above : k <= j
  BY <1>1, <1>4, MaxIsGreatest
<1>5. above = {} => Older(i) = 0
  BY <1>2
<1>6. above # {} => Older(i) \in above
  BY <1>2, <1>4
<1>7. 0 \in 0 .. HISTORY - 1
  BY <1>1
<1> QED
  BY <1>3, <1>5, <1>6, <1>7

(* The step down stays in the history or comes to its end.                  *)
LEMMA NewerInHistory ==
  ASSUME NEW i \in 0 .. HISTORY
  PROVE  \/ Newer(i) = HISTORY
         \/ Newer(i) \in i + 1 .. HISTORY - 1 /\ history[Newer(i)] # <<>>
<1> DEFINE below == {j \in i + 1 .. HISTORY - 1 : history[j] # <<>>}
<1>1. below \subseteq Nat
  BY EditorSizes
<1>2. Newer(i) = IF below = {} THEN HISTORY ELSE CHOOSE j \in below : \A k \in below : j <= k
  BY DEF Newer
<1>3. \A j \in below : j \in i + 1 .. HISTORY - 1 /\ history[j] # <<>>
  OBVIOUS
<1> HIDE DEF below
<1>4. ASSUME below # {}
      PROVE  \E j \in below : \A k \in below : j <= k
  BY <1>1, <1>4, LeastNatural
<1> QED
  BY <1>2, <1>3, <1>4

(* A line of the history that is shown, with the cursor at its end.         *)
LEMMA ShowsRecalled ==
  ASSUME EditorInv, NEW h \in 0 .. HISTORY - 1, history[h] # <<>>, Editing',
         buffer' = history[h], offs' = Len(history[h])
  PROVE  /\ buffer' \in Lines /\ offs' \in 0 .. Len(buffer')
         /\ Left' \in Abstract!Recent /\ Right' = <<>>
<1>1. history[h] \in Lines
  BY DEF EditorInv, EditorTypeOK
<1>2. history[h] \in Seq(Typed) /\ Len(history[h]) \in Nat
  BY <1>1, EditorSizes
<1>3. Left' = history[h] /\ Right' = <<>>
  BY <1>2, BothEnds DEF Left, Right
<1> QED
  BY <1>1, <1>2, <1>3, RememberedIsRecent

(* The step up saves the line being written and shows an older one.         *)
LEMMA UpStep ==
  ASSUME EditorInv, NEW nul \in BOOLEAN, handle(nul), key = "up"
  PROVE  EditorInv' /\ Abstract!EditorNext
<1>1. /\ pc = "handle" /\ pc' = "getche" /\ Editing /\ Editing' /\ key' = "enter"
      /\ UNCHANGED <<history, entered>>
  BY HandleStarts
<1>2. /\ buffer \in Seq(Typed) /\ Len(buffer) \in Nat /\ offs \in 0 .. Len(buffer)
      /\ Left = Before(buffer, offs) /\ Right = After(buffer, offs)
  BY <1>1, WhatIsSeen DEF EditorInv
<1>3. /\ buffer \in Lines /\ tmpBuffer \in Arrays /\ offs_backup \in 0 .. MaxLen
      /\ inCrono \in 0 .. HISTORY /\ HISTORY \in Nat \ {0} /\ Len(buffer) <= MaxLen
      /\ inCrono < HISTORY => IsString(tmpBuffer)
  BY <1>1, EditorSizes DEF EditorInv, EditorTypeOK, DraftKept, Browsing, Lines
<1> DEFINE h == Older(inCrono)
           saved == inCrono = HISTORY
           text == String(buffer)
<1>4. h \in 0 .. HISTORY - 1
  BY <1>3, OlderInHistory
<1>5. /\ tmpBuffer' = IF saved THEN strcpy(tmpBuffer, text) ELSE tmpBuffer
      /\ offs_backup' = IF saved THEN offs ELSE offs_backup
      /\ inCrono' = h
      /\ buffer' = IF history[h] = <<>> THEN buffer ELSE history[h]
      /\ offs' = IF history[h] = <<>> THEN offs ELSE Len(history[h])
  <2>1. Editor.offs = offs /\ Editor.buffer = buffer /\ Editor.tmpBuffer = tmpBuffer
        /\ Editor.inCrono = inCrono /\ Editor.offs_backup = offs_backup
    BY DEF Editor
  <2> DEFINE r == [Editor EXCEPT
                     !.tmpBuffer = IF saved THEN strcpy(tmpBuffer, text) ELSE tmpBuffer,
                     !.offs_backup = IF saved THEN offs ELSE offs_backup]
  <2>2. Saved(Editor) = r
    <3>1. CASE saved
      BY <2>1, <3>1 DEF Saved
    <3>2. CASE ~saved
      BY <2>1, <3>2 DEF Saved, Editor
    <3> QED
      BY <3>1, <3>2
  <2>3. r.inCrono = inCrono
    BY DEF Editor
  <2>4. Handled(Editor, key, nul) = arrow_up(Editor)
    BY DEF Handled
  <2>5. arrow_up(Editor) = LET older == [r EXCEPT !.inCrono = h]
                           IN IF history[older.inCrono] = <<>> THEN older
                              ELSE Showing(older, history[older.inCrono])
    <3> HIDE DEF r
    <3> QED
      BY <2>2, <2>3 DEF arrow_up
  <2> DEFINE o == [r EXCEPT !.inCrono = h]
  <2>6. o.inCrono = h
    BY DEF Editor
  <2>7. Handled(Editor, key, nul) = IF history[h] = <<>> THEN o ELSE Showing(o, history[h])
    <3> HIDE DEF h, r
    <3> QED
      BY <2>4, <2>5, <2>6
  <2> DEFINE q == [o EXCEPT !.buffer = history[h], !.offs = Len(history[h])]
  <2> HIDE DEF h, saved, text
  <2>8. /\ o.buffer = buffer /\ o.offs = offs /\ o.inCrono = h
        /\ o.tmpBuffer = IF saved THEN strcpy(tmpBuffer, text) ELSE tmpBuffer
        /\ o.offs_backup = IF saved THEN offs ELSE offs_backup
    BY DEF Editor
  <2>9. /\ q.buffer = history[h] /\ q.offs = Len(history[h]) /\ q.inCrono = h
        /\ q.tmpBuffer = IF saved THEN strcpy(tmpBuffer, text) ELSE tmpBuffer
        /\ q.offs_backup = IF saved THEN offs ELSE offs_backup
    BY DEF Editor
  <2>10. Handled(Editor, key, nul) = IF history[h] = <<>> THEN o ELSE q
    BY <2>7 DEF Showing
  <2> HIDE DEF o, q
  <2>11. LET e == IF history[h] = <<>> THEN o ELSE q
         IN /\ buffer' = e.buffer /\ tmpBuffer' = e.tmpBuffer /\ offs' = e.offs
            /\ offs_backup' = e.offs_backup /\ inCrono' = e.inCrono
    BY <2>10, HandleStarts
  <2> QED
    BY <2>8, <2>9, <2>11
<1>6. /\ strcpy(tmpBuffer, text) \in Arrays /\ IsString(strcpy(tmpBuffer, text))
      /\ StringIn(strcpy(tmpBuffer, text)) = text /\ Abstract!Stored(buffer) = text
  <2>1. /\ text \in Lines /\ Abstract!Stored(buffer) = text
        /\ \A i \in 1 .. Len(text) : text[i] # NUL
    BY <1>3, StringOfLine
  <2> HIDE DEF text
  <2> QED
    BY <1>3, <2>1, Copied
<1> HIDE DEF h, text
<1>7. tmpBuffer' \in Arrays /\ offs_backup' \in 0 .. MaxLen /\ IsString(tmpBuffer')
  <2>1. CASE saved
    BY <1>2, <1>3, <1>5, <1>6, <2>1, EditorSizes
  <2>2. CASE ~saved
    <3>1. inCrono < HISTORY
      BY <1>3, <2>2
    <3> QED
      BY <1>3, <1>5, <2>2, <3>1
  <2> QED
    BY <2>1, <2>2
<1>8. /\ buffer' \in Lines /\ offs' \in 0 .. Len(buffer')
      /\ \/ Left' = Left /\ Right' = Right
         \/ Left' \in Abstract!Recent /\ Right' = <<>>
  <2>1. CASE history[h] = <<>>
    BY <1>1, <1>2, <1>3, <1>5, <2>1 DEF Left, Right
  <2>2. CASE history[h] # <<>>
    BY <1>1, <1>4, <1>5, <2>2, ShowsRecalled
  <2> QED
    BY <2>1, <2>2
<1>9. EditorInv'
  <2>1. inCrono' \in 0 .. HISTORY
    BY <1>3, <1>4, <1>5
  <2> QED
    BY <1>1, <1>7, <1>8, <2>1, EditKeeps
<1>10. Browsing' = TRUE /\ Browsing = ~saved
  BY <1>1, <1>3, <1>4, <1>5 DEF Browsing
<1>11. Draft' = IF Browsing THEN Draft ELSE <<Abstract!Stored(Abstract!Line), Len(Left)>>
  <2>1. Abstract!Line = buffer /\ Len(Left) = offs
    BY <1>1, WhatIsSeen DEF EditorInv
  <2> QED
    BY <1>5, <1>6, <1>10, <2>1 DEF Draft
<1>12. Abstract!Recall
  BY <1>1, <1>8, <1>10, <1>11 DEF Abstract!Recall
<1> QED
  BY <1>9, <1>12 DEF Abstract!EditorNext

(* The step down shows a newer line, or the one being written again.        *)
LEMMA DownStep ==
  ASSUME EditorInv, NEW nul \in BOOLEAN, handle(nul), key = "down"
  PROVE  EditorInv' /\ Abstract!EditorNext
<1>1. /\ pc = "handle" /\ pc' = "getche" /\ Editing /\ Editing' /\ key' = "enter"
      /\ UNCHANGED <<history, entered>> /\ Readable(Editor, nul)
  BY HandleStarts
<1>2. /\ buffer \in Seq(Typed) /\ Len(buffer) \in Nat /\ offs \in 0 .. Len(buffer)
      /\ Left = Before(buffer, offs) /\ Right = After(buffer, offs)
  BY <1>1, WhatIsSeen DEF EditorInv
<1>3. /\ buffer \in Lines /\ tmpBuffer \in Arrays /\ offs_backup \in 0 .. MaxLen
      /\ inCrono \in 0 .. HISTORY /\ HISTORY \in Nat \ {0}
      /\ inCrono < HISTORY => IsString(tmpBuffer)
  BY <1>1, EditorSizes DEF EditorInv, EditorTypeOK, DraftKept, Browsing
<1> DEFINE h == Newer(inCrono)
           text == StringIn(tmpBuffer)
<1>4. h = HISTORY \/ (h \in inCrono + 1 .. HISTORY - 1 /\ history[h] # <<>>)
  BY <1>3, NewerInHistory
<1>5. /\ tmpBuffer' = tmpBuffer /\ offs_backup' = offs_backup /\ inCrono' = h
      /\ buffer' = IF h < HISTORY THEN history[h] ELSE IF nul THEN buffer ELSE text
      /\ offs' = IF h < HISTORY THEN Len(history[h]) ELSE IF nul THEN offs ELSE offs_backup
  <2> DEFINE o == [Editor EXCEPT !.inCrono = h]
             q == [o EXCEPT !.buffer = history[h], !.offs = Len(history[h])]
             d == [o EXCEPT !.buffer = text, !.offs = offs_backup]
             r == IF h < HISTORY THEN q ELSE IF nul THEN o ELSE d
  <2>1. /\ Editor.inCrono = inCrono /\ o.inCrono = h /\ o.tmpBuffer = tmpBuffer
        /\ o.offs_backup = offs_backup
    BY DEF Editor
  <2>2. Handled(Editor, key, nul) = arrow_down(Editor, nul)
    BY DEF Handled
  <2> HIDE DEF h, text
  <2>3. arrow_down(Editor, nul)
          = CASE o.inCrono < HISTORY -> Showing(o, history[o.inCrono])
              [] o.inCrono = HISTORY /\ nul -> o
              [] OTHER -> [o EXCEPT !.buffer = StringIn(o.tmpBuffer), !.offs = o.offs_backup]
    BY <2>1 DEF arrow_down, h
  <2>4. arrow_down(Editor, nul) = r
    <3> HIDE DEF o
    <3>1. CASE h < HISTORY
      <4>1. ~(h = HISTORY)
        BY <1>3, <3>1
      <4> QED
        BY <2>1, <2>3, <3>1, <4>1 DEF Showing
    <3>2. CASE ~(h < HISTORY) /\ nul
      <4>1. h = HISTORY
        BY <1>3, <1>4, <3>2
      <4> QED
        BY <2>1, <2>3, <3>2, <4>1
    <3>3. CASE ~(h < HISTORY) /\ ~nul
      BY <2>1, <2>3, <3>3 DEF text
    <3> QED
      BY <3>1, <3>2, <3>3
  <2>5. /\ o.buffer = buffer /\ o.offs = offs
        /\ q.buffer = history[h] /\ q.offs = Len(history[h]) /\ q.inCrono = h
        /\ q.tmpBuffer = tmpBuffer /\ q.offs_backup = offs_backup
    BY DEF Editor
  <2>6. /\ d.buffer = text /\ d.offs = offs_backup /\ d.inCrono = h
        /\ d.tmpBuffer = tmpBuffer /\ d.offs_backup = offs_backup
    BY DEF Editor
  <2> HIDE DEF o, q, d
  <2>7. LET e == r
        IN /\ buffer' = e.buffer /\ tmpBuffer' = e.tmpBuffer /\ offs' = e.offs
           /\ offs_backup' = e.offs_backup /\ inCrono' = e.inCrono
    <3> HIDE DEF r
    <3> QED
      BY <2>2, <2>4, HandleStarts
  <2> QED
    BY <2>1, <2>5, <2>6, <2>7
<1>6. IsString(tmpBuffer) =>
        text \in Lines /\ text \in Seq(Typed) /\ Len(text) = strlen(tmpBuffer)
  BY <1>3, StringInArray, EditorSizes
<1> HIDE DEF text
<1>7. CASE h # HISTORY
  <2> HIDE DEF h
  <2>1. h \in 0 .. HISTORY - 1 /\ h < HISTORY /\ inCrono < HISTORY /\ history[h] # <<>>
    BY <1>3, <1>4, <1>7
  <2>2. buffer' = history[h] /\ offs' = Len(history[h])
    BY <1>5, <2>1
  <2>3. /\ buffer' \in Lines /\ offs' \in 0 .. Len(buffer')
        /\ Left' \in Abstract!Recent /\ Right' = <<>>
    BY <1>1, <2>1, <2>2, ShowsRecalled
  <2>4. EditorInv'
    <3>1. inCrono' \in 0 .. HISTORY
      BY <1>3, <1>5, <2>1
    <3> QED
      BY <1>1, <1>3, <1>5, <2>1, <2>3, <3>1, EditKeeps
  <2>5. Browsing = TRUE /\ Browsing' = TRUE /\ Draft' = Draft
    BY <1>1, <1>5, <2>1 DEF Browsing, Draft
  <2> QED
    BY <1>1, <2>3, <2>4, <2>5 DEF Abstract!Recall, Abstract!EditorNext
<1>8. CASE h = HISTORY
  <2>1. nul \/ (IsString(tmpBuffer) /\ offs_backup <= strlen(tmpBuffer))
    BY <1>1, <1>3, <1>8 DEF Readable, Editor
  <2>2. /\ buffer' = IF nul THEN buffer ELSE text
        /\ offs' = IF nul THEN offs ELSE offs_backup
        /\ inCrono' = HISTORY /\ ~(inCrono' < HISTORY)
    BY <1>3, <1>5, <1>8
  <2> HIDE DEF h
  <2>3. buffer' \in Lines /\ offs' \in 0 .. Len(buffer')
    BY <1>2, <1>3, <1>6, <2>1, <2>2, LenProperties
  <2>4. EditorInv' /\ Abstract!Written /\ Editing'
    BY <1>1, <1>5, <2>2, <2>3, WrittenKeeps
  <2>5. CASE ~Browsing
    BY <2>4, <2>5 DEF Abstract!Unspecified, Abstract!EditorNext
  <2>6. CASE Browsing
    <3>1. \/ Left' = Left /\ Right' = Right
          \/ Left' = SubSeq(Draft[1], 1, Draft[2])
             /\ Right' = SubSeq(Draft[1], Draft[2] + 1, Len(Draft[1]))
      <4>1. CASE nul
        BY <1>2, <2>2, <2>4, <4>1 DEF Left, Right
      <4>2. CASE ~nul
        <5>1. Left' = Before(text, offs_backup) /\ Right' = After(text, offs_backup)
          BY <2>2, <2>4, <4>2 DEF Left, Right
        <5>2. Draft[1] = text /\ Draft[2] = offs_backup
          BY <2>6 DEF Draft, text
        <5> QED
          BY <5>1, <5>2 DEF Before, After
      <4> QED
        BY <4>1, <4>2
    <3> QED
      BY <2>4, <2>6, <3>1 DEF Abstract!Restore, Abstract!EditorNext
  <2> QED
    BY <2>5, <2>6
<1> QED
  BY <1>7, <1>8

-----------------------------------------------------------------------------
(* The other steps.                                                         *)
LEMMA HandleStep ==
  ASSUME EditorInv, NEW nul \in BOOLEAN, handle(nul)
  PROVE  EditorInv' /\ [Abstract!EditorNext]_(Abstract!editor_vars)
<1>1. pc = "handle" /\ key \in Keys
  BY HandleStarts DEF EditorInv, EditorTypeOK
<1>2. \/ key \in Typed \/ key = "bksp" \/ key = "del" \/ key \in {"home", "end", "tab"}
      \/ key \in {"left", "right"} \/ key = "up" \/ key = "down" \/ key = "enter"
  BY <1>1 DEF Keys, Functions, Moves
<1>3. key # "enter"
  BY <1>1 DEF EditorInv, KeyToHandle
<1> QED
  BY <1>2, <1>3, LetterStep, BackspaceStep, DeleteStep, HomeEndTabStep, MoveStep,
     UpStep, DownStep

(* What malloc found is an array like another.                              *)
LEMMA ArrayFilled == AnyArray \in Arrays
BY EditorSizes DEF AnyArray, Arrays

(* The shell starts with an empty editor.                                   *)
LEMMA ShellStarts == ShellInit => EditorInv /\ Abstract!EditorInit
<1> SUFFICES ASSUME ShellInit
             PROVE  EditorInv /\ Abstract!EditorInit
  OBVIOUS
<1>1. /\ pc = "boot" /\ key = "enter" /\ buffer = <<>> /\ tmpBuffer = AnyArray
      /\ offs = 0 /\ offs_backup = 0 /\ inCrono = HISTORY /\ entered = <<>>
      /\ history = [i \in 0 .. HISTORY - 1 |-> <<>>]
  BY DEF ShellInit
<1>2. ~Editing /\ ~Browsing
  BY <1>1 DEF Editing, Browsing
<1>3. <<>> \in Lines /\ Len(<<>>) = 0 /\ entered \in Seq(Lines)
  BY <1>1, EditorSizes DEF Lines
<1>4. EditorTypeOK
  BY <1>1, <1>3, EditorSizes, ArrayFilled DEF EditorTypeOK, Keys, Functions
<1>5. KeyToHandle
  BY <1>1 DEF KeyToHandle
<1>6. DraftKept
  BY <1>1, <1>2, ArrayFilled DEF DraftKept
<1>7. HistoryKept
  <2>1. Len(entered) = 0
    BY <1>1, <1>3
  <2>2. ASSUME NEW j \in 0 .. HISTORY - 1
        PROVE  history[j] = <<>> /\ ~(0 >= HISTORY - j)
    BY <1>1, EditorSizes
  <2> QED
    BY <2>1, <2>2 DEF HistoryKept
<1>8. Abstract!EditorInit
  BY <1>1, <1>2 DEF Left, Right, Draft, Abstract!EditorInit, Abstract!NoDraft
<1> QED
  BY <1>4, <1>5, <1>6, <1>7, <1>8 DEF EditorInv

(* Steps that leave the editor alone, in the middle of a line or outside.   *)
LEMMA Elsewhere ==
  ASSUME EditorInv, pc' \in {pc, "prompt", "done", "handle"},
         UNCHANGED <<buffer, tmpBuffer, offs, offs_backup, inCrono, history, entered>>,
         Editing' = Editing, key' \in Keys,
         pc' = "handle" => key' # "enter" /\ (key' \in Typed => Len(buffer) < MaxLen)
  PROVE  EditorInv' /\ UNCHANGED Abstract!editor_vars
<1>1. Browsing' = Browsing /\ Left' = Left /\ Right' = Right /\ Draft' = Draft
  BY DEF Browsing, Left, Right, Draft
<1>2. EditorTypeOK'
  BY DEF EditorInv, EditorTypeOK
<1>3. KeyToHandle' /\ HistoryKept'
  BY DEF EditorInv, KeyToHandle, HistoryKept
<1>4. DraftKept'
  BY <1>1 DEF EditorInv, DraftKept
<1> QED
  BY <1>1, <1>2, <1>3, <1>4 DEF EditorInv, Abstract!editor_vars

(* A new line is empty, as after the last one.                              *)
LEMMA PromptStep ==
  ASSUME EditorInv, prompt
  PROVE  EditorInv' /\ UNCHANGED Abstract!editor_vars
<1>1. /\ pc = "prompt" /\ pc' = "getche" /\ buffer' = <<>> /\ tmpBuffer' = AnyArray
      /\ offs' = 0 /\ inCrono' = HISTORY /\ UNCHANGED <<key, offs_backup, history, entered>>
  BY DEF prompt
<1>2. ~Editing /\ Editing' /\ ~Browsing /\ ~Browsing'
  BY <1>1, EditorSizes DEF Editing, Browsing
<1>3. <<>> \in Lines /\ Len(<<>>) = 0
  BY EditorSizes DEF Lines
<1>4. EditorTypeOK'
  BY <1>1, <1>3, EditorSizes, ArrayFilled DEF EditorInv, EditorTypeOK
<1>5. KeyToHandle' /\ HistoryKept'
  BY <1>1 DEF EditorInv, KeyToHandle, HistoryKept
<1>6. DraftKept'
  BY <1>1, <1>2, ArrayFilled DEF DraftKept
<1>7. Left' = <<>> /\ Right' = <<>>
  <2>1. Before(<<>>, 0) = <<>> /\ After(<<>>, 0) = <<>>
    BY <1>3, EditorSizes, BothEnds
  <2> QED
    BY <1>1, <1>2, <2>1 DEF Left, Right
<1>8. Left = <<>> /\ Right = <<>> /\ Draft' = Draft /\ Browsing' = Browsing
  BY <1>2 DEF Left, Right, Draft, Browsing
<1> QED
  BY <1>1, <1>4, <1>5, <1>6, <1>7, <1>8 DEF EditorInv, Abstract!editor_vars

(* Enter.                                                                   *)
LEMMA DoneStep ==
  ASSUME EditorInv, done
  PROVE  EditorInv' /\ Abstract!EditorNext
<1> DEFINE line == String(buffer)
<1>1. /\ pc = "done" /\ pc' \in {"prompt", "command"} /\ UNCHANGED key
      /\ history' = IF line = <<>> THEN history ELSE Remembered(line)
      /\ entered' = IF line = <<>> THEN entered ELSE Append(entered, line)
      /\ tmpBuffer' = AnyArray /\ inCrono' = HISTORY /\ offs' = 0 /\ offs_backup' = 0
      /\ buffer' = <<>>
  BY DEF done
<1>2. Editing /\ ~Editing' /\ ~Browsing'
  BY <1>1 DEF Editing, Browsing
<1>3. Abstract!Line = buffer
  BY <1>2, WhatIsSeen DEF EditorInv
<1> HIDE DEF line
<1>4. /\ line \in Lines /\ history \in [0 .. HISTORY - 1 -> Lines]
      /\ entered \in Seq(Lines) /\ Len(entered) \in Nat /\ HISTORY \in Nat \ {0}
      /\ Abstract!Stored(buffer) = line
  BY EditorSizes, LenProperties, StringOfLine DEF EditorInv, EditorTypeOK, line
<1>5. <<>> \in Lines /\ Len(<<>>) = 0
  BY EditorSizes DEF Lines
<1>6. history' \in [0 .. HISTORY - 1 -> Lines] /\ entered' \in Seq(Lines)
  <2>1. Remembered(line) \in [0 .. HISTORY - 1 -> Lines]
    <3>1. \A i \in 0 .. HISTORY - 1 : i # HISTORY - 1 => history[i + 1] \in Lines
      BY <1>4
    <3> QED
      BY <1>4, <3>1 DEF Remembered
  <2>2. Append(entered, line) \in Seq(Lines)
    BY <1>4, AppendProperties
  <2> QED
    BY <1>1, <1>4, <2>1, <2>2
<1>7. EditorTypeOK'
  BY <1>1, <1>5, <1>6, EditorSizes, ArrayFilled DEF EditorInv, EditorTypeOK
<1>8. KeyToHandle' /\ DraftKept'
  BY <1>1, <1>2, ArrayFilled DEF KeyToHandle, DraftKept
<1>9. HistoryKept'
  <2>1. CASE line = <<>>
    BY <1>1, <2>1 DEF EditorInv, HistoryKept
  <2>2. CASE line # <<>>
    <3> DEFINE l == Len(entered)
               g == Append(entered, line)
               len == Len(g)
    <3>1. /\ entered' = g /\ history' = Remembered(line)
          /\ len = l + 1 /\ g[l + 1] = line /\ \A i \in 1 .. l : g[i] = entered[i]
      BY <1>1, <1>4, <2>2, AppendProperties
    <3>2. l \in Nat
      BY <1>4
    <3>3. \A j \in 0 .. HISTORY - 1 :
            history[j] = IF l >= HISTORY - j THEN entered[l - (HISTORY - j) + 1] ELSE <<>>
      BY DEF EditorInv, HistoryKept
    <3>6. Len(entered') = len
      BY <3>1
    <3> HIDE DEF l, g, len
    <3>5. len = l + 1 /\ g[l + 1] = line /\ \A i \in 1 .. l : g[i] = entered[i]
      BY <3>1
    <3>7. len = l + 1
      BY <3>5
    <3>4. ASSUME NEW j \in 0 .. HISTORY - 1
          PROVE  history'[j] = IF len >= HISTORY - j
                               THEN g[len - (HISTORY - j) + 1] ELSE <<>>
      <4>1. history'[j] = IF j = HISTORY - 1 THEN line ELSE history[j + 1]
        BY <3>1 DEF Remembered
      <4>2. CASE j = HISTORY - 1
        <5>1. l + 1 >= HISTORY - j /\ l + 1 - (HISTORY - j) + 1 = l + 1
          BY <1>4, <3>2, <4>2
        <5>2. history'[j] = line
          BY <4>1, <4>2
        <5>3. len >= HISTORY - j /\ len - (HISTORY - j) + 1 = l + 1
          BY <1>4, <3>2, <3>7, <5>1
        <5>4. g[l + 1] = line
          BY <3>5
        <5> QED
          BY <5>2, <5>3, <5>4
      <4>3. CASE j # HISTORY - 1
        <5>1. /\ j + 1 \in 0 .. HISTORY - 1
              /\ l + 1 >= HISTORY - j <=> l >= HISTORY - (j + 1)
              /\ l + 1 - (HISTORY - j) + 1 = l - (HISTORY - (j + 1)) + 1
              /\ l >= HISTORY - (j + 1) => l - (HISTORY - (j + 1)) + 1 \in 1 .. l
          BY <1>4, <3>2, <4>3
        <5>2. history'[j] = history[j + 1]
          BY <4>1, <4>3
        <5>3. history[j + 1] = IF l >= HISTORY - (j + 1)
                               THEN entered[l - (HISTORY - (j + 1)) + 1] ELSE <<>>
          BY <3>3, <5>1
        <5> DEFINE n == l - (HISTORY - (j + 1)) + 1
        <5>4. n \in 1 .. l => g[n] = entered[n]
          BY <3>5
        <5>5. l + 1 - (HISTORY - j) + 1 = n /\ (l >= HISTORY - (j + 1) => n \in 1 .. l)
          BY <5>1
        <5>6. history[j + 1] = IF l >= HISTORY - (j + 1) THEN entered[n] ELSE <<>>
          BY <5>3
        <5>7. len - (HISTORY - j) + 1 = n
          BY <1>4, <3>2, <3>7, <5>5
        <5> HIDE DEF n
        <5> QED
          BY <3>5, <5>1, <5>2, <5>4, <5>5, <5>6, <5>7
      <4> QED
        BY <4>2, <4>3
    <3> QED
      BY <3>1, <3>4, <3>6 DEF HistoryKept
  <2> QED
    BY <2>1, <2>2
<1>10. Abstract!Enter
  <2>1. Left' = <<>> /\ Right' = <<>> /\ Browsing' = FALSE /\ Draft' = <<<<>>, 0>>
    BY <1>2 DEF Left, Right, Browsing, Draft
  <2> QED
    BY <1>1, <1>3, <1>4, <2>1 DEF Abstract!Enter, Abstract!NoDraft
<1> QED
  BY <1>7, <1>8, <1>9, <1>10 DEF EditorInv, Abstract!EditorNext

(* A step down that is undefined is taken with no recalled line shown, or   *)
(* from a draft stored without the place of its cursor.                     *)
LEMMA UndefinedStep ==
  ASSUME EditorInv, handle_undefined
  PROVE  EditorInv' /\ Abstract!EditorNext
<1>1. /\ pc = "handle" /\ pc' = "undefined" /\ ~Readable(Editor, FALSE)
      /\ UNCHANGED <<key, buffer, tmpBuffer, offs, offs_backup, inCrono, history, entered>>
  BY DEF handle_undefined
<1>2. ~(IsString(tmpBuffer) /\ offs_backup <= strlen(tmpBuffer))
  BY <1>1 DEF Readable, Editor
<1>3. ~Browsing' /\ ~Editing'
  BY <1>1 DEF Browsing, Editing
<1>4. EditorTypeOK'
  BY <1>1 DEF EditorInv, EditorTypeOK
<1>5. KeyToHandle' /\ HistoryKept' /\ DraftKept'
  BY <1>1, <1>3 DEF EditorInv, KeyToHandle, HistoryKept, DraftKept
<1>6. Abstract!Written
  BY <1>1, <1>3 DEF Abstract!Written, Abstract!NoDraft, Draft
<1>7. ASSUME ~Browsing
      PROVE  Abstract!Unspecified
  BY <1>6, <1>7 DEF Abstract!Unspecified
<1>8. ASSUME Browsing
      PROVE  Abstract!Restore
  <2>1. IsString(tmpBuffer) /\ tmpBuffer \in Arrays
    BY <1>8 DEF EditorInv, EditorTypeOK, DraftKept
  <2>2. Len(StringIn(tmpBuffer)) = strlen(tmpBuffer)
    BY <2>1, StringInArray
  <2>3. ~(Draft[2] <= Len(Draft[1]))
    BY <1>2, <1>8, <2>1, <2>2 DEF Draft
  <2> QED
    BY <1>6, <1>8, <2>3 DEF Abstract!Restore
<1> QED
  BY <1>4, <1>5, <1>7, <1>8 DEF EditorInv, Abstract!EditorNext

(* Each step of the shell is a step of the editor, or none.                 *)
LEMMA ShellStep ==
  ASSUME EditorInv, [ShellNext]_shell_vars
  PROVE  EditorInv' /\ [Abstract!EditorNext]_(Abstract!editor_vars)
<1>1. key \in Keys /\ (pc = "handle" => key # "enter" /\ (key \in Typed => Len(buffer) < MaxLen))
  BY DEF EditorInv, EditorTypeOK, KeyToHandle
<1>2. CASE boot_message \/ led_key \/ command \/ UNCHANGED shell_vars
  <2>1. /\ UNCHANGED <<buffer, tmpBuffer, offs, offs_backup, inCrono, history, entered, key>>
        /\ pc' \in {pc, "prompt"} /\ Editing' = Editing
    BY <1>2 DEF boot_message, led_key, command, shell_vars, Editing
  <2> QED
    BY <1>1, <2>1, Elsewhere
<1>3. ASSUME NEW init_console \in BOOLEAN, shell_start(init_console)
      PROVE  EditorInv' /\ UNCHANGED Abstract!editor_vars
  <2>1. /\ UNCHANGED <<buffer, tmpBuffer, offs, offs_backup, inCrono, history, entered, key>>
        /\ pc' = "prompt" /\ Editing' = Editing
    BY <1>3 DEF shell_start, Editing
  <2> QED
    BY <1>1, <2>1, Elsewhere
<1>4. ASSUME NEW k \in Keys, press(k)
      PROVE  EditorInv' /\ UNCHANGED Abstract!editor_vars
  <2>1. /\ UNCHANGED <<buffer, tmpBuffer, offs, offs_backup, inCrono, history, entered>>
        /\ key' = k /\ pc' = (IF k = "enter" THEN "done" ELSE "handle")
        /\ k \in Typed => Len(buffer) < MaxLen
        /\ Editing' = Editing
    BY <1>4 DEF press, Editing
  <2> QED
    BY <2>1, Elsewhere
<1> QED
  BY <1>2, <1>3, <1>4, PromptStep, HandleStep, DoneStep, UndefinedStep DEF ShellNext

(* The arrays and indices with which LeggiDaKeyboard edits a line and walks *)
(* its history implement the editor of LineEditor, for any lengths of lines *)
(* and history and any keys (apps/shell.c:99-256).                          *)
THEOREM ShellImplementsEditor == ShellSpec => ImplementsLineEditor
<1>1. EditorInv /\ [ShellNext]_shell_vars
        => EditorInv' /\ [Abstract!EditorNext]_(Abstract!editor_vars)
  BY ShellStep
<1> QED
  BY <1>1, ShellStarts, PTL DEF ShellSpec, ImplementsLineEditor, Abstract!EditorSpec

-----------------------------------------------------------------------------

(* What is on a screen.                                                     *)
Chars == STRING \cup Functions \cup {Blank, "\n", "\t", "h", "i", "G", "o", NUL, BEL}

Consoles == [x : Int, y : Int, pos : Int, block : Int, cell : [Cells -> Chars]]

LEMMA ScreenFacts ==
  /\ SCR_C \in Nat /\ SCR_C >= 1 /\ SCR_R \in Nat /\ SCR_R >= 4 /\ HEADER = 2
  /\ CLOCK \in Nat /\ CLOCK >= 1 /\ CLOCK < SCR_C
  /\ DIM_TAB \in Nat /\ DIM_TAB >= 1 /\ DIM_TAB < SCR_C
  /\ WORD \in Nat /\ WORD >= 1 /\ SCR_C * SCR_R < WORD /\ SCR_C < WORD
<1>1. /\ SCR_C \in Nat \ {0} /\ SCR_R \in Nat \ {0} /\ HEADER = 2 /\ CLOCK \in Nat \ {0}
      /\ DIM_TAB \in Nat \ {0} /\ WORD \in Nat \ {0}
      /\ CLOCK < SCR_C /\ DIM_TAB < SCR_C /\ SCR_R > HEADER + 1 /\ SCR_C * SCR_R < WORD
  BY ScreenAssumption
<1>2. SCR_C <= SCR_C * SCR_R
  BY <1>1
<1> QED
  BY <1>1, <1>2

(* The number of a place, and the row and column of a number.               *)
LEMMA DivPlace ==
  ASSUME NEW q \in Int, NEW r \in 0 .. SCR_C - 1
  PROVE  (q * SCR_C + r) \div SCR_C = q /\ (q * SCR_C + r) % SCR_C = r
BY ScreenFacts

LEMMA RowColumn ==
  ASSUME NEW i \in Nat
  PROVE  \E q \in Nat, r \in 0 .. SCR_C - 1 :
           i = q * SCR_C + r /\ i \div SCR_C = q /\ i % SCR_C = r
<1> DEFINE S == {k \in Nat : i < k * SCR_C}
<1>1. SCR_C \in Nat /\ SCR_C >= 1
  BY ScreenFacts
<1>2. PICK m \in S : \A k \in S : m <= k
  <2>1. i + 1 \in S
    BY <1>1
  <2>2. S \subseteq Nat /\ S # {}
    BY <2>1
  <2> HIDE DEF S
  <2> QED
    BY <2>2, LeastNatural
<1>3. m \in Nat /\ i < m * SCR_C /\ m # 0
  BY <1>1
<1>4. m - 1 \in Nat /\ m - 1 \notin S
  BY <1>2, <1>3
<1>5. (m - 1) * SCR_C <= i
  BY <1>1, <1>4
<1>6. i - (m - 1) * SCR_C \in 0 .. SCR_C - 1
  BY <1>1, <1>3, <1>5
<1> DEFINE q == m - 1
           r == i - q * SCR_C
<1>7. q \in Nat /\ r \in 0 .. SCR_C - 1 /\ q * SCR_C + r = i
  BY <1>1, <1>4, <1>6
<1> HIDE DEF q, r
<1>8. i \div SCR_C = q /\ i % SCR_C = r
  BY <1>7, DivPlace
<1> QED
  BY <1>7, <1>8

LEMMA RowsApart ==
  ASSUME NEW y \in Int, NEW z \in Int, y < z
  PROVE  y * SCR_C + SCR_C <= z * SCR_C
BY ScreenFacts

LEMMA PlaceInCells ==
  ASSUME NEW y \in 0 .. SCR_R - 1, NEW x \in 0 .. SCR_C - 1
  PROVE  /\ y * SCR_C + x \in Cells
         /\ y * SCR_C + x + 1 < SCR_C * SCR_R \/ (y = SCR_R - 1 /\ x = SCR_C - 1)
BY ScreenFacts DEF Cells

(* A console with these fields, and what changes some of them gives.        *)
Has(t, x, y, pos, block, cell) ==
  /\ t \in Consoles /\ t.x = x /\ t.y = y /\ t.pos = pos
  /\ t.block = block /\ t.cell = cell

Put(cell, p, c) == [i \in Cells |-> IF i = p THEN c ELSE cell[i]]

MovedUp(f, cell) ==
  \A i \in Cells : i \div SCR_C \in 2 .. SCR_R - 2 => f[i] = cell[i + SCR_C]

LEMMA SetXY ==
  ASSUME NEW s \in Consoles, NEW x \in Int, NEW y \in Int, NEW t,
         t = [s EXCEPT !.y = y, !.x = x]
  PROVE  Has(t, x, y, s.pos, s.block, s.cell)
BY DEF Consoles, Has

LEMMA SetX ==
  ASSUME NEW s \in Consoles, NEW x \in Int, NEW t,
         t = [s EXCEPT !.x = x]
  PROVE  Has(t, x, s.y, s.pos, s.block, s.cell)
BY DEF Consoles, Has

LEMMA SetXPos ==
  ASSUME NEW s \in Consoles, NEW x \in Int, NEW p \in Int, NEW t,
         t = [s EXCEPT !.pos = p, !.x = x]
  PROVE  Has(t, x, s.y, p, s.block, s.cell)
BY DEF Consoles, Has

LEMMA SetBlock ==
  ASSUME NEW s \in Consoles, NEW b \in Int, NEW t,
         t = [s EXCEPT !.block = b]
  PROVE  Has(t, s.x, s.y, s.pos, b, s.cell)
BY DEF Consoles, Has

LEMMA SetYBlock ==
  ASSUME NEW s \in Consoles, NEW y \in Int, NEW b \in Int, NEW t,
         t = [s EXCEPT !.y = y, !.block = b]
  PROVE  Has(t, s.x, y, s.pos, b, s.cell)
BY DEF Consoles, Has

LEMMA SetXYPos ==
  ASSUME NEW s \in Consoles, NEW x \in Int, NEW y \in Int, NEW p \in Int, NEW t,
         t = [s EXCEPT !.x = x, !.y = y, !.pos = p]
  PROVE  Has(t, x, y, p, s.block, s.cell)
BY DEF Consoles, Has

LEMMA SetCell ==
  ASSUME NEW s \in Consoles, NEW f \in [Cells -> Chars], NEW t,
         t = [s EXCEPT !.cell = f]
  PROVE  Has(t, s.x, s.y, s.pos, s.block, f)
BY DEF Consoles, Has

LEMMA Fields ==
  ASSUME NEW s \in Consoles
  PROVE  /\ s.x \in Int /\ s.y \in Int /\ s.pos \in Int /\ s.block \in Int
         /\ s.cell \in [Cells -> Chars]
BY DEF Consoles

(* A cursor goes to where it is sent, if that is on the screen.             *)
LEMMA GotoIs ==
  ASSUME NEW s \in Consoles, NEW x \in 0 .. SCR_C - 1, NEW y \in 0 .. SCR_R - 1, NEW p,
         p = y * SCR_C + x, NEW t, t = goto_xy(s, x, y)
  PROVE  Has(t, x, y, p, s.block, s.cell)
<1>1. p \in Int /\ x \in Int /\ y \in Int
  BY ScreenFacts
<1>2. t = [s EXCEPT !.x = x, !.y = y, !.pos = p]
  BY Zenon DEF goto_xy
<1> QED
  BY <1>1, <1>2, SetXYPos, Zenon

LEMMA GotoConsole ==
  ASSUME NEW s \in Consoles, NEW x, NEW y
  PROVE  goto_xy(s, x, y) \in Consoles
<1>1. CASE x \in 0 .. SCR_C - 1 /\ y \in 0 .. SCR_R - 1
  <2>1. PICK p, t : p = y * SCR_C + x /\ t = goto_xy(s, x, y)
    OBVIOUS
  <2>2. Has(t, x, y, p, s.block, s.cell)
    BY <1>1, <2>1, GotoIs, Zenon
  <2> QED
    BY <2>1, <2>2, Zenon DEF Has
<1>2. CASE ~(x \in 0 .. SCR_C - 1 /\ y \in 0 .. SCR_R - 1)
  BY <1>2, Zenon DEF goto_xy
<1> QED
  BY <1>1, <1>2

LEMMA WriteIs ==
  ASSUME NEW s \in Consoles, NEW c \in Chars, NEW t, t = Write(s, c)
  PROVE  Has(t, s.x, s.y, s.pos, s.block, Put(s.cell, s.pos, c))
<1>1. [i \in Cells |-> IF i = s.pos THEN c ELSE s.cell[i]] \in [Cells -> Chars]
  BY Fields
<1>2. t = [s EXCEPT !.cell = [i \in Cells |-> IF i = s.pos THEN c ELSE s.cell[i]]]
  BY Zenon DEF Write
<1>3. PICK f \in [Cells -> Chars] : f = Put(s.cell, s.pos, c) /\ t = [s EXCEPT !.cell = f]
  BY <1>1, <1>2, Zenon DEF Put
<1>4. Has(t, s.x, s.y, s.pos, s.block, f)
  BY <1>3, SetCell, Zenon
<1> QED
  BY <1>3, <1>4, Zenon

LEMMA PrintedConsole ==
  ASSUME NEW s \in Consoles, NEW c \in Chars
  PROVE  Printed(s, c) \in Consoles
<1>1. CASE c = "\n"
  <2>1. s.y + 1 \in Int /\ 0 \in Int
    BY Fields
  <2>2. Printed(s, c) = [s EXCEPT !.y = s.y + 1, !.x = 0]
    BY <1>1, Zenon DEF Printed
  <2>3. PICK y \in Int, x \in Int : y = s.y + 1 /\ x = 0
    BY <2>1, Zenon
  <2>4. PICK t : t = Printed(s, c)
    OBVIOUS
  <2>5. t = [s EXCEPT !.y = y, !.x = x]
    BY <2>2, <2>3, <2>4, Zenon
  <2>6. Has(t, x, y, s.pos, s.block, s.cell)
    BY <2>5, SetXY, Zenon
  <2> QED
    BY <2>4, <2>6, Zenon DEF Has
<1>2. CASE c # "\n" /\ c = "\t"
  <2>1. s.x + DIM_TAB \in Int
    BY Fields, ScreenFacts
  <2>2. Printed(s, c) = [s EXCEPT !.x = s.x + DIM_TAB]
    BY <1>2, Zenon DEF Printed
  <2>3. PICK x, t : x \in Int /\ x = s.x + DIM_TAB /\ t = Printed(s, c)
    BY <2>1, Zenon
  <2>4. t = [s EXCEPT !.x = x]
    BY <2>2, <2>3, Zenon
  <2>5. Has(t, x, s.y, s.pos, s.block, s.cell)
    BY <2>3, <2>4, SetX, Zenon
  <2> QED
    BY <2>3, <2>5, Zenon DEF Has
<1>3. CASE c # "\n" /\ c # "\t" /\ c = BEL
  BY <1>3, Zenon DEF Printed
<1>4. CASE c # "\n" /\ c # "\t" /\ c # BEL
  <2>1. PICK w : w = Write(s, c)
    OBVIOUS
  <2>2. w \in Consoles /\ w.x = s.x
    <3>1. Has(w, s.x, s.y, s.pos, s.block, Put(s.cell, s.pos, c))
      BY <2>1, WriteIs, Zenon
    <3> QED
      BY <3>1, Zenon DEF Has
  <2>3. PICK x, t : x \in Int /\ x = (w.x + 1) % WORD /\ t = Printed(s, c)
    BY <2>2, Fields, ScreenFacts
  <2>4. t = [w EXCEPT !.x = x]
    BY <1>4, <2>1, <2>3, Zenon DEF Printed
  <2>5. Has(t, x, w.y, w.pos, w.block, w.cell)
    BY <2>2, <2>3, <2>4, SetX, Zenon
  <2> QED
    BY <2>3, <2>5, Zenon DEF Has
<1> QED
  BY <1>1, <1>2, <1>3, <1>4

LEMMA ScrollIs ==
  ASSUME NEW s \in Consoles, NEW t, t = screen_scroll(s)
  PROVE  \E f \in [Cells -> Chars] :
           MovedUp(f, s.cell) /\ Has(t, s.x, s.y, s.pos, s.block, f)
<1> DEFINE f == [i \in Cells |->
                   IF i \div SCR_C \in HEADER .. SCR_R - 2 THEN s.cell[i + SCR_C] ELSE s.cell[i]]
           u == [s EXCEPT !.cell = f]
           g == [i \in Cells |-> IF i \div SCR_C = SCR_R - 1 THEN Blank ELSE u.cell[i]]
<1>1. f \in [Cells -> Chars]
  <2> SUFFICES ASSUME NEW i \in Cells, i \div SCR_C \in HEADER .. SCR_R - 2
               PROVE  i + SCR_C \in Cells
    BY Fields
  <2>1. i \in Nat
    BY DEF Cells
  <2>2. PICK q \in Nat, r \in 0 .. SCR_C - 1 : i = q * SCR_C + r /\ i \div SCR_C = q
    BY <2>1, RowColumn
  <2>3. q <= SCR_R - 2
    BY <2>2
  <2>4. PICK z \in Nat : z = q + 1 /\ z < SCR_R
    BY <2>3, ScreenFacts
  <2>5. q * SCR_C + SCR_C <= z * SCR_C /\ z * SCR_C + SCR_C <= SCR_R * SCR_C
    BY <2>4, RowsApart, ScreenFacts
  <2> QED
    BY <2>2, <2>5, ScreenFacts DEF Cells
<1> HIDE DEF f
<1>2. /\ u \in Consoles /\ u.x = s.x /\ u.y = s.y /\ u.pos = s.pos /\ u.block = s.block
      /\ u.cell = f
  <2>1. Has(u, s.x, s.y, s.pos, s.block, f)
    <3> HIDE DEF u
    <3>1. u = [s EXCEPT !.cell = f]
      BY DEF u
    <3> QED
      BY <1>1, <3>1, SetCell, Zenon
  <2> HIDE DEF u
  <2> QED
    BY <2>1, Zenon DEF Has
<1>3. t = [u EXCEPT !.cell = g]
  BY Zenon DEF screen_scroll, clear_line, f
<1> HIDE DEF u
<1>4. g \in [Cells -> Chars]
  <2>1. Blank \in Chars
    BY DEF Chars
  <2>2. \A i \in Cells : u.cell[i] \in Chars
    BY <1>1, <1>2
  <2> QED
    BY <2>1, <2>2
<1> HIDE DEF g
<1>5. Has(t, s.x, s.y, s.pos, s.block, g)
  <2>1. Has(t, u.x, u.y, u.pos, u.block, g)
    BY <1>2, <1>3, <1>4, SetCell, Zenon
  <2> QED
    BY <1>2, <2>1, Zenon
<1>6. ASSUME NEW i \in Cells, i \div SCR_C \in 2 .. SCR_R - 2
      PROVE  g[i] = s.cell[i + SCR_C]
  <2>1. i \div SCR_C # SCR_R - 1 /\ i \div SCR_C \in HEADER .. SCR_R - 2
    <3>1. i \div SCR_C \in Nat
      <4>1. i \in Nat
        BY DEF Cells
      <4>2. PICK q \in Nat, r \in 0 .. SCR_C - 1 : i \div SCR_C = q
        BY <4>1, RowColumn
      <4> QED
        BY <4>2
    <3> QED
      BY <1>6, <3>1, ScreenFacts
  <2> QED
    BY <1>2, <2>1, Zenon DEF g, f
<1> QED
  BY <1>4, <1>5, <1>6, Zenon DEF MovedUp

LEMMA WrappedIs ==
  ASSUME NEW s \in Consoles, NEW t, t = Wrapped(s), s.x >= SCR_C, NEW y, y = s.y + 1
  PROVE  Has(t, 0, y, s.pos, s.block, s.cell)
<1>1. PICK x \in Int : y \in Int /\ x = 0
  BY Fields
<1>2. t = [s EXCEPT !.y = y, !.x = x]
  BY <1>1, Zenon DEF Wrapped
<1>3. Has(t, x, y, s.pos, s.block, s.cell)
  BY <1>1, <1>2, SetXY, Zenon
<1> QED
  BY <1>1, <1>3, Zenon

LEMMA WrappedConsole ==
  ASSUME NEW s \in Consoles
  PROVE  Wrapped(s) \in Consoles
<1>1. CASE s.x >= SCR_C
  <2>1. PICK t, y : t = Wrapped(s) /\ y = s.y + 1
    OBVIOUS
  <2>2. Has(t, 0, y, s.pos, s.block, s.cell)
    BY <1>1, <2>1, WrappedIs, Zenon
  <2> QED
    BY <2>1, <2>2, Zenon DEF Has
<1>2. CASE ~(s.x >= SCR_C)
  BY <1>2, Zenon DEF Wrapped
<1> QED
  BY <1>1, <1>2

LEMMA ScrolledIs ==
  ASSUME NEW s \in Consoles, NEW t, t = Scrolled(s), s.y >= SCR_R,
         NEW y, y = SCR_R - 1, NEW b, b = (s.block - SCR_C) % WORD
  PROVE  \E f \in [Cells -> Chars] :
           MovedUp(f, s.cell) /\ Has(t, s.x, y, s.pos, b, f)
<1>1. y \in Int /\ b \in Int
  BY Fields, ScreenFacts
<1>2. PICK u : u = screen_scroll(s)
  OBVIOUS
<1>3. PICK f \in [Cells -> Chars] :
        MovedUp(f, s.cell) /\ Has(u, s.x, s.y, s.pos, s.block, f)
  BY <1>2, ScrollIs, Zenon
<1>4. u \in Consoles /\ u.x = s.x /\ u.pos = s.pos /\ u.block = s.block /\ u.cell = f
  BY <1>3, Zenon DEF Has
<1>5. t = [u EXCEPT !.y = SCR_R - 1, !.block = (u.block - SCR_C) % WORD]
  BY <1>2, Zenon DEF Scrolled
<1>6. t = [u EXCEPT !.y = y, !.block = b]
  BY <1>4, <1>5, Zenon
<1>7. Has(t, u.x, y, u.pos, b, u.cell)
  BY <1>1, <1>4, <1>6, SetYBlock, Zenon
<1> QED
  BY <1>3, <1>4, <1>7, Zenon

LEMMA ScrolledConsole ==
  ASSUME NEW s \in Consoles
  PROVE  Scrolled(s) \in Consoles
<1>1. CASE s.y >= SCR_R
  <2>1. PICK t, y, b : t = Scrolled(s) /\ y = SCR_R - 1 /\ b = (s.block - SCR_C) % WORD
    OBVIOUS
  <2>2. PICK f : Has(t, s.x, y, s.pos, b, f)
    BY <1>1, <2>1, ScrolledIs, Zenon
  <2> QED
    BY <2>1, <2>2, Zenon DEF Has
<1>2. CASE ~(s.y >= SCR_R)
  BY <1>2, Zenon DEF Scrolled
<1> QED
  BY <1>1, <1>2

LEMMA PutkConsole ==
  ASSUME NEW s \in Consoles, NEW c \in Chars
  PROVE  putk(s, c) \in Consoles
<1>1. PICK t : t = Scrolled(Wrapped(Printed(s, c)))
  OBVIOUS
<1>2. t \in Consoles
  BY <1>1, PrintedConsole, WrappedConsole, ScrolledConsole
<1>3. goto_xy(t, t.x, t.y) \in Consoles
  BY <1>2, GotoConsole, Zenon
<1> QED
  BY <1>1, <1>3, Zenon DEF putk

LEMMA PutsRun ==
  ASSUME NEW s \in Consoles, NEW text \in Seq(Chars)
  PROVE  \E g : /\ g \in [0 .. Len(text) -> Consoles]
                /\ g[0] = s /\ g[Len(text)] = puts(s, text)
                /\ \A k \in 1 .. Len(text) : g[k] = putk(g[k - 1], text[k])
<1> DEFINE n == Len(text)
           F == [p \in Consoles \X (1 .. n) |-> putk(p[1], text[p[2]])]
           Is(h) == h = [r \in SUBSET (1 .. n) |->
                           IF r = {} THEN s ELSE putk(h[r \ {Max(r)}], text[Max(r)])]
           iter == CHOOSE h : Is(h)
           g == [k \in 0 .. n |-> iter[1 .. k]]
<1>1. n \in Nat /\ DOMAIN text = 1 .. n /\ \A k \in 1 .. n : text[k] \in Chars
  BY LenProperties, ElementOfSeq
<1>2. puts(s, text) = iter[1 .. n]
  <2>1. DOMAIN text = 1 .. n
    BY <1>1
  <2> HIDE DEF n
  <2> QED
    BY <2>1, Zenon DEF puts, FoldLeft, MapThenFoldSet
<1> HIDE DEF n
<1>3. F \in [Consoles \X (1 .. n) -> Consoles]
  BY <1>1, PutkConsole
<1>4. PICK h \in [SUBSET (1 .. n) -> Consoles] :
        \A r \in SUBSET (1 .. n) :
          /\ h[r] = IF r = {} THEN s ELSE F[<<h[r \ {Max(r)}], Max(r)>>]
          /\ r # {} => Max(r) \in 1 .. n
  <2> HIDE DEF F
  <2> QED
    BY <1>1, <1>3, FoldExists
<1>5. \A r \in SUBSET (1 .. n) :
        h[r] = IF r = {} THEN s ELSE putk(h[r \ {Max(r)}], text[Max(r)])
  <2> SUFFICES ASSUME NEW r \in SUBSET (1 .. n), r # {}
               PROVE  h[r] = putk(h[r \ {Max(r)}], text[Max(r)])
    BY <1>4
  <2>1. h[r \ {Max(r)}] \in Consoles /\ Max(r) \in 1 .. n
    BY <1>4
  <2> QED
    BY <1>4, <2>1
<1>6. Is(iter)
  <2>1. Is(h)
    BY <1>5
  <2> QED
    BY <2>1
<1> HIDE DEF iter
<1>7. iter[1 .. 0] = s /\ \A k \in 1 .. n : iter[1 .. k] = putk(iter[1 .. k - 1], text[k])
  <2>1. 1 .. 0 \in SUBSET (1 .. n) /\ 1 .. 0 = {}
    OBVIOUS
  <2>2. ASSUME NEW k \in 1 .. n
        PROVE  iter[1 .. k] = putk(iter[1 .. k - 1], text[k])
    <3>1. /\ 1 .. k \in SUBSET (1 .. n) /\ Max(1 .. k) = k
          /\ (1 .. k) \ {k} = 1 .. k - 1 /\ 1 .. k # {}
      BY <1>1, FirstK
    <3>2. iter[1 .. k] = putk(iter[(1 .. k) \ {Max(1 .. k)}], text[Max(1 .. k)])
      BY <1>6, <3>1
    <3> QED
      BY <3>1, <3>2
  <2> QED
    BY <1>6, <2>1, <2>2
<1> HIDE DEF Is, F
<1>8. g[0] = s /\ g[n] = iter[1 .. n] /\ \A k \in 1 .. n : g[k] = putk(g[k - 1], text[k])
  BY <1>1, <1>7
<1>9. g \in [0 .. n -> Consoles]
  <2> DEFINE W == {k \in 0 .. n : g[k] \in Consoles}
  <2>1. 0 \in W
    BY <1>1, <1>8
  <2>2. \A k \in 1 .. n : k - 1 \in W => k \in W
    <3> SUFFICES ASSUME NEW k \in 1 .. n, k - 1 \in W
                 PROVE  k \in W
      OBVIOUS
    <3>1. g[k - 1] \in Consoles /\ text[k] \in Chars /\ g[k] = putk(g[k - 1], text[k])
      BY <1>1, <1>8
    <3> HIDE DEF g
    <3>2. g[k] \in Consoles
      BY <3>1, PutkConsole, Zenon
    <3> QED
      BY <1>1, <3>2
  <2>3. 0 .. n \subseteq W
    <3> HIDE DEF W
    <3> QED
      BY <1>1, <2>1, <2>2, UpTo
  <2> QED
    BY <2>3
<1> HIDE DEF g
<1> QED
  BY <1>2, <1>8, <1>9 DEF n

(* A console whose cursor is on the screen, and the video memory with it.   *)
Sound(s) ==
  /\ s \in Consoles /\ s.x \in 0 .. SCR_C - 1 /\ s.y \in 0 .. SCR_R - 1
  /\ s.pos = s.y * SCR_C + s.x

(* A sound console, told by its cursor, its block and its memory.           *)
Shows(s, x, y, block, cell) ==
  Sound(s) /\ s.x = x /\ s.y = y /\ s.block = block /\ s.cell = cell

LEMMA PrintedNewline ==
  ASSUME NEW s \in Consoles, NEW t, t = Printed(s, "\n"), NEW y, y = s.y + 1
  PROVE  Has(t, 0, y, s.pos, s.block, s.cell)
<1>1. PICK x \in Int : y \in Int /\ x = 0
  BY Fields
<1>2. t = [s EXCEPT !.y = y, !.x = x]
  BY <1>1, Zenon DEF Printed
<1>3. Has(t, x, y, s.pos, s.block, s.cell)
  BY <1>1, <1>2, SetXY, Zenon
<1> QED
  BY <1>1, <1>3, Zenon

LEMMA PrintedTab ==
  ASSUME NEW s \in Consoles, NEW t, t = Printed(s, "\t"), NEW x, x = s.x + DIM_TAB
  PROVE  Has(t, x, s.y, s.pos, s.block, s.cell)
<1>1. x \in Int /\ "\t" # "\n"
  BY Fields, ScreenFacts
<1>2. t = [s EXCEPT !.x = x]
  BY <1>1, Zenon DEF Printed
<1> QED
  BY <1>1, <1>2, SetX, Zenon

LEMMA PrintedPlain ==
  ASSUME NEW s \in Consoles, s.x \in 0 .. SCR_C - 1,
         NEW c \in Chars, c # "\n", c # "\t", c # BEL,
         NEW t, t = Printed(s, c), NEW x, x = s.x + 1
  PROVE  Has(t, x, s.y, s.pos, s.block, Put(s.cell, s.pos, c))
<1>1. PICK w : w = Write(s, c)
  OBVIOUS
<1>2. Has(w, s.x, s.y, s.pos, s.block, Put(s.cell, s.pos, c))
  BY <1>1, WriteIs, Zenon
<1>3. /\ w \in Consoles /\ w.x = s.x /\ w.y = s.y /\ w.pos = s.pos
      /\ w.block = s.block /\ w.cell = Put(s.cell, s.pos, c)
  BY <1>2, Zenon DEF Has
<1>4. x \in Int /\ x = (s.x + 1) % WORD
  BY ScreenFacts
<1>5. t = [w EXCEPT !.x = x]
  BY <1>1, <1>3, <1>4, Zenon DEF Printed
<1>6. Has(t, x, w.y, w.pos, w.block, w.cell)
  BY <1>3, <1>4, <1>5, SetX, Zenon
<1> QED
  BY <1>3, <1>6, Zenon

(* The end of putk: the cursor wraps, the text scrolls, the cursor is set.  *)
Settled(w) == LET t == Scrolled(Wrapped(w)) IN goto_xy(t, t.x, t.y)

LEMMA PutkSettles ==
  ASSUME NEW s, NEW c
  PROVE  putk(s, c) = Settled(Printed(s, c))
BY Zenon DEF putk, Settled

LEMMA SettledStays ==
  ASSUME NEW w \in Consoles, w.x \in 0 .. SCR_C - 1, w.y \in 0 .. SCR_R - 1,
         NEW t, t = Settled(w)
  PROVE  Shows(t, w.x, w.y, w.block, w.cell)
<1>1. ~(w.x >= SCR_C) /\ ~(w.y >= SCR_R)
  BY ScreenFacts
<1>2. Wrapped(w) = w /\ Scrolled(w) = w
  BY <1>1, Zenon DEF Wrapped, Scrolled
<1>3. t = goto_xy(w, w.x, w.y)
  BY <1>2, Zenon DEF Settled
<1>4. PICK p : p = w.y * SCR_C + w.x
  OBVIOUS
<1>5. Has(t, w.x, w.y, p, w.block, w.cell)
  BY <1>3, <1>4, GotoIs, Zenon
<1> QED
  BY <1>4, <1>5, Zenon DEF Has, Shows, Sound

LEMMA SettledWraps ==
  ASSUME NEW w \in Consoles, w.x >= SCR_C, w.y \in 0 .. SCR_R - 2,
         NEW t, t = Settled(w), NEW y, y = w.y + 1
  PROVE  Shows(t, 0, y, w.block, w.cell)
<1>1. PICK u : u = Wrapped(w)
  OBVIOUS
<1>2. Has(u, 0, y, w.pos, w.block, w.cell)
  BY <1>1, WrappedIs, Zenon
<1>3. u \in Consoles /\ u.x = 0 /\ u.y = y /\ u.block = w.block /\ u.cell = w.cell
  BY <1>2, Zenon DEF Has
<1>4. 0 \in 0 .. SCR_C - 1 /\ y \in 0 .. SCR_R - 1 /\ ~(y >= SCR_R)
  BY ScreenFacts
<1>5. Scrolled(u) = u
  BY <1>3, <1>4, Zenon DEF Scrolled
<1>6. t = goto_xy(u, 0, y)
  BY <1>1, <1>3, <1>5, Zenon DEF Settled
<1>7. PICK p : p = y * SCR_C + 0
  OBVIOUS
<1>8. Has(t, 0, y, p, u.block, u.cell)
  BY <1>3, <1>4, <1>6, <1>7, GotoIs, Zenon
<1> QED
  BY <1>3, <1>4, <1>7, <1>8, Zenon DEF Has, Shows, Sound

LEMMA ScrolledSets ==
  ASSUME NEW u \in Consoles, u.x \in 0 .. SCR_C - 1, u.y = SCR_R,
         NEW t, t = goto_xy(Scrolled(u), Scrolled(u).x, Scrolled(u).y),
         NEW y, y = SCR_R - 1, NEW b, b = (u.block - SCR_C) % WORD
  PROVE  \E f \in [Cells -> Chars] : MovedUp(f, u.cell) /\ Shows(t, u.x, y, b, f)
<1>1. u.y >= SCR_R /\ y \in 0 .. SCR_R - 1
  BY ScreenFacts
<1>2. PICK v : v = Scrolled(u)
  OBVIOUS
<1>3. PICK f \in [Cells -> Chars] : MovedUp(f, u.cell) /\ Has(v, u.x, y, u.pos, b, f)
  BY <1>1, <1>2, ScrolledIs, Zenon
<1>4. v \in Consoles /\ v.x = u.x /\ v.y = y /\ v.block = b /\ v.cell = f
  BY <1>3, Zenon DEF Has
<1>5. t = goto_xy(v, u.x, y)
  BY <1>2, <1>4, Zenon
<1>6. PICK p : p = y * SCR_C + u.x
  OBVIOUS
<1>7. Has(t, u.x, y, p, v.block, v.cell)
  BY <1>1, <1>4, <1>5, <1>6, GotoIs, Zenon
<1>8. Shows(t, u.x, y, b, f)
  BY <1>1, <1>4, <1>6, <1>7, Zenon DEF Has, Shows, Sound
<1> QED
  BY <1>3, <1>8, Zenon

LEMMA SettledScrolls ==
  ASSUME NEW w \in Consoles, w.x \in 0 .. SCR_C - 1, w.y = SCR_R,
         NEW t, t = Settled(w),
         NEW y, y = SCR_R - 1, NEW b, b = (w.block - SCR_C) % WORD
  PROVE  \E f \in [Cells -> Chars] : MovedUp(f, w.cell) /\ Shows(t, w.x, y, b, f)
<1>1. ~(w.x >= SCR_C)
  BY ScreenFacts
<1>2. Wrapped(w) = w
  BY <1>1, Zenon DEF Wrapped
<1>3. t = goto_xy(Scrolled(w), Scrolled(w).x, Scrolled(w).y)
  BY <1>2, Zenon DEF Settled
<1> QED
  BY <1>3, ScrolledSets, Zenon

LEMMA SettledWrapScrolls ==
  ASSUME NEW w \in Consoles, w.x >= SCR_C, w.y = SCR_R - 1,
         NEW t, t = Settled(w),
         NEW y, y = SCR_R - 1, NEW b, b = (w.block - SCR_C) % WORD
  PROVE  \E f \in [Cells -> Chars] : MovedUp(f, w.cell) /\ Shows(t, 0, y, b, f)
<1>1. PICK u, z : u = Wrapped(w) /\ z = w.y + 1
  OBVIOUS
<1>2. Has(u, 0, z, w.pos, w.block, w.cell)
  BY <1>1, WrappedIs, Zenon
<1>3. u \in Consoles /\ u.x = 0 /\ u.y = z /\ u.block = w.block /\ u.cell = w.cell
  BY <1>2, Zenon DEF Has
<1>4. u.x \in 0 .. SCR_C - 1 /\ u.y = SCR_R
  BY <1>1, <1>3, ScreenFacts
<1>5. t = goto_xy(Scrolled(u), Scrolled(u).x, Scrolled(u).y)
  BY <1>1, Zenon DEF Settled
<1>6. b = (u.block - SCR_C) % WORD
  BY <1>3, Zenon
<1>7. \E f \in [Cells -> Chars] : MovedUp(f, u.cell) /\ Shows(t, u.x, y, b, f)
  BY <1>3, <1>4, <1>5, <1>6, ScrolledSets, Zenon
<1> QED
  BY <1>3, <1>7, Zenon

LEMMA SoundFields ==
  ASSUME NEW s, Sound(s)
  PROVE  /\ s \in Consoles /\ s.x \in 0 .. SCR_C - 1 /\ s.y \in 0 .. SCR_R - 1
         /\ s.pos \in Int /\ s.block \in Int /\ s.cell \in [Cells -> Chars]
         /\ s.pos = s.y * SCR_C + s.x /\ s.pos \in Cells
<1>1. s \in Consoles /\ s.x \in 0 .. SCR_C - 1 /\ s.y \in 0 .. SCR_R - 1
  BY DEF Sound
<1>2. s.pos = s.y * SCR_C + s.x
  BY DEF Sound
<1>3. s.y * SCR_C + s.x \in Cells
  BY <1>1, PlaceInCells
<1> QED
  BY <1>1, <1>2, <1>3, Fields

(* An end of a line moves the cursor down, or the rows up.                  *)
LEMMA PutkNewline ==
  ASSUME NEW s, Sound(s), s.y < SCR_R - 1, NEW y, y = s.y + 1
  PROVE  Shows(putk(s, "\n"), 0, y, s.block, s.cell)
<1>1. s \in Consoles /\ y \in 0 .. SCR_R - 1 /\ 0 \in 0 .. SCR_C - 1
  BY SoundFields, ScreenFacts
<1>2. PICK w, t : w = Printed(s, "\n") /\ t = Settled(w)
  OBVIOUS
<1>3. Has(w, 0, y, s.pos, s.block, s.cell)
  BY <1>1, <1>2, PrintedNewline, Zenon
<1>4. w \in Consoles /\ w.x = 0 /\ w.y = y /\ w.block = s.block /\ w.cell = s.cell
  BY <1>3, Zenon DEF Has
<1>5. Shows(t, w.x, w.y, w.block, w.cell)
  BY <1>1, <1>2, <1>4, SettledStays, Zenon
<1> QED
  BY <1>2, <1>4, <1>5, PutkSettles, Zenon

LEMMA PutkNewlineScrolls ==
  ASSUME NEW s, Sound(s), s.y = SCR_R - 1, NEW y, y = SCR_R - 1,
         NEW b, b = (s.block - SCR_C) % WORD
  PROVE  \E f \in [Cells -> Chars] : MovedUp(f, s.cell) /\ Shows(putk(s, "\n"), 0, y, b, f)
<1>1. s \in Consoles /\ 0 \in 0 .. SCR_C - 1
  BY SoundFields, ScreenFacts
<1>2. PICK w, t, z : w = Printed(s, "\n") /\ t = Settled(w) /\ z = s.y + 1
  OBVIOUS
<1>3. Has(w, 0, z, s.pos, s.block, s.cell)
  BY <1>1, <1>2, PrintedNewline, Zenon
<1>4. w \in Consoles /\ w.x = 0 /\ w.y = z /\ w.block = s.block /\ w.cell = s.cell
  BY <1>3, Zenon DEF Has
<1>5. w.y = SCR_R /\ w.x \in 0 .. SCR_C - 1
  BY <1>1, <1>2, <1>4, ScreenFacts
<1>6. b = (w.block - SCR_C) % WORD
  BY <1>4, Zenon
<1>7. \E f \in [Cells -> Chars] : MovedUp(f, w.cell) /\ Shows(t, w.x, y, b, f)
  BY <1>2, <1>4, <1>5, <1>6, SettledScrolls, Zenon
<1> QED
  BY <1>2, <1>4, <1>7, PutkSettles, Zenon

(* What a line is made of, and what of it takes a column.                   *)
Unbroken(c) == c \in Chars /\ c # "\n" /\ c # "\t"
Plain(c) == Unbroken(c) /\ c # BEL

(* A character goes to the place of the cursor, which advances.             *)
LEMMA PutkPlain ==
  ASSUME NEW s, Sound(s), NEW c, Plain(c), s.y < SCR_R - 1 \/ s.x < SCR_C - 1,
         NEW t, t = putk(s, c)
  PROVE  /\ Sound(t) /\ t.pos = s.pos + 1 /\ t.block = s.block
         /\ t.cell = Put(s.cell, s.pos, c)
<1>1. /\ s \in Consoles /\ s.x \in 0 .. SCR_C - 1 /\ s.y \in 0 .. SCR_R - 1
      /\ s.pos = s.y * SCR_C + s.x
  BY SoundFields
<1>2. PICK w, x : w = Printed(s, c) /\ x = s.x + 1
  OBVIOUS
<1>3. Has(w, x, s.y, s.pos, s.block, Put(s.cell, s.pos, c))
  BY <1>1, <1>2, PrintedPlain, Zenon DEF Plain, Unbroken
<1>4. /\ w \in Consoles /\ w.x = x /\ w.y = s.y /\ w.block = s.block
      /\ w.cell = Put(s.cell, s.pos, c)
  BY <1>3, Zenon DEF Has
<1>5. t = Settled(w)
  BY <1>2, PutkSettles, Zenon
<1>6. CASE s.x < SCR_C - 1
  <2>1. w.x \in 0 .. SCR_C - 1 /\ w.y \in 0 .. SCR_R - 1
    BY <1>1, <1>2, <1>4, <1>6, ScreenFacts
  <2>2. Shows(t, w.x, w.y, w.block, w.cell)
    BY <1>4, <1>5, <2>1, SettledStays, Zenon
  <2>3. Sound(t) /\ t.x = x /\ t.y = s.y /\ t.block = s.block /\ t.cell = Put(s.cell, s.pos, c)
    BY <1>4, <2>2, Zenon DEF Shows
  <2>4. t.pos = s.y * SCR_C + x
    BY <2>3, Zenon DEF Sound
  <2>5. t.pos = s.pos + 1
    BY <1>1, <1>2, <2>4, ScreenFacts
  <2> QED
    BY <2>3, <2>5
<1>7. CASE ~(s.x < SCR_C - 1)
  <2>1. PICK y : y = s.y + 1
    OBVIOUS
  <2>2. w.x >= SCR_C /\ w.y \in 0 .. SCR_R - 2 /\ y = w.y + 1 /\ s.x + 1 = SCR_C
    BY <1>1, <1>2, <1>4, <1>7, <2>1, ScreenFacts
  <2>3. Shows(t, 0, y, w.block, w.cell)
    BY <1>4, <1>5, <2>2, SettledWraps, Zenon
  <2>4. Sound(t) /\ t.x = 0 /\ t.y = y /\ t.block = s.block /\ t.cell = Put(s.cell, s.pos, c)
    BY <1>4, <2>3, Zenon DEF Shows
  <2>5. t.pos = y * SCR_C + 0
    BY <2>4, Zenon DEF Sound
  <2>6. t.pos = s.pos + 1
    BY <1>1, <2>1, <2>2, <2>5, ScreenFacts
  <2> QED
    BY <2>4, <2>6
<1> QED
  BY <1>6, <1>7

(* A '\a' shows nothing.                                                    *)
LEMMA PutkBel ==
  ASSUME NEW s, Sound(s), NEW t, t = putk(s, BEL)
  PROVE  /\ Sound(t) /\ t.y = s.y /\ t.pos = s.pos
         /\ t.block = s.block /\ t.cell = s.cell
<1>1. /\ s \in Consoles /\ s.x \in 0 .. SCR_C - 1 /\ s.y \in 0 .. SCR_R - 1
      /\ s.pos = s.y * SCR_C + s.x
  BY SoundFields
<1>2. BEL # "\n" /\ BEL # "\t"
  BY DEF BEL
<1>3. Printed(s, BEL) = s
  BY <1>2, Zenon DEF Printed
<1>4. t = Settled(s)
  BY <1>3, PutkSettles, Zenon
<1>5. Shows(t, s.x, s.y, s.block, s.cell)
  BY <1>1, <1>4, SettledStays, Zenon
<1> QED
  BY <1>1, <1>5, Zenon DEF Shows, Sound

(* Above the last row nothing scrolls, whatever is printed.                 *)
LEMMA PutkAbove ==
  ASSUME NEW s, Sound(s), s.y < SCR_R - 1, NEW c \in Chars, NEW t, t = putk(s, c)
  PROVE  /\ Sound(t) /\ t.y \in {s.y, s.y + 1} /\ t.block = s.block
         /\ \A i \in Cells : i # s.pos => t.cell[i] = s.cell[i]
<1>1. /\ s \in Consoles /\ s.x \in 0 .. SCR_C - 1 /\ s.y \in 0 .. SCR_R - 1
  BY SoundFields
<1>2. CASE c = "\n"
  <2>1. PICK y : y = s.y + 1
    OBVIOUS
  <2>2. Shows(t, 0, y, s.block, s.cell)
    BY <1>2, <2>1, PutkNewline, Zenon
  <2> QED
    BY <2>1, <2>2, Zenon DEF Shows
<1>3. CASE c = "\t"
  <2>1. PICK w, x : w = Printed(s, c) /\ x = s.x + DIM_TAB
    OBVIOUS
  <2>2. Has(w, x, s.y, s.pos, s.block, s.cell)
    BY <1>1, <1>3, <2>1, PrintedTab, Zenon
  <2>3. w \in Consoles /\ w.x = x /\ w.y = s.y /\ w.block = s.block /\ w.cell = s.cell
    BY <2>2, Zenon DEF Has
  <2>4. t = Settled(w)
    BY <2>1, PutkSettles, Zenon
  <2>5. CASE x < SCR_C
    <3>1. w.x \in 0 .. SCR_C - 1 /\ w.y \in 0 .. SCR_R - 1
      BY <1>1, <2>1, <2>3, <2>5, ScreenFacts
    <3>2. Shows(t, w.x, w.y, w.block, w.cell)
      BY <2>3, <2>4, <3>1, SettledStays, Zenon
    <3> QED
      BY <2>3, <3>2, Zenon DEF Shows
  <2>6. CASE ~(x < SCR_C)
    <3>1. PICK y : y = s.y + 1
      OBVIOUS
    <3>2. w.x >= SCR_C /\ w.y \in 0 .. SCR_R - 2 /\ y = w.y + 1
      BY <1>1, <2>1, <2>3, <2>6, <3>1, ScreenFacts
    <3>3. Shows(t, 0, y, w.block, w.cell)
      BY <2>3, <2>4, <3>2, SettledWraps, Zenon
    <3> QED
      BY <2>3, <3>1, <3>3, Zenon DEF Shows
  <2> QED
    BY <2>5, <2>6
<1>5. CASE c = BEL
  BY <1>5, PutkBel
<1>4. CASE c # "\n" /\ c # "\t" /\ c # BEL
  <2>1. Plain(c)
    BY <1>4 DEF Plain, Unbroken
  <2>2. /\ Sound(t) /\ t.pos = s.pos + 1 /\ t.block = s.block
        /\ t.cell = Put(s.cell, s.pos, c)
    BY <2>1, PutkPlain
  <2>3. t.y \in {s.y, s.y + 1}
    <3>1. PICK x \in 0 .. SCR_C - 1, y \in 0 .. SCR_R - 1 : x = s.x /\ y = s.y /\ s.pos = y * SCR_C + x
      BY SoundFields
    <3>2. PICK u \in 0 .. SCR_C - 1, v \in 0 .. SCR_R - 1 : u = t.x /\ v = t.y /\ t.pos = v * SCR_C + u
      BY <2>2, SoundFields
    <3>3. v * SCR_C + u = y * SCR_C + x + 1
      BY <2>2, <3>1, <3>2
    <3>4. ~(v < y)
      <4>1. v < y => v * SCR_C + SCR_C <= y * SCR_C
        BY RowsApart
      <4> QED
        BY <3>3, <4>1, ScreenFacts
    <3>5. PICK z \in Int : z = y + 1
      OBVIOUS
    <3>6. ~(z < v)
      <4>1. z < v => z * SCR_C + SCR_C <= v * SCR_C
        BY RowsApart
      <4>2. z * SCR_C = y * SCR_C + SCR_C
        BY <3>5, ScreenFacts
      <4> QED
        BY <3>3, <4>1, <4>2, ScreenFacts
    <3> QED
      BY <3>1, <3>2, <3>4, <3>5, <3>6
  <2> QED
    BY <2>2, <2>3 DEF Put
<1> QED
  BY <1>2, <1>3, <1>4, <1>5

(* Nothing that is printed takes the cursor off the screen, or up.          *)
LEMMA PutkSound ==
  ASSUME NEW s, Sound(s), NEW c \in Chars, NEW t, t = putk(s, c)
  PROVE  /\ Sound(t) /\ t.y >= s.y
         /\ c = "\n" => t.y >= s.y + 1 \/ t.y = SCR_R - 1
<1>1. /\ s \in Consoles /\ s.x \in 0 .. SCR_C - 1 /\ s.y \in 0 .. SCR_R - 1
  BY SoundFields
<1>2. CASE s.y < SCR_R - 1
  <2>1. Sound(t) /\ t.y \in {s.y, s.y + 1}
    BY <1>2, PutkAbove
  <2>2. c = "\n" => t.y = s.y + 1
    <3>1. PICK y : y = s.y + 1
      OBVIOUS
    <3>2. c = "\n" => Shows(t, 0, y, s.block, s.cell)
      BY <1>2, <3>1, PutkNewline, Zenon
    <3> QED
      BY <3>1, <3>2, Zenon DEF Shows
  <2> QED
    BY <1>1, <2>1, <2>2
<1>3. CASE ~(s.y < SCR_R - 1)
  <2>1. s.y = SCR_R - 1
    BY <1>1, <1>3, ScreenFacts
  <2>2. PICK y, b, w : y = SCR_R - 1 /\ b = (s.block - SCR_C) % WORD /\ w = Printed(s, c)
    OBVIOUS
  <2>3. t = Settled(w)
    BY <2>2, PutkSettles, Zenon
  <2>4. Sound(t) /\ t.y = y
    <3>1. CASE c = "\n"
      <4>1. PICK f : Shows(putk(s, "\n"), 0, y, b, f)
        BY <2>1, <2>2, PutkNewlineScrolls, Zenon
      <4> QED
        BY <3>1, <4>1, Zenon DEF Shows
    <3>2. CASE c = "\t"
      <4>1. PICK x : x = s.x + DIM_TAB
        OBVIOUS
      <4>2. Has(w, x, s.y, s.pos, s.block, s.cell)
        BY <1>1, <2>2, <3>2, <4>1, PrintedTab, Zenon
      <4>3. w \in Consoles /\ w.x = x /\ w.y = s.y /\ w.block = s.block
        BY <4>2, Zenon DEF Has
      <4>4. CASE x < SCR_C
        <5>1. w.x \in 0 .. SCR_C - 1 /\ w.y \in 0 .. SCR_R - 1
          BY <1>1, <4>1, <4>3, <4>4, ScreenFacts
        <5>2. Shows(t, w.x, w.y, w.block, w.cell)
          BY <2>3, <4>3, <5>1, SettledStays, Zenon
        <5> QED
          BY <2>1, <2>2, <4>3, <5>2, Zenon DEF Shows
      <4>5. CASE ~(x < SCR_C)
        <5>1. w.x >= SCR_C /\ w.y = SCR_R - 1 /\ b = (w.block - SCR_C) % WORD
          BY <1>1, <2>1, <2>2, <4>1, <4>3, <4>5, ScreenFacts
        <5>2. PICK f : Shows(t, 0, y, b, f)
          BY <2>2, <2>3, <4>3, <5>1, SettledWrapScrolls, Zenon
        <5> QED
          BY <5>2, Zenon DEF Shows
      <4> QED
        BY <4>4, <4>5
    <3>4. CASE c = BEL
      BY <2>1, <2>2, <3>4, PutkBel
    <3>3. CASE c # "\n" /\ c # "\t" /\ c # BEL
      <4>1. Plain(c)
        BY <3>3 DEF Plain, Unbroken
      <4>2. PICK x : x = s.x + 1
        OBVIOUS
      <4>3. Has(w, x, s.y, s.pos, s.block, Put(s.cell, s.pos, c))
        BY <1>1, <2>2, <3>3, <4>2, PrintedPlain, Zenon
      <4>4. w \in Consoles /\ w.x = x /\ w.y = s.y /\ w.block = s.block
        BY <4>3, Zenon DEF Has
      <4>5. CASE x < SCR_C
        <5>1. w.x \in 0 .. SCR_C - 1 /\ w.y \in 0 .. SCR_R - 1
          BY <1>1, <4>2, <4>4, <4>5, ScreenFacts
        <5>2. Shows(t, w.x, w.y, w.block, w.cell)
          BY <2>3, <4>4, <5>1, SettledStays, Zenon
        <5> QED
          BY <2>1, <2>2, <4>4, <5>2, Zenon DEF Shows
      <4>6. CASE ~(x < SCR_C)
        <5>1. w.x >= SCR_C /\ w.y = SCR_R - 1 /\ b = (w.block - SCR_C) % WORD
          BY <1>1, <2>1, <2>2, <4>2, <4>4, <4>6, ScreenFacts
        <5>2. PICK f : Shows(t, 0, y, b, f)
          BY <2>2, <2>3, <4>4, <5>1, SettledWrapScrolls, Zenon
        <5> QED
          BY <5>2, Zenon DEF Shows
      <4> QED
        BY <4>5, <4>6
    <3> QED
      BY <3>1, <3>2, <3>3, <3>4
  <2> QED
    BY <1>1, <2>1, <2>2, <2>4, ScreenFacts
<1> QED
  BY <1>2, <1>3

LEMMA PutsSound ==
  ASSUME NEW s, Sound(s), NEW text \in Seq(Chars), NEW t, t = puts(s, text)
  PROVE  Sound(t) /\ t.y >= s.y
<1> DEFINE n == Len(text)
<1>1. n \in Nat /\ \A k \in 1 .. n : text[k] \in Chars
  BY LenProperties, ElementOfSeq
<1>2. s \in Consoles /\ s.y \in Int
  BY SoundFields
<1>3. PICK g : /\ g[0] = s /\ g[n] = t
               /\ \A k \in 1 .. n : g[k] = putk(g[k - 1], text[k])
  BY <1>2, PutsRun
<1> HIDE DEF n
<1> DEFINE W == {k \in 0 .. n : Sound(g[k]) /\ g[k].y >= s.y}
<1>4. 0 \in W
  BY <1>1, <1>2, <1>3
<1>5. ASSUME NEW k \in 1 .. n, k - 1 \in W
      PROVE  k \in W
  <2>1. PICK u, v : u = g[k - 1] /\ v = g[k]
    OBVIOUS
  <2>2. Sound(u) /\ u.y >= s.y /\ text[k] \in Chars /\ v = putk(u, text[k])
    BY <1>1, <1>3, <1>5, <2>1
  <2>3. Sound(v) /\ v.y >= u.y
    BY <2>2, PutkSound
  <2>4. u.y \in Int /\ v.y \in Int
    BY <2>2, <2>3, SoundFields
  <2>5. v.y >= s.y
    BY <1>2, <2>2, <2>3, <2>4
  <2> QED
    BY <2>1, <2>3, <2>5
<1>6. n \in W
  <2> HIDE DEF W
  <2>1. 0 .. n \subseteq W
    BY <1>1, <1>4, <1>5, UpTo
  <2> QED
    BY <1>1, <2>1
<1> QED
  BY <1>3, <1>6

(* Two ends of lines take it below the header.                              *)
LEMMA PutsBelowHeader ==
  ASSUME NEW s, Sound(s), NEW text \in Seq(Chars), NEW t, t = puts(s, text),
         NEW i \in 1 .. Len(text), NEW j \in 1 .. Len(text), i < j,
         text[i] = "\n", text[j] = "\n"
  PROVE  Sound(t) /\ t.y >= 2
<1> DEFINE n == Len(text)
<1>1. n \in Nat /\ \A k \in 1 .. n : text[k] \in Chars
  BY LenProperties, ElementOfSeq
<1>2. s \in Consoles /\ s.y \in Nat
  BY SoundFields
<1>3. PICK g : /\ g[0] = s /\ g[n] = t
               /\ \A k \in 1 .. n : g[k] = putk(g[k - 1], text[k])
  BY <1>2, PutsRun
<1>4. i \in 1 .. n /\ j \in 1 .. n /\ i < j
  OBVIOUS
<1> HIDE DEF n
<1> DEFINE W == {k \in 0 .. n : /\ Sound(g[k])
                                /\ k >= i => g[k].y >= 1
                                /\ k >= j => g[k].y >= 2}
<1>5. 0 \in W
  BY <1>1, <1>2, <1>3, <1>4
<1>6. ASSUME NEW k \in 1 .. n, k - 1 \in W
      PROVE  k \in W
  <2>1. PICK u, v, c : u = g[k - 1] /\ v = g[k] /\ c = text[k]
    OBVIOUS
  <2>2. /\ Sound(u)
        /\ k - 1 >= i => u.y >= 1
        /\ k - 1 >= j => u.y >= 2
    BY <1>6, <2>1
  <2>3. c \in Chars /\ v = putk(u, c)
    BY <1>1, <1>3, <2>1
  <2>7. /\ Sound(v) /\ v.y >= u.y
        /\ c = "\n" => v.y >= u.y + 1 \/ v.y = SCR_R - 1
    BY <2>2, <2>3, PutkSound
  <2>4. u.y \in Nat /\ v.y \in Nat
    BY <2>2, <2>7, SoundFields
  <2>5. k >= i => v.y >= 1
    <3>1. k = i => v.y >= 1
      BY <2>1, <2>4, <2>7, ScreenFacts
    <3>2. k > i => v.y >= 1
      BY <1>4, <2>2, <2>4, <2>7
    <3> QED
      BY <1>4, <3>1, <3>2
  <2>6. k >= j => v.y >= 2
    <3>1. k = j => v.y >= 2
      <4>1. k = j => u.y >= 1
        BY <1>4, <2>2
      <4> QED
        BY <2>1, <2>4, <2>7, <4>1, ScreenFacts
    <3>2. k > j => v.y >= 2
      BY <1>4, <2>2, <2>4, <2>7
    <3> QED
      BY <1>4, <3>1, <3>2
  <2> QED
    BY <2>1, <2>5, <2>6, <2>7
<1>7. n \in W
  <2> HIDE DEF W
  <2>1. 0 .. n \subseteq W
    BY <1>1, <1>5, <1>6, UpTo
  <2> QED
    BY <1>1, <2>1
<1> QED
  BY <1>1, <1>3, <1>4, <1>7

(* A text that fits is on the screen from where the cursor was, as far as   *)
(* there is no '\a' in it, and nothing else has changed.                    *)
LEMMA PutsPrefix ==
  ASSUME NEW s, Sound(s), NEW text \in Seq(Chars), NEW t, t = puts(s, text),
         \A k \in 1 .. Len(text) : Unbroken(text[k]),
         NEW m \in 0 .. Len(text), \A k \in 1 .. m : text[k] # BEL,
         s.pos + Len(text) < SCR_C * SCR_R
  PROVE  /\ Sound(t) /\ t.block = s.block
         /\ t.pos >= s.pos + m /\ t.pos <= s.pos + Len(text)
         /\ \A i \in Cells :
              /\ i \in s.pos .. s.pos + m - 1 => t.cell[i] = text[i - s.pos + 1]
              /\ i \notin s.pos .. s.pos + Len(text) - 1 => t.cell[i] = s.cell[i]
<1> DEFINE n == Len(text)
<1>1. /\ n \in Nat /\ m \in Nat /\ m <= n
      /\ \A k \in 1 .. n : Unbroken(text[k]) /\ (k <= m => text[k] # BEL)
  BY LenProperties
<1>2. s \in Consoles /\ s.pos \in Nat /\ s.pos + n < SCR_C * SCR_R
  BY SoundFields DEF Cells
<1>3. PICK g : /\ g[0] = s /\ g[n] = t
               /\ \A k \in 1 .. n : g[k] = putk(g[k - 1], text[k])
  BY <1>2, PutsRun
<1> HIDE DEF n
<1> DEFINE At(u, k) == /\ Sound(u) /\ u.block = s.block /\ u.pos \in Int
                       /\ u.pos <= s.pos + k
                       /\ k <= m => u.pos = s.pos + k
                       /\ m <= k => u.pos >= s.pos + m
           Shown(u, k) == \A i \in Cells : i >= s.pos /\ i < s.pos + m /\ i < s.pos + k
                                             => u.cell[i] = text[i - s.pos + 1]
           Kept(u, k) == \A i \in Cells : i < s.pos \/ i >= s.pos + k
                                             => u.cell[i] = s.cell[i]
           W == {k \in 0 .. n : At(g[k], k) /\ Shown(g[k], k) /\ Kept(g[k], k)}
<1>4. 0 \in W
  <2>1. At(s, 0)
    BY <1>1, <1>2
  <2>2. Shown(s, 0) /\ Kept(s, 0)
    BY <1>2 DEF Cells
  <2> HIDE DEF At, Shown, Kept
  <2> QED
    BY <1>1, <1>3, <2>1, <2>2
<1>5. ASSUME NEW k \in 1 .. n, k - 1 \in W
      PROVE  k \in W
  <2>8. PICK u, v, c : u = g[k - 1] /\ v = g[k] /\ c = text[k]
    OBVIOUS
  <2>9. PICK j \in Nat : j = k - 1
    BY <1>1
  <2>1. u = g[j] /\ v = g[k] /\ c = text[k] /\ j = k - 1
    BY <2>8, <2>9
  <2>2. /\ At(u, j) /\ Shown(u, j) /\ Kept(u, j)
        /\ Unbroken(c) /\ v = putk(u, c)
    <3> HIDE DEF At, Shown, Kept
    <3> QED
      BY <1>1, <1>3, <1>5, <2>1
  <2>3. k \in Nat /\ k = j + 1 /\ k <= n /\ (k <= m => c # BEL)
    BY <1>1, <2>1
  <2>4. /\ Sound(u) /\ u.block = s.block /\ u.pos \in Int /\ u.pos <= s.pos + j
        /\ j < m => u.pos = s.pos + j
        /\ m <= j => u.pos >= s.pos + m
    BY <1>1, <2>2
  <2>5. u.pos >= s.pos
    BY <1>1, <1>2, <2>3, <2>4
  <2>6. CASE c = BEL
    <3>1. Sound(v) /\ v.pos = u.pos /\ v.block = u.block /\ v.cell = u.cell
      BY <2>2, <2>4, <2>6, PutkBel
    <3>2. m <= j
      BY <1>1, <2>3, <2>6
    <3>3. At(v, k)
      BY <1>1, <1>2, <2>3, <2>4, <3>1, <3>2
    <3>4. ASSUME NEW i \in Cells, i >= s.pos, i < s.pos + m, i < s.pos + k
          PROVE  v.cell[i] = text[i - s.pos + 1]
      <4>1. i < s.pos + j
        BY <1>1, <1>2, <3>2, <3>4 DEF Cells
      <4>2. u.cell[i] = text[i - s.pos + 1]
        BY <2>2, <3>4, <4>1
      <4> QED
        BY <3>1, <4>2, Zenon
    <3>5. ASSUME NEW i \in Cells, i < s.pos \/ i >= s.pos + k
          PROVE  v.cell[i] = s.cell[i]
      <4>1. i < s.pos \/ i >= s.pos + j
        BY <1>2, <2>3, <3>5 DEF Cells
      <4>2. u.cell[i] = s.cell[i]
        BY <2>2, <4>1
      <4> QED
        BY <3>1, <4>2, Zenon
    <3>6. Shown(v, k) /\ Kept(v, k)
      BY <3>4, <3>5
    <3> QED
      <4> HIDE DEF At, Shown, Kept
      <4> QED
        BY <1>1, <2>1, <3>3, <3>6
  <2>7. CASE c # BEL
    <3>1. u.y < SCR_R - 1 \/ u.x < SCR_C - 1
      <4>1. PICK x \in 0 .. SCR_C - 1, y \in 0 .. SCR_R - 1 : x = u.x /\ y = u.y /\ u.pos = y * SCR_C + x
        BY <2>4, SoundFields
      <4>2. u.pos + 1 < SCR_C * SCR_R
        BY <1>1, <1>2, <2>3, <2>4, ScreenFacts
      <4>3. PICK z \in Nat : z = SCR_R - 1 /\ z * SCR_C + SCR_C = SCR_C * SCR_R
        BY ScreenFacts
      <4>4. ~(y = z /\ x = SCR_C - 1)
        BY <4>1, <4>2, <4>3, ScreenFacts
      <4> QED
        BY <4>1, <4>3, <4>4, ScreenFacts
    <3>2. Plain(c)
      BY <2>2, <2>7 DEF Plain
    <3>3. /\ Sound(v) /\ v.pos = u.pos + 1 /\ v.block = u.block
          /\ v.cell = Put(u.cell, u.pos, c)
      BY <2>2, <2>4, <3>1, <3>2, PutkPlain
    <3>4. At(v, k)
      <4>1. v.pos \in Int /\ v.pos <= s.pos + k
        BY <1>2, <2>3, <2>4, <3>3
      <4>2. k <= m => v.pos = s.pos + k
        BY <1>1, <1>2, <2>3, <2>4, <3>3
      <4>3. m <= k => v.pos >= s.pos + m
        BY <1>1, <1>2, <2>3, <2>4, <3>3
      <4> QED
        BY <2>4, <3>3, <4>1, <4>2, <4>3
    <3>5. ASSUME NEW i \in Cells, i >= s.pos, i < s.pos + m, i < s.pos + k
          PROVE  v.cell[i] = text[i - s.pos + 1]
      <4>1. i \in Nat /\ v.cell[i] = IF i = u.pos THEN c ELSE u.cell[i]
        BY <3>3 DEF Put, Cells
      <4>2. CASE i = u.pos
        <5>1. i - s.pos + 1 = k
          BY <1>1, <1>2, <2>3, <2>4, <3>5, <4>1, <4>2
        <5> QED
          BY <2>1, <4>1, <4>2, <5>1
      <4>3. CASE i # u.pos
        <5>1. i < s.pos + j
          BY <1>1, <1>2, <2>3, <2>4, <3>5, <4>1, <4>3
        <5>2. u.cell[i] = text[i - s.pos + 1]
          BY <2>2, <3>5, <5>1
        <5> QED
          BY <4>1, <4>3, <5>2
      <4> QED
        BY <4>2, <4>3
    <3>6. ASSUME NEW i \in Cells, i < s.pos \/ i >= s.pos + k
          PROVE  v.cell[i] = s.cell[i]
      <4>1. i \in Nat /\ v.cell[i] = IF i = u.pos THEN c ELSE u.cell[i]
        BY <3>3 DEF Put, Cells
      <4>2. i # u.pos /\ (i < s.pos \/ i >= s.pos + j)
        BY <1>2, <2>3, <2>4, <2>5, <3>6, <4>1
      <4>3. u.cell[i] = s.cell[i]
        BY <2>2, <4>2
      <4> QED
        BY <4>1, <4>2, <4>3
    <3>7. Shown(v, k) /\ Kept(v, k)
      BY <3>5, <3>6
    <3> QED
      <4> HIDE DEF At, Shown, Kept
      <4> QED
        BY <1>1, <2>1, <3>4, <3>7
  <2> QED
    BY <2>6, <2>7
<1>6. n \in W
  <2> HIDE DEF W
  <2>1. 0 .. n \subseteq W
    BY <1>1, <1>4, <1>5, UpTo
  <2> QED
    BY <1>1, <2>1
<1>7. At(t, n) /\ Shown(t, n) /\ Kept(t, n)
  <2> HIDE DEF At, Shown, Kept
  <2> QED
    BY <1>3, <1>6
<1>8. ASSUME NEW i \in Cells
      PROVE  /\ i \in s.pos .. s.pos + m - 1 => t.cell[i] = text[i - s.pos + 1]
             /\ i \notin s.pos .. s.pos + n - 1 => t.cell[i] = s.cell[i]
  <2>1. i \in Nat /\ s.pos \in Nat /\ m \in Nat /\ m <= n /\ n \in Nat
    BY <1>1, <1>2 DEF Cells
  <2>2. i \in s.pos .. s.pos + m - 1 => i >= s.pos /\ i < s.pos + m /\ i < s.pos + n
    BY ONLY <2>1
  <2>3. i \notin s.pos .. s.pos + n - 1 => i < s.pos \/ i >= s.pos + n
    BY ONLY <2>1
  <2> QED
    BY <1>7, <2>2, <2>3
<1>9. /\ Sound(t) /\ t.block = s.block
      /\ t.pos >= s.pos + m /\ t.pos <= s.pos + n
  BY <1>1, <1>7
<1> QED
  BY <1>8, <1>9 DEF n

(* All of it, when there is none.                                           *)
LEMMA PutsText ==
  ASSUME NEW s, Sound(s), NEW text \in Seq(Chars), NEW t, t = puts(s, text),
         \A k \in 1 .. Len(text) : Plain(text[k]),
         s.pos + Len(text) < SCR_C * SCR_R
  PROVE  /\ Sound(t) /\ t.pos = s.pos + Len(text) /\ t.block = s.block
         /\ \A i \in Cells :
              t.cell[i] = IF i \in s.pos .. s.pos + Len(text) - 1
                          THEN text[i - s.pos + 1] ELSE s.cell[i]
<1>1. PICK n \in Nat : n = Len(text)
  BY LenProperties
<1>2. \A k \in 1 .. n : Unbroken(text[k]) /\ text[k] # BEL
  BY <1>1 DEF Plain
<1>3. n \in 0 .. Len(text)
  BY <1>1
<1>4. /\ Sound(t) /\ t.block = s.block
      /\ t.pos >= s.pos + n /\ t.pos <= s.pos + n
      /\ \A i \in Cells :
           /\ i \in s.pos .. s.pos + n - 1 => t.cell[i] = text[i - s.pos + 1]
           /\ i \notin s.pos .. s.pos + n - 1 => t.cell[i] = s.cell[i]
  BY <1>1, <1>2, <1>3, PutsPrefix
<1>5. t.pos \in Int /\ s.pos \in Int
  BY <1>4, SoundFields
<1>6. t.pos = s.pos + n
  BY <1>4, <1>5
<1> QED
  BY <1>1, <1>4, <1>6

LEMMA PutkTab ==
  ASSUME NEW s, Sound(s), NEW x, x = s.x + DIM_TAB, x < SCR_C
  PROVE  Shows(putk(s, "\t"), x, s.y, s.block, s.cell)
<1>1. /\ s \in Consoles /\ s.x \in 0 .. SCR_C - 1 /\ s.y \in 0 .. SCR_R - 1
  BY SoundFields
<1>2. PICK w, t : w = Printed(s, "\t") /\ t = Settled(w)
  OBVIOUS
<1>3. Has(w, x, s.y, s.pos, s.block, s.cell)
  BY <1>1, <1>2, PrintedTab, Zenon
<1>4. w \in Consoles /\ w.x = x /\ w.y = s.y /\ w.block = s.block /\ w.cell = s.cell
  BY <1>3, Zenon DEF Has
<1>5. w.x \in 0 .. SCR_C - 1 /\ w.y \in 0 .. SCR_R - 1
  BY <1>1, <1>4, ScreenFacts
<1>6. Shows(t, w.x, w.y, w.block, w.cell)
  BY <1>2, <1>4, <1>5, SettledStays, Zenon
<1> QED
  BY <1>2, <1>4, <1>6, PutkSettles, Zenon

(* A cursor that goes to a place of the screen makes a console sound.       *)
LEMMA GotoShows ==
  ASSUME NEW s \in Consoles, NEW x \in 0 .. SCR_C - 1, NEW y \in 0 .. SCR_R - 1,
         NEW t, t = goto_xy(s, x, y)
  PROVE  Shows(t, x, y, s.block, s.cell)
<1>1. PICK p : p = y * SCR_C + x
  OBVIOUS
<1>2. Has(t, x, y, p, s.block, s.cell)
  BY <1>1, GotoIs, Zenon
<1> QED
  BY <1>1, <1>2, Zenon DEF Has, Shows, Sound

-----------------------------------------------------------------------------
(* The header.                                                              *)

(* Below the header nothing has changed, and a scroll has not moved it.     *)
BelowKept(s, u) ==
  u.block = s.block /\ \A i \in Cells : i >= 2 * SCR_C => u.cell[i] = s.cell[i]

LEMMA HeaderLine ==
  ASSUME NEW s, NEW u \in Consoles, BelowKept(s, u), NEW y \in {0, 1},
         NEW text \in Seq(Chars), \A k \in 1 .. Len(text) : Plain(text[k]),
         y * SCR_C + Len(text) <= 2 * SCR_C,
         NEW v, v = puts(goto_xy(u, 0, y), text)
  PROVE  v \in Consoles /\ BelowKept(s, v)
<1>1. /\ 0 \in 0 .. SCR_C - 1 /\ y \in 0 .. SCR_R - 1 /\ Len(text) \in Nat
      /\ 2 * SCR_C < SCR_C * SCR_R
  <2>1. PICK z \in Nat : z = 2 /\ z < SCR_R
    BY ScreenFacts
  <2>2. z * SCR_C + SCR_C <= SCR_R * SCR_C
    BY <2>1, RowsApart, ScreenFacts
  <2> QED
    BY <2>1, <2>2, LenProperties, ScreenFacts
<1>2. PICK w : w = goto_xy(u, 0, y)
  OBVIOUS
<1>3. Shows(w, 0, y, u.block, u.cell)
  BY <1>1, <1>2, GotoShows, Zenon
<1>4. Sound(w) /\ w.x = 0 /\ w.y = y /\ w.block = u.block /\ w.cell = u.cell
  BY <1>3, Zenon DEF Shows
<1>5. w.pos = y * SCR_C
  BY <1>4, SoundFields, ScreenFacts
<1>6. /\ w.pos + Len(text) < SCR_C * SCR_R
      /\ w.pos \in Nat /\ w.pos + Len(text) <= 2 * SCR_C
  BY <1>1, <1>5, ScreenFacts
<1>7. v = puts(w, text)
  BY <1>2
<1>8. /\ Sound(v) /\ v.block = w.block
      /\ \A i \in Cells :
           v.cell[i] = IF i \in w.pos .. w.pos + Len(text) - 1
                       THEN text[i - w.pos + 1] ELSE w.cell[i]
  BY <1>4, <1>6, <1>7, PutsText
<1>9. ASSUME NEW i \in Cells, i >= 2 * SCR_C
      PROVE  v.cell[i] = s.cell[i]
  <2>1. i \in Nat /\ ~(i \in w.pos .. w.pos + Len(text) - 1)
    BY <1>1, <1>6, <1>9, ScreenFacts DEF Cells
  <2>2. v.cell[i] = u.cell[i]
    BY <1>4, <1>8, <2>1
  <2> QED
    BY <1>9, <2>2 DEF BelowKept
<1>10. v.block = s.block
  BY <1>4, <1>8 DEF BelowKept
<1>11. v \in Consoles
  BY <1>8, SoundFields
<1> QED
  BY <1>9, <1>10, <1>11 DEF BelowKept

LEMMA HeaderLeds ==
  ASSUME NEW s, NEW u \in Consoles, BelowKept(s, u),
         NEW v, v = puts(goto_xy(u, 0, 1), <<"\t", "i">>)
  PROVE  Sound(v) /\ BelowKept(s, v)
<1> DEFINE text == <<"\t", "i">>
<1>1. /\ 0 \in 0 .. SCR_C - 1 /\ 1 \in 0 .. SCR_R - 1
  BY ScreenFacts
<1>2. text \in Seq(Chars) /\ Len(text) = 2 /\ text[1] = "\t" /\ text[2] = "i"
  BY DEF Chars
<1>3. PICK w : w = goto_xy(u, 0, 1)
  OBVIOUS
<1>4. Shows(w, 0, 1, u.block, u.cell)
  BY <1>1, <1>3, GotoShows, Zenon
<1>5. Sound(w) /\ w.x = 0 /\ w.y = 1 /\ w.block = u.block /\ w.cell = u.cell
  BY <1>4, Zenon DEF Shows
<1>6. PICK g : /\ g[0] = w /\ g[Len(text)] = v
               /\ \A k \in 1 .. Len(text) : g[k] = putk(g[k - 1], text[k])
  <2>1. w \in Consoles /\ v = puts(w, text)
    BY <1>3, <1>5, SoundFields
  <2> HIDE DEF text
  <2> QED
    BY <1>2, <2>1, PutsRun
<1>7. PICK a : a = putk(w, "\t") /\ v = putk(a, "i")
  <2> HIDE DEF text
  <2>1. /\ g[0] = w /\ g[2] = v /\ 1 \in 1 .. Len(text) /\ 2 \in 1 .. Len(text)
        /\ 1 - 1 = 0 /\ 2 - 1 = 1
    BY <1>2, <1>6
  <2>2. g[1] = putk(g[0], text[1]) /\ g[2] = putk(g[1], text[2])
    BY <1>6, <2>1
  <2> QED
    BY <1>2, <2>1, <2>2, Zenon
<1>8. PICK x : x = w.x + DIM_TAB
  OBVIOUS
<1>9. x < SCR_C /\ x = DIM_TAB
  BY <1>5, <1>8, ScreenFacts
<1>10. Shows(a, x, w.y, w.block, w.cell)
  BY <1>5, <1>7, <1>8, <1>9, PutkTab, Zenon
<1>11. Sound(a) /\ a.x = x /\ a.y = 1 /\ a.block = u.block /\ a.cell = u.cell
  BY <1>5, <1>10, Zenon DEF Shows
<1>12. a.y < SCR_R - 1 /\ a.pos = SCR_C + DIM_TAB
  BY <1>9, <1>11, SoundFields, ScreenFacts
<1>13. Plain("i")
  BY DEF Plain, Unbroken, Chars, BEL
<1>14. Sound(v) /\ v.block = a.block /\ v.cell = Put(a.cell, a.pos, "i")
  BY <1>7, <1>11, <1>12, <1>13, PutkPlain
<1>15. ASSUME NEW i \in Cells, i >= 2 * SCR_C
       PROVE  v.cell[i] = s.cell[i]
  <2>1. i # a.pos
    BY <1>12, <1>15, ScreenFacts DEF Cells
  <2>2. v.cell[i] = u.cell[i]
    BY <1>11, <1>14, <2>1 DEF Put
  <2> QED
    BY <1>15, <2>2 DEF BelowKept
<1> QED
  BY <1>11, <1>14, <1>15 DEF BelowKept

(* The header is drawn, and the cursor returns to where it was.             *)
LEMMA HeaderDrawn ==
  ASSUME NEW s \in Consoles, NEW t, t = info_cur_console(s)
  PROVE  /\ t \in Consoles /\ BelowKept(s, t)
         /\ Sound(s) => Sound(t) /\ t.y >= s.y
         /\ Sound(s) /\ s.y >= 2 => t.x = s.x /\ t.y = s.y
<1> DEFINE names == [i \in 1 .. SCR_C + 1 |-> "h"]
           blanks == Spaces(SCR_C)
           short == Spaces(SCR_C - CLOCK)
<1>1. /\ blanks \in Seq(Chars) /\ Len(blanks) = SCR_C
      /\ \A k \in 1 .. Len(blanks) : Plain(blanks[k])
  BY ScreenFacts DEF Spaces, Plain, Unbroken, Chars, Blank, BEL
<1>2. /\ names \in Seq(Chars) /\ Len(names) = SCR_C + 1
      /\ \A k \in 1 .. Len(names) : Plain(names[k])
  BY ScreenFacts DEF Plain, Unbroken, Chars, BEL
<1>3. /\ short \in Seq(Chars) /\ Len(short) = SCR_C - CLOCK
      /\ \A k \in 1 .. Len(short) : Plain(short[k])
  <2>1. PICK n \in Nat : n = SCR_C - CLOCK
    BY ScreenFacts
  <2>2. /\ Spaces(n) \in Seq(Chars) /\ Len(Spaces(n)) = n
        /\ \A k \in 1 .. n : Plain(Spaces(n)[k])
    BY DEF Spaces, Plain, Unbroken, Chars, Blank, BEL
  <2> QED
    BY <2>1, <2>2
<1> HIDE DEF blanks, names, short
<1>4. BelowKept(s, s) /\ 0 \in {0, 1} /\ 1 \in {0, 1}
  BY DEF BelowKept
<1>5. PICK row0 : row0 = puts(goto_xy(s, 0, 0), blanks)
  OBVIOUS
<1>6. row0 \in Consoles /\ BelowKept(s, row0)
  <2>1. 0 * SCR_C + Len(blanks) <= 2 * SCR_C
    BY <1>1, ScreenFacts
  <2> QED
    BY <1>1, <1>4, <1>5, <2>1, HeaderLine
<1>7. PICK tabs : tabs = puts(goto_xy(row0, 0, 0), names)
  OBVIOUS
<1>8. tabs \in Consoles /\ BelowKept(s, tabs)
  <2>1. 0 * SCR_C + Len(names) <= 2 * SCR_C
    BY <1>2, ScreenFacts
  <2> QED
    BY <1>2, <1>4, <1>6, <1>7, <2>1, HeaderLine
<1>9. PICK row1 : row1 = puts(goto_xy(tabs, 0, 1), short)
  OBVIOUS
<1>10. row1 \in Consoles /\ BelowKept(s, row1)
  <2>1. 1 * SCR_C + Len(short) <= 2 * SCR_C
    BY <1>3, ScreenFacts
  <2> QED
    BY <1>3, <1>4, <1>8, <1>9, <2>1, HeaderLine
<1>11. PICK leds : leds = puts(goto_xy(row1, 0, 1), <<"\t", "i">>)
  OBVIOUS
<1>12. Sound(leds) /\ BelowKept(s, leds) /\ leds \in Consoles
  BY <1>10, <1>11, HeaderLeds, SoundFields
<1>13. t = IF s.x = 0 /\ s.y = 0 THEN goto_xy(leds, 0, 2) ELSE goto_xy(leds, s.x, s.y)
  BY <1>5, <1>7, <1>9, <1>11, Zenon DEF info_cur_console, blanks, names, short
<1>14. ASSUME NEW x \in 0 .. SCR_C - 1, NEW y \in 0 .. SCR_R - 1, t = goto_xy(leds, x, y)
       PROVE  t \in Consoles /\ BelowKept(s, t) /\ Sound(t) /\ t.x = x /\ t.y = y
  <2>1. Shows(t, x, y, leds.block, leds.cell)
    BY <1>12, <1>14, GotoShows, Zenon
  <2>2. Sound(t) /\ t.x = x /\ t.y = y /\ t.block = leds.block /\ t.cell = leds.cell
    BY <2>1, Zenon DEF Shows
  <2> QED
    BY <1>12, <2>2, SoundFields DEF BelowKept
<1>15. CASE s.x = 0 /\ s.y = 0
  <2>1. 0 \in 0 .. SCR_C - 1 /\ 2 \in 0 .. SCR_R - 1
    BY ScreenFacts
  <2> QED
    BY <1>13, <1>14, <1>15, <2>1
<1>16. CASE ~(s.x = 0 /\ s.y = 0)
  <2>1. t = goto_xy(leds, s.x, s.y)
    BY <1>13, <1>16, Zenon
  <2>2. CASE s.x \in 0 .. SCR_C - 1 /\ s.y \in 0 .. SCR_R - 1
    BY <1>14, <2>1, <2>2
  <2>3. CASE ~(s.x \in 0 .. SCR_C - 1 /\ s.y \in 0 .. SCR_R - 1)
    <3>1. t = leds /\ ~Sound(s)
      BY <2>1, <2>3, Zenon DEF goto_xy, Sound
    <3> QED
      BY <1>12, <3>1
  <2> QED
    BY <2>2, <2>3
<1> QED
  BY <1>15, <1>16

LEMMA InWord ==
  ASSUME NEW a \in Nat, a < WORD
  PROVE  a % WORD = a
<1>1. WORD \in Nat
  BY ScreenFacts
<1> QED
  BY <1>1

(* The screen is cleared under the header.                                  *)
LEMMA KlearSound ==
  ASSUME NEW s \in Consoles, NEW t, t = klear(s)
  PROVE  Sound(t) /\ t.y = 2
<1> DEFINE f == [i \in Cells |-> IF i \div SCR_C >= HEADER THEN Blank ELSE s.cell[i]]
<1>1. f \in [Cells -> Chars]
  BY Fields DEF Chars, Blank
<1>2. PICK u : u = [s EXCEPT !.cell = f]
  OBVIOUS
<1>3. t = goto_xy(u, 0, 2)
  BY <1>2, Zenon DEF klear
<1> HIDE DEF f
<1>4. Has(u, s.x, s.y, s.pos, s.block, f)
  BY <1>1, <1>2, SetCell, Zenon
<1>5. u \in Consoles
  BY <1>4, Zenon DEF Has
<1>6. 0 \in 0 .. SCR_C - 1 /\ 2 \in 0 .. SCR_R - 1
  BY ScreenFacts
<1>7. Shows(t, 0, 2, u.block, u.cell)
  BY <1>3, <1>5, <1>6, GotoShows, Zenon
<1> QED
  BY <1>7, Zenon DEF Shows

LEMMA PrintokSound ==
  ASSUME NEW s, Sound(s), NEW t, t = printok(s)
  PROVE  Sound(t) /\ t.y >= s.y
<1>1. PICK at : at = IF SCR_C - s.x > 3 THEN goto_xy(s, SCR_C - 3, s.y) ELSE puts(s, <<"\n">>)
  OBVIOUS
<1>2. t = puts(at, <<"G", "o", "\n">>)
  BY <1>1, Zenon DEF printok
<1>3. <<"\n">> \in Seq(Chars) /\ <<"G", "o", "\n">> \in Seq(Chars)
  BY DEF Chars
<1>4. s \in Consoles /\ s.x \in 0 .. SCR_C - 1 /\ s.y \in 0 .. SCR_R - 1
  BY SoundFields
<1>5. Sound(at) /\ at.y >= s.y
  <2>1. CASE SCR_C - s.x > 3
    <3>1. PICK x : x = SCR_C - 3
      OBVIOUS
    <3>2. x \in 0 .. SCR_C - 1
      BY <1>4, <2>1, <3>1, ScreenFacts
    <3>3. at = goto_xy(s, x, s.y)
      BY <1>1, <2>1, <3>1
    <3>4. Shows(at, x, s.y, s.block, s.cell)
      BY <1>4, <3>2, <3>3, GotoShows, Zenon
    <3>5. Sound(at) /\ at.y = s.y
      BY <3>4, Zenon DEF Shows
    <3> QED
      BY <1>4, <3>5
  <2>2. CASE ~(SCR_C - s.x > 3)
    <3>1. at = puts(s, <<"\n">>)
      BY <1>1, <2>2
    <3> QED
      BY <1>3, <3>1, PutsSound
  <2> QED
    BY <2>1, <2>2
<1>6. Sound(t) /\ t.y >= at.y
  BY <1>2, <1>3, <1>5, PutsSound
<1>7. t.y \in Int /\ at.y \in Int
  BY <1>5, <1>6, SoundFields
<1> QED
  BY <1>4, <1>5, <1>6, <1>7

(* A backspace erases the character before the cursor, and no other.        *)
LEMMA BackspaceIs ==
  ASSUME NEW s, Sound(s), s.pos > s.block, s.block >= 0, NEW t, t = echo_backspace(s)
  PROVE  /\ t \in Consoles /\ t.block = s.block
         /\ \A i \in Cells : i # s.pos - 1 => t.cell[i] = s.cell[i]
<1>1. /\ s \in Consoles /\ s.x \in Int /\ s.y \in Int /\ s.pos \in Int /\ s.block \in Int
      /\ s.pos \in Cells
  BY SoundFields
<1>2. PICK p, x : p = s.pos - 1 /\ x = (s.x - 1) % WORD
  OBVIOUS
<1>3. p \in Int /\ x \in Int /\ p = (s.pos - 1) % WORD /\ s.pos # s.block
  <2>1. s.pos - 1 \in 0 .. WORD - 1
    BY <1>1, ScreenFacts DEF Cells
  <2> QED
    BY <1>1, <1>2, <2>1, ScreenFacts
<1>4. PICK a : a = [s EXCEPT !.pos = p, !.x = x]
  OBVIOUS
<1>5. Has(a, x, s.y, p, s.block, s.cell)
  BY <1>1, <1>3, <1>4, SetXPos, Zenon
<1>6. a \in Consoles /\ a.x = x /\ a.y = s.y /\ a.pos = p /\ a.block = s.block /\ a.cell = s.cell
  BY <1>5, Zenon DEF Has
<1>7. PICK b : b = IF a.x = 0 THEN [a EXCEPT !.y = a.y - 1, !.x = SCR_C] ELSE a
  OBVIOUS
<1>8. t = Write(b, Blank)
  BY <1>2, <1>3, <1>4, <1>7, Zenon DEF echo_backspace
<1>9. b \in Consoles /\ b.pos = p /\ b.block = s.block /\ b.cell = s.cell
  <2>1. CASE a.x = 0
    <3>1. PICK y, c : y = a.y - 1 /\ c = SCR_C /\ y \in Int /\ c \in Int
      BY <1>1, <1>6, ScreenFacts
    <3>2. b = [a EXCEPT !.y = y, !.x = c]
      BY <1>7, <2>1, <3>1, Zenon
    <3>3. Has(b, c, y, a.pos, a.block, a.cell)
      BY <1>6, <3>1, <3>2, SetXY, Zenon
    <3> QED
      BY <1>6, <3>3, Zenon DEF Has
  <2>2. CASE a.x # 0
    BY <1>6, <1>7, <2>2, Zenon
  <2> QED
    BY <2>1, <2>2
<1>10. Blank \in Chars
  BY DEF Chars
<1>11. Has(t, b.x, b.y, b.pos, b.block, Put(b.cell, b.pos, Blank))
  BY <1>8, <1>9, <1>10, WriteIs, Zenon
<1>12. t \in Consoles /\ t.block = s.block /\ t.cell = Put(s.cell, p, Blank)
  BY <1>9, <1>11, Zenon DEF Has
<1>13. \A i \in Cells : i # p => t.cell[i] = s.cell[i]
  BY <1>12 DEF Put
<1> QED
  BY <1>2, <1>12, <1>13

(* Ends of lines after the rows of a line: while they scroll the screen the *)
(* block of the screen moves with the text.                                 *)
LEMMA NewlinesFollowed ==
  ASSUME NEW s, Sound(s), s.y \in 2 .. SCR_R - 2, NEW l \in 0 .. SCR_C - 1,
         s.block = s.y * SCR_C + l, NEW n \in 0 .. SCR_R - 3,
         NEW t, t = puts(s, [i \in 1 .. n |-> "\n"])
  PROVE  Sound(t) /\ t.y \in n + 2 .. SCR_R - 1 /\ t.block = (t.y - n) * SCR_C + l
<1> DEFINE text == [i \in 1 .. n |-> "\n"]
<1>1. /\ text \in Seq(Chars) /\ Len(text) = n /\ \A k \in 1 .. n : text[k] = "\n"
      /\ n \in Nat
  BY ScreenFacts DEF Chars
<1>2. s \in Consoles /\ s.y \in Nat
  BY SoundFields
<1> HIDE DEF text
<1>3. PICK g : /\ g[0] = s /\ g[Len(text)] = t
               /\ \A k \in 1 .. Len(text) : g[k] = putk(g[k - 1], text[k])
  <2>1. t = puts(s, text)
    BY DEF text
  <2> QED
    BY <1>1, <1>2, <2>1, PutsRun
<1>4. g[0] = s /\ g[n] = t /\ \A k \in 1 .. n : g[k] = putk(g[k - 1], "\n")
  BY <1>1, <1>3
<1> DEFINE Follows(u, k) ==
             Sound(u) /\ u.y \in k + 2 .. SCR_R - 1 /\ u.block = (u.y - k) * SCR_C + l
           W == {k \in 0 .. n : Follows(g[k], k)}
<1>5. 0 \in W
  <2>1. s.y \in 0 + 2 .. SCR_R - 1 /\ s.y - 0 = s.y
    BY <1>2, ScreenFacts
  <2> QED
    BY <1>1, <1>4, <2>1
<1>6. ASSUME NEW k \in 1 .. n, k - 1 \in W
      PROVE  k \in W
  <2>1. PICK u, v : u = g[k - 1] /\ v = g[k]
    OBVIOUS
  <2>2. /\ Sound(u) /\ u.y \in (k - 1) + 2 .. SCR_R - 1
        /\ u.block = (u.y - (k - 1)) * SCR_C + l
    BY <1>6, <2>1
  <2>3. v = putk(u, "\n")
    BY <1>1, <1>4, <2>1
  <2>5. u.y \in Int /\ k \in Nat /\ k + 1 <= u.y /\ u.y <= SCR_R - 1 /\ k + 2 <= SCR_R - 1
    BY <1>1, <2>2, ScreenFacts
  <2>4. Follows(v, k)
    <3>1. CASE u.y < SCR_R - 1
      <4>1. PICK y : y = u.y + 1
        OBVIOUS
      <4>2. Shows(putk(u, "\n"), 0, y, u.block, u.cell)
        BY <2>2, <3>1, <4>1, PutkNewline, Zenon
      <4>3. Sound(v) /\ v.y = y /\ v.block = u.block
        BY <2>3, <4>2, Zenon DEF Shows
      <4>4. y \in k + 2 .. SCR_R - 1 /\ y - k = u.y - (k - 1)
        BY <2>5, <3>1, <4>1, ScreenFacts
      <4> QED
        BY <2>2, <4>3, <4>4
    <3>2. CASE ~(u.y < SCR_R - 1)
      <4>1. PICK y, b : y = SCR_R - 1 /\ b = (u.block - SCR_C) % WORD
        OBVIOUS
      <4>2. u.y = y /\ y \in k + 2 .. SCR_R - 1
        BY <2>5, <3>2, <4>1, ScreenFacts
      <4>3. PICK f : Shows(putk(u, "\n"), 0, y, b, f)
        BY <2>2, <4>1, <4>2, PutkNewlineScrolls, Zenon
      <4>4. Sound(v) /\ v.y = y /\ v.block = b
        BY <2>3, <4>3, Zenon DEF Shows
      <4>5. PICK d \in Nat : d = y - k /\ d < SCR_R /\ y - (k - 1) = d + 1
        BY <2>5, <4>1, ScreenFacts
      <4>6. u.block - SCR_C = d * SCR_C + l
        <5>1. u.block = (d + 1) * SCR_C + l
          BY <2>2, <4>2, <4>5, Zenon
        <5> QED
          BY <4>5, <5>1, ScreenFacts
      <4>7. d * SCR_C + SCR_C <= SCR_R * SCR_C
        <5>1. d \in Int /\ SCR_R \in Int /\ d < SCR_R
          BY <4>5, ScreenFacts
        <5> QED
          BY <5>1, RowsApart, Zenon
      <4>8. b = d * SCR_C + l
        <5>1. PICK e \in Nat : e = d * SCR_C + l /\ e < WORD
          <6>1. d * SCR_C \in Nat /\ SCR_R * SCR_C = SCR_C * SCR_R
            BY <4>5, ScreenFacts
          <6> QED
            BY <4>7, <6>1, ScreenFacts
        <5>2. e % WORD = e
          BY <5>1, InWord
        <5> QED
          BY <4>1, <4>6, <5>1, <5>2, Zenon
      <4> QED
        BY <4>2, <4>4, <4>5, <4>8
    <3> QED
      BY <3>1, <3>2
  <2> HIDE DEF Follows
  <2> QED
    BY <2>1, <2>4
<1>7. n \in W
  <2> HIDE DEF W
  <2>1. 0 .. n \subseteq W
    BY <1>1, <1>5, <1>6, UpTo
  <2> QED
    BY <1>1, <2>1
<1> QED
  BY <1>4, <1>7

-----------------------------------------------------------------------------
(* The line on the screen.                                                  *)

(* A text on the screen from the beginning of a row, and blanks behind it.  *)
Starts(c, row, text) ==
  \A i \in 1 .. Len(text) : c.cell[row * SCR_C + (i - 1)] = text[i]
Clear(c, row, n, rows) ==
  \A i \in n .. rows * SCR_C - 1 : c.cell[row * SCR_C + i] = Blank

LEMMA PromptFacts ==
  /\ PROMPT \in Seq(Chars) /\ Len(PROMPT) \in 0 .. SCR_C - 1
  /\ \A i \in 1 .. Len(PROMPT) : Plain(PROMPT[i])
  /\ MaxLen \in Nat /\ (Len(PROMPT) + MaxLen) \div SCR_C + 1 < SCR_R - 2
<1>1. PROMPT \in Seq(STRING) /\ STRING \subseteq Chars
  BY ShellAssumption DEF Chars
<1>2. PROMPT \in Seq(Chars) /\ Len(PROMPT) \in Nat
  BY <1>1, SeqMonotonic, LenProperties
<1>3. \A i \in 1 .. Len(PROMPT) : PROMPT[i] \in Chars
  BY <1>2, ElementOfSeq
<1>4. \A i \in 1 .. Len(PROMPT) : PROMPT[i] # "\n" /\ PROMPT[i] # "\t" /\ PROMPT[i] # BEL
  BY ShellAssumption
<1>5. Len(PROMPT) < SCR_C /\ MaxLen \in Nat
  BY ShellAssumption
<1>6. (Len(PROMPT) + MaxLen) \div SCR_C + 1 < SCR_R - 2
  <2>1. (Len(PROMPT) + MaxLen) \div SCR_C + 1 < SCR_R - HEADER
    BY ShellAssumption
  <2> QED
    BY <2>1, ScreenFacts
<1>7. Len(PROMPT) \in 0 .. SCR_C - 1
  BY <1>2, <1>5, ScreenFacts
<1> QED
  BY <1>2, <1>3, <1>4, <1>5, <1>6, <1>7 DEF Plain, Unbroken

LEMMA TypedUnbroken ==
  ASSUME NEW k \in Typed
  PROVE  Unbroken(k)
<1>1. CASE k \in Letter
  BY <1>1, ShellAssumption DEF Unbroken, Chars
<1>2. CASE k \in {NUL, BEL}
  BY <1>2 DEF Unbroken, Chars, NUL, BEL
<1> QED
  BY <1>1, <1>2 DEF Typed

(* The text of a line: the prompt, and what is in front of a NUL.           *)
LEMMA TextOf ==
  ASSUME NEW line \in Lines, NEW text, text = PROMPT \o String(line)
  PROVE  /\ text \in Seq(Chars) /\ Len(text) \in Nat
         /\ Len(text) >= Len(PROMPT) /\ Len(text) <= Len(PROMPT) + Len(line)
         /\ \A i \in 1 .. Len(text) : Unbroken(text[i])
         /\ \A i \in 1 .. Len(PROMPT) :
              i \in 1 .. Len(text) /\ text[i] = PROMPT[i] /\ text[i] # BEL
<1>1. PICK string : string = String(line)
  OBVIOUS
<1>2. string \in Lines /\ Len(string) <= Len(line) /\ line \in Seq(Typed)
  BY <1>1, StringOfLine DEF Lines
<1>3. /\ string \in Seq(Typed) /\ Len(string) \in Nat /\ Len(line) \in Nat
      /\ Len(PROMPT) \in Nat /\ PROMPT \in Seq(Chars)
      /\ \A i \in 1 .. Len(string) : string[i] \in Typed
  BY <1>2, PromptFacts, LenProperties, ElementOfSeq DEF Lines
<1>4. string \in Seq(Chars)
  <2>1. Typed \subseteq Chars
    BY TypedUnbroken DEF Unbroken
  <2> QED
    BY <1>3, <2>1, SeqMonotonic
<1>5. /\ text \in Seq(Chars) /\ Len(text) = Len(PROMPT) + Len(string)
      /\ \A i \in 1 .. Len(PROMPT) + Len(string) :
           text[i] = IF i <= Len(PROMPT) THEN PROMPT[i] ELSE string[i - Len(PROMPT)]
  BY <1>1, <1>3, <1>4, ConcatProperties
<1>6. ASSUME NEW i \in 1 .. Len(text)
      PROVE  Unbroken(text[i])
  <2>1. CASE i <= Len(PROMPT)
    BY <1>3, <1>5, <2>1, PromptFacts DEF Plain
  <2>2. CASE ~(i <= Len(PROMPT))
    <3>1. i - Len(PROMPT) \in 1 .. Len(string)
      BY <1>3, <1>5, <2>2
    <3>2. text[i] = string[i - Len(PROMPT)]
      BY <1>5, <2>2
    <3>3. text[i] \in Typed
      BY <1>3, <3>1, <3>2
    <3> QED
      BY <3>3, TypedUnbroken
  <2> QED
    BY <2>1, <2>2
<1>7. ASSUME NEW i \in 1 .. Len(PROMPT)
      PROVE  i \in 1 .. Len(text) /\ text[i] = PROMPT[i] /\ text[i] # BEL
  BY <1>3, <1>5, PromptFacts DEF Plain
<1>8. /\ Len(text) \in Nat /\ Len(text) >= Len(PROMPT)
      /\ Len(text) <= Len(PROMPT) + Len(line)
  BY <1>2, <1>3, <1>5
<1> QED
  BY <1>5, <1>6, <1>7, <1>8

(* The rows of a line hold it, and there is a row of the screen below them. *)
LEMMA RowsOf ==
  ASSUME NEW n \in 0 .. MaxLen, NEW rows, rows = righe_occupate(n)
  PROVE  /\ rows \in 1 .. SCR_R - 3
         /\ Len(PROMPT) + n < rows * SCR_C
<1>1. /\ Len(PROMPT) \in Nat /\ MaxLen \in Nat /\ n \in Nat /\ n <= MaxLen
      /\ (Len(PROMPT) + MaxLen) \div SCR_C + 1 < SCR_R - 2
  BY PromptFacts, ScreenFacts
<1>2. PICK a \in Nat, b \in Nat : a = Len(PROMPT) + n /\ b = Len(PROMPT) + MaxLen /\ a <= b
  BY <1>1
<1>3. PICK q \in Nat, r \in 0 .. SCR_C - 1 : a = q * SCR_C + r /\ a \div SCR_C = q
  BY RowColumn
<1>4. PICK u \in Nat, v \in 0 .. SCR_C - 1 : b = u * SCR_C + v /\ b \div SCR_C = u
  BY RowColumn
<1>5. q <= u
  <2> SUFFICES ASSUME u < q PROVE FALSE
    OBVIOUS
  <2>1. u * SCR_C + SCR_C <= q * SCR_C
    BY RowsApart
  <2> QED
    BY <1>2, <1>3, <1>4, <2>1, ScreenFacts
<1>6. rows = q + 1
  BY <1>2, <1>3, Zenon DEF righe_occupate
<1>7. u + 1 < SCR_R - 2
  BY <1>1, <1>2, <1>4, Zenon
<1>8. rows \in 1 .. SCR_R - 3
  BY <1>5, <1>6, <1>7, ScreenFacts
<1>9. rows * SCR_C = q * SCR_C + SCR_C
  BY <1>6, ScreenFacts
<1>10. a < rows * SCR_C
  BY <1>3, <1>9, ScreenFacts
<1> QED
  BY <1>2, <1>8, <1>10

(* The line of the shell: its rows end above the last one of the screen,    *)
(* the block of the screen is right after the prompt.                       *)
LineAt(c, row, line) ==
  /\ row \in 2 .. SCR_R - 2 /\ row + righe_occupate(Len(line)) <= SCR_R - 1
  /\ c.block = row * SCR_C + Len(PROMPT)

(* It is shown from the prompt to its end, but for a '\a' in it, with the    *)
(* cursor at its place.                                                     *)
Silent(text) == \A i \in 1 .. Len(text) : text[i] # BEL
Showing_line(c, row, line, cursor) ==
  /\ Sound(c) /\ LineAt(c, row, line) /\ Starts(c, row, PROMPT)
  /\ Silent(PROMPT \o String(line)) => Starts(c, row, PROMPT \o String(line))
  /\ c.pos = row * SCR_C + Len(PROMPT) + cursor

LEMMA RowInCells ==
  ASSUME NEW row \in Nat, NEW rows \in Nat, row + rows <= SCR_R,
         NEW n \in Nat, n < rows * SCR_C
  PROVE  /\ row * SCR_C + n \in Cells
         /\ (row * SCR_C + n) \div SCR_C \in row .. row + rows - 1
         /\ row * SCR_C + n < SCR_C * SCR_R
<1>1. PICK q \in Nat, r \in 0 .. SCR_C - 1 : n = q * SCR_C + r
  BY RowColumn
<1>2. q < rows
  <2> SUFFICES ASSUME ~(q < rows) PROVE FALSE
    OBVIOUS
  <2>1. rows * SCR_C <= q * SCR_C
    <3>1. rows = q \/ rows < q
      OBVIOUS
    <3>2. rows < q => rows * SCR_C + SCR_C <= q * SCR_C
      BY RowsApart
    <3> QED
      BY <3>1, <3>2, ScreenFacts
  <2> QED
    BY <1>1, <2>1, ScreenFacts
<1>3. PICK z \in Nat : z = row + q /\ z < SCR_R /\ z \in row .. row + rows - 1
  BY <1>2, ScreenFacts
<1>4. row * SCR_C + n = z * SCR_C + r
  BY <1>1, <1>3, ScreenFacts
<1>5. (z * SCR_C + r) \div SCR_C = z
  BY <1>1, DivPlace
<1>6. z * SCR_C + SCR_C <= SCR_R * SCR_C
  <2>1. z \in Int /\ SCR_R \in Int
    BY ScreenFacts
  <2> QED
    BY <1>3, <2>1, RowsApart, Zenon
<1>7. row * SCR_C + n < SCR_C * SCR_R
  BY <1>4, <1>6, ScreenFacts
<1>8. row * SCR_C + n \in Nat
  BY ScreenFacts
<1>9. (row * SCR_C + n) \div SCR_C = z
  BY <1>4, <1>5, Zenon
<1> QED
  BY <1>3, <1>7, <1>8, <1>9, ScreenFacts DEF Cells

(* A row and a place in it are the cursor.                                  *)
LEMMA CursorAt ==
  ASSUME NEW c, Sound(c), NEW row \in Nat, NEW n \in Nat,
         c.x = n % SCR_C, c.y = row + n \div SCR_C
  PROVE  c.pos = row * SCR_C + n
<1>1. PICK q \in Nat, r \in 0 .. SCR_C - 1 :
        n = q * SCR_C + r /\ n \div SCR_C = q /\ n % SCR_C = r
  BY RowColumn
<1>2. c.x = r /\ c.y = row + q
  BY <1>1
<1>3. c.pos = (row + q) * SCR_C + r
  BY <1>2 DEF Sound
<1>4. (row + q) * SCR_C = row * SCR_C + q * SCR_C
  BY ScreenFacts
<1> QED
  BY <1>1, <1>3, <1>4, ScreenFacts

(* The line is drawn again: there is room for it, which the text that       *)
(* scrolled made, and the block of the screen moved with its prompt.        *)
LEMMA Redrawn ==
  ASSUME con \in Consoles, startline \in 2 .. SCR_R - 2,
         con.block = startline * SCR_C + Len(PROMPT),
         NEW line \in Lines, NEW cursor \in 0 .. Len(line), redraw(line, cursor)
  PROVE  /\ Showing_line(con', startline', line, cursor)
         /\ Clear(con', startline', Len(PROMPT \o String(line)), righe_occupate(Len(line)))
<1>1. /\ line \in Seq(Typed) /\ Len(line) \in 0 .. MaxLen /\ Len(PROMPT) \in 0 .. SCR_C - 1
      /\ MaxLen \in Nat
  BY PromptFacts, LenProperties DEF Lines
<1>2. PICK n : n = righe_occupate(Len(line))
  OBVIOUS
<1>3. n \in 1 .. SCR_R - 3 /\ Len(PROMPT) + Len(line) < n * SCR_C
  BY <1>1, <1>2, RowsOf
<1>4. PICK text : text = PROMPT \o String(line)
  OBVIOUS
<1>5. /\ text \in Seq(Chars) /\ Len(text) \in Nat
      /\ Len(text) >= Len(PROMPT) /\ Len(text) <= Len(PROMPT) + Len(line)
      /\ \A i \in 1 .. Len(text) : Unbroken(text[i])
      /\ \A i \in 1 .. Len(PROMPT) :
           i \in 1 .. Len(text) /\ text[i] = PROMPT[i] /\ text[i] # BEL
  BY <1>4, TextOf
<1>37. PICK m \in 0 .. Len(text) :
         /\ m >= Len(PROMPT) /\ \A i \in 1 .. m : text[i] # BEL
         /\ Silent(text) => m = Len(text)
  <2>1. CASE Silent(text)
    BY <1>5, <2>1 DEF Silent
  <2>2. CASE ~Silent(text)
    <3>1. Len(PROMPT) \in 0 .. Len(text)
      BY <1>1, <1>5
    <3> QED
      BY <1>5, <2>2, <3>1
  <2> QED
    BY <2>1, <2>2
<1>6. 0 \in 0 .. SCR_C - 1 /\ startline \in 0 .. SCR_R - 1
  BY ScreenFacts
<1>7. PICK top : top = goto_xy(con, 0, startline)
  OBVIOUS
<1>8. Sound(top) /\ top.y = startline /\ top.block = con.block
  <2>1. Shows(top, 0, startline, con.block, con.cell)
    BY <1>6, <1>7, GotoShows, Zenon
  <2> QED
    BY <2>1, Zenon DEF Shows
<1>9. PICK below : below = puts(top, [i \in 1 .. n |-> "\n"])
  OBVIOUS
<1>10. PICK start : start = below.y - n
  OBVIOUS
<1>11. /\ Sound(below) /\ start \in 2 .. SCR_R - 1 - n
       /\ below.block = start * SCR_C + Len(PROMPT)
  <2>1. /\ top.y \in 2 .. SCR_R - 2 /\ n \in 0 .. SCR_R - 3
        /\ top.block = top.y * SCR_C + Len(PROMPT)
    BY <1>3, <1>8
  <2>2. /\ Sound(below) /\ below.y \in n + 2 .. SCR_R - 1
        /\ below.block = (below.y - n) * SCR_C + Len(PROMPT)
    BY <1>1, <1>8, <1>9, <2>1, NewlinesFollowed
  <2>3. below.y \in n + 2 .. SCR_R - 1 /\ n \in Nat /\ SCR_R \in Nat
    BY <1>3, <2>2, ScreenFacts
  <2>4. start \in 2 .. SCR_R - 1 - n
    BY <1>10, <2>3
  <2> QED
    BY <1>10, <2>2, <2>4, Zenon
<1>12. PICK room : room = ClearRows(below, start, n)
  OBVIOUS
<1>13. /\ room \in Consoles /\ room.block = below.block
       /\ \A i \in Cells : i \div SCR_C \in start .. start + n - 1 => room.cell[i] = Blank
  <2> DEFINE f == [i \in Cells |->
                     IF i \div SCR_C \in start .. start + n - 1 THEN Blank ELSE below.cell[i]]
  <2>1. below \in Consoles /\ below.cell \in [Cells -> Chars]
    BY <1>11, SoundFields
  <2>2. f \in [Cells -> Chars]
    BY <2>1 DEF Chars
  <2>3. room = [below EXCEPT !.cell = f]
    BY <1>12, Zenon DEF ClearRows
  <2>4. \A i \in Cells : i \div SCR_C \in start .. start + n - 1 => f[i] = Blank
    BY Zenon
  <2> HIDE DEF f
  <2>5. Has(room, below.x, below.y, below.pos, below.block, f)
    BY <2>1, <2>2, <2>3, SetCell, Zenon
  <2> QED
    BY <2>4, <2>5, Zenon DEF Has
<1>14. PICK left : left = goto_xy(room, 0, start)
  OBVIOUS
<1>15. /\ Sound(left) /\ left.x = 0 /\ left.y = start /\ left.block = room.block
       /\ left.cell = room.cell
  <2>1. start \in 0 .. SCR_R - 1
    BY <1>3, <1>11, ScreenFacts
  <2>2. Shows(left, 0, start, room.block, room.cell)
    BY <1>6, <1>13, <1>14, <2>1, GotoShows, Zenon
  <2> QED
    BY <2>2, Zenon DEF Shows
<1>16. left.pos = start * SCR_C
  <2>1. left.pos = left.y * SCR_C + left.x /\ left.x = 0 /\ left.y = start
    BY <1>15, SoundFields, Zenon
  <2>2. left.pos = start * SCR_C + 0
    BY <2>1, Zenon
  <2>3. start \in Int /\ SCR_C \in Int
    BY <1>3, <1>11, ScreenFacts
  <2>4. start * SCR_C \in Int
    BY <2>3
  <2> QED
    BY <2>2, <2>4
<1>17. PICK drawn_line : drawn_line = puts(left, text)
  OBVIOUS
<1>18. start \in Nat /\ n \in Nat /\ start + n <= SCR_R /\ Len(text) \in Nat
  BY <1>1, <1>3, <1>5, <1>11, ScreenFacts
<1>38. n * SCR_C \in Nat /\ Len(text) < n * SCR_C
  <2>1. n * SCR_C \in Nat
    BY <1>18, ScreenFacts
  <2> QED
    BY <1>1, <1>3, <1>5, <2>1
<1>19. start * SCR_C + Len(text) < SCR_C * SCR_R
  BY <1>18, <1>38, RowInCells
<1>36. left.pos + Len(text) < SCR_C * SCR_R
  BY <1>16, <1>19, Zenon
<1>20. /\ Sound(drawn_line) /\ drawn_line.block = left.block
       /\ \A i \in Cells :
            /\ i \in left.pos .. left.pos + m - 1
                 => drawn_line.cell[i] = text[i - left.pos + 1]
            /\ i \notin left.pos .. left.pos + Len(text) - 1
                 => drawn_line.cell[i] = left.cell[i]
  <2>1. text \in Seq(Chars) /\ \A i \in 1 .. Len(text) : Unbroken(text[i])
    BY <1>5
  <2>2. Sound(left)
    BY <1>15
  <2> QED
    BY <1>17, <1>36, <1>37, <2>1, <2>2, PutsPrefix
<1>21. start * SCR_C \in Nat
  BY <1>18, ScreenFacts
<1>22. ASSUME NEW i \in 1 .. m
       PROVE  drawn_line.cell[start * SCR_C + (i - 1)] = text[i]
  <2>1. PICK j \in Nat : j = i - 1 /\ j < n * SCR_C
    <3>1. m \in Nat /\ m <= Len(text)
      BY <1>5
    <3> QED
      BY <1>38, <3>1
  <2>2. start * SCR_C + j \in Cells
    BY <1>18, <2>1, RowInCells
  <2>3. PICK p \in Cells : p = start * SCR_C + j
    BY <2>2
  <2>4. p \in left.pos .. left.pos + m - 1 /\ p - left.pos + 1 = i
    <3>1. PICK a \in Nat : a = start * SCR_C
      BY <1>21
    <3>2. p = a + j /\ left.pos = a
      BY <1>16, <2>3, <3>1, Zenon
    <3>3. m \in Nat /\ i \in 1 .. m
      BY <1>5
    <3> QED
      BY ONLY <2>1, <3>1, <3>2, <3>3, i \in Nat
  <2>5. drawn_line.cell[p] = text[i]
    BY <1>20, <2>4
  <2> QED
    BY <2>1, <2>3, <2>5
<1>23. ASSUME NEW i \in Len(text) .. n * SCR_C - 1
       PROVE  drawn_line.cell[start * SCR_C + i] = Blank
  <2>1. i \in Nat /\ i < n * SCR_C
    BY <1>18, <1>38
  <2>2. /\ start * SCR_C + i \in Cells
        /\ (start * SCR_C + i) \div SCR_C \in start .. start + n - 1
    BY <1>18, <2>1, RowInCells
  <2>3. PICK p \in Cells : p = start * SCR_C + i /\ p \div SCR_C \in start .. start + n - 1
    BY <2>2
  <2>4. ~(p \in left.pos .. left.pos + Len(text) - 1)
    BY <1>16, <1>18, <1>21, <2>1, <2>3
  <2>5. drawn_line.cell[p] = left.cell[p]
    BY <1>20, <2>4
  <2>6. room.cell[p] = Blank
    BY <1>13, <2>3
  <2> QED
    BY <1>15, <2>3, <2>5, <2>6
<1>24. PICK k \in Nat : k = Len(PROMPT) + cursor
  BY <1>1
<1>25. /\ con' = goto_xy(drawn_line, k % SCR_C, start + k \div SCR_C)
       /\ startline' = start
  BY <1>2, <1>4, <1>7, <1>9, <1>10, <1>12, <1>14, <1>17, <1>24, Zenon DEF redraw, Start
<1>26. PICK q \in Nat, r \in 0 .. SCR_C - 1 :
         k = q * SCR_C + r /\ k \div SCR_C = q /\ k % SCR_C = r
  BY RowColumn
<1>27. PICK y : y = start + q
  OBVIOUS
<1>28. y \in 0 .. SCR_R - 1
  <2>1. k < n * SCR_C
    BY <1>1, <1>3, <1>24, ScreenFacts
  <2>2. (start * SCR_C + k) \div SCR_C \in start .. start + n - 1
    BY <1>18, <2>1, RowInCells
  <2>3. (y * SCR_C + r) \div SCR_C = y /\ y \in Int
    BY <1>18, <1>27, DivPlace
  <2>4. y * SCR_C + r = start * SCR_C + k
    BY <1>18, <1>26, <1>27, ScreenFacts
  <2>5. y \in start .. start + n - 1
    BY <2>2, <2>3, <2>4
  <2> QED
    BY <1>3, <1>11, <2>5, ScreenFacts
<1>29. PICK c : c = con'
  OBVIOUS
<1>30. c = goto_xy(drawn_line, r, y)
  BY <1>25, <1>26, <1>27, <1>29, Zenon
<1>31. /\ Sound(c) /\ c.x = r /\ c.y = y /\ c.block = drawn_line.block
       /\ c.cell = drawn_line.cell
  <2>1. drawn_line \in Consoles
    BY <1>20, SoundFields
  <2>2. Shows(c, r, y, drawn_line.block, drawn_line.cell)
    BY <1>28, <1>30, <2>1, GotoShows, Zenon
  <2> QED
    BY <2>2, Zenon DEF Shows
<1>32. c.pos = start * SCR_C + Len(PROMPT) + cursor
  <2>1. c.pos = start * SCR_C + k
    BY <1>18, <1>26, <1>27, <1>31, CursorAt
  <2> QED
    BY <1>1, <1>18, <1>21, <1>24, <2>1
<1>33. LineAt(c, start, line)
  <2>1. start \in 2 .. SCR_R - 2 /\ start + n <= SCR_R - 1
    BY <1>3, <1>11, ScreenFacts
  <2>2. c.block = start * SCR_C + Len(PROMPT)
    BY <1>11, <1>13, <1>15, <1>20, <1>31
  <2> QED
    BY <1>2, <2>1, <2>2, Zenon DEF LineAt
<1>34. Clear(c, start, Len(text), n)
  BY <1>23, <1>31, Zenon DEF Clear
<1>39. Silent(text) => Starts(c, start, text)
  BY <1>22, <1>31, <1>37, Zenon DEF Starts
<1>40. Starts(c, start, PROMPT)
  <2>1. ASSUME NEW i \in 1 .. Len(PROMPT)
        PROVE  c.cell[start * SCR_C + (i - 1)] = PROMPT[i]
    <3>1. i \in 1 .. m /\ text[i] = PROMPT[i]
      BY <1>1, <1>5, <1>37
    <3> QED
      BY <1>22, <1>31, <3>1, Zenon
  <2> QED
    BY <2>1, Zenon DEF Starts
<1>35. Showing_line(c, start, line, cursor)
  BY <1>4, <1>31, <1>32, <1>33, <1>39, <1>40, Zenon DEF Showing_line
<1> QED
  BY <1>2, <1>4, <1>25, <1>29, <1>34, <1>35, Zenon

LEMMA NextRow ==
  ASSUME NEW r \in Nat, NEW z, z = r + 1
  PROVE  z * SCR_C = r * SCR_C + SCR_C
BY ScreenFacts

(* One character more at the end of a text is printed after it.             *)
LEMMA PutsOneMore ==
  ASSUME NEW s \in Consoles, NEW text \in Seq(Chars), NEW c \in Chars
  PROVE  puts(s, text \o <<c>>) = putk(puts(s, text), c)
<1> DEFINE n == Len(text)
           more == text \o <<c>>
<1>1. /\ n \in Nat /\ more \in Seq(Chars) /\ Len(more) = n + 1
      /\ \A i \in 1 .. n : more[i] = text[i]
      /\ more[n + 1] = c
  <2>1. <<c>> \in Seq(Chars) /\ Len(<<c>>) = 1 /\ <<c>>[1] = c /\ n \in Nat
    BY LenProperties
  <2>2. /\ more \in Seq(Chars) /\ Len(more) = n + Len(<<c>>)
        /\ \A i \in 1 .. n + Len(<<c>>) :
             more[i] = IF i <= n THEN text[i] ELSE <<c>>[i - n]
    BY <2>1, ConcatProperties
  <2> QED
    BY <2>1, <2>2
<1>2. PICK g : /\ g[0] = s /\ g[n] = puts(s, text)
               /\ \A k \in 1 .. n : g[k] = putk(g[k - 1], text[k])
  BY PutsRun
<1> HIDE DEF more
<1>3. PICK h : /\ h[0] = s /\ h[Len(more)] = puts(s, more)
               /\ \A k \in 1 .. Len(more) : h[k] = putk(h[k - 1], more[k])
  BY <1>1, PutsRun
<1> HIDE DEF n
<1>4. h[n + 1] = puts(s, more) /\ \A k \in 1 .. n + 1 : h[k] = putk(h[k - 1], more[k])
  BY <1>1, <1>3
<1> DEFINE W == {k \in 0 .. n : g[k] = h[k]}
<1>5. 0 \in W
  BY <1>1, <1>2, <1>3
<1>6. ASSUME NEW k \in 1 .. n, k - 1 \in W
      PROVE  k \in W
  <2>1. /\ g[k - 1] = h[k - 1] /\ more[k] = text[k] /\ k \in 1 .. n + 1
        /\ g[k] = putk(g[k - 1], text[k])
    BY <1>1, <1>2, <1>6
  <2>2. h[k] = putk(h[k - 1], more[k])
    BY <1>4, <2>1
  <2> QED
    BY <2>1, <2>2
<1>7. g[n] = h[n]
  <2> HIDE DEF W
  <2>1. 0 .. n \subseteq W
    BY <1>1, <1>5, <1>6, UpTo
  <2>2. n \in W
    BY <1>1, <2>1
  <2> QED
    BY <2>2 DEF W
<1>8. h[n + 1] = putk(h[n], c)
  <2>1. PICK k \in 1 .. n + 1 : k = n + 1 /\ k - 1 = n
    BY <1>1
  <2>2. h[k] = putk(h[k - 1], more[k])
    BY <1>4
  <2> QED
    BY <1>1, <2>1, <2>2, Zenon
<1> QED
  BY <1>2, <1>4, <1>7, <1>8, Zenon DEF more

LEMMA PutsOne ==
  ASSUME NEW s \in Consoles, NEW c \in Chars
  PROVE  puts(s, <<c>>) = putk(s, c)
<1>1. <<c>> \in Seq(Chars) /\ Len(<<c>>) = 1 /\ <<c>>[1] = c
  OBVIOUS
<1>2. PICK text : text = <<c>>
  OBVIOUS
<1>3. text \in Seq(Chars) /\ Len(text) = 1 /\ text[1] = c
  BY <1>1, <1>2, Zenon
<1>4. PICK h : /\ h[0] = s /\ h[Len(text)] = puts(s, text)
               /\ \A k \in 1 .. Len(text) : h[k] = putk(h[k - 1], text[k])
  BY <1>3, PutsRun
<1>5. h[0] = s /\ h[1] = puts(s, text) /\ h[1] = putk(h[1 - 1], text[1]) /\ 1 - 1 = 0
  BY <1>3, <1>4
<1> QED
  BY <1>2, <1>3, <1>5, Zenon

(* An end of a line leaves the cursor at the beginning of one.              *)
LEMMA NewlineAtZero ==
  ASSUME NEW s, Sound(s), NEW t, t = putk(s, "\n")
  PROVE  Sound(t) /\ t.x = 0 /\ t.y >= s.y
<1>1. s.y \in 0 .. SCR_R - 1
  BY SoundFields
<1>2. CASE s.y < SCR_R - 1
  <2>1. PICK y : y = s.y + 1
    OBVIOUS
  <2>2. Shows(putk(s, "\n"), 0, y, s.block, s.cell)
    BY <1>2, <2>1, PutkNewline, Zenon
  <2>3. Sound(t) /\ t.x = 0 /\ t.y = y
    BY <2>2, Zenon DEF Shows
  <2> QED
    BY <1>1, <2>1, <2>3
<1>3. CASE ~(s.y < SCR_R - 1)
  <2>1. PICK y, b : y = SCR_R - 1 /\ b = (s.block - SCR_C) % WORD
    OBVIOUS
  <2>2. s.y = y
    BY <1>1, <1>3, <2>1, ScreenFacts
  <2>3. PICK f : Shows(putk(s, "\n"), 0, y, b, f)
    BY <2>1, <2>2, PutkNewlineScrolls, Zenon
  <2>4. Sound(t) /\ t.x = 0 /\ t.y = y
    BY <2>3, Zenon DEF Shows
  <2> QED
    BY <1>1, <2>2, <2>4
<1> QED
  BY <1>2, <1>3

(* After the prompt and an end of a line, the prompt is in the row above    *)
(* the cursor.                                                              *)
LEMMA PromptPrinted ==
  ASSUME NEW s, Sound(s), s.x = 0, s.y >= 2, NEW t, t = puts(s, PROMPT \o <<"\n">>),
         NEW row, row = t.y - 1
  PROVE  Sound(t) /\ row \in 2 .. SCR_R - 2 /\ Starts(t, row, PROMPT)
<1>1. /\ s \in Consoles /\ s.y \in 2 .. SCR_R - 1 /\ s.pos = s.y * SCR_C
  BY SoundFields, ScreenFacts
<1>2. /\ PROMPT \in Seq(Chars) /\ Len(PROMPT) \in 0 .. SCR_C - 1
      /\ \A i \in 1 .. Len(PROMPT) : Plain(PROMPT[i])
  BY PromptFacts
<1>3. "\n" \in Chars
  BY DEF Chars
<1>4. PICK m : m = puts(s, PROMPT)
  OBVIOUS
<1>5. t = putk(m, "\n")
  BY <1>1, <1>2, <1>3, <1>4, PutsOneMore
<1>6. PICK y \in Nat : y = s.y /\ y >= 2 /\ y + 1 <= SCR_R
  BY <1>1, ScreenFacts
<1>7. Len(PROMPT) \in Nat /\ Len(PROMPT) < 1 * SCR_C
  BY <1>2, ScreenFacts
<1>8. ASSUME NEW n \in Nat, n <= Len(PROMPT)
      PROVE  y * SCR_C + n \in Cells /\ y * SCR_C + n < SCR_C * SCR_R
  <2>1. n < 1 * SCR_C /\ y + 1 <= SCR_R /\ 1 \in Nat
    BY <1>6, <1>7, <1>8, ScreenFacts
  <2> QED
    BY <2>1, RowInCells
<1>9. s.pos + Len(PROMPT) < SCR_C * SCR_R /\ s.pos = y * SCR_C
  BY <1>1, <1>6, <1>7, <1>8
<1>10. /\ Sound(m) /\ m.pos = s.pos + Len(PROMPT) /\ m.block = s.block
       /\ \A i \in Cells :
            m.cell[i] = IF i \in s.pos .. s.pos + Len(PROMPT) - 1
                        THEN PROMPT[i - s.pos + 1] ELSE s.cell[i]
  <2>1. PROMPT \in Seq(Chars) /\ \A i \in 1 .. Len(PROMPT) : Plain(PROMPT[i])
    BY <1>2
  <2>2. s.pos + Len(PROMPT) < SCR_C * SCR_R
    BY <1>9
  <2> QED
    BY <1>4, <2>1, <2>2, PutsText
<1>11. m.y = y
  <2>1. PICK u \in 0 .. SCR_C - 1, v \in 0 .. SCR_R - 1 : v = m.y /\ m.pos = v * SCR_C + u
    BY <1>10, SoundFields
  <2>2. v * SCR_C + u = y * SCR_C + Len(PROMPT)
    BY <1>9, <1>10, <2>1
  <2>3. (v * SCR_C + u) \div SCR_C = v /\ (y * SCR_C + Len(PROMPT)) \div SCR_C = y
    BY <1>2, DivPlace
  <2> QED
    BY <2>1, <2>2, <2>3, Zenon
<1>12. ASSUME NEW i \in 1 .. Len(PROMPT)
       PROVE  m.cell[y * SCR_C + (i - 1)] = PROMPT[i]
  <2>1. PICK j \in Nat : j = i - 1 /\ j < Len(PROMPT)
    BY <1>7
  <2>2. PICK p \in Cells : p = y * SCR_C + j
    BY <1>7, <1>8, <2>1
  <2>3. y * SCR_C \in Nat
    BY ScreenFacts
  <2>4. p \in s.pos .. s.pos + Len(PROMPT) - 1 /\ p - s.pos + 1 = i
    BY <1>7, <1>9, <2>1, <2>2, <2>3
  <2>5. m.cell[p] = PROMPT[i]
    BY <1>10, <2>4
  <2> QED
    BY <2>1, <2>2, <2>5
<1>13. CASE y < SCR_R - 1
  <2>1. PICK z : z = m.y + 1
    OBVIOUS
  <2>2. Shows(putk(m, "\n"), 0, z, m.block, m.cell)
    BY <1>10, <1>11, <1>13, <2>1, PutkNewline, Zenon
  <2>3. Sound(t) /\ t.y = z /\ t.cell = m.cell
    BY <1>5, <2>2, Zenon DEF Shows
  <2>4. row = y /\ row \in 2 .. SCR_R - 2
    BY <1>6, <1>11, <1>13, <2>1, <2>3, ScreenFacts
  <2>5. Starts(t, row, PROMPT)
    BY <1>12, <2>3, <2>4, Zenon DEF Starts
  <2> QED
    BY <2>3, <2>4, <2>5
<1>14. CASE ~(y < SCR_R - 1)
  <2>1. PICK z, b : z = SCR_R - 1 /\ b = (m.block - SCR_C) % WORD
    OBVIOUS
  <2>2. m.y = z /\ y = z
    BY <1>6, <1>11, <1>14, <2>1, ScreenFacts
  <2>3. PICK f : MovedUp(f, m.cell) /\ Shows(putk(m, "\n"), 0, z, b, f)
    BY <1>10, <2>1, <2>2, PutkNewlineScrolls, Zenon
  <2>4. Sound(t) /\ t.y = z /\ t.cell = f
    BY <1>5, <2>3, Zenon DEF Shows
  <2>5. row \in Nat /\ row \in 2 .. SCR_R - 2 /\ y = row + 1
    BY <2>1, <2>2, <2>4, ScreenFacts
  <2>6. ASSUME NEW i \in 1 .. Len(PROMPT)
        PROVE  t.cell[row * SCR_C + (i - 1)] = PROMPT[i]
    <3>1. PICK j \in Nat : j = i - 1 /\ j < 1 * SCR_C /\ 1 \in Nat /\ row + 1 <= SCR_R
      BY <1>6, <1>7, <2>5, ScreenFacts
    <3>2. row * SCR_C + j \in Cells /\ (row * SCR_C + j) \div SCR_C \in row .. row + 1 - 1
      BY <2>5, <3>1, RowInCells
    <3>3. PICK p \in Cells : p = row * SCR_C + j /\ p \div SCR_C \in row .. row + 1 - 1
      BY <3>2
    <3>4. p \div SCR_C \in 2 .. SCR_R - 2
      <4>1. row + 1 - 1 = row
        BY <2>5
      <4> QED
        BY <2>5, <3>3, <4>1
    <3>5. f[p] = m.cell[p + SCR_C]
      BY <2>3, <3>4 DEF MovedUp
    <3>6. p + SCR_C = y * SCR_C + (i - 1)
      <4>1. PICK a \in Nat : a = row * SCR_C
        BY <2>5, ScreenFacts
      <4>2. y * SCR_C = a + SCR_C
        BY <2>5, <4>1, NextRow, Zenon
      <4>3. p = a + j
        BY <3>3, <4>1, Zenon
      <4>4. p + SCR_C = (a + SCR_C) + (i - 1)
        BY <1>7, <3>1, <4>3, ScreenFacts
      <4> QED
        BY <4>2, <4>4, Zenon
    <3>7. t.cell[p] = PROMPT[i]
      BY <1>12, <2>4, <3>5, <3>6, Zenon
    <3> QED
      BY <3>1, <3>3, <3>7, Zenon
  <2> QED
    BY <2>4, <2>5, <2>6 DEF Starts
<1> QED
  BY <1>13, <1>14

(* The cursor is on the screen and below the header wherever the shell      *)
(* prints, and from one key to the next the line is where LeggiDaKeyboard   *)
(* left it, above a row that is free.                                       *)
BelowHeader == Sound(con) /\ con.y >= 2

ScreenInv ==
  /\ con \in Consoles /\ booted \in Nat
  /\ pc = "boot" => Sound(con) /\ (booted > 0 => con.y >= 2)
  /\ pc \in {"prompt", "done", "command"} => BelowHeader
  /\ pc = "getche" =>
       /\ Showing_line(con, startline, buffer, offs)
       /\ drawn => Clear(con, startline, Len(PROMPT \o String(buffer)),
                         righe_occupate(Len(buffer)))
  /\ pc = "handle" => LineAt(con, startline, buffer) /\ Starts(con, startline, PROMPT)

LEMMA ScreenStarts ==
  ASSUME ShellInit
  PROVE  ScreenInv
<1>1. con = [x |-> 0, y |-> 0, pos |-> 0, block |-> 0, cell |-> [i \in Cells |-> Blank]]
  BY DEF ShellInit, make_console
<1> DEFINE f == [i \in Cells |-> Blank]
<1>2. f \in [Cells -> Chars]
  BY DEF Chars
<1> HIDE DEF f
<1>3. con = [x |-> 0, y |-> 0, pos |-> 0, block |-> 0, cell |-> f]
  BY <1>1 DEF f
<1>4. con \in Consoles /\ con.x = 0 /\ con.y = 0 /\ con.pos = 0
  BY <1>2, <1>3 DEF Consoles
<1>5. Sound(con)
  BY <1>4, ScreenFacts DEF Sound
<1>6. pc = "boot" /\ booted = 0
  BY DEF ShellInit
<1> QED
  BY <1>4, <1>5, <1>6 DEF ScreenInv

LEMMA MessageFacts ==
  /\ Welcome \in Seq(Chars) /\ \A text \in Message : text \in Seq(Chars)
  /\ \E i, j \in 1 .. Len(Welcome) : i < j /\ Welcome[i] = "\n" /\ Welcome[j] = "\n"
<1>1. {Welcome} \cup Message \subseteq Seq(STRING) /\ STRING \subseteq Chars
  BY ShellAssumption DEF Chars
<1>2. Seq(STRING) \subseteq Seq(Chars)
  BY <1>1, SeqMonotonic
<1>3. \E i, j \in 1 .. Len(Welcome) : i < j /\ Welcome[i] = "\n" /\ Welcome[j] = "\n"
  BY ShellAssumption
<1> QED
  BY <1>1, <1>2, <1>3

LEMMA BootScreen ==
  ASSUME ScreenInv, boot_message
  PROVE  ScreenInv'
<1>1. pc = "boot" /\ pc' = "boot" /\ Sound(con) /\ booted' = booted + 1 /\ booted \in Nat
      /\ (booted > 0 => con.y >= 2)
  BY DEF ScreenInv, boot_message
<1>2. PICK text \in (IF booted = 0 THEN {Welcome} ELSE Message) :
        con' = printok(puts(con, text))
  BY DEF boot_message
<1>3. PICK m, c : m = puts(con, text) /\ c = con'
  OBVIOUS
<1>4. text \in Seq(Chars)
  BY <1>2, MessageFacts
<1>5. Sound(m) /\ m.y >= 2
  <2>1. CASE booted = 0
    <3>1. text = Welcome
      BY <1>2, <2>1
    <3>2. PICK i \in 1 .. Len(Welcome), j \in 1 .. Len(Welcome) :
            i < j /\ Welcome[i] = "\n" /\ Welcome[j] = "\n"
      BY MessageFacts
    <3> QED
      BY <1>1, <1>3, <1>4, <3>1, <3>2, PutsBelowHeader
  <2>2. CASE booted # 0
    <3>1. con.y >= 2
      BY <1>1, <2>2
    <3>2. Sound(m) /\ m.y >= con.y
      BY <1>1, <1>3, <1>4, PutsSound
    <3>3. m.y \in Int /\ con.y \in Int
      BY <1>1, <3>2, SoundFields
    <3> QED
      BY <3>1, <3>2, <3>3
  <2> QED
    BY <2>1, <2>2
<1>6. Sound(c) /\ c.y >= m.y
  BY <1>2, <1>3, <1>5, PrintokSound
<1>7. c.y >= 2 /\ c \in Consoles
  <2>1. c.y \in Int /\ m.y \in Int /\ c \in Consoles
    BY <1>5, <1>6, SoundFields
  <2> QED
    BY <1>5, <1>6, <2>1
<1>8. booted' \in Nat
  BY <1>1
<1> QED
  BY <1>1, <1>3, <1>6, <1>7, <1>8 DEF ScreenInv

(* What is printed leaves the cursor below the header.                      *)
LEMMA PutsBelow ==
  ASSUME NEW s, Sound(s), s.y >= 2, NEW text \in Seq(Chars), NEW t, t = puts(s, text)
  PROVE  Sound(t) /\ t.y >= 2 /\ t \in Consoles
<1>1. Sound(t) /\ t.y >= s.y
  BY PutsSound
<1>2. t.y \in Int /\ s.y \in Int /\ t \in Consoles
  BY <1>1, SoundFields
<1> QED
  BY <1>1, <1>2

LEMMA StartScreen ==
  ASSUME ScreenInv, NEW init_console \in BOOLEAN, shell_start(init_console)
  PROVE  ScreenInv'
<1>1. pc = "boot" /\ pc' = "prompt" /\ booted' = 0 /\ con \in Consoles /\ Sound(con)
      /\ (booted > 0 => con.y >= 2) /\ (init_console <=> booted > 0)
  BY DEF ScreenInv, shell_start
<1>2. PICK text \in Message :
        con' = puts(info_cur_console(IF init_console THEN con ELSE klear(con)), text)
  BY DEF shell_start
<1>3. PICK a, b, c : /\ a = IF init_console THEN con ELSE klear(con)
                     /\ b = info_cur_console(a) /\ c = con'
  OBVIOUS
<1>4. Sound(a) /\ a.y >= 2 /\ a \in Consoles
  <2>1. CASE init_console
    BY <1>1, <1>3, <2>1
  <2>2. CASE ~init_console
    <3>1. a = klear(con)
      BY <1>3, <2>2, Zenon
    <3>2. Sound(a) /\ a.y = 2
      BY <1>1, <3>1, KlearSound
    <3> QED
      BY <3>2, SoundFields
  <2> QED
    BY <2>1, <2>2
<1>5. Sound(b) /\ b.y = a.y
  BY <1>3, <1>4, HeaderDrawn
<1>6. text \in Seq(Chars) /\ c = puts(b, text) /\ b.y >= 2
  BY <1>2, <1>3, <1>4, <1>5, MessageFacts
<1>7. Sound(c) /\ c.y >= 2 /\ c \in Consoles
  BY <1>5, <1>6, PutsBelow
<1> QED
  BY <1>1, <1>3, <1>7 DEF ScreenInv, BelowHeader

LEMMA CommandScreen ==
  ASSUME ScreenInv, command
  PROVE  ScreenInv'
<1>1. pc = "command" /\ pc' = "prompt" /\ booted' = booted /\ booted \in Nat
      /\ con \in Consoles /\ Sound(con) /\ con.y >= 2
  BY DEF ScreenInv, command, BelowHeader
<1>2. PICK c : c = con'
  OBVIOUS
<1>3. Sound(c) /\ c.y >= 2 /\ c \in Consoles
  <2>1. CASE \E text \in Message : con' = puts(con, text)
    <3>1. PICK text \in Message : c = puts(con, text)
      BY <1>2, <2>1
    <3>2. text \in Seq(Chars)
      BY MessageFacts
    <3> QED
      BY <1>1, <3>1, <3>2, PutsBelow
  <2>2. CASE con' = klear(con)
    <3>1. Sound(c) /\ c.y = 2
      BY <1>1, <1>2, <2>2, KlearSound
    <3> QED
      BY <3>1, SoundFields
  <2> QED
    BY <2>1, <2>2 DEF command
<1> QED
  BY <1>1, <1>2, <1>3 DEF ScreenInv, BelowHeader

LEMMA DoneScreen ==
  ASSUME ScreenInv, done \/ handle_undefined \/ UNCHANGED shell_vars
  PROVE  ScreenInv'
<1>1. CASE done
  <2>1. pc = "done" /\ pc' \in {"prompt", "command"} /\ con' = con /\ booted' = booted
    BY <1>1 DEF done
  <2> QED
    BY <2>1 DEF ScreenInv, BelowHeader
<1>2. CASE handle_undefined
  BY <1>2 DEF handle_undefined, ScreenInv
<1>3. CASE UNCHANGED shell_vars
  BY <1>3 DEF shell_vars, ScreenInv, BelowHeader, Showing_line, LineAt, Starts, Clear
<1> QED
  BY <1>1, <1>2, <1>3

(* A prompt is shown in a row of its own.                                   *)
LEMMA PromptScreen ==
  ASSUME ScreenInv, prompt
  PROVE  ScreenInv'
<1>1. pc = "prompt" /\ Sound(con) /\ con.y >= 2 /\ con \in Consoles /\ booted \in Nat
  BY DEF ScreenInv, prompt, BelowHeader
<1>2. PICK fresh, shown, at, row :
        /\ fresh = IF con.x # 0 THEN puts(con, <<"\n">>) ELSE con
        /\ shown = puts(fresh, PROMPT \o <<"\n">>)
        /\ row = shown.y - 1 /\ at = goto_xy(shown, Len(PROMPT), row)
  OBVIOUS
<1>3. /\ con' = [at EXCEPT !.block = at.pos] /\ startline' = at.y
      /\ buffer' = <<>> /\ offs' = 0 /\ drawn' = FALSE /\ pc' = "getche" /\ booted' = booted
  BY <1>2, Zenon DEF prompt
<1>4. Sound(fresh) /\ fresh.x = 0 /\ fresh.y >= 2
  <2>1. CASE con.x # 0
    <3>1. fresh = putk(con, "\n")
      <4>1. "\n" \in Chars
        BY DEF Chars
      <4>2. fresh = puts(con, <<"\n">>)
        BY <1>2, <2>1, Zenon
      <4> QED
        BY <1>1, <4>1, <4>2, PutsOne, Zenon
    <3>2. Sound(fresh) /\ fresh.x = 0 /\ fresh.y >= con.y
      BY <1>1, <3>1, NewlineAtZero
    <3>3. fresh.y \in Int /\ con.y \in Int
      BY <1>1, <3>2, SoundFields
    <3> QED
      BY <1>1, <3>2, <3>3
  <2>2. CASE con.x = 0
    BY <1>1, <1>2, <2>2
  <2> QED
    BY <2>1, <2>2
<1>5. Sound(shown) /\ row \in 2 .. SCR_R - 2 /\ Starts(shown, row, PROMPT)
  <2>1. shown = puts(fresh, PROMPT \o <<"\n">>) /\ row = shown.y - 1
    BY <1>2
  <2> QED
    BY <1>4, <2>1, PromptPrinted
<1>6. Len(PROMPT) \in 0 .. SCR_C - 1 /\ row \in 0 .. SCR_R - 1
  BY <1>5, PromptFacts, ScreenFacts
<1>7. /\ Sound(at) /\ at.x = Len(PROMPT) /\ at.y = row /\ at.cell = shown.cell
  <2>1. shown \in Consoles /\ at = goto_xy(shown, Len(PROMPT), row)
    BY <1>2, <1>5, SoundFields
  <2>2. Shows(at, Len(PROMPT), row, shown.block, shown.cell)
    BY <1>6, <2>1, GotoShows, Zenon
  <2> QED
    BY <2>2, Zenon DEF Shows
<1>8. PICK c : c = con'
  OBVIOUS
<1>9. /\ Sound(c) /\ c.pos = at.pos /\ c.block = at.pos /\ c.cell = shown.cell
  <2>1. at \in Consoles /\ at.pos \in Int
    BY <1>7, SoundFields
  <2>2. c = [at EXCEPT !.block = at.pos]
    BY <1>3, <1>8, Zenon
  <2>3. Has(c, at.x, at.y, at.pos, at.pos, at.cell)
    BY <2>1, <2>2, SetBlock, Zenon
  <2> QED
    BY <1>7, <2>3, Zenon DEF Has, Sound
<1>10. at.pos = row * SCR_C + Len(PROMPT)
  BY <1>7, Zenon DEF Sound
<1>11. righe_occupate(0) = 1
  <2>1. Len(PROMPT) + 0 = 0 * SCR_C + Len(PROMPT)
    BY <1>6, ScreenFacts
  <2>2. (0 * SCR_C + Len(PROMPT)) \div SCR_C = 0
    BY <1>6, DivPlace
  <2> QED
    BY <2>1, <2>2 DEF righe_occupate
<1>12. Len(<<>>) = 0 /\ PROMPT \o String(<<>>) = PROMPT
  <2>1. <<>> \in Lines
    BY PromptFacts DEF Lines
  <2>2. String(<<>>) \in Seq(Typed) /\ Len(String(<<>>)) \in Nat /\ Len(String(<<>>)) <= 0
    BY <2>1, StringOfLine, LenProperties DEF Lines
  <2>3. String(<<>>) = <<>>
    BY <2>2
  <2> QED
    BY <2>3, PromptFacts, ConcatEmptySeq
<1>13. Showing_line(c, row, <<>>, 0)
  <2>1. row + righe_occupate(Len(<<>>)) <= SCR_R - 1
    BY <1>5, <1>11, <1>12, ScreenFacts
  <2>2. LineAt(c, row, <<>>)
    BY <1>5, <1>9, <1>10, <2>1, Zenon DEF LineAt
  <2>3. Starts(c, row, PROMPT) /\ Starts(c, row, PROMPT \o String(<<>>))
    BY <1>5, <1>9, <1>12, Zenon DEF Starts
  <2>4. c.pos = row * SCR_C + Len(PROMPT) + 0
    <3>1. row * SCR_C + Len(PROMPT) \in Int
      BY <1>5, <1>6, ScreenFacts
    <3> QED
      BY <1>9, <1>10, <3>1
  <2> QED
    BY <1>9, <2>2, <2>3, <2>4 DEF Showing_line
<1>14. c \in Consoles
  BY <1>9, SoundFields
<1> QED
  BY <1>1, <1>3, <1>7, <1>8, <1>13, <1>14 DEF ScreenInv

(* The cursor is in the rows of the line.                                   *)
LEMMA CursorInRows ==
  ASSUME NEW c, NEW row, NEW line \in Lines, NEW cursor \in 0 .. Len(line),
         Showing_line(c, row, line, cursor)
  PROVE  /\ c.y \in 2 .. SCR_R - 2 /\ c.y >= row
         /\ row \in Nat /\ \A i \in 1 .. Len(PROMPT) : row * SCR_C + (i - 1) < c.pos
         /\ c.pos >= row * SCR_C + Len(PROMPT)
<1>1. /\ Sound(c) /\ row \in 2 .. SCR_R - 2
      /\ row + righe_occupate(Len(line)) <= SCR_R - 1
      /\ c.pos = row * SCR_C + Len(PROMPT) + cursor
  BY DEF Showing_line, LineAt
<1>2. /\ Len(line) \in 0 .. MaxLen /\ Len(PROMPT) \in Nat /\ cursor \in Nat
      /\ cursor <= Len(line)
  BY PromptFacts, LenProperties DEF Lines
<1>3. PICK rows : rows = righe_occupate(Len(line))
  OBVIOUS
<1>4. rows \in 1 .. SCR_R - 3 /\ Len(PROMPT) + Len(line) < rows * SCR_C
  BY <1>2, <1>3, RowsOf
<1>5. PICK n \in Nat : n = Len(PROMPT) + cursor
  BY <1>2
<1>6. n < rows * SCR_C
  <2>1. rows * SCR_C \in Nat
    BY <1>4, ScreenFacts
  <2> QED
    BY <1>2, <1>4, <1>5, <2>1
<1>7. row \in Nat /\ rows \in Nat /\ row + rows <= SCR_R /\ row + rows <= SCR_R - 1
  BY <1>1, <1>3, <1>4, ScreenFacts
<1>8. (row * SCR_C + n) \div SCR_C \in row .. row + rows - 1
  BY <1>6, <1>7, RowInCells
<1>9. row * SCR_C \in Nat
  BY <1>7, ScreenFacts
<1>10. c.pos = row * SCR_C + n
  BY <1>1, <1>2, <1>5, <1>9
<1>11. PICK x \in 0 .. SCR_C - 1, y \in 0 .. SCR_R - 1 : y = c.y /\ c.pos = y * SCR_C + x
  BY <1>1, SoundFields
<1>12. (y * SCR_C + x) \div SCR_C = y
  BY DivPlace
<1>13. y \in row .. row + rows - 1
  BY <1>8, <1>10, <1>11, <1>12
<1>14. c.y \in 2 .. SCR_R - 2 /\ c.y >= row
  BY <1>1, <1>7, <1>11, <1>13, ScreenFacts
<1>15. \A i \in 1 .. Len(PROMPT) : row * SCR_C + (i - 1) < c.pos
  BY <1>2, <1>5, <1>9, <1>10
<1>16. c.pos >= row * SCR_C + Len(PROMPT)
  BY <1>2, <1>5, <1>9, <1>10
<1> QED
  BY <1>7, <1>14, <1>15, <1>16

(* A key is echoed in the rows of the line, which do not scroll, and a      *)
(* backspace stops at the prompt.                                           *)
LEMMA PressScreen ==
  ASSUME ScreenInv, EditorInv, NEW k \in Keys, press(k)
  PROVE  ScreenInv'
<1>1. /\ pc = "getche" /\ con' = echo(con, Echoed(k))
      /\ pc' = (IF k = "enter" THEN "done" ELSE "handle")
      /\ UNCHANGED <<buffer, offs, startline, booted>>
  BY DEF press
<1>2. /\ con \in Consoles /\ booted \in Nat /\ Showing_line(con, startline, buffer, offs)
  BY <1>1 DEF ScreenInv
<1>3. buffer \in Lines /\ offs \in 0 .. Len(buffer)
  BY DEF EditorInv, EditorTypeOK
<1>4. PICK row : row = startline
  OBVIOUS
<1>5. /\ con.y \in 2 .. SCR_R - 2 /\ row \in Nat
      /\ \A i \in 1 .. Len(PROMPT) : row * SCR_C + (i - 1) < con.pos
      /\ con.pos >= row * SCR_C + Len(PROMPT)
  BY <1>2, <1>3, <1>4, CursorInRows
<1>6. /\ Sound(con) /\ LineAt(con, row, buffer) /\ Starts(con, row, PROMPT)
      /\ con.block = row * SCR_C + Len(PROMPT)
  BY <1>2, <1>4 DEF Showing_line, LineAt
<1>10. row * SCR_C \in Nat /\ row \in 2 .. SCR_R - 2 /\ Len(PROMPT) \in 0 .. SCR_C - 1
  BY <1>5, <1>6, PromptFacts, ScreenFacts DEF LineAt
<1>11. \A i \in 1 .. Len(PROMPT) : row * SCR_C + (i - 1) \in Cells
  <2> SUFFICES ASSUME NEW i \in 1 .. Len(PROMPT)
               PROVE  row * SCR_C + (i - 1) \in Cells
    OBVIOUS
  <2>1. PICK x \in 0 .. SCR_C - 1, y \in 0 .. SCR_R - 1 : x = i - 1 /\ y = row
    BY <1>10, ScreenFacts
  <2>2. y * SCR_C + x \in Cells
    BY PlaceInCells
  <2> QED
    BY <2>1, <2>2
<1>12. PICK c, e : c = con' /\ e = Echoed(k)
  OBVIOUS
<1>13. e \in Chars
  <2>1. CASE k \in Typed
    <3>1. k # "enter" /\ k # "tab"
      BY <2>1, ShellAssumption DEF Typed, Functions, NUL, BEL
    <3> QED
      BY <1>12, <2>1, <3>1, TypedUnbroken DEF Echoed, Unbroken
  <2>2. CASE k \in Functions
    BY <1>12, <2>2 DEF Echoed, Chars
  <2> QED
    BY <2>1, <2>2 DEF Keys
<1>14. CASE e = "bksp"
  <2>1. k # "enter"
    BY <1>12, <1>14 DEF Echoed
  <2>2. pc' = "handle" /\ c = echo_backspace(con)
    BY <1>1, <1>12, <1>14, <2>1, Zenon DEF echo
  <2>3. c \in Consoles /\ c.block = con.block /\ Starts(c, row, PROMPT)
    <3>1. CASE con.pos = con.block
      <4>1. c = con
        BY <2>2, <3>1, Zenon DEF echo_backspace
      <4> QED
        BY <1>2, <1>6, <4>1
    <3>2. CASE con.pos # con.block
      <4>1. con.pos \in Int /\ con.block \in Nat /\ con.pos > con.block
        BY <1>5, <1>6, <1>10, <3>2, SoundFields
      <4>2. /\ c \in Consoles /\ c.block = con.block
            /\ \A i \in Cells : i # con.pos - 1 => c.cell[i] = con.cell[i]
        BY <1>6, <2>2, <4>1, BackspaceIs
      <4>3. ASSUME NEW i \in 1 .. Len(PROMPT)
            PROVE  c.cell[row * SCR_C + (i - 1)] = PROMPT[i]
        <5>1. PICK p \in Cells : p = row * SCR_C + (i - 1)
          BY <1>11
        <5>2. p # con.pos - 1
          BY <1>6, <1>10, <4>1, <5>1
        <5>3. c.cell[p] = con.cell[p]
          BY <4>2, <5>2
        <5>4. con.cell[p] = PROMPT[i]
          BY <1>6, <5>1 DEF Starts
        <5> QED
          BY <5>1, <5>3, <5>4
      <4> QED
        BY <4>2, <4>3 DEF Starts
    <3> QED
      BY <3>1, <3>2
  <2>4. LineAt(c, row, buffer)
    BY <1>6, <2>3 DEF LineAt
  <2> QED
    BY <1>1, <1>2, <1>4, <1>12, <2>2, <2>3, <2>4 DEF ScreenInv
<1>16. CASE e = NUL
  <2>1. c = con
    BY <1>1, <1>12, <1>16, Zenon DEF echo, NUL
  <2>2. pc' \in {"done", "handle"}
    BY <1>1
  <2>3. BelowHeader
    BY <1>5, <1>6 DEF BelowHeader
  <2> QED
    BY <1>1, <1>2, <1>4, <1>6, <1>12, <2>1, <2>2, <2>3 DEF ScreenInv, BelowHeader
<1>15. CASE e # "bksp" /\ e # NUL
  <2>1. c = putk(con, e)
    BY <1>1, <1>12, <1>15, Zenon DEF echo
  <2>2. con.y < SCR_R - 1
    BY <1>5, ScreenFacts
  <2>3. /\ Sound(c) /\ c.y \in {con.y, con.y + 1} /\ c.block = con.block
        /\ \A i \in Cells : i # con.pos => c.cell[i] = con.cell[i]
    BY <1>6, <1>13, <2>1, <2>2, PutkAbove
  <2>4. c \in Consoles /\ c.y >= 2
    BY <1>5, <2>3, SoundFields
  <2>5. Starts(c, row, PROMPT)
    <3>1. ASSUME NEW i \in 1 .. Len(PROMPT)
          PROVE  c.cell[row * SCR_C + (i - 1)] = PROMPT[i]
      <4>1. PICK p \in Cells : p = row * SCR_C + (i - 1)
        BY <1>11
      <4>2. p # con.pos
        <5>1. p < con.pos /\ p \in Int
          BY <1>5, <4>1 DEF Cells
        <5>2. con.pos \in Int
          BY <1>6, SoundFields
        <5> QED
          BY <5>1, <5>2
      <4>3. c.cell[p] = con.cell[p]
        BY <2>3, <4>2
      <4>4. con.cell[p] = PROMPT[i]
        BY <1>6, <4>1 DEF Starts
      <4> QED
        BY <4>1, <4>3, <4>4
    <3> QED
      BY <3>1 DEF Starts
  <2>6. LineAt(c, row, buffer)
    BY <1>6, <2>3 DEF LineAt
  <2>7. pc' \in {"done", "handle"}
    BY <1>1
  <2> QED
    BY <1>1, <1>2, <1>4, <1>12, <2>3, <2>4, <2>5, <2>6, <2>7 DEF ScreenInv, BelowHeader
<1> QED
  BY <1>14, <1>15, <1>16

(* The header that is drawn between two keys leaves the line alone.         *)
LEMMA LedScreen ==
  ASSUME ScreenInv, EditorInv, led_key
  PROVE  ScreenInv'
<1>1. /\ pc \in {"getche", "handle", "prompt"} /\ con' = info_cur_console(con)
      /\ UNCHANGED <<pc, buffer, offs, startline, booted, drawn>>
  BY DEF led_key
<1>2. con \in Consoles /\ booted \in Nat
  BY DEF ScreenInv
<1>3. PICK c : c = con'
  OBVIOUS
<1>4. /\ c \in Consoles /\ BelowKept(con, c)
      /\ Sound(con) => Sound(c) /\ c.y >= con.y
      /\ Sound(con) /\ con.y >= 2 => c.x = con.x /\ c.y = con.y
  <2>1. c = info_cur_console(con)
    BY <1>1, <1>3
  <2> QED
    BY <1>2, <2>1, HeaderDrawn
<1>5. ASSUME NEW row \in Nat, row \in 2 .. SCR_R - 2, NEW rows \in Nat, row + rows <= SCR_R,
             NEW n \in Nat, n < rows * SCR_C
      PROVE  c.cell[row * SCR_C + n] = con.cell[row * SCR_C + n]
  <2>1. row * SCR_C + n \in Cells
    BY <1>5, RowInCells
  <2>2. PICK p \in Cells : p = row * SCR_C + n
    BY <2>1
  <2>3. 2 * SCR_C <= row * SCR_C
    <3>1. row = 2 \/ 2 < row
      BY <1>5
    <3>2. 2 < row => 2 * SCR_C + SCR_C <= row * SCR_C
      BY RowsApart
    <3>3. row * SCR_C \in Nat /\ 2 * SCR_C \in Nat
      BY ScreenFacts
    <3> QED
      BY <3>1, <3>2, <3>3, ScreenFacts
  <2>4. p >= 2 * SCR_C
    BY <2>2, <2>3, ScreenFacts
  <2> QED
    BY <1>4, <2>2, <2>4 DEF BelowKept
<1>6. CASE pc = "prompt"
  <2>1. Sound(con) /\ con.y >= 2
    BY <1>6 DEF ScreenInv, BelowHeader
  <2> QED
    BY <1>1, <1>2, <1>3, <1>4, <1>6, <2>1 DEF ScreenInv, BelowHeader
<1>7. PICK row : row = startline
  OBVIOUS
<1>8. buffer \in Lines /\ buffer \in Seq(Typed) /\ offs \in 0 .. Len(buffer) /\ Len(buffer) \in 0 .. MaxLen
      /\ MaxLen \in Nat
  BY PromptFacts, LenProperties DEF EditorInv, EditorTypeOK, Lines
<1>9. PICK rows : rows = righe_occupate(Len(buffer))
  OBVIOUS
<1>10. rows \in 1 .. SCR_R - 3 /\ Len(PROMPT) + Len(buffer) < rows * SCR_C
  BY <1>8, <1>9, RowsOf
<1>11. pc \in {"getche", "handle"} =>
         row \in Nat /\ row \in 2 .. SCR_R - 2 /\ rows \in Nat /\ row + rows <= SCR_R
  <2>1. pc \in {"getche", "handle"} => LineAt(con, row, buffer)
    BY <1>7 DEF ScreenInv, Showing_line
  <2> QED
    BY <1>9, <1>10, <2>1, ScreenFacts DEF LineAt
<1>12. CASE pc = "handle"
  <2>1. LineAt(con, row, buffer) /\ Starts(con, row, PROMPT)
    BY <1>7, <1>12 DEF ScreenInv
  <2>2. ASSUME NEW i \in 1 .. Len(PROMPT)
        PROVE  c.cell[row * SCR_C + (i - 1)] = PROMPT[i]
    <3>1. PICK n \in Nat : n = i - 1 /\ n < rows * SCR_C
      <4>1. Len(PROMPT) \in Nat /\ Len(buffer) \in Nat /\ rows * SCR_C \in Nat
        BY <1>8, <1>10, PromptFacts, ScreenFacts
      <4> QED
        BY <1>10, <4>1
    <3>2. c.cell[row * SCR_C + n] = con.cell[row * SCR_C + n]
      BY <1>5, <1>11, <1>12, <3>1
    <3>3. con.cell[row * SCR_C + (i - 1)] = PROMPT[i]
      BY <2>1 DEF Starts
    <3> QED
      BY <3>1, <3>2, <3>3, Zenon
  <2>3. Starts(c, row, PROMPT)
    BY <2>2 DEF Starts
  <2>4. LineAt(c, row, buffer)
    BY <1>4, <2>1 DEF LineAt, BelowKept
  <2> QED
    BY <1>1, <1>2, <1>3, <1>4, <1>7, <1>12, <2>3, <2>4 DEF ScreenInv
<1>13. CASE pc = "getche"
  <2>1. /\ Showing_line(con, row, buffer, offs)
        /\ drawn => Clear(con, row, Len(PROMPT \o String(buffer)), rows)
    BY <1>7, <1>9, <1>13 DEF ScreenInv
  <2>2. PICK text : text = PROMPT \o String(buffer)
    OBVIOUS
  <2>3. Len(text) \in Nat /\ Len(text) < rows * SCR_C
    <3>1. Len(text) \in Nat /\ Len(text) <= Len(PROMPT) + Len(buffer)
      BY <1>8, <2>2, TextOf
    <3>2. Len(PROMPT) \in Nat
      BY PromptFacts
    <3>3. rows * SCR_C \in Nat
      BY <1>10, ScreenFacts
    <3> QED
      BY <1>8, <1>10, <3>1, <3>2, <3>3
  <2>4. Sound(con) /\ LineAt(con, row, buffer) /\ Starts(con, row, PROMPT)
        /\ (Silent(text) => Starts(con, row, text))
        /\ con.pos = row * SCR_C + Len(PROMPT) + offs
    BY <2>1, <2>2 DEF Showing_line
  <2>5. rows * SCR_C \in Nat
    BY <1>10, ScreenFacts
  <2>6. ASSUME NEW i \in 1 .. Len(text)
        PROVE  c.cell[row * SCR_C + (i - 1)] = con.cell[row * SCR_C + (i - 1)]
    <3>1. PICK n \in Nat : n = i - 1 /\ n < rows * SCR_C
      BY <2>3, <2>5
    <3>2. c.cell[row * SCR_C + n] = con.cell[row * SCR_C + n]
      BY <1>5, <1>11, <1>13, <3>1
    <3> QED
      BY <3>1, <3>2, Zenon
  <2>14. \A i \in 1 .. Len(PROMPT) : i \in 1 .. Len(text)
    BY <1>8, <2>2, TextOf
  <2>7. ASSUME drawn, NEW i \in Len(text) .. rows * SCR_C - 1
        PROVE  c.cell[row * SCR_C + i] = Blank
    <3>1. i \in Nat /\ i < rows * SCR_C
      BY <2>3, <2>5
    <3>2. c.cell[row * SCR_C + i] = con.cell[row * SCR_C + i]
      BY <1>5, <1>11, <1>13, <3>1
    <3>3. con.cell[row * SCR_C + i] = Blank
      BY <2>1, <2>2, <2>7 DEF Clear
    <3> QED
      BY <3>2, <3>3
  <2>8. /\ Starts(c, row, PROMPT) /\ (Silent(text) => Starts(c, row, text))
        /\ drawn => Clear(c, row, Len(text), rows)
    <3>1. Starts(c, row, PROMPT)
      BY <2>4, <2>6, <2>14, Zenon DEF Starts
    <3>2. Silent(text) => Starts(c, row, text)
      BY <2>4, <2>6, Zenon DEF Starts
    <3>3. drawn => Clear(c, row, Len(text), rows)
      BY <2>7 DEF Clear
    <3> QED
      BY <3>1, <3>2, <3>3
  <2>9. con.y >= 2
    <3>1. con.y \in 2 .. SCR_R - 2
      BY <1>8, <2>1, CursorInRows
    <3> QED
      BY <3>1
  <2>10. Sound(c) /\ c.x = con.x /\ c.y = con.y
    BY <1>4, <2>4, <2>9
  <2>11. c.pos = con.pos
    <3>1. c.pos = c.y * SCR_C + c.x /\ con.pos = con.y * SCR_C + con.x
      BY <2>4, <2>10, Zenon DEF Sound
    <3> QED
      BY <2>10, <3>1, Zenon
  <2>12. LineAt(c, row, buffer)
    BY <1>4, <2>4 DEF LineAt, BelowKept
  <2>13. Showing_line(c, row, buffer, offs)
    BY <2>2, <2>4, <2>8, <2>10, <2>11, <2>12, Zenon DEF Showing_line
  <2> QED
    BY <1>1, <1>2, <1>3, <1>4, <1>7, <1>9, <1>13, <2>2, <2>8, <2>13 DEF ScreenInv
<1> QED
  BY <1>1, <1>6, <1>12, <1>13

(* After a key the line is drawn again.                                     *)
LEMMA HandleScreen ==
  ASSUME ScreenInv, EditorInv, EditorInv', NEW nul \in BOOLEAN, handle(nul)
  PROVE  ScreenInv'
<1>1. /\ pc = "handle" /\ pc' = "getche" /\ drawn' = TRUE /\ booted' = booted
      /\ redraw(buffer', offs')
  BY DEF handle
<1>2. /\ con \in Consoles /\ booted \in Nat /\ startline \in 2 .. SCR_R - 2
      /\ con.block = startline * SCR_C + Len(PROMPT)
  BY <1>1 DEF ScreenInv, LineAt
<1>3. buffer' \in Lines /\ offs' \in 0 .. Len(buffer')
  BY DEF EditorInv, EditorTypeOK
<1>4. PICK line, cursor : line = buffer' /\ cursor = offs'
  OBVIOUS
<1>5. line \in Lines /\ cursor \in 0 .. Len(line) /\ redraw(line, cursor)
  BY <1>1, <1>3, <1>4
<1>6. /\ Showing_line(con', startline', line, cursor)
      /\ Clear(con', startline', Len(PROMPT \o String(line)), righe_occupate(Len(line)))
  BY <1>2, <1>5, Redrawn
<1>7. con' \in Consoles
  BY <1>6, SoundFields DEF Showing_line
<1> QED
  BY <1>1, <1>2, <1>4, <1>6, <1>7 DEF ScreenInv

LEMMA ScreenStep ==
  ASSUME ScreenInv, EditorInv, EditorInv', [ShellNext]_shell_vars
  PROVE  ScreenInv'
<1>1. CASE UNCHANGED shell_vars
  BY <1>1, DoneScreen
<1>2. CASE ShellNext
  BY <1>2, BootScreen, StartScreen, PromptScreen, PressScreen, LedScreen, HandleScreen,
     DoneScreen, CommandScreen DEF ShellNext
<1> QED
  BY <1>1, <1>2

LEMMA ShellOnScreen == ShellSpec => [](EditorInv /\ ScreenInv)
<1> DEFINE I == EditorInv /\ ScreenInv
<1>1. ShellInit => I
  BY ShellStarts, ScreenStarts
<1>2. I /\ [ShellNext]_shell_vars => I'
  <2> SUFFICES ASSUME I, [ShellNext]_shell_vars
               PROVE  I'
    OBVIOUS
  <2>1. EditorInv'
    BY ShellStep
  <2>2. ScreenInv'
    BY <2>1, ScreenStep
  <2> QED
    BY <2>1, <2>2
<1> QED
  BY <1>1, <1>2, PTL DEF ShellSpec

(* After every key the rows of the line show the prompt and the text up to  *)
(* a NUL in it (behind a '\a', before its place), then blanks, with the     *)
(* cursor at its place, for any size of the screen, any lines that leave it *)
(* a free row and any keys, while the console stays on the screen           *)
(* (shell.c:221-236).                                                       *)
THEOREM ShellShowsLine == ShellSpec => []LineShown
<1>1. EditorInv /\ ScreenInv => LineShown
  <2> SUFFICES ASSUME EditorInv, ScreenInv, pc = "getche"
               PROVE  /\ Silent(Text) => \A i \in 1 .. Len(Text) : CellAt(i - 1) = Text[i]
                      /\ drawn => \A i \in Len(Text) .. righe_occupate(Len(buffer)) * SCR_C - 1 :
                                    CellAt(i) = Blank
                      /\ con.y * SCR_C + con.x = startline * SCR_C + Len(PROMPT) + offs
    BY Zenon DEF LineShown, Silent
  <2>1. /\ Sound(con) /\ (Silent(Text) => Starts(con, startline, Text))
        /\ con.pos = startline * SCR_C + Len(PROMPT) + offs
        /\ drawn => Clear(con, startline, Len(Text), righe_occupate(Len(buffer)))
    BY DEF ScreenInv, Showing_line, Text
  <2>2. con.pos = con.y * SCR_C + con.x
    BY <2>1, Zenon DEF Sound
  <2>3. Silent(Text) => \A i \in 1 .. Len(Text) : CellAt(i - 1) = Text[i]
    BY <2>1, Zenon DEF Starts, CellAt
  <2>4. drawn => \A i \in Len(Text) .. righe_occupate(Len(buffer)) * SCR_C - 1 : CellAt(i) = Blank
    BY <2>1, Zenon DEF Clear, CellAt
  <2> QED
    BY <2>1, <2>2, <2>3, <2>4, Zenon
<1> QED
  BY <1>1, ShellOnScreen, PTL

(* No backspace erases the prompt: the block of the screen stays right      *)
(* after it, however far the screen has scrolled (console.h:36,             *)
(* printk.c:118, shell.c:128).                                              *)
THEOREM PromptNotErased == ShellSpec => []BlockAfterPrompt
<1>1. ScreenInv => BlockAfterPrompt
  <2> SUFFICES ASSUME ScreenInv
               PROVE  BlockAfterPrompt
    OBVIOUS
  <2>1. pc = "getche" => con.block = startline * SCR_C + Len(PROMPT)
    BY DEF ScreenInv, Showing_line, LineAt
  <2>2. pc = "handle" => \A i \in 1 .. Len(PROMPT) : CellAt(i - 1) = PROMPT[i]
    BY Zenon DEF ScreenInv, Starts, CellAt
  <2> QED
    BY <2>1, <2>2, Zenon DEF BlockAfterPrompt
<1> QED
  BY <1>1, ShellOnScreen, PTL

=============================================================================
