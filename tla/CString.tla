-------------------------------- MODULE CString --------------------------------
(***************************************************************************)
(* The string functions of the kernel (libc/string.c), on a small memory   *)
(* of bytes in which a string ends at the first NUL and a pointer is the   *)
(* number of a cell.  The functions that write are actions on the memory,  *)
(* so each works on what the others left; the ones that only read are      *)
(* operators.  A call is made only where C defines it: its strings end     *)
(* inside the memory, there is room, and source and target do not overlap  *)
(* (memmove excepted).                                                     *)
(***************************************************************************)
EXTENDS Integers, Sequences, FiniteSetsExt, SequencesExt

CONSTANTS
  SIZE,        (* cells of the memory                                       *)
  Letters      (* the characters other than NUL, as codes                   *)

ASSUME CStringAssumption == SIZE \in Nat /\ Letters \subseteq 1 .. 255

VARIABLES
  mem,         (* the memory                                                *)
  sstr         (* where strtok goes on, its static pointer                  *)

cstring_vars == <<mem, sstr>>

Cell == 0 .. SIZE - 1
NULL == SIZE
Byte == Letters \cup {0}

(* Whatever the memory holds, no token was asked for yet.                   *)
CStringInit == mem \in [Cell -> Byte] /\ sstr = NULL

(* The least cell of S that is found, or NULL.                              *)
FirstOf(S) == IF S = {} THEN NULL ELSE Min(S)
LastOf(S) == IF S = {} THEN NULL ELSE Max(S)

NulsFrom(m, p) == {i \in p .. SIZE - 1 : m[i] = 0}
IsString(m, p) == p \in Cell /\ NulsFrom(m, p) # {}

-----------------------------------------------------------------------------
(* Lengths and spans.                                                       *)
strlen(m, p) == Min(NulsFrom(m, p)) - p
End(m, p) == p + strlen(m, p)
Chars(m, p) == {m[i] : i \in p .. End(m, p) - 1}

strspn(m, p, q) ==
  Min({i \in p .. End(m, p) : m[i] = 0 \/ m[i] \notin Chars(m, q)}) - p

strcspn(m, p, q) ==
  Min({i \in p .. End(m, p) : m[i] = 0 \/ m[i] \in Chars(m, q)}) - p

(* The length of what the two strings have in common, and what strcmp makes *)
(* of the characters behind it.                                             *)
Common(m, p, q) ==
  Min({i \in 0 .. Min({strlen(m, p), strlen(m, q)}) : m[q + i] = 0 \/ m[p + i] # m[q + i]})

Order(c1, c2) == IF c1 = c2 THEN 0 ELSE IF c1 = 0 /\ c2 # 0 THEN -1 ELSE 1

strcmp_to_shorter(m, p, q) ==                             (* faulty variant *)
  LET n == Min({strlen(m, p), strlen(m, q)})
  IN  IF \A i \in 0 .. n - 1 : m[p + i] = m[q + i] THEN 0 ELSE 1

strcmp(m, p, q) ==
  LET n == Common(m, p, q) IN Order(m[p + n], m[q + n])

Upper(c) == IF c \in 97 .. 122 THEN c - 32 ELSE c
strcasecmp(m, p, q) == strcmp([i \in Cell |-> Upper(m[i])], p, q)

(* size-- is evaluated only behind two equal characters, and wraps when it  *)
(* is 0 there: strings that go on alike behind size characters differ.      *)
strncmp(m, p, q, size) ==
  LET n == Common(m, p, q)
  IN  IF n = size THEN 0
      ELSE IF n > size THEN 1
      ELSE IF m[p + n] = 0 /\ m[q + n] # 0 THEN -1 ELSE 1

(* What is left of count at the first difference.                           *)
memcmp(m, p, q, count) ==
  count - Min({i \in 0 .. count : i = count \/ m[p + i] # m[q + i]})

(* Both strings are read beyond their NUL, up to character n.               *)
stringcmp(m, p, q, n) ==
  LET i == Min({j \in 0 .. n : j = n \/ m[p + j] # m[q + j]})
  IN  IF m[p + i] # m[q + i] THEN 1 ELSE 0

-----------------------------------------------------------------------------
(* Searches.  memchr looks at one byte more than size, strrchr also at the  *)
(* byte before the string, strpbrk at neither string's first character.     *)
(* strchr and strrchr compare a char of the string, which is signed, with   *)
(* an unsigned one, the others chars with chars.                            *)
SignedChar(b) == IF b < 128 THEN b ELSE b - 256
memchr(m, p, c, size) == FirstOf({i \in p .. p + size : m[i] = c})
strchr(m, p, c) == FirstOf({i \in p .. End(m, p) - 1 : SignedChar(m[i]) = c})
strrchr(m, p, c) == LastOf({i \in p - 1 .. End(m, p) : SignedChar(m[i]) = c})
strpbrk(m, p, q) ==
  FirstOf({i \in p + 1 .. End(m, p) : \E j \in q + 1 .. End(m, q) : m[i] = m[j]})

(* The first character of str1 is skipped, and a match that fails is not    *)
(* taken back: t stays where it is in str2, s behind what was compared.     *)
Alike(m, p, q, s, t) ==
  Min({i \in 0 .. Min({End(m, q) - t, End(m, p) - s - 1}) :
         m[t + i] = 0 \/ m[t + i] # m[s + 1 + i]})

strstr(m, p, q) ==
  LET Scan[at \in (p .. End(m, p)) \X (q .. End(m, q))] ==
        LET s == at[1]
            t == at[2]
            n == Alike(m, p, q, s, t)
        IN  IF m[s] = 0 THEN NULL
            ELSE IF n > 0 /\ m[t + n] = 0 THEN s + 1 + n - strlen(m, q)
            ELSE Scan[<<s + 1 + n, t + n>>]
  IN  IF strlen(m, q) = 0 THEN p ELSE Scan[<<p, q>>]

-----------------------------------------------------------------------------
(* Copies: byte after byte from q to p, in the order of Order.              *)
Copy(m, p, q, order) ==
  FoldLeft(LAMBDA mm, i : [mm EXCEPT ![p + i] = mm[q + i]], m, order)
Upwards(n) == [i \in 1 .. n |-> i - 1]

memcpy(m, p, q, n) == Copy(m, p, q, Upwards(n))
memmove(m, p, q, n) == Copy(m, p, q, IF q > p THEN Upwards(n) ELSE Reverse(Upwards(n)))
memset(m, p, c, n) == [i \in Cell |-> IF i \in p .. p + n - 1 THEN c ELSE m[i]]

strcpy(m, p, q) == memcpy(m, p, q, strlen(m, q) + 1)

strcat(m, p, q) == strcpy(m, End(m, p), q)

(* The characters a copy limited to num moves, with the NUL if it is among  *)
(* them; num = 0 wraps and is no limit.                                     *)
Moved(m, q, num) == IF num = 0 THEN strlen(m, q) + 1 ELSE Min({num, strlen(m, q) + 1})
strncpy(m, p, q, num) == memcpy(m, p, q, Moved(m, q, num))
strncat(m, p, q, num) ==
  LET k == Moved(m, q, num)
  IN  [memcpy(m, End(m, p), q, k) EXCEPT ![End(m, p) + k] = 0]
strxfrm(m, p, q, num) == strlen(strncpy(m, p, q, num), p)

(* Only the first of the separators counts, and a token is never empty.     *)
Separator(m, p, q) == FirstOf({i \in p + 1 .. End(m, p) - 1 : m[q] # 0 /\ m[i] = m[q]})

strtok(str1, q) ==
  LET p == IF str1 = NULL THEN sstr ELSE str1
      s == Separator(mem, p, q)
  IN  /\ p # NULL /\ IsString(mem, p) /\ IsString(mem, q)
      /\ mem' = IF s = NULL THEN mem ELSE [mem EXCEPT ![s] = 0]
      /\ sstr' = IF s = NULL THEN NULL ELSE s + 1

-----------------------------------------------------------------------------
(* The calls that C allows.                                                 *)
Apart(p, n, q, k) == p + n <= q \/ q + k <= p
Room(m, p, q, n) ==
  IsString(m, q) /\ p + n <= SIZE /\ Apart(p, n, q, strlen(m, q) + 1)
RoomToCat(m, p, q, n) ==
  /\ IsString(m, p) /\ IsString(m, q) /\ End(m, p) + n <= SIZE
  /\ Apart(p, End(m, p) + n - p, q, strlen(m, q) + 1)

write_mem(p, q, n) ==
  /\ p + n <= SIZE /\ q + n <= SIZE
  /\ \/ \E c \in Byte : mem' = memset(mem, p, c, n)
     \/ mem' = memmove(mem, p, q, n)
     \/ Apart(p, n, q, n) /\ mem' = memcpy(mem, p, q, n)
  /\ UNCHANGED sstr

write_string(p, q, n) ==
  /\ \/ IsString(mem, q) /\ Room(mem, p, q, strlen(mem, q) + 1) /\ mem' = strcpy(mem, p, q)
     \/ /\ IsString(mem, q) /\ RoomToCat(mem, p, q, strlen(mem, q) + 1)
        /\ mem' = strcat(mem, p, q)
     \/ IsString(mem, q) /\ Room(mem, p, q, Moved(mem, q, n)) /\ mem' = strncpy(mem, p, q, n)
     \/ /\ IsString(mem, q) /\ RoomToCat(mem, p, q, Moved(mem, q, n) + 1)
        /\ mem' = strncat(mem, p, q, n)
  /\ UNCHANGED sstr

CStringNext ==
  \/ \E p, q \in Cell, n \in 0 .. SIZE : write_mem(p, q, n) \/ write_string(p, q, n)
  \/ \E p \in Cell \cup {NULL}, q \in Cell : strtok(p, q)

CStringSpec == CStringInit /\ [][CStringNext]_cstring_vars
-----------------------------------------------------------------------------
(* What the functions promise, in terms of the strings they are given.      *)
Str(m, p) == [i \in 1 .. strlen(m, p) |-> m[p + i - 1]]
Strings == {p \in Cell : IsString(mem, p)}
Places(p, c) == {i \in p .. End(mem, p) - 1 : mem[i] = c}
Elsewhere(m, from, to) == \A i \in Cell \ (from .. to) : m[i] = mem[i]

ComparisonsAgree ==
  \A p, q \in Strings :
    LET s == Str(mem, p)
        t == Str(mem, q)
    IN  /\ strcmp(mem, p, q) = 0 <=> s = t
        /\ strcmp(mem, p, q) = -1 <=> s # t /\ IsPrefix(s, t)
        /\ strcasecmp(mem, p, q) = 0
             <=> [i \in DOMAIN s |-> Upper(s[i])] = [i \in DOMAIN t |-> Upper(t[i])]
        /\ q + Len(s) < SIZE => (stringcmp(mem, p, q, Len(s)) = 0 <=> s = t)
        /\ \A n \in 0 .. SIZE :
             /\ strncmp(mem, p, q, n) = 0 => IsPrefix(SubSeq(t, 1, n), s)
             /\ p + n <= SIZE /\ q + n <= SIZE =>
                  (memcmp(mem, p, q, n) = 0 <=>
                     \A i \in 0 .. n - 1 : mem[p + i] = mem[q + i])

SearchesAgree ==
  \A p, q \in Strings :
    /\ \A c \in Letters :
         /\ c < 128 => strchr(mem, p, c) = FirstOf(Places(p, c))
         /\ c < 128 /\ p > 0 /\ mem[p - 1] # c => strrchr(mem, p, c) = LastOf(Places(p, c))
         /\ memchr(mem, p, c, strlen(mem, p)) = FirstOf(Places(p, c))
    /\ strspn(mem, p, q) = strlen(mem, p) <=> Chars(mem, p) \subseteq Chars(mem, q)
    /\ strcspn(mem, p, q) = strlen(mem, p) <=> Chars(mem, p) \cap Chars(mem, q) = {}
    /\ strlen(mem, q) = 1 => strstr(mem, p, q) = FirstOf(Places(p, mem[q]) \ {p})

CopiesAgree ==
  \A p, q \in Cell :
    /\ \A n \in 0 .. SIZE - Max({p, q}) :
         LET m == memmove(mem, p, q, n)
         IN  /\ \A i \in 0 .. n - 1 : m[p + i] = mem[q + i]
             /\ Elsewhere(m, p, p + n - 1)
             /\ Apart(p, n, q, n) => memcpy(mem, p, q, n) = m
    /\ q \in Strings /\ Room(mem, p, q, strlen(mem, q) + 1) =>
         LET m == strcpy(mem, p, q)
         IN  Str(m, p) = Str(mem, q) /\ Elsewhere(m, p, p + strlen(mem, q))
    /\ {p, q} \subseteq Strings =>
         \A n \in 0 .. SIZE :
           /\ RoomToCat(mem, p, q, strlen(mem, q) + 1) =>
                Str(strcat(mem, p, q), p) = Str(mem, p) \o Str(mem, q)
           /\ n > 0 /\ RoomToCat(mem, p, q, Moved(mem, q, n) + 1) =>
                Str(strncat(mem, p, q, n), p)
                  = Str(mem, p) \o SubSeq(Str(mem, q), 1, Min({n, strlen(mem, q)}))
           /\ n > strlen(mem, q) /\ Room(mem, p, q, Moved(mem, q, n)) =>
                /\ Str(strncpy(mem, p, q, n), p) = Str(mem, q)
                /\ strxfrm(mem, p, q, n) = strlen(mem, q)

(* Of what the comments over the functions say, what the code does: strcmp, *)
(* strcasecmp, stringcmp and memcmp are 0 for equal strings and no others,  *)
(* strcmp is -1 where the first is a proper beginning of the second, the    *)
(* searches find the first or the last place, the spans tell whether all or *)
(* none of the string is in the set, the copies move the string and nothing *)
(* else, memmove also onto itself.  Left out is what it does not do: a      *)
(* strcmp that tells which string is longer (it is 1 for all that differ    *)
(* otherwise), a strncmp that is 0 for strings alike up to size (it is only *)
(* where they are alike in just size characters), strchr and strrchr of a   *)
(* byte above 127, strrchr of the byte before the string, strstr of the     *)
(* first character and of a longer string, and all of strpbrk and strtok.   *)
StringContract == ComparisonsAgree /\ SearchesAgree /\ CopiesAgree

(* The contract where the memory holds a string at all, and else nothing is *)
(* evaluated.                                                               *)
StringsAgree == Strings # {} => StringContract
=============================================================================
