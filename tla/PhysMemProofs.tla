----------------------------- MODULE PhysMemProofs -----------------------------
(***************************************************************************)
(* Proofs about the physical page allocator (module PhysMem), for a        *)
(* machine of any size, any tasks, preempted or not, and any blocks.       *)
(***************************************************************************)
EXTENDS PhysMem, SequenceLemmas, FiniteSetTheorems

-----------------------------------------------------------------------------
(* The inductive invariant.                                                 *)

Entry   == [base : Nat, num : Nat]
Struct  == [at : Nat, entries : Seq(Entry)]
Request == [num : Nat, by : Allocator, from : Nat, to : Nat]

KernelImage == [base |-> 0, num |-> Reserved]

(* The structs lie in pages and hold an entry each, but for the last one,   *)
(* which is the static one.                                                 *)
GoodList(l) ==
  /\ l \in Seq(Struct) /\ l # <<>>
  /\ l[Len(l)].at = Static
  /\ \A i \in 1 .. Len(l) - 1 : l[i].at \in Page /\ l[i].entries # <<>>
  /\ \A i \in 1 .. Len(l) : Len(l[i].entries) <= Records

(* What a call has of blocks and of a request at each of its points.        *)
CallTyped(t) ==
  /\ \A i \in 1 .. Len(blocks[t]) : PagesOf(blocks[t][i]) \subseteq Page
  /\ mem_pc[t] = "idle" => blocks[t] = <<>> /\ t \notin in_list
  /\ mem_pc[t] \in {"flag", "scan"} =>
       /\ request[t].num \in Nums \cup {1}
       /\ t \in in_list => blocks[t] # <<>> /\ request[t].num = 1
       /\ t \notin in_list => blocks[t] = <<>>
  /\ mem_pc[t] = "scan" => request[t].to < MaxPages
  /\ mem_pc[t] \in {"mark", "record", "adding", "freeing"} => blocks[t] # <<>>
  /\ mem_pc[t] \in {"adding", "freeing"} => t \in in_list

(* One call at a time is in the list, and has read an index that is free.   *)
ListAlone ==
  ~list_raced =>
    /\ \A t, u \in in_list : t = u
    /\ \A t \in Task : mem_pc[t] = "adding" => Len(list[1].entries) < Records

MemTyped ==
  /\ bitmap \subseteq Page
  /\ GoodList(list)
  /\ status_kmalloc \in {0, 1}
  /\ mem_pc \in [Task -> MemPoint]
  /\ request \in [Task -> Request]
  /\ blocks \in [Task -> Seq(Block)]
  /\ \A t \in Task : CallTyped(t)
  /\ in_list \subseteq Task
  /\ ListAlone
  /\ owned \subseteq [block : Block, by : Allocator]
  /\ \A o \in owned : PagesOf(o.block) \subseteq Page
  /\ flag_raced \in BOOLEAN /\ scan_raced \in BOOLEAN /\ list_raced \in BOOLEAN

(* The area a block lies in is its allocator's.                             *)
InArea(b, by) ==
  IF by = "kmalloc" THEN PagesOf(b) \subseteq 0 .. KernelPages - 1
                    ELSE b.base >= KernelPages

(* The call of alloc_pages under way is kmalloc's own.                      *)
ForKernel(t) == request[t].by = "kmalloc" /\ t \notin in_list

(* The flag is that of the one call that has not read it yet, and what a    *)
(* call has read keeps it in its area.                                      *)
FlagIsCallers ==
  ~flag_raced =>
    /\ \A t, u \in Task : mem_pc[t] = "flag" /\ mem_pc[u] = "flag" => t = u
    /\ \A t \in Task : mem_pc[t] = "flag" => (status_kmalloc = 1 <=> ForKernel(t))
    /\ (\A t \in Task : mem_pc[t] # "flag") => status_kmalloc = 0
    /\ \A t \in Task : mem_pc[t] = "scan" =>
         IF ForKernel(t) THEN request[t].to = KernelPages - 1
                         ELSE /\ request[t].from = KernelPages
                              /\ request[t].to = MaxPages - 1
    /\ \A t \in Task : blocks[t] # <<>> /\ mem_pc[t] # "freeing"
                         => InArea(blocks[t][1], request[t].by)
    /\ \A o \in owned : InArea(o.block, o.by)

(* The page of a struct is marked and nobody is about to be given it.       *)
LiveStruct(i) ==
  /\ list[i].at \in bitmap /\ list[i].at \notin 0 .. Reserved - 1
  /\ \A t \in Task : \A k \in 1 .. Len(blocks[t]) :
       list[i].at \notin PagesOf(blocks[t][k])

(* Its page was freed, and will not be again: its first entry is of a block *)
(* that nobody holds or will ever hold.                                     *)
SpentStruct(i) ==
  LET p == list[i].entries[1].base
  IN /\ p \in bitmap
     /\ \A j \in 1 .. Len(list) - 1 : list[j].at # p
     /\ \A o \in owned : p \notin PagesOf(o.block)
     /\ \A t \in Task : \A k \in 1 .. Len(blocks[t]) : p \notin PagesOf(blocks[t][k])

(* The blocks of a call, and those of two calls.                            *)
CallApart(t) ==
  /\ \A i \in 1 .. Len(blocks[t]) :
       /\ PagesOf(blocks[t][i]) \cap (0 .. Reserved - 1) = {}
       /\ \/ PagesOf(blocks[t][i]) \subseteq bitmap
          \/ mem_pc[t] = "mark" /\ i = Len(blocks[t])
       /\ \A o \in owned : PagesOf(o.block) \cap PagesOf(blocks[t][i]) = {}
       /\ \A j \in 1 .. Len(blocks[t]) :
            i # j => PagesOf(blocks[t][i]) \cap PagesOf(blocks[t][j]) = {}
  /\ mem_pc[t] = "freeing" =>
       \A i \in 1 .. Len(list) - 1 : list[i].at \notin PagesOf(blocks[t][1])

CallsApart(t, u) ==
  \A i \in 1 .. Len(blocks[t]), j \in 1 .. Len(blocks[u]) :
    PagesOf(blocks[t][i]) \cap PagesOf(blocks[u][j]) = {}

(* The blocks of callers and of calls under way are apart from each other   *)
(* and from the kernel image, and marked as soon as they can be.            *)
BlocksApart ==
  ~scan_raced =>
    /\ 0 .. Reserved - 1 \subseteq bitmap
    /\ \A o \in owned : /\ PagesOf(o.block) \subseteq bitmap
                        /\ PagesOf(o.block) \cap (0 .. Reserved - 1) = {}
    /\ \A o, q \in owned : o # q => PagesOf(o.block) \cap PagesOf(q.block) = {}
    /\ \A t \in Task : CallApart(t)
    /\ \A t, u \in Task : t # u => CallsApart(t, u)
    /\ \A i \in 1 .. Len(list) - 1 : LiveStruct(i) \/ SpentStruct(i)

(* What RecordsAreBlocks says, without counting.                            *)
RecordsOnce ==
  Len(list) = 1 /\ ~scan_raced /\ ~list_raced =>
    LET e == list[1].entries
    IN /\ \A k, l \in 1 .. Len(e) : e[k] = e[l] => k = l
       /\ \A k \in 1 .. Len(e) : e[k] \in BlocksHeld
       /\ \/ \A b \in BlocksHeld : \E k \in 1 .. Len(e) : e[k] = b
          \/ KernelPages .. MaxPages - 1 \subseteq bitmap
          \/ flag_raced

MemInv == MemTyped /\ FlagIsCallers /\ BlocksApart /\ RecordsOnce

-----------------------------------------------------------------------------
(* The machine, the blocks and the list of structs.                         *)

(* What the assumption says of the zones of memory.                         *)
LEMMA MachineSize ==
  /\ Reserved \in Nat /\ KernelPages \in Nat /\ MaxPages \in Nat
  /\ MaxPages - 1 \in Nat /\ KernelPages - 1 \in Nat
  /\ 0 < Reserved /\ Reserved <= KernelPages /\ KernelPages <= MaxPages
  /\ Static = MaxPages /\ Records \in Nat \ {0}
BY PhysMemAssumption DEF PhysMemAssumption, Static

(* A block is not empty: its base is one of its pages.                      *)
LEMMA BlockHasBase ==
  ASSUME NEW b \in Block
  PROVE  /\ b \in Entry /\ b.base \in Nat /\ b.num \in Nat \ {0}
         /\ b.base \in PagesOf(b)
<1>1. b = [base |-> b.base, num |-> b.num] /\ b.base \in 0 .. MaxPages - 1
  BY DEF Block, Page
<1>2. b.num \in Nat \ {0}
  <2>1. b.num \in Nums \/ b.num = 1
    BY <1>1 DEF Block
  <2>2. \A k \in Nums : k \in Nat \ {0}
    BY PhysMemAssumption DEF PhysMemAssumption
  <2>3. CASE b.num \in Nums
    BY <2>2, <2>3
  <2>4. CASE b.num = 1
    BY <2>4
  <2> QED
    BY <2>1, <2>3, <2>4
<1>3. b.base \in Nat
  BY <1>1, MachineSize
<1>4. b.base \in PagesOf(b)
  BY <1>2, <1>3 DEF PagesOf
<1> QED
  BY <1>1, <1>2, <1>3, <1>4 DEF Entry

(* The list with other records in one of its structs,                       *)
WithEntries(l, i, e) == [l EXCEPT ![i].entries = e]

(* which is still a list.                                                   *)
LEMMA SetEntries ==
  ASSUME NEW l, GoodList(l), NEW i \in 1 .. Len(l), NEW e \in Seq(Entry),
         NEW m, m = WithEntries(l, i, e),
         i < Len(l) => e # <<>>, Len(e) <= Records
  PROVE  /\ GoodList(m) /\ Len(m) = Len(l)
         /\ \A j \in 1 .. Len(l) :
              /\ m[j].at = l[j].at
              /\ m[j].entries = IF j = i THEN e ELSE l[j].entries
<1> DEFINE s == [l[i] EXCEPT !.entries = e]
<1>1. l \in Seq(Struct) /\ Len(l) \in Nat /\ DOMAIN l = 1 .. Len(l)
  BY LenProperties DEF GoodList
<1>2. \A j \in 1 .. Len(l) : l[j] \in Struct
  BY <1>1, ElementOfSeq
<1>3. s \in Struct /\ s.at = l[i].at /\ s.entries = e
  BY <1>2 DEF Struct
<1>4. m = [l EXCEPT ![i] = s]
  BY DEF WithEntries
<1> HIDE DEF s
<1>5. /\ m \in Seq(Struct) /\ Len(m) = Len(l)
      /\ \A j \in 1 .. Len(l) : m[j] = IF j = i THEN s ELSE l[j]
  BY <1>1, <1>3, <1>4, ExceptSeq, SMTT(30)
<1>6. \A j \in 1 .. Len(l) :
        /\ m[j].at = l[j].at
        /\ m[j].entries = IF j = i THEN e ELSE l[j].entries
  BY <1>3, <1>5
<1>7. l # <<>> /\ m # <<>> /\ Len(l) \in 1 .. Len(l)
  BY <1>1, <1>5, EmptySeq DEF GoodList
<1>8. GoodList(m)
  BY <1>1, <1>5, <1>6, <1>7 DEF GoodList
<1> QED
  BY <1>5, <1>6, <1>8

(* What a typed list says of its structs and their records.                 *)
LEMMA EntriesTyped ==
  ASSUME NEW l, GoodList(l)
  PROVE  /\ l \in Seq(Struct)
         /\ Len(l) \in Nat \ {0} /\ DOMAIN l = 1 .. Len(l)
         /\ 1 \in 1 .. Len(l)
         /\ \A i \in 1 .. Len(l) :
              /\ l[i].at \in Nat /\ l[i].entries \in Seq(Entry)
              /\ Len(l[i].entries) \in Nat
              /\ DOMAIN l[i].entries = 1 .. Len(l[i].entries)
              /\ i < Len(l) => Len(l[i].entries) \in Nat \ {0}
<1>1. Len(l) \in Nat \ {0} /\ DOMAIN l = 1 .. Len(l)
  BY EmptySeq, LenProperties DEF GoodList
<1>2. ASSUME NEW i \in 1 .. Len(l)
      PROVE  /\ l[i].at \in Nat /\ l[i].entries \in Seq(Entry)
             /\ Len(l[i].entries) \in Nat
             /\ DOMAIN l[i].entries = 1 .. Len(l[i].entries)
             /\ i < Len(l) => Len(l[i].entries) \in Nat \ {0}
  <2>1. l[i] \in Struct
    BY ElementOfSeq DEF GoodList
  <2>2. l[i].at \in Nat /\ l[i].entries \in Seq(Entry)
    BY <2>1 DEF Struct
  <2>3. i < Len(l) => l[i].entries # <<>>
    BY <1>1 DEF GoodList
  <2> QED
    BY <2>2, <2>3, EmptySeq, LenProperties
<1>3. 1 \in 1 .. Len(l)
  BY <1>1
<1> QED
  BY <1>1, <1>2, <1>3 DEF GoodList

PutOn(f, l, m, n) ==
  /\ f \in Seq(Block) /\ f # <<>>
  /\ \A i \in 1 .. Len(f) : PagesOf(f[i]) \subseteq Page
  /\ GoodList(l) /\ m = Structs(f) \o l /\ n = Len(f) - 1

(* The new structs come first, each in the page found after the block it    *)
(* records.                                                                 *)
LEMMA PutStructs ==
  ASSUME NEW f, NEW l, NEW m, NEW n, PutOn(f, l, m, n)
  PROVE  /\ n \in Nat /\ GoodList(m) /\ Len(m) = n + Len(l)
         /\ \A i \in 1 .. n : m[i].at = f[i + 1].base /\ m[i].entries = <<f[i]>>
         /\ \A i \in 1 .. Len(l) : i + n \in 1 .. Len(m) /\ m[i + n] = l[i]
         /\ \A i \in 1 .. Len(m) - 1 :
              \/ i \in 1 .. n
              \/ i - n \in 1 .. Len(l) - 1 /\ m[i] = l[i - n]
         /\ n = 0 => m = l
<1>0. /\ f \in Seq(Block) /\ f # <<>>
      /\ \A i \in 1 .. Len(f) : PagesOf(f[i]) \subseteq Page
      /\ GoodList(l) /\ m = Structs(f) \o l /\ n = Len(f) - 1
  BY DEF PutOn
<1> USE <1>0
<1>1. n \in Nat /\ Len(f) = n + 1
  BY EmptySeq, LenProperties
<1>2. \A i \in 1 .. n + 1 : f[i] \in Block /\ f[i] \in Entry /\ f[i].base \in Nat /\ f[i].base \in Page
  <2> SUFFICES ASSUME NEW i \in 1 .. n + 1
               PROVE  f[i] \in Block /\ f[i] \in Entry /\ f[i].base \in Nat /\ f[i].base \in Page
    OBVIOUS
  <2>1. f[i] \in Block
    BY <1>1, ElementOfSeq
  <2>2. f[i] \in Entry /\ f[i].base \in Nat /\ f[i].base \in PagesOf(f[i])
    BY <2>1, BlockHasBase
  <2> QED
    BY <1>1, <2>1, <2>2
<1> DEFINE s == Structs(f)
<1>3. \A i \in 1 .. n : s[i].at = f[i + 1].base /\ s[i].entries = <<f[i]>>
  BY DEF Structs
<1>4. \A i \in 1 .. n : s[i] \in Struct
  <2> SUFFICES ASSUME NEW i \in 1 .. n
               PROVE  s[i] \in Struct
    OBVIOUS
  <2>1. f[i + 1].base \in Nat /\ f[i] \in Entry
    BY <1>1, <1>2
  <2>2. s[i] = [at |-> f[i + 1].base, entries |-> <<f[i]>>]
    BY DEF Structs
  <2> QED
    BY <2>1, <2>2 DEF Struct
<1>5. s \in Seq(Struct) /\ Len(s) = n
  <2>1. s = [i \in 1 .. n |-> s[i]]
    BY DEF Structs
  <2> QED
    BY <1>1, <1>4, <2>1
<1>6. l \in Seq(Struct) /\ Len(l) \in Nat \ {0} /\ l # <<>>
  BY EmptySeq DEF GoodList
<1> HIDE DEF s
<1>7. /\ m \in Seq(Struct) /\ Len(m) = n + Len(l)
      /\ \A i \in 1 .. n + Len(l) : m[i] = IF i <= n THEN s[i] ELSE l[i - n]
  <2>1. /\ s \o l \in Seq(Struct) /\ Len(s \o l) = Len(s) + Len(l)
        /\ \A i \in 1 .. Len(s) + Len(l) : (s \o l)[i] = IF i <= Len(s) THEN s[i] ELSE l[i - Len(s)]
    BY <1>5, <1>6, ConcatProperties
  <2> QED
    BY <1>5, <2>1 DEF s
<1>8. \A i \in 1 .. n : m[i] = s[i]
  <2>1. \A i \in 1 .. n : i \in 1 .. n + Len(l) /\ i <= n
    BY ONLY <1>1, <1>6
  <2> QED
    BY ONLY <1>7, <2>1
<1>9. \A i \in 1 .. Len(l) : i + n \in 1 .. Len(m) /\ m[i + n] = l[i]
  BY <1>1, <1>6, <1>7
<1>10. ASSUME NEW i \in 1 .. Len(m)
       PROVE  \/ i \in 1 .. n
              \/ i - n \in 1 .. Len(l) /\ m[i] = l[i - n]
  BY <1>1, <1>6, <1>7
<1>11. ASSUME NEW i \in 1 .. Len(m) - 1
       PROVE  \/ i \in 1 .. n
              \/ i - n \in 1 .. Len(l) - 1 /\ m[i] = l[i - n]
  BY <1>1, <1>6, <1>7
<1>12. GoodList(m)
  <2>1. m # <<>>
    BY <1>1, <1>6, <1>7, EmptySeq
  <2>2. m[Len(m)].at = Static
    <3>1. m[Len(m)] = l[Len(l)]
      BY <1>1, <1>6, <1>7
    <3> QED
      BY <3>1 DEF GoodList
  <2>3. \A i \in 1 .. n : /\ m[i].at \in Page /\ m[i].entries # <<>>
                          /\ Len(m[i].entries) <= Records
    <3> SUFFICES ASSUME NEW i \in 1 .. n
                 PROVE  /\ m[i].at \in Page /\ m[i].entries # <<>>
                        /\ Len(m[i].entries) <= Records
      OBVIOUS
    <3>1. m[i].at = f[i + 1].base /\ m[i].entries = <<f[i]>>
      BY <1>3, <1>8
    <3>2. f[i + 1].base \in Page
      BY <1>1, <1>2
    <3>3. Len(<<f[i]>>) = 1 /\ <<f[i]>> # <<>> /\ 1 <= Records
      BY MachineSize
    <3> QED
      BY <3>1, <3>2, <3>3
  <2>4. \A i \in 1 .. Len(m) - 1 : m[i].at \in Page /\ m[i].entries # <<>>
    BY <1>11, <2>3 DEF GoodList
  <2>5. \A i \in 1 .. Len(m) : Len(m[i].entries) <= Records
    BY <1>10, <2>3 DEF GoodList
  <2> QED
    BY <1>7, <2>1, <2>2, <2>4, <2>5 DEF GoodList
<1>13. ASSUME n = 0
       PROVE  m = l
  <2>1. ASSUME NEW i \in 1 .. Len(l)
        PROVE  m[i] = l[i]
    <3>1. \A k \in 1 .. Len(l) : k + 0 = k
      BY <1>6
    <3>2. i + n = i
      BY ONLY <1>13, <3>1
    <3> QED
      BY <1>9, <3>2
  <2>2. Len(m) = Len(l)
    BY <1>6, <1>7, <1>13
  <2> QED
    BY <1>6, <1>7, <2>1, <2>2, SeqEqual
<1> QED
  BY <1>1, <1>3, <1>7, <1>8, <1>9, <1>11, <1>12, <1>13

-----------------------------------------------------------------------------
(* Type correctness.                                                        *)

(* What an idle task has is typed.                                          *)
LEMMA NothingTyped ==
  NoRequest \in Request /\ <<>> \in Seq(Block) /\ Len(<<>>) = 0
BY DEF NoRequest, Request, Allocator

(* Memory starts with the reserved pages taken and no block.                *)
LEMMA InitTyped == MemInit => MemTyped /\ FlagIsCallers /\ BlocksApart
<1> SUFFICES ASSUME MemInit
             PROVE  MemTyped /\ FlagIsCallers /\ BlocksApart
  OBVIOUS
<1> DEFINE first == [at |-> Static, entries |-> <<KernelImage>>]
<1>1. list = <<first>>
  BY DEF MemInit, KernelImage
<1>2. KernelImage \in Entry /\ first \in Struct
  BY MachineSize DEF KernelImage, Entry, Struct
<1>3. /\ list \in Seq(Struct) /\ Len(list) = 1 /\ list # <<>>
      /\ list[1].at = Static /\ list[1].entries = <<KernelImage>>
      /\ Len(list[1].entries) = 1
  <2>1. list \in Seq(Struct) /\ Len(list) = 1 /\ list # <<>> /\ list[1] = first
    <3> HIDE DEF first
    <3> QED
      BY <1>1, <1>2
  <2>2. first.at = Static /\ first.entries = <<KernelImage>>
    OBVIOUS
  <2>3. Len(<<KernelImage>>) = 1
    OBVIOUS
  <2> QED
    BY <2>1, <2>2, <2>3
<1> HIDE DEF first
<1>4. GoodList(list)
  <2>1. Len(list) - 1 = 0 /\ 1 .. 0 = {} /\ 1 .. Len(list) = {1}
    BY <1>3
  <2>2. 1 <= Records
    BY MachineSize
  <2> QED
    BY ONLY <1>3, <2>1, <2>2 DEF GoodList
<1>5. bitmap \subseteq Page
  BY MachineSize DEF MemInit, Page
<1>6. /\ mem_pc = [t \in Task |-> "idle"] /\ request = [t \in Task |-> NoRequest]
      /\ blocks = [t \in Task |-> <<>>] /\ in_list = {} /\ owned = {}
      /\ status_kmalloc = 0
      /\ flag_raced = FALSE /\ scan_raced = FALSE /\ list_raced = FALSE
  BY DEF MemInit
<1>7. /\ \A t \in Task : mem_pc[t] = "idle" /\ blocks[t] = <<>>
      /\ \A t \in Task : 1 .. Len(blocks[t]) = {}
  BY <1>6, NothingTyped
<1>8. /\ mem_pc \in [Task -> MemPoint] /\ request \in [Task -> Request]
      /\ blocks \in [Task -> Seq(Block)]
  BY <1>6, NothingTyped DEF MemPoint
<1>9. \A t \in Task : CallTyped(t)
  BY <1>6, <1>7 DEF CallTyped
<1>10. ListAlone
  BY <1>6, <1>7 DEF ListAlone
<1>11. MemTyped
  BY <1>4, <1>5, <1>6, <1>8, <1>9, <1>10 DEF MemTyped
<1>12. FlagIsCallers
  BY <1>6, <1>7 DEF FlagIsCallers
<1>13. BlocksApart
  <2>1. \A t \in Task : CallApart(t)
    BY <1>7 DEF CallApart
  <2>2. \A t, u \in Task : CallsApart(t, u)
    BY <1>7 DEF CallsApart
  <2>3. 1 .. Len(list) - 1 = {}
    BY <1>3
  <2> QED
    BY <1>6, <2>1, <2>2, <2>3 DEF BlocksApart, MemInit
<1> QED
  BY <1>11, <1>12, <1>13

(* What alloc_pages finds: free pages of the area it looks in.              *)
LEMMA FirstFitIsFree ==
  ASSUME NEW from \in Nat, NEW to \in Nat, NEW n, NEW b \in FirstFit(from, to, n)
  PROVE  /\ b \in from .. to /\ b + n - 1 <= to
         /\ PagesOf([base |-> b, num |-> n]) \cap bitmap = {}
BY DEF FirstFit, PagesOf

(* A step of one task changes nothing of the others.                        *)
LEMMA Moves ==
  ASSUME MemTyped, NEW t \in Task,
         NEW p \in MemPoint, NEW r \in Request, NEW b \in Seq(Block),
         mem_pc' = [mem_pc EXCEPT ![t] = p],
         request' = [request EXCEPT ![t] = r],
         blocks' = [blocks EXCEPT ![t] = b]
  PROVE  /\ mem_pc' \in [Task -> MemPoint] /\ request' \in [Task -> Request]
         /\ blocks' \in [Task -> Seq(Block)]
         /\ mem_pc'[t] = p /\ request'[t] = r /\ blocks'[t] = b
         /\ \A u \in Task \ {t} : /\ mem_pc'[u] = mem_pc[u]
                                  /\ request'[u] = request[u] /\ blocks'[u] = blocks[u]
BY DEF MemTyped

(* A task that returns has nothing any more.                                *)
LEMMA ReturnTyped ==
  ASSUME MemTyped, NEW t \in Task, Return(t)
  PROVE  /\ mem_pc' \in [Task -> MemPoint] /\ request' \in [Task -> Request]
         /\ blocks' \in [Task -> Seq(Block)]
         /\ mem_pc'[t] = "idle" /\ blocks'[t] = <<>> /\ Len(blocks'[t]) = 0
         /\ \A u \in Task \ {t} :
              /\ mem_pc'[u] = mem_pc[u]
              /\ request'[u] = request[u] /\ blocks'[u] = blocks[u]
         /\ in_list' = in_list \ {t}
<1>1. /\ mem_pc' = [mem_pc EXCEPT ![t] = "idle"]
      /\ request' = [request EXCEPT ![t] = NoRequest]
      /\ blocks' = [blocks EXCEPT ![t] = <<>>]
      /\ in_list' = in_list \ {t}
  BY DEF Return, GoTo
<1>2. "idle" \in MemPoint
  BY DEF MemPoint
<1> QED
  BY <1>1, <1>2, NothingTyped, Moves

(* The calls of the others stay typed.                                      *)
LEMMA OthersTyped ==
  ASSUME MemTyped, NEW t \in Task, CallTyped(t)',
         \A u \in Task \ {t} :
           /\ mem_pc'[u] = mem_pc[u]
           /\ request'[u] = request[u] /\ blocks'[u] = blocks[u]
           /\ u \in in_list' <=> u \in in_list
  PROVE  \A u \in Task : CallTyped(u)'
<1> SUFFICES ASSUME NEW u \in Task, u # t
             PROVE  CallTyped(u)'
  OBVIOUS
<1>1. CallTyped(u)
  BY DEF MemTyped
<1> QED
  BY <1>1 DEF CallTyped

(* The request of a call of alloc_pages that begins.                        *)
LEMMA CallBegins ==
  ASSUME MemTyped, NEW t \in Task, NEW n \in Nat, NEW by \in Allocator, Call(t, n, by),
         UNCHANGED blocks
  PROVE  /\ mem_pc' \in [Task -> MemPoint] /\ request' \in [Task -> Request]
         /\ mem_pc'[t] = "flag" /\ request'[t].num = n /\ request'[t].by = by
         /\ \A u \in Task \ {t} :
              mem_pc'[u] = mem_pc[u] /\ request'[u] = request[u]
         /\ flag_raced' = (flag_raced \/ Behind(t, "flag")) /\ flag_raced' \in BOOLEAN
<1> DEFINE r == [request[t] EXCEPT !.num = n, !.by = by]
<1>1. request[t] \in Request /\ blocks[t] \in Seq(Block)
  BY DEF MemTyped
<1>2. r \in Request /\ r.num = n /\ r.by = by
  BY <1>1 DEF Request
<1>3. request' = [request EXCEPT ![t] = r]
  BY DEF Call
<1> HIDE DEF r
<1>4. mem_pc' = [mem_pc EXCEPT ![t] = "flag"] /\ "flag" \in MemPoint
  BY DEF Call, GoTo, MemPoint
<1>5. blocks' = [blocks EXCEPT ![t] = blocks[t]]
  BY DEF MemTyped
<1>6. flag_raced' = (flag_raced \/ Behind(t, "flag"))
  BY DEF Call
<1>7. flag_raced' \in BOOLEAN
  BY <1>6 DEF Behind, MemTyped
<1> QED
  BY <1>1, <1>2, <1>3, <1>4, <1>5, <1>6, <1>7, Moves

(* A call of kmalloc or phisic_alloc that begins is typed,                  *)
LEMMA BeginTyped ==
  ASSUME MemTyped, NEW t \in Task, NEW n \in Nums, kmalloc(t, n) \/ phisic_alloc(t, n)
  PROVE  MemTyped'
<1>1. PICK by \in Allocator : Call(t, n, by)
  BY DEF kmalloc, phisic_alloc, Allocator
<1>2. /\ mem_pc[t] = "idle" /\ status_kmalloc' \in {0, 1}
      /\ UNCHANGED <<bitmap, list, blocks, in_list, owned, scan_raced, list_raced>>
  BY DEF kmalloc, phisic_alloc, At, MemTyped
<1>3. n \in Nat
  BY PhysMemAssumption DEF PhysMemAssumption
<1>4. /\ mem_pc' \in [Task -> MemPoint] /\ request' \in [Task -> Request]
      /\ mem_pc'[t] = "flag" /\ request'[t].num = n
      /\ \A u \in Task \ {t} : mem_pc'[u] = mem_pc[u] /\ request'[u] = request[u]
      /\ flag_raced' \in BOOLEAN
  BY <1>1, <1>2, <1>3, CallBegins
<1>5. CallTyped(t)'
  BY <1>2, <1>4 DEF CallTyped, MemTyped
<1>6. \A u \in Task : CallTyped(u)'
  BY <1>2, <1>4, <1>5, OthersTyped
<1>7. ListAlone'
  BY <1>2, <1>4 DEF MemTyped, ListAlone
<1> QED
  BY <1>2, <1>4, <1>6, <1>7 DEF MemTyped

(* and so does reading the flag, which decides the zone,                    *)
LEMMA FlagTyped ==
  ASSUME MemTyped, NEW t \in Task, alloc_flag(t)
  PROVE  /\ MemTyped'
         /\ mem_pc'[t] = "scan"
         /\ \A u \in Task \ {t} : mem_pc'[u] = mem_pc[u] /\ request'[u] = request[u]
         /\ request'[t].num = request[t].num /\ request'[t].by = request[t].by
         /\ IF status_kmalloc = 1
            THEN request'[t].from = 0 /\ request'[t].to = KernelPages - 1
            ELSE request'[t].from = KernelPages /\ request'[t].to = MaxPages - 1
<1> DEFINE r == IF status_kmalloc = 1
                THEN [request[t] EXCEPT !.from = 0, !.to = KernelPages - 1]
                ELSE [request[t] EXCEPT !.from = KernelPages, !.to = MaxPages - 1]
<1>1. request[t] \in Request /\ blocks[t] \in Seq(Block)
  BY DEF MemTyped
<1>2. /\ r \in Request
      /\ r.num = request[t].num /\ r.by = request[t].by
      /\ IF status_kmalloc = 1
         THEN r.from = 0 /\ r.to = KernelPages - 1
         ELSE r.from = KernelPages /\ r.to = MaxPages - 1
  BY <1>1, MachineSize DEF Request
<1>3. request' = [request EXCEPT ![t] = r]
  BY DEF alloc_flag
<1> HIDE DEF r
<1>4. /\ mem_pc[t] = "flag" /\ mem_pc' = [mem_pc EXCEPT ![t] = "scan"] /\ "scan" \in MemPoint
      /\ status_kmalloc' = 0
      /\ UNCHANGED <<bitmap, list, blocks, in_list, owned, flag_raced, scan_raced, list_raced>>
  BY DEF alloc_flag, At, GoTo, MemPoint, races
<1>5. blocks' = [blocks EXCEPT ![t] = blocks[t]]
  BY <1>4 DEF MemTyped
<1>6. /\ mem_pc' \in [Task -> MemPoint] /\ request' \in [Task -> Request]
      /\ blocks' \in [Task -> Seq(Block)]
      /\ mem_pc'[t] = "scan" /\ request'[t] = r /\ blocks'[t] = blocks[t]
      /\ \A u \in Task \ {t} : /\ mem_pc'[u] = mem_pc[u]
                               /\ request'[u] = request[u] /\ blocks'[u] = blocks[u]
  BY <1>1, <1>2, <1>3, <1>4, <1>5, Moves
<1>7. CallTyped(t)'
  <2>1. r.to < MaxPages /\ CallTyped(t)
    BY <1>2, MachineSize DEF MemTyped
  <2> QED
    BY <1>2, <1>4, <1>6, <2>1 DEF CallTyped
<1>8. \A u \in Task : CallTyped(u)'
  BY <1>4, <1>6, <1>7, OthersTyped
<1>9. ListAlone'
  BY <1>4, <1>6 DEF MemTyped, ListAlone
<1>10. MemTyped'
  BY <1>4, <1>6, <1>8, <1>9 DEF MemTyped
<1> QED
  BY <1>2, <1>6, <1>10

(* The block of the length a call asked for that begins with page b.        *)
Candidate(t, b) == [base |-> b, num |-> request[t].num]

(* and the search, which puts what it finds behind the blocks of the calls  *)
(* it is nested in,                                                         *)
LEMMA ScanFinds ==
  ASSUME MemTyped, NEW t \in Task, mem_pc[t] = "scan",
         NEW b \in FirstFit(request[t].from, request[t].to, request[t].num),
         NEW found, found = Candidate(t, b),
         blocks' = [blocks EXCEPT ![t] = Append(@, found)],
         mem_pc' = [mem_pc EXCEPT ![t] = "mark"], UNCHANGED <<request, in_list>>
  PROVE  /\ found \in Block /\ PagesOf(found) \subseteq Page
         /\ PagesOf(found) \cap bitmap = {}
         /\ mem_pc' \in [Task -> MemPoint] /\ blocks' \in [Task -> Seq(Block)]
         /\ mem_pc'[t] = "mark" /\ Len(blocks'[t]) = Len(blocks[t]) + 1
         /\ Len(blocks[t]) \in Nat
         /\ blocks'[t][Len(blocks[t]) + 1] = found
         /\ \A i \in 1 .. Len(blocks[t]) : blocks'[t][i] = blocks[t][i]
         /\ \A i \in 1 .. Len(blocks'[t]) : i \in 1 .. Len(blocks[t]) \/ i = Len(blocks[t]) + 1
         /\ \A u \in Task \ {t} : mem_pc'[u] = mem_pc[u] /\ blocks'[u] = blocks[u]
         /\ \A u \in Task : CallTyped(u)'
<1> DEFINE r == request[t]
<1>1. /\ r \in Request /\ blocks[t] \in Seq(Block) /\ r.num \in Nums \cup {1}
      /\ r.to < MaxPages /\ CallTyped(t)
  BY DEF MemTyped, CallTyped
<1>2. r.num \in Nat \ {0} /\ r.from \in Nat /\ r.to \in Nat
  <2>1. \A k \in Nums : k \in Nat \ {0}
    BY PhysMemAssumption DEF PhysMemAssumption
  <2>2. r.from \in Nat /\ r.to \in Nat
    BY <1>1 DEF Request
  <2>3. CASE r.num \in Nums
    BY <2>1, <2>2, <2>3
  <2>4. CASE r.num = 1
    BY <2>2, <2>4
  <2> QED
    BY <1>1, <2>3, <2>4
<1>3. /\ b \in r.from .. r.to /\ b + r.num - 1 <= r.to
      /\ PagesOf([base |-> b, num |-> r.num]) \cap bitmap = {}
  BY <1>2, FirstFitIsFree
<1> HIDE DEF r
<1>4. b \in 0 .. MaxPages - 1 /\ b .. b + r.num - 1 \subseteq 0 .. MaxPages - 1
  <2>1. MaxPages \in Nat
    BY MachineSize
  <2> QED
    BY ONLY <1>1, <1>2, <1>3, <2>1
<1>5. found = [base |-> b, num |-> r.num]
  BY DEF r, Candidate
<1>6. found \in Block /\ PagesOf(found) \subseteq Page /\ PagesOf(found) \cap bitmap = {}
  BY <1>1, <1>3, <1>4, <1>5 DEF Block, Page, PagesOf
<1> DEFINE f == Append(blocks[t], found)
<1>7. /\ f \in Seq(Block) /\ Len(f) = Len(blocks[t]) + 1
      /\ f[Len(blocks[t]) + 1] = found /\ Len(blocks[t]) \in Nat
      /\ \A i \in 1 .. Len(blocks[t]) : f[i] = blocks[t][i]
  BY <1>1, <1>6, AppendProperties
<1> HIDE DEF f
<1>8. \A i \in 1 .. Len(f) : i \in 1 .. Len(blocks[t]) \/ i = Len(blocks[t]) + 1
  BY <1>7
<1>9. blocks' = [blocks EXCEPT ![t] = f] /\ "mark" \in MemPoint
  BY DEF f, MemPoint, MemTyped
<1>10. request' = [request EXCEPT ![t] = request[t]] /\ request[t] \in Request
  BY DEF MemTyped
<1>11. /\ mem_pc' \in [Task -> MemPoint] /\ blocks' \in [Task -> Seq(Block)]
       /\ mem_pc'[t] = "mark" /\ blocks'[t] = f
       /\ \A u \in Task \ {t} : /\ mem_pc'[u] = mem_pc[u]
                                /\ request'[u] = request[u] /\ blocks'[u] = blocks[u]
  BY <1>7, <1>9, <1>10, Moves
<1>12. CallTyped(t)'
  <2>1. f # <<>>
    BY <1>7, EmptySeq
  <2>2. \A i \in 1 .. Len(f) : PagesOf(f[i]) \subseteq Page
    BY <1>1, <1>6, <1>7, <1>8 DEF CallTyped
  <2> QED
    BY <1>11, <2>1, <2>2 DEF CallTyped
<1>13. \A u \in Task : CallTyped(u)'
  BY <1>11, <1>12, OthersTyped
<1> QED
  BY <1>6, <1>7, <1>8, <1>11, <1>13

(* the return through the calls of add_info_pages,                          *)
LEMMA UnwindTyped ==
  ASSUME MemTyped, NEW t \in Task, blocks[t] # <<>>, t \in in_list, ~list_raced,
         NEW l, GoodList(l), Unwind(t, l),
         UNCHANGED <<bitmap, status_kmalloc, races>>
  PROVE  /\ MemTyped'
         /\ blocks[t] \in Seq(Block) /\ 1 \in 1 .. Len(blocks[t]) /\ Len(blocks[t]) \in Nat
         /\ \A i \in 1 .. Len(blocks[t]) : PagesOf(blocks[t][i]) \subseteq Page
         /\ blocks[t][1] \in Block /\ list' = Structs(blocks[t]) \o l
         /\ owned' = owned \cup {[block |-> blocks[t][1], by |-> request[t].by]}
         /\ Return(t)
<1>1. /\ list' = Structs(blocks[t]) \o l /\ Return(t)
      /\ owned' = owned \cup {[block |-> blocks[t][1], by |-> request[t].by]}
  BY DEF Unwind
<1>2. /\ blocks[t] \in Seq(Block) /\ request[t] \in Request
      /\ \A i \in 1 .. Len(blocks[t]) : PagesOf(blocks[t][i]) \subseteq Page
  BY DEF MemTyped, CallTyped
<1>3. 1 \in 1 .. Len(blocks[t]) /\ Len(blocks[t]) \in Nat
  BY <1>2, EmptySeq
<1>4. blocks[t][1] \in Block
  BY <1>2, <1>3, ElementOfSeq
<1>5. GoodList(list')
  <2>1. PICK m, n : m = Structs(blocks[t]) \o l /\ n = Len(blocks[t]) - 1
    OBVIOUS
  <2>2. PutOn(blocks[t], l, m, n)
    BY <1>2, <2>1 DEF PutOn
  <2> QED
    BY <1>1, <2>1, <2>2, PutStructs
<1>6. owned' \subseteq [block : Block, by : Allocator] /\ \A o \in owned' : PagesOf(o.block) \subseteq Page
  <2>1. /\ [block |-> blocks[t][1], by |-> request[t].by] \in [block : Block, by : Allocator]
        /\ PagesOf(blocks[t][1]) \subseteq Page
    BY <1>2, <1>3, <1>4 DEF Request
  <2> QED
    BY <1>1, <2>1 DEF MemTyped
<1>7. /\ mem_pc' \in [Task -> MemPoint] /\ request' \in [Task -> Request]
      /\ blocks' \in [Task -> Seq(Block)]
      /\ mem_pc'[t] = "idle" /\ blocks'[t] = <<>> /\ Len(blocks'[t]) = 0
      /\ \A u \in Task \ {t} :
           /\ mem_pc'[u] = mem_pc[u]
           /\ request'[u] = request[u] /\ blocks'[u] = blocks[u]
      /\ in_list' = in_list \ {t}
  BY <1>1, ReturnTyped
<1>8. CallTyped(t)'
  BY <1>7 DEF CallTyped
<1>9. \A u \in Task : CallTyped(u)'
  BY <1>7, <1>8, OthersTyped
<1>10. ListAlone'
  <2>1. in_list' = {}
    BY <1>7 DEF MemTyped, ListAlone
  <2>2. \A u \in Task : mem_pc'[u] # "adding"
    BY <1>9, <2>1 DEF CallTyped
  <2> QED
    BY <2>1, <2>2 DEF ListAlone
<1>11. in_list' \subseteq Task
  BY <1>7 DEF MemTyped
<1>12. UNCHANGED <<bitmap, status_kmalloc, flag_raced, scan_raced, list_raced>>
  BY DEF races
<1>13. MemTyped'
  BY <1>5, <1>6, <1>7, <1>9, <1>10, <1>11, <1>12 DEF MemTyped
<1> QED
  BY <1>1, <1>2, <1>3, <1>4, <1>13

(* and so each end of the search,                                           *)
LEMMA ScanCases ==
  ASSUME MemTyped, NEW t \in Task, alloc_scan(t)
  PROVE  /\ mem_pc[t] = "scan" /\ ~scan_raced /\ ~list_raced
         /\ UNCHANGED <<bitmap, status_kmalloc, flag_raced, list_raced>>
         /\ \/ /\ t \notin in_list /\ Return(t) /\ UNCHANGED <<list, owned, scan_raced>>
            \/ /\ t \in in_list /\ blocks[t] # <<>>
               /\ FirstFit(request[t].from, request[t].to, request[t].num) = {}
               /\ Unwind(t, list) /\ UNCHANGED scan_raced
            \/ \E b \in FirstFit(request[t].from, request[t].to, request[t].num) :
                 /\ blocks' = [blocks EXCEPT ![t] =
                                 Append(@, Candidate(t, b))]
                 /\ mem_pc' = [mem_pc EXCEPT ![t] = "mark"]
                 /\ scan_raced' = (scan_raced \/ Behind(t, "mark"))
                 /\ UNCHANGED <<list, owned, request, in_list>>
<1>1. mem_pc[t] = "scan" /\ ~scan_raced /\ ~list_raced
  BY DEF alloc_scan, At
<1>2. t \in in_list => blocks[t] # <<>>
  BY <1>1 DEF MemTyped, CallTyped
<1> QED
  BY <1>1, <1>2 DEF alloc_scan, GoTo, Candidate

LEMMA ScanTyped ==
  ASSUME MemTyped, NEW t \in Task, alloc_scan(t)
  PROVE  MemTyped'
<1>1. /\ mem_pc[t] = "scan" /\ ~list_raced
      /\ UNCHANGED <<bitmap, status_kmalloc, flag_raced, list_raced>>
  BY ScanCases
<1>2. CASE t \notin in_list /\ Return(t) /\ UNCHANGED <<list, owned, scan_raced>>
  <2>1. /\ mem_pc' \in [Task -> MemPoint] /\ request' \in [Task -> Request]
        /\ blocks' \in [Task -> Seq(Block)]
        /\ mem_pc'[t] = "idle" /\ blocks'[t] = <<>> /\ Len(blocks'[t]) = 0
        /\ \A u \in Task \ {t} :
             /\ mem_pc'[u] = mem_pc[u]
             /\ request'[u] = request[u] /\ blocks'[u] = blocks[u]
        /\ in_list' = in_list
    BY <1>2, ReturnTyped
  <2>2. CallTyped(t)'
    BY <1>2, <2>1 DEF CallTyped
  <2>3. \A u \in Task : CallTyped(u)'
    BY <2>1, <2>2, OthersTyped
  <2>4. ListAlone'
    BY <1>1, <1>2, <2>1 DEF MemTyped, ListAlone
  <2> QED
    BY <1>1, <1>2, <2>1, <2>3, <2>4 DEF MemTyped
<1>3. CASE t \in in_list /\ blocks[t] # <<>> /\ Unwind(t, list) /\ UNCHANGED scan_raced
  <2>1. UNCHANGED <<bitmap, status_kmalloc, races>> /\ GoodList(list)
    BY <1>1, <1>3 DEF races, MemTyped
  <2> QED
    BY <1>1, <1>3, <2>1, UnwindTyped
<1>4. ASSUME NEW b \in FirstFit(request[t].from, request[t].to, request[t].num),
             blocks' = [blocks EXCEPT ![t] = Append(@, Candidate(t, b))],
             mem_pc' = [mem_pc EXCEPT ![t] = "mark"],
             scan_raced' = (scan_raced \/ Behind(t, "mark")),
             UNCHANGED <<list, owned, request, in_list>>
      PROVE  MemTyped'
  <2>1. /\ mem_pc' \in [Task -> MemPoint] /\ blocks' \in [Task -> Seq(Block)]
        /\ mem_pc'[t] = "mark"
        /\ \A u \in Task \ {t} : mem_pc'[u] = mem_pc[u] /\ blocks'[u] = blocks[u]
        /\ \A u \in Task : CallTyped(u)'
    BY <1>1, <1>4, ScanFinds
  <2>2. ListAlone'
    BY <1>1, <1>4, <2>1 DEF MemTyped, ListAlone
  <2>3. scan_raced' \in BOOLEAN
    BY <1>4 DEF MemTyped, Behind
  <2> QED
    BY <1>1, <1>4, <2>1, <2>2, <2>3 DEF MemTyped
<1> QED
  BY <1>2, <1>3, <1>4, ScanCases

(* the marking of the pages,                                                *)
LEMMA MarkTyped ==
  ASSUME MemTyped, NEW t \in Task, alloc_mark(t)
  PROVE  /\ MemTyped' /\ mem_pc'[t] = "record"
         /\ \A u \in Task \ {t} : mem_pc'[u] = mem_pc[u]
         /\ Len(blocks[t]) \in 1 .. Len(blocks[t])
<1>1. /\ mem_pc[t] = "mark" /\ mem_pc' = [mem_pc EXCEPT ![t] = "record"]
      /\ bitmap' = bitmap \cup PagesOf(blocks[t][Len(blocks[t])])
      /\ UNCHANGED <<list, status_kmalloc, request, blocks, in_list, owned,
                     flag_raced, scan_raced, list_raced>>
  BY DEF alloc_mark, At, GoTo, races, Last
<1>2. blocks[t] \in Seq(Block) /\ blocks[t] # <<>> /\ CallTyped(t)
  BY <1>1 DEF MemTyped, CallTyped
<1>3. Len(blocks[t]) \in 1 .. Len(blocks[t])
  BY <1>2, EmptySeq
<1>4. bitmap' \subseteq Page
  BY <1>1, <1>2, <1>3 DEF MemTyped, CallTyped
<1>5. /\ mem_pc' \in [Task -> MemPoint] /\ mem_pc'[t] = "record"
      /\ \A u \in Task \ {t} : mem_pc'[u] = mem_pc[u]
  BY <1>1 DEF MemTyped, MemPoint
<1>6. CallTyped(t)'
  BY <1>1, <1>2, <1>5 DEF CallTyped
<1>7. \A u \in Task : CallTyped(u)'
  BY <1>1, <1>5, <1>6, OthersTyped
<1>8. ListAlone'
  BY <1>1, <1>5 DEF MemTyped, ListAlone
<1>9. MemTyped'
  BY <1>1, <1>4, <1>5, <1>7, <1>8 DEF MemTyped
<1> QED
  BY <1>3, <1>5, <1>9

(* the look at the first struct,                                            *)
LEMMA AddInfoTyped ==
  ASSUME MemTyped, NEW t \in Task, add_info_pages(t)
  PROVE  /\ MemTyped' /\ mem_pc[t] = "record" /\ mem_pc'[t] \in {"adding", "flag"}
         /\ in_list' = in_list \cup {t}
         /\ request'[t].by = request[t].by
         /\ \A u \in Task \ {t} : mem_pc'[u] = mem_pc[u] /\ request'[u] = request[u]
         /\ flag_raced' = flag_raced \/ flag_raced' = (flag_raced \/ Behind(t, "flag"))
         /\ mem_pc'[t] = "flag" => flag_raced' = (flag_raced \/ Behind(t, "flag"))
         /\ list_raced => list_raced'
         /\ UNCHANGED <<bitmap, list, status_kmalloc, blocks, owned, scan_raced>>
<1>1. /\ mem_pc[t] = "record"
      /\ in_list' = in_list \cup {t}
      /\ list_raced' = (list_raced \/ in_list \ {t} # {})
      /\ UNCHANGED <<bitmap, list, status_kmalloc, blocks, owned, scan_raced>>
  BY DEF add_info_pages, At, EnterList
<1>2. /\ blocks[t] \in Seq(Block) /\ blocks[t] # <<>> /\ CallTyped(t) /\ request[t] \in Request
  BY <1>1 DEF MemTyped, CallTyped
<1>3. ASSUME ~list_raced'
      PROVE  ~list_raced /\ in_list' = {t}
  BY <1>1, <1>3
<1>4. list_raced' \in BOOLEAN
  BY <1>1 DEF MemTyped
<1>5. CASE Len(list[1].entries) < Records /\ GoTo(t, "adding") /\ UNCHANGED <<request, flag_raced>>
  <2>1. /\ mem_pc' \in [Task -> MemPoint] /\ mem_pc'[t] = "adding"
        /\ \A u \in Task \ {t} : mem_pc'[u] = mem_pc[u]
    BY <1>5 DEF MemTyped, MemPoint, GoTo
  <2>2. CallTyped(t)'
    BY <1>1, <1>2, <1>5, <2>1 DEF CallTyped
  <2>3. \A u \in Task : CallTyped(u)'
    BY <1>1, <1>5, <2>1, <2>2, OthersTyped
  <2>4. ListAlone'
    <3>1. ASSUME ~list_raced'
          PROVE  \A u \in Task : mem_pc'[u] = "adding" => Len(list[1].entries) < Records
      BY <1>3, <1>5, <2>1, <3>1 DEF MemTyped, ListAlone
    <3> QED
      BY <1>1, <1>3, <3>1 DEF ListAlone
  <2>5. MemTyped'
    BY <1>1, <1>4, <1>5, <2>1, <2>3, <2>4 DEF MemTyped
  <2> QED
    BY <1>1, <1>5, <2>1, <2>5
<1>6. CASE Call(t, 1, request[t].by)
  <2>1. request[t].by \in Allocator /\ 1 \in Nat
    BY <1>2 DEF Request
  <2>2. /\ mem_pc' \in [Task -> MemPoint] /\ request' \in [Task -> Request]
        /\ mem_pc'[t] = "flag" /\ request'[t].num = 1 /\ request'[t].by = request[t].by
        /\ \A u \in Task \ {t} : mem_pc'[u] = mem_pc[u] /\ request'[u] = request[u]
        /\ flag_raced' = (flag_raced \/ Behind(t, "flag")) /\ flag_raced' \in BOOLEAN
    BY <1>1, <1>6, <2>1, CallBegins
  <2>3. CallTyped(t)'
    BY <1>1, <1>2, <2>2 DEF CallTyped
  <2>4. \A u \in Task : CallTyped(u)'
    BY <1>1, <2>2, <2>3, OthersTyped
  <2>5. ListAlone'
    BY <1>1, <1>3, <2>2 DEF MemTyped, ListAlone
  <2>6. MemTyped'
    BY <1>1, <1>4, <2>2, <2>4, <2>5 DEF MemTyped
  <2> QED
    BY <1>1, <2>2, <2>6
<1> QED
  BY <1>5, <1>6 DEF add_info_pages

(* What add_entry appends to the first struct makes a list.                 *)
LEMMA AddEntryList ==
  ASSUME MemTyped, NEW t \in Task, add_entry(t),
         NEW l, l = [list EXCEPT ![1].entries = Append(@, Last(blocks[t]))]
  PROVE  /\ mem_pc[t] = "adding" /\ ~list_raced /\ ~scan_raced
         /\ t \in in_list /\ blocks[t] # <<>>
         /\ UNCHANGED <<bitmap, status_kmalloc, races>>
         /\ GoodList(l) /\ Len(l) = Len(list) /\ Unwind(t, l)
         /\ l[1].entries = Append(list[1].entries, blocks[t][Len(blocks[t])])
         /\ \A i \in 1 .. Len(list) :
              /\ l[i].at = list[i].at
              /\ i # 1 => l[i].entries = list[i].entries
<1>1. /\ mem_pc[t] = "adding" /\ ~list_raced /\ ~scan_raced
      /\ UNCHANGED <<bitmap, status_kmalloc, races>> /\ Unwind(t, l)
  BY DEF add_entry, At
<1>2. /\ blocks[t] \in Seq(Block) /\ blocks[t] # <<>> /\ t \in in_list /\ GoodList(list)
      /\ Len(list[1].entries) < Records
  BY <1>1 DEF MemTyped, CallTyped, ListAlone
<1> DEFINE b == blocks[t][Len(blocks[t])]
           e == Append(list[1].entries, b)
<1>3. b \in Entry
  <2>1. Len(blocks[t]) \in 1 .. Len(blocks[t])
    BY <1>2, EmptySeq
  <2>2. b \in Block
    BY <1>2, <2>1, ElementOfSeq
  <2> QED
    BY <2>2, BlockHasBase
<1>4. list[1].entries \in Seq(Entry) /\ 1 \in 1 .. Len(list) /\ Len(list[1].entries) \in Nat
  BY <1>2, EntriesTyped
<1> HIDE DEF b
<1>5. e \in Seq(Entry) /\ Len(e) = Len(list[1].entries) + 1 /\ e # <<>>
  BY <1>3, <1>4, AppendProperties
<1>6. l = WithEntries(list, 1, e)
  BY DEF b, Last, WithEntries
<1> HIDE DEF e
<1>7. Len(e) <= Records
  BY <1>2, <1>4, <1>5, MachineSize
<1>8. /\ GoodList(l) /\ Len(l) = Len(list)
      /\ \A j \in 1 .. Len(list) :
           /\ l[j].at = list[j].at
           /\ l[j].entries = IF j = 1 THEN e ELSE list[j].entries
  <2>1. GoodList(list) /\ e \in Seq(Entry) /\ (1 < Len(list) => e # <<>>)
    BY <1>2, <1>5
  <2> QED
    BY ONLY <1>4, <1>6, <1>7, <2>1, SetEntries
<1> QED
  BY <1>1, <1>2, <1>4, <1>8 DEF e, b

(* the entry,                                                               *)
LEMMA AddEntryTyped ==
  ASSUME MemTyped, NEW t \in Task, add_entry(t)
  PROVE  MemTyped'
<1> DEFINE l == [list EXCEPT ![1].entries = Append(@, Last(blocks[t]))]
<1>1. /\ ~list_raced /\ t \in in_list /\ blocks[t] # <<>>
      /\ UNCHANGED <<bitmap, status_kmalloc, races>>
      /\ GoodList(l) /\ Unwind(t, l)
  BY AddEntryList
<1> HIDE DEF l
<1> QED
  BY <1>1, UnwindTyped

(* the begin of dealloc_pages,                                              *)
LEMMA DeallocTyped ==
  ASSUME MemTyped, NEW t \in Task, NEW o \in owned, dealloc_pages(t, o)
  PROVE  /\ MemTyped' /\ mem_pc[t] = "idle" /\ mem_pc'[t] = "freeing"
         /\ blocks'[t] = <<o.block>> /\ Len(blocks'[t]) = 1 /\ blocks'[t][1] = o.block
         /\ 1 .. Len(blocks'[t]) = {1}
         /\ \A u \in Task \ {t} : mem_pc'[u] = mem_pc[u] /\ blocks'[u] = blocks[u]
         /\ owned' = owned \ {o} /\ RecordsIntact /\ ~scan_raced
         /\ list_raced' = (list_raced \/ in_list \ {t} # {})
         /\ UNCHANGED <<bitmap, list, status_kmalloc, request, flag_raced, scan_raced>>
<1>1. /\ mem_pc[t] = "idle" /\ owned' = owned \ {o} /\ RecordsIntact /\ ~scan_raced
      /\ in_list' = in_list \cup {t}
      /\ list_raced' = (list_raced \/ in_list \ {t} # {})
      /\ mem_pc' = [mem_pc EXCEPT ![t] = "freeing"] /\ "freeing" \in MemPoint
      /\ blocks' = [blocks EXCEPT ![t] = <<o.block>>]
      /\ UNCHANGED <<bitmap, list, status_kmalloc, request, flag_raced, scan_raced>>
  BY DEF dealloc_pages, At, EnterList, GoTo, MemPoint
<1>2. o.block \in Block /\ PagesOf(o.block) \subseteq Page
  BY DEF MemTyped
<1>3. <<o.block>> \in Seq(Block) /\ Len(<<o.block>>) = 1 /\ <<o.block>>[1] = o.block /\ 1 .. 1 = {1}
      /\ <<o.block>> # <<>>
  BY <1>2
<1>4. request' = [request EXCEPT ![t] = request[t]] /\ request[t] \in Request
  BY <1>1 DEF MemTyped
<1>5. /\ mem_pc' \in [Task -> MemPoint] /\ request' \in [Task -> Request]
      /\ blocks' \in [Task -> Seq(Block)]
      /\ mem_pc'[t] = "freeing" /\ blocks'[t] = <<o.block>>
      /\ \A u \in Task \ {t} : /\ mem_pc'[u] = mem_pc[u]
                               /\ request'[u] = request[u] /\ blocks'[u] = blocks[u]
  BY <1>1, <1>3, <1>4, Moves
<1>6. CallTyped(t)'
  BY <1>1, <1>2, <1>3, <1>5 DEF CallTyped
<1>7. \A u \in Task : CallTyped(u)'
  BY <1>1, <1>5, <1>6, OthersTyped
<1>8. ListAlone'
  <2>1. ASSUME ~list_raced'
        PROVE  ~list_raced /\ in_list' = {t}
    BY <1>1, <2>1
  <2> QED
    BY <1>1, <1>5, <2>1 DEF MemTyped, ListAlone
<1>9. in_list' \subseteq Task /\ list_raced' \in BOOLEAN
  BY <1>1 DEF MemTyped
<1>10. MemTyped'
  BY <1>1, <1>5, <1>7, <1>8, <1>9 DEF MemTyped
<1> QED
  BY <1>1, <1>3, <1>5, <1>10

(* What dealloc_pages does to the list and to the bitmap for an address: it *)
(* finds no entry, or flips the page of the first struct, or takes an entry *)
(* out.                                                                     *)
DeallocOutcome(base) ==
  \/ Found(base) = {} /\ UNCHANGED <<bitmap, list>>
  \/ /\ 1 < Len(list) /\ list[1].entries[1].base = base
     /\ bitmap' = IF list[1].at \in bitmap THEN bitmap \ {list[1].at}
                                  ELSE bitmap \cup {list[1].at}
     /\ UNCHANGED list
  \/ \E i \in 1 .. Len(list), k \in 1 .. Records :
       /\ <<i, k>> \in Found(base) /\ UNCHANGED bitmap
       /\ k \in 1 .. Len(list[i].entries)
       /\ i > 1 => k > 1
       /\ list[i].entries[k].base = base
       /\ \A j \in 1 .. Len(list) : j # i => list'[j].entries = list[j].entries
       /\ list'[i].entries = RemoveAt(list[i].entries, k)

(* dealloc_pages does just that, and keeps every struct in its place.       *)
LEMMA DeallocList ==
  ASSUME MemTyped, NEW t \in Task, dealloc_entry(t), NEW base, base = blocks[t][1].base
  PROVE  /\ GoodList(list') /\ Len(list') = Len(list)
         /\ \A i \in 1 .. Len(list) : list'[i].at = list[i].at
         /\ DeallocOutcome(base)
<1>1. GoodList(list)
  BY DEF MemTyped
<1>2. CASE Found(base) = {} /\ UNCHANGED <<bitmap, list>>
  BY <1>1, <1>2 DEF DeallocOutcome
<1>3. ASSUME NEW i \in DOMAIN list, NEW k \in 1 .. Records,
             <<i, k>> \in Found(base),
             IF Len(list[i].entries) = 1 /\ i < Len(list)
             THEN /\ bitmap' = IF list[i].at \in bitmap
                               THEN bitmap \ {list[i].at}
                               ELSE bitmap \cup {list[i].at}
                  /\ UNCHANGED list
             ELSE /\ list' = [list EXCEPT ![i].entries = WithoutEntry(@, k)]
                  /\ UNCHANGED bitmap
      PROVE  /\ GoodList(list') /\ Len(list') = Len(list)
             /\ \A j \in 1 .. Len(list) : list'[j].at = list[j].at
             /\ \/ /\ 1 < Len(list) /\ list[1].entries[1].base = base
                   /\ bitmap' = IF list[1].at \in bitmap THEN bitmap \ {list[1].at}
                                                         ELSE bitmap \cup {list[1].at}
                   /\ UNCHANGED list
                \/ /\ UNCHANGED bitmap
                   /\ k \in 1 .. Len(list[i].entries)
                   /\ i > 1 => k > 1
                   /\ list[i].entries[k].base = base
                   /\ \A j \in 1 .. Len(list) : j # i => list'[j].entries = list[j].entries
                   /\ list'[i].entries = RemoveAt(list[i].entries, k)
  <2>1. /\ i \in 1 .. Len(list) /\ Len(list) \in Nat /\ list[i].entries \in Seq(Entry)
        /\ Len(list[i].entries) \in Nat
        /\ DOMAIN list[i].entries = 1 .. Len(list[i].entries)
        /\ i < Len(list) => Len(list[i].entries) \in Nat \ {0}
    BY <1>1, EntriesTyped
  <2>2. /\ k \in DOMAIN list[i].entries
        /\ i > 1 => k > 1
        /\ list[i].entries[k].base = base
    BY <1>3 DEF Found
  <2>3. CASE Len(list[i].entries) = 1 /\ i < Len(list)
    <3>1. k = 1 /\ i = 1 /\ UNCHANGED list
      BY <1>3, <2>1, <2>2, <2>3
    <3> QED
      BY <1>1, <1>3, <2>2, <2>3, <3>1
  <2>4. CASE ~(Len(list[i].entries) = 1 /\ i < Len(list))
    <3> DEFINE e == RemoveAt(list[i].entries, k)
    <3>1. k \in 1 .. Len(list[i].entries)
      BY <2>1, <2>2
    <3>2. e \in Seq(Entry) /\ Len(e) = Len(list[i].entries) - 1
      BY <2>1, <3>1, RemoveAtProperties
    <3>3. list' = WithEntries(list, i, e) /\ UNCHANGED bitmap
      BY <1>3, <2>4 DEF WithoutEntry, WithEntries
    <3> HIDE DEF e
    <3>4. i < Len(list) => e # <<>>
      <4>1. i < Len(list) => Len(e) # 0
        BY <2>1, <2>4, <3>2
      <4> QED
        BY <4>1, EmptySeq
    <3>5. Len(e) <= Records
      BY <1>1, <2>1, <3>2, MachineSize DEF GoodList
    <3>6. /\ GoodList(list') /\ Len(list') = Len(list)
          /\ \A j \in 1 .. Len(list) :
               /\ list'[j].at = list[j].at
               /\ list'[j].entries = IF j = i THEN e ELSE list[j].entries
      BY ONLY <1>1, <2>1, <3>2, <3>3, <3>4, <3>5, SetEntries
    <3> QED
      BY <2>1, <2>2, <3>1, <3>3, <3>6 DEF e
  <2> QED
    BY <2>3, <2>4
<1>4. ASSUME ~(Found(base) = {} /\ UNCHANGED <<bitmap, list>>)
      PROVE  \E i \in DOMAIN list, k \in 1 .. Records :
               /\ <<i, k>> \in Found(base)
               /\ IF Len(list[i].entries) = 1 /\ i < Len(list)
                  THEN /\ bitmap' = IF list[i].at \in bitmap
                                    THEN bitmap \ {list[i].at}
                                    ELSE bitmap \cup {list[i].at}
                       /\ UNCHANGED list
                  ELSE /\ list' = [list EXCEPT ![i].entries = WithoutEntry(@, k)]
                       /\ UNCHANGED bitmap
  BY <1>4 DEF dealloc_entry
<1>5. DOMAIN list = 1 .. Len(list)
  BY <1>1, EntriesTyped
<1>6. CASE ~(Found(base) = {} /\ UNCHANGED <<bitmap, list>>)
  <2>1. PICK i \in 1 .. Len(list), k \in 1 .. Records :
               /\ <<i, k>> \in Found(base)
               /\ IF Len(list[i].entries) = 1 /\ i < Len(list)
                  THEN /\ bitmap' = IF list[i].at \in bitmap
                                    THEN bitmap \ {list[i].at}
                                    ELSE bitmap \cup {list[i].at}
                       /\ UNCHANGED list
                  ELSE /\ list' = [list EXCEPT ![i].entries = WithoutEntry(@, k)]
                       /\ UNCHANGED bitmap
    BY <1>4, <1>5, <1>6
  <2>2. i \in DOMAIN list
    BY <1>5
  <2>3. /\ GoodList(list') /\ Len(list') = Len(list)
        /\ \A j \in 1 .. Len(list) : list'[j].at = list[j].at
        /\ \/ /\ 1 < Len(list) /\ list[1].entries[1].base = base
              /\ bitmap' = IF list[1].at \in bitmap THEN bitmap \ {list[1].at}
                                                    ELSE bitmap \cup {list[1].at}
              /\ UNCHANGED list
           \/ /\ UNCHANGED bitmap
              /\ k \in 1 .. Len(list[i].entries)
              /\ i > 1 => k > 1
              /\ list[i].entries[k].base = base
              /\ \A j \in 1 .. Len(list) : j # i => list'[j].entries = list[j].entries
              /\ list'[i].entries = RemoveAt(list[i].entries, k)
    BY <1>3, <2>1, <2>2, Zenon
  <2> QED
    BY <2>1, <2>3, Zenon DEF DeallocOutcome
<1> QED
  BY <1>2, <1>6

(* and the entry it takes out.                                              *)
LEMMA DeallocEntryTyped ==
  ASSUME MemTyped, NEW t \in Task, dealloc_entry(t)
  PROVE  /\ MemTyped' /\ mem_pc[t] = "freeing" /\ Return(t)
         /\ RecordsIntact /\ ~scan_raced /\ ~list_raced /\ t \in in_list
         /\ 1 \in 1 .. Len(blocks[t]) /\ blocks[t][1] \in Block
         /\ UNCHANGED <<status_kmalloc, owned, races>>
<1>1. /\ mem_pc[t] = "freeing" /\ Return(t) /\ RecordsIntact /\ ~scan_raced /\ ~list_raced
      /\ UNCHANGED <<status_kmalloc, owned, races>>
  BY DEF dealloc_entry, At
<1>2. t \in in_list /\ blocks[t] # <<>> /\ blocks[t] \in Seq(Block)
  BY <1>1 DEF MemTyped, CallTyped
<1>3. 1 \in 1 .. Len(blocks[t]) /\ blocks[t][1] \in Block
  <2>1. 1 \in 1 .. Len(blocks[t])
    BY <1>2, EmptySeq
  <2> QED
    BY <1>2, <2>1, ElementOfSeq
<1>4. GoodList(list')
  BY DeallocList
<1>5. bitmap' \subseteq Page
  <2>1. bitmap' \subseteq bitmap \cup {list[1].at} /\ (1 < Len(list) \/ bitmap' = bitmap)
    BY DeallocList DEF DeallocOutcome
  <2>2. 1 < Len(list) => list[1].at \in Page
    <3>1. Len(list) \in Nat
      BY EntriesTyped DEF MemTyped
    <3> QED
      BY <3>1 DEF MemTyped, GoodList
  <2> QED
    BY <2>1, <2>2 DEF MemTyped
<1>6. /\ mem_pc' \in [Task -> MemPoint] /\ request' \in [Task -> Request]
      /\ blocks' \in [Task -> Seq(Block)]
      /\ mem_pc'[t] = "idle" /\ blocks'[t] = <<>> /\ Len(blocks'[t]) = 0
      /\ \A u \in Task \ {t} :
           /\ mem_pc'[u] = mem_pc[u]
           /\ request'[u] = request[u] /\ blocks'[u] = blocks[u]
      /\ in_list' = in_list \ {t}
  BY <1>1, ReturnTyped
<1>7. CallTyped(t)'
  BY <1>6 DEF CallTyped
<1>8. \A u \in Task : CallTyped(u)'
  BY <1>6, <1>7, OthersTyped
<1>9. in_list' = {}
  BY <1>1, <1>2, <1>6 DEF MemTyped, ListAlone
<1>10. ListAlone'
  <2>1. \A u \in Task : mem_pc'[u] # "adding"
    BY <1>8, <1>9 DEF CallTyped
  <2> QED
    BY <1>9, <2>1 DEF ListAlone
<1>11. MemTyped'
  BY <1>1, <1>4, <1>5, <1>6, <1>8, <1>9, <1>10 DEF MemTyped, races
<1> QED
  BY <1>1, <1>2, <1>3, <1>11

(* Every step keeps the type.                                               *)
LEMMA NextTyped == MemTyped /\ [MemNext]_memvars => MemTyped'
<1> SUFFICES ASSUME MemTyped, [MemNext]_memvars
             PROVE  MemTyped'
  OBVIOUS
<1>1. CASE UNCHANGED memvars
  BY <1>1 DEF memvars, races, calls, MemTyped, CallTyped, ListAlone
<1> QED
  BY <1>1, BeginTyped, FlagTyped, ScanTyped, MarkTyped, AddInfoTyped, AddEntryTyped,
     DeallocTyped, DeallocEntryTyped
  DEF MemNext

(* The type of the proof is that of the runs.                               *)
LEMMA TypedMeansTypeOK == MemTyped => MemTypeOK
<1> SUFFICES ASSUME MemTyped
             PROVE  MemTypeOK
  OBVIOUS
<1>1. \A i \in 1 .. Len(list) :
        /\ list[i].at \in Page \cup {Static}
        /\ Len(list[i].entries) \in 0 .. Records
  <2> SUFFICES ASSUME NEW i \in 1 .. Len(list)
               PROVE  /\ list[i].at \in Page \cup {Static}
                      /\ Len(list[i].entries) \in 0 .. Records
    OBVIOUS
  <2>1. Len(list) \in Nat /\ Len(list[i].entries) \in Nat
    BY EntriesTyped DEF MemTyped
  <2>2. Len(list[i].entries) \in 0 .. Records
    BY <2>1, MachineSize DEF MemTyped, GoodList
  <2>3. i = Len(list) \/ i \in 1 .. Len(list) - 1
    BY <2>1
  <2> QED
    BY <2>2, <2>3 DEF MemTyped, GoodList
<1>2. ASSUME NEW t \in Task
      PROVE  /\ request[t].num \in Nat /\ request[t].by \in Allocator
             /\ \A i \in DOMAIN blocks[t] : blocks[t][i] \in Block
  <2>1. request[t] \in Request /\ blocks[t] \in Seq(Block)
    BY DEF MemTyped
  <2>2. DOMAIN blocks[t] = 1 .. Len(blocks[t])
    BY <2>1, LenProperties
  <2> QED
    BY <2>1, <2>2, ElementOfSeq DEF Request
<1>3. DOMAIN list = 1 .. Len(list)
  BY EntriesTyped DEF MemTyped
<1> QED
  BY <1>1, <1>2, <1>3 DEF MemTyped, MemTypeOK

-----------------------------------------------------------------------------
(* The areas of kmalloc and phisic_alloc.                                   *)

(* A call that begins is the only one to read the flag, unless two race.    *)
LEMMA BeginFlag ==
  ASSUME MemTyped, FlagIsCallers, NEW t \in Task, NEW n \in Nums,
         kmalloc(t, n) \/ phisic_alloc(t, n)
  PROVE  FlagIsCallers'
<1> SUFFICES ASSUME ~flag_raced'
             PROVE  FlagIsCallers'
  BY DEF FlagIsCallers
<1>1. /\ mem_pc[t] = "idle" /\ UNCHANGED <<blocks, in_list, owned>>
      /\ t \notin in_list /\ blocks[t] = <<>>
  BY DEF kmalloc, phisic_alloc, At, MemTyped, CallTyped
<1>2. \E by \in Allocator :
        /\ Call(t, n, by)
        /\ status_kmalloc' = IF by = "kmalloc" THEN 1 ELSE status_kmalloc
  <2>1. CASE kmalloc(t, n)
    BY <2>1 DEF kmalloc, Allocator
  <2>2. CASE phisic_alloc(t, n)
    BY <2>2 DEF phisic_alloc, Allocator
  <2> QED
    BY <2>1, <2>2
<1>3. PICK by \in Allocator :
        /\ Call(t, n, by)
        /\ status_kmalloc' = IF by = "kmalloc" THEN 1 ELSE status_kmalloc
  BY <1>2
<1>4. /\ mem_pc'[t] = "flag" /\ request'[t].by = by
      /\ \A u \in Task \ {t} : mem_pc'[u] = mem_pc[u] /\ request'[u] = request[u]
      /\ flag_raced' = (flag_raced \/ Behind(t, "flag"))
  <2>1. n \in Nat
    BY PhysMemAssumption DEF PhysMemAssumption
  <2> QED
    BY <1>1, <1>3, <2>1, CallBegins
<1>5. ~flag_raced /\ \A u \in Task : mem_pc[u] # "flag"
  BY <1>1, <1>4 DEF Behind
<1>6. status_kmalloc = 0
  BY <1>5 DEF FlagIsCallers
<1>7. status_kmalloc' = 1 <=> by = "kmalloc"
  BY <1>3, <1>6
<1>8. ForKernel(t)' <=> by = "kmalloc"
  BY <1>1, <1>4 DEF ForKernel
<1>9. \A u \in Task \ {t} : ForKernel(u)' <=> ForKernel(u)
  BY <1>1, <1>4 DEF ForKernel
<1> QED
  BY <1>1, <1>4, <1>5, <1>7, <1>8, <1>9 DEF FlagIsCallers, InArea

(* What it reads is its own,                                                *)
LEMMA ReadFlag ==
  ASSUME MemTyped, FlagIsCallers, NEW t \in Task, alloc_flag(t)
  PROVE  FlagIsCallers'
<1> SUFFICES ASSUME ~flag_raced'
             PROVE  FlagIsCallers'
  BY DEF FlagIsCallers
<1>1. /\ mem_pc[t] = "flag" /\ status_kmalloc' = 0 /\ ~flag_raced
      /\ UNCHANGED <<blocks, in_list, owned>>
  BY DEF alloc_flag, At, races
<1>2. /\ mem_pc'[t] = "scan"
      /\ \A u \in Task \ {t} : mem_pc'[u] = mem_pc[u] /\ request'[u] = request[u]
      /\ request'[t].by = request[t].by
      /\ IF status_kmalloc = 1
         THEN request'[t].to = KernelPages - 1
         ELSE request'[t].from = KernelPages /\ request'[t].to = MaxPages - 1
  BY FlagTyped
<1>3. status_kmalloc = 1 <=> ForKernel(t)
  BY <1>1 DEF FlagIsCallers
<1>4. \A u \in Task : ForKernel(u)' <=> ForKernel(u)
  BY <1>1, <1>2 DEF ForKernel
<1>5. \A u \in Task : mem_pc'[u] # "flag"
  BY <1>1, <1>2 DEF FlagIsCallers
<1> QED
  BY <1>1, <1>2, <1>3, <1>4, <1>5 DEF FlagIsCallers, InArea

(* and where it then looks is its area,                                     *)
LEMMA ScanInArea ==
  ASSUME MemTyped, FlagIsCallers, NEW t \in Task, alloc_scan(t)
  PROVE  FlagIsCallers'
<1> SUFFICES ASSUME ~flag_raced'
             PROVE  FlagIsCallers'
  BY DEF FlagIsCallers
<1>1. /\ mem_pc[t] = "scan" /\ UNCHANGED status_kmalloc /\ ~flag_raced
  BY ScanCases
<1>2. ASSUME /\ mem_pc'[t] \notin {"flag", "scan"}
             /\ \A u \in Task \ {t} : /\ mem_pc'[u] = mem_pc[u] /\ request'[u] = request[u]
                                      /\ blocks'[u] = blocks[u]
                                      /\ u \in in_list' <=> u \in in_list,
             blocks'[t] # <<>> => InArea(blocks'[t][1], request'[t].by),
             \A o \in owned' : InArea(o.block, o.by)
      PROVE  FlagIsCallers'
  <2>1. \A u \in Task \ {t} : ForKernel(u)' <=> ForKernel(u)
    BY <1>2 DEF ForKernel
  <2> QED
    BY <1>1, <1>2, <2>1 DEF FlagIsCallers, InArea
<1>3. CASE t \notin in_list /\ Return(t) /\ UNCHANGED <<list, owned, scan_raced>>
  BY <1>1, <1>2, <1>3, ReturnTyped DEF FlagIsCallers
<1>4. CASE t \in in_list /\ blocks[t] # <<>> /\ Unwind(t, list)
  <2>1. /\ owned' = owned \cup {[block |-> blocks[t][1], by |-> request[t].by]}
        /\ Return(t)
    BY <1>4 DEF Unwind
  <2>2. InArea(blocks[t][1], request[t].by)
    BY <1>1, <1>4 DEF FlagIsCallers
  <2>3. \A o \in owned' : InArea(o.block, o.by)
    BY <1>1, <2>1, <2>2 DEF FlagIsCallers
  <2> QED
    BY <1>2, <2>1, <2>3, ReturnTyped
<1>5. ASSUME NEW b \in FirstFit(request[t].from, request[t].to, request[t].num),
             blocks' = [blocks EXCEPT ![t] = Append(@, Candidate(t, b))],
             mem_pc' = [mem_pc EXCEPT ![t] = "mark"],
             UNCHANGED <<list, owned, request, in_list>>
      PROVE  FlagIsCallers'
  <2>0. PICK found : found = Candidate(t, b)
    OBVIOUS
  <2>1. /\ found \in Block
        /\ mem_pc'[t] = "mark"
        /\ Len(blocks[t]) \in Nat /\ Len(blocks'[t]) = Len(blocks[t]) + 1
        /\ blocks'[t][Len(blocks[t]) + 1] = found
        /\ \A i \in 1 .. Len(blocks[t]) : blocks'[t][i] = blocks[t][i]
        /\ \A u \in Task \ {t} : mem_pc'[u] = mem_pc[u] /\ blocks'[u] = blocks[u]
    BY <1>1, <1>5, <2>0, ScanFinds
  <2>2. CASE blocks[t] = <<>>
    <3>1. blocks'[t][1] = found /\ t \notin in_list
      <4>1. Len(blocks[t]) + 1 = 1
        BY <2>2, NothingTyped
      <4> QED
        BY <1>1, <2>1, <2>2, <4>1 DEF MemTyped, CallTyped
    <3>2. InArea(found, request[t].by)
      <4>1. /\ request[t].from \in Nat /\ request[t].to \in Nat
            /\ found.base = b /\ found.num = request[t].num
        BY <1>1, <2>0 DEF MemTyped, Request, Candidate
      <4>2. b \in request[t].from .. request[t].to /\ b + found.num - 1 <= request[t].to
        BY <4>1, FirstFitIsFree
      <4>3. found.num \in Nat
        BY <2>1, BlockHasBase
      <4>4. CASE request[t].by = "kmalloc"
        <5>1. request[t].to = KernelPages - 1
          BY <1>1, <3>1, <4>4 DEF FlagIsCallers, ForKernel
        <5>2. b .. b + found.num - 1 \subseteq 0 .. KernelPages - 1
          BY <4>1, <4>2, <4>3, <5>1, MachineSize
        <5> QED
          BY <4>1, <4>4, <5>2 DEF InArea, PagesOf
      <4>5. CASE request[t].by # "kmalloc"
        <5>1. request[t].from = KernelPages
          BY <1>1, <3>1, <4>5 DEF FlagIsCallers, ForKernel
        <5>2. b >= KernelPages
          BY <4>1, <4>2, <5>1, MachineSize
        <5> QED
          BY <4>1, <4>5, <5>2 DEF InArea
      <4> QED
        BY <4>4, <4>5
    <3> QED
      BY <1>1, <1>2, <1>5, <2>1, <3>1, <3>2 DEF FlagIsCallers
  <2>3. CASE blocks[t] # <<>>
    <3>1. 1 \in 1 .. Len(blocks[t])
      <4>1. blocks[t] \in Seq(Block)
        BY DEF MemTyped
      <4> QED
        BY <2>3, <4>1, EmptySeq
    <3>2. blocks'[t][1] = blocks[t][1] /\ InArea(blocks[t][1], request[t].by)
      BY <1>1, <2>1, <2>3, <3>1 DEF FlagIsCallers
    <3> QED
      BY <1>1, <1>2, <1>5, <2>1, <3>2 DEF FlagIsCallers
  <2> QED
    BY <2>2, <2>3
<1> QED
  BY <1>3, <1>4, <1>5, ScanCases

(* a call for a struct's page included;                                     *)
LEMMA AddInfoFlag ==
  ASSUME MemTyped, FlagIsCallers, NEW t \in Task, add_info_pages(t)
  PROVE  FlagIsCallers'
<1> SUFFICES ASSUME ~flag_raced'
             PROVE  FlagIsCallers'
  BY DEF FlagIsCallers
<1>1. /\ mem_pc[t] = "record" /\ mem_pc'[t] \in {"adding", "flag"}
      /\ in_list' = in_list \cup {t} /\ request'[t].by = request[t].by
      /\ \A u \in Task \ {t} : mem_pc'[u] = mem_pc[u] /\ request'[u] = request[u]
      /\ flag_raced' = flag_raced \/ flag_raced' = (flag_raced \/ Behind(t, "flag"))
      /\ mem_pc'[t] = "flag" => flag_raced' = (flag_raced \/ Behind(t, "flag"))
      /\ UNCHANGED <<status_kmalloc, blocks, owned>>
  BY AddInfoTyped
<1>2. ~flag_raced
  BY <1>1
<1>3. ~ForKernel(t)' /\ \A u \in Task \ {t} : ForKernel(u)' <=> ForKernel(u)
  BY <1>1 DEF ForKernel
<1>4. \A u \in Task : blocks'[u] # <<>> /\ mem_pc'[u] # "freeing"
                        => InArea(blocks'[u][1], request'[u].by)
  BY <1>1, <1>2 DEF FlagIsCallers
<1>5. \A u \in Task \ {t} : mem_pc'[u] = "scan" =>
         IF ForKernel(u)' THEN request'[u].to = KernelPages - 1
                          ELSE /\ request'[u].from = KernelPages
                               /\ request'[u].to = MaxPages - 1
  BY <1>1, <1>2, <1>3 DEF FlagIsCallers
<1>6. CASE mem_pc'[t] = "flag"
  <2>1. \A u \in Task : mem_pc[u] # "flag"
    BY <1>1, <1>6 DEF Behind
  <2>2. status_kmalloc' = 0
    BY <1>1, <1>2, <2>1 DEF FlagIsCallers
  <2> QED
    BY <1>1, <1>2, <1>3, <1>4, <1>5, <1>6, <2>1, <2>2 DEF FlagIsCallers, InArea
<1>7. CASE mem_pc'[t] = "adding"
  BY <1>1, <1>2, <1>3, <1>4, <1>5, <1>7 DEF FlagIsCallers, InArea
<1> QED
  BY <1>1, <1>6, <1>7

(* what the caller gets is what was found first.                            *)
LEMMA AddEntryFlag ==
  ASSUME MemTyped, FlagIsCallers, NEW t \in Task, add_entry(t)
  PROVE  FlagIsCallers'
<1> SUFFICES ASSUME ~flag_raced'
             PROVE  FlagIsCallers'
  BY DEF FlagIsCallers
<1> DEFINE l == [list EXCEPT ![1].entries = Append(@, Last(blocks[t]))]
<1>1. /\ mem_pc[t] = "adding" /\ blocks[t] # <<>> /\ Unwind(t, l)
      /\ UNCHANGED <<status_kmalloc, races>>
  BY AddEntryList
<1> HIDE DEF l
<1>2. /\ owned' = owned \cup {[block |-> blocks[t][1], by |-> request[t].by]}
      /\ Return(t) /\ ~flag_raced
  BY <1>1 DEF Unwind, races
<1>3. InArea(blocks[t][1], request[t].by)
  BY <1>1, <1>2 DEF FlagIsCallers
<1>4. \A o \in owned' : InArea(o.block, o.by)
  BY <1>2, <1>3 DEF FlagIsCallers
<1>5. /\ mem_pc'[t] = "idle" /\ blocks'[t] = <<>> /\ in_list' = in_list \ {t}
      /\ \A u \in Task \ {t} : /\ mem_pc'[u] = mem_pc[u]
                               /\ request'[u] = request[u] /\ blocks'[u] = blocks[u]
  BY <1>2, ReturnTyped
<1>6. \A u \in Task \ {t} : ForKernel(u)' <=> ForKernel(u)
  BY <1>5 DEF ForKernel
<1> QED
  BY <1>1, <1>2, <1>4, <1>5, <1>6 DEF FlagIsCallers, InArea

(* Every step keeps the flag that of the task that set it.                  *)
LEMMA NextFlagIsCallers ==
  MemTyped /\ FlagIsCallers /\ [MemNext]_memvars => FlagIsCallers'
<1> SUFFICES ASSUME MemTyped, FlagIsCallers, [MemNext]_memvars
             PROVE  FlagIsCallers'
  OBVIOUS
<1>1. CASE UNCHANGED memvars
  BY <1>1 DEF memvars, races, calls, FlagIsCallers, InArea, ForKernel
<1>2. ASSUME NEW t \in Task, alloc_mark(t)
      PROVE  FlagIsCallers'
  <2>1. /\ mem_pc[t] = "mark" /\ mem_pc'[t] = "record"
        /\ \A u \in Task \ {t} : mem_pc'[u] = mem_pc[u]
        /\ UNCHANGED <<status_kmalloc, request, blocks, in_list, owned, flag_raced>>
    BY <1>2, MarkTyped DEF alloc_mark, At, races
  <2>2. \A u \in Task : ForKernel(u)' <=> ForKernel(u)
    BY <2>1 DEF ForKernel
  <2> QED
    BY <2>1, <2>2 DEF FlagIsCallers, InArea
<1>3. ASSUME NEW t \in Task, NEW o \in owned, dealloc_pages(t, o)
      PROVE  FlagIsCallers'
  <2>1. /\ mem_pc[t] = "idle" /\ mem_pc'[t] = "freeing" /\ owned' = owned \ {o}
        /\ \A u \in Task \ {t} : mem_pc'[u] = mem_pc[u] /\ blocks'[u] = blocks[u]
        /\ UNCHANGED <<status_kmalloc, request, flag_raced>>
    BY <1>3, DeallocTyped
  <2>2. \A u \in Task \ {t} : ForKernel(u)' <=> ForKernel(u)
    BY <1>3, <2>1 DEF ForKernel, dealloc_pages, EnterList
  <2> QED
    BY <2>1, <2>2 DEF FlagIsCallers, InArea
<1>4. ASSUME NEW t \in Task, dealloc_entry(t)
      PROVE  FlagIsCallers'
  <2>1. /\ mem_pc[t] = "freeing" /\ Return(t)
        /\ UNCHANGED <<status_kmalloc, owned, flag_raced>>
    BY <1>4, DeallocEntryTyped DEF races
  <2>2. /\ mem_pc'[t] = "idle" /\ blocks'[t] = <<>> /\ in_list' = in_list \ {t}
        /\ \A u \in Task \ {t} : /\ mem_pc'[u] = mem_pc[u]
                                 /\ request'[u] = request[u] /\ blocks'[u] = blocks[u]
    BY <2>1, ReturnTyped
  <2>3. \A u \in Task \ {t} : ForKernel(u)' <=> ForKernel(u)
    BY <2>2 DEF ForKernel
  <2> QED
    BY <2>1, <2>2, <2>3 DEF FlagIsCallers, InArea
<1> QED
  BY <1>1, <1>2, <1>3, <1>4, BeginFlag, ReadFlag, ScanInArea, AddInfoFlag, AddEntryFlag
  DEF MemNext

(* "Faccio in modo che le allocazioni del kernel avvengano solo nel suo     *)
(* spazio riservato ... tutte le altre ... fuori dall' area riservata al    *)
(* kernel", unless a call comes between the setting and the use of the flag *)
(* by another one (kmalloc.c:46, phisicmem.c:174-189); the call for a page  *)
(* of records (phisicmem.c:335) is one of them.                             *)
THEOREM MemAreasApart == MemSpec => []AreasApart
<1>1. MemTyped /\ FlagIsCallers => AreasApart
  <2> SUFFICES ASSUME MemTyped, FlagIsCallers, ~flag_raced, NEW o \in owned
               PROVE  o.by = "kmalloc" <=> PagesOf(o.block) \subseteq 0 .. KernelPages - 1
    BY DEF AreasApart
  <2>1. InArea(o.block, o.by) /\ o.block \in Block
    BY DEF FlagIsCallers, MemTyped
  <2>2. o.block.base \in PagesOf(o.block)
    BY <2>1, BlockHasBase
  <2>3. o.block.base >= KernelPages => o.block.base \notin 0 .. KernelPages - 1
    BY MachineSize
  <2> QED
    BY <2>1, <2>2, <2>3 DEF InArea
<1>2. MemTyped /\ FlagIsCallers /\ [MemNext]_memvars => (MemTyped /\ FlagIsCallers)'
  BY NextTyped, NextFlagIsCallers
<1> QED
  BY <1>1, <1>2, InitTyped, PTL DEF MemSpec

-----------------------------------------------------------------------------
(* The blocks of different callers.                                         *)

(* A call that the step leaves alone is as apart as it was.                 *)
LEMMA OthersApart ==
  ASSUME NEW t \in Task, CallApart(t),
         mem_pc'[t] = mem_pc[t], blocks'[t] = blocks[t], bitmap \subseteq bitmap',
         \A o \in owned' : \A i \in 1 .. Len(blocks[t]) :
           PagesOf(o.block) \cap PagesOf(blocks[t][i]) = {},
         mem_pc[t] = "freeing" =>
           \A i \in 1 .. Len(list') - 1 : list'[i].at \notin PagesOf(blocks[t][1])
  PROVE  CallApart(t)'
BY DEF CallApart

(* A call that gets nothing gives nothing up.                               *)
LEMMA ReturnApart ==
  ASSUME MemTyped, BlocksApart, ~scan_raced, NEW t \in Task, Return(t),
         UNCHANGED <<bitmap, list, owned>>
  PROVE  BlocksApart'
<1>1. /\ mem_pc'[t] = "idle" /\ 1 .. Len(blocks'[t]) = {}
      /\ \A u \in Task \ {t} : mem_pc'[u] = mem_pc[u] /\ blocks'[u] = blocks[u]
  BY ReturnTyped
<1>2. CallApart(t)'
  BY <1>1 DEF CallApart
<1>3. ASSUME NEW u \in Task \ {t}
      PROVE  CallApart(u)'
  <2>1. CallApart(u)
    BY DEF BlocksApart
  <2> QED
    BY <1>1, <2>1 DEF CallApart
<1>4. \A u, v \in Task : u # v => CallsApart(u, v)'
  BY <1>1 DEF BlocksApart, CallsApart
<1>5. ASSUME NEW i \in 1 .. Len(list) - 1
      PROVE  LiveStruct(i)' \/ SpentStruct(i)'
  <2>1. LiveStruct(i) => LiveStruct(i)'
    BY <1>1 DEF LiveStruct
  <2>2. SpentStruct(i) => SpentStruct(i)'
    BY <1>1 DEF SpentStruct
  <2> QED
    BY <2>1, <2>2 DEF BlocksApart
<1> QED
  BY <1>2, <1>3, <1>4, <1>5 DEF BlocksApart

(* The pages of the new structs were nobody else's.                         *)
LEMMA UnwindApart ==
  ASSUME MemTyped, BlocksApart, ~scan_raced, ~list_raced,
         NEW t \in Task, t \in in_list, mem_pc[t] \notin {"mark", "freeing"}, blocks[t] # <<>>,
         NEW l, GoodList(l), Len(l) = Len(list),
         \A i \in 1 .. Len(list) - 1 :
           l[i].at = list[i].at /\ l[i].entries[1] = list[i].entries[1],
         Unwind(t, l), UNCHANGED <<bitmap, status_kmalloc, races>>
  PROVE  BlocksApart'
<1> DEFINE f == blocks[t]
<1>0. PICK n : n = Len(f) - 1
  OBVIOUS
<1>1. /\ f \in Seq(Block) /\ 1 \in 1 .. Len(f) /\ Len(f) \in Nat
      /\ list' = Structs(f) \o l
      /\ \A i \in 1 .. Len(f) : PagesOf(f[i]) \subseteq Page
      /\ owned' = owned \cup {[block |-> f[1], by |-> request[t].by]}
      /\ Return(t)
  BY UnwindTyped
<1>2. /\ n \in Nat /\ Len(list') = n + Len(l)
      /\ \A i \in 1 .. n : list'[i].at = f[i + 1].base
      /\ \A i \in 1 .. Len(list') - 1 :
              \/ i \in 1 .. n
              \/ i - n \in 1 .. Len(l) - 1 /\ list'[i] = l[i - n]
  <2>1. PICK m, k : m = Structs(blocks[t]) \o l /\ k = Len(blocks[t]) - 1
    OBVIOUS
  <2>2. /\ k \in Nat /\ Len(m) = k + Len(l)
        /\ \A i \in 1 .. k : m[i].at = blocks[t][i + 1].base
        /\ \A i \in 1 .. Len(m) - 1 :
              \/ i \in 1 .. k
              \/ i - k \in 1 .. Len(l) - 1 /\ m[i] = l[i - k]
    <3>1. PutOn(blocks[t], l, m, k)
      BY <1>1, <2>1 DEF PutOn
    <3> QED
      BY ONLY <3>1, PutStructs
  <2>3. list' = m
    BY ONLY <1>1, <2>1, Zenon
  <2>4. k = n
    BY <1>0, <2>1
  <2> QED
    BY ONLY <2>2, <2>3, <2>4
<1>3. \A i \in 1 .. n : i + 1 \in 1 .. Len(f)
  BY <1>0, <1>1
<1>4. \A i \in 1 .. Len(f) : f[i].base \in PagesOf(f[i])
  BY <1>1, BlockHasBase, ElementOfSeq
<1>5. CallApart(t) /\ \A u \in Task \ {t} : CallsApart(t, u) /\ CallsApart(u, t)
  BY DEF BlocksApart
<1>6. \A i \in 1 .. Len(f) :
        /\ PagesOf(f[i]) \cap (0 .. Reserved - 1) = {} /\ PagesOf(f[i]) \subseteq bitmap
        /\ \A o \in owned : PagesOf(o.block) \cap PagesOf(f[i]) = {}
        /\ \A u \in Task \ {t} : \A k \in 1 .. Len(blocks[u]) :
             PagesOf(f[i]) \cap PagesOf(blocks[u][k]) = {}
  BY <1>5 DEF CallApart, CallsApart
<1> HIDE DEF f
<1>7. /\ mem_pc'[t] = "idle" /\ 1 .. Len(blocks'[t]) = {}
      /\ \A u \in Task \ {t} : mem_pc'[u] = mem_pc[u] /\ blocks'[u] = blocks[u]
  BY <1>1, ReturnTyped
<1>8. \A o \in owned' : o \in owned \/ o = [block |-> f[1], by |-> request[t].by]
  BY <1>1
<1>9. \A o \in owned' : o \in owned \/ o.block = f[1]
  BY <1>8
<1>10. \A o \in owned' : /\ PagesOf(o.block) \subseteq bitmap'
                         /\ PagesOf(o.block) \cap (0 .. Reserved - 1) = {}
  BY <1>1, <1>6, <1>9 DEF BlocksApart
<1>11. \A o, q \in owned' : o # q => PagesOf(o.block) \cap PagesOf(q.block) = {}
  <2>1. \A o \in owned : PagesOf(o.block) \cap PagesOf(f[1]) = {}
    BY <1>1, <1>6
  <2>2. \A o, q \in owned : o # q => PagesOf(o.block) \cap PagesOf(q.block) = {}
    BY DEF BlocksApart
  <2> QED
    BY <1>8, <1>9, <2>1, <2>2
<1>12. CallApart(t)'
  BY <1>7 DEF CallApart
<1>13. ASSUME NEW u \in Task \ {t}
       PROVE  CallApart(u)'
  <2>1. mem_pc[u] # "freeing"
    BY DEF MemTyped, CallTyped, ListAlone
  <2>2. \A o \in owned' : \A i \in 1 .. Len(blocks[u]) :
          PagesOf(o.block) \cap PagesOf(blocks[u][i]) = {}
    BY <1>1, <1>6, <1>9 DEF BlocksApart, CallApart
  <2>3. CallApart(u)
    BY DEF BlocksApart
  <2> QED
    BY <1>7, <2>1, <2>2, <2>3, OthersApart
<1>14. \A u, v \in Task : u # v => CallsApart(u, v)'
  BY <1>7 DEF BlocksApart, CallsApart
<1>15. ASSUME NEW i \in 1 .. Len(list') - 1
       PROVE  LiveStruct(i)' \/ SpentStruct(i)'
  <2>1. CASE i \in 1 .. n
    <3>1. i + 1 \in 1 .. Len(f) /\ list'[i].at \in PagesOf(f[i + 1])
      BY <1>2, <1>3, <1>4, <2>1
    <3> QED
      BY <1>6, <1>7, <3>1 DEF LiveStruct
  <2>2. CASE i - n \in 1 .. Len(l) - 1 /\ list'[i] = l[i - n]
    <3>1. PICK j \in 1 .. Len(list) - 1 :
            list'[i].at = list[j].at /\ list'[i].entries[1] = list[j].entries[1]
      BY <2>2
    <3>2. LiveStruct(j) => LiveStruct(i)'
      BY <1>7, <3>1 DEF LiveStruct
    <3>3. ASSUME SpentStruct(j)
          PROVE  SpentStruct(i)'
      <4> DEFINE p == list[j].entries[1].base
      <4>1. /\ p \in bitmap /\ \A k \in 1 .. Len(list) - 1 : list[k].at # p
            /\ \A o \in owned : p \notin PagesOf(o.block)
            /\ \A u \in Task : \A k \in 1 .. Len(blocks[u]) : p \notin PagesOf(blocks[u][k])
        BY <3>3 DEF SpentStruct
      <4>2. list'[i].entries[1].base = p
        BY <3>1
      <4> HIDE DEF p
      <4>3. \A k \in 1 .. Len(f) : p \notin PagesOf(f[k])
        BY <4>1 DEF f
      <4>4. ASSUME NEW k \in 1 .. Len(list') - 1
            PROVE  list'[k].at # p
        <5>1. CASE k \in 1 .. n
          BY <1>2, <1>3, <1>4, <4>3, <5>1
        <5>2. CASE k - n \in 1 .. Len(l) - 1 /\ list'[k] = l[k - n]
          BY <4>1, <5>2
        <5> QED
          BY <1>2, <5>1, <5>2
      <4>5. \A o \in owned' : p \notin PagesOf(o.block)
        BY <1>1, <1>9, <4>1, <4>3
      <4>6. \A u \in Task : \A k \in 1 .. Len(blocks'[u]) : p \notin PagesOf(blocks'[u][k])
        BY <1>7, <4>1
      <4>7. p \in bitmap'
        BY <4>1
      <4> QED
        BY <4>2, <4>4, <4>5, <4>6, <4>7 DEF SpentStruct
    <3> QED
      BY <3>2, <3>3 DEF BlocksApart
  <2> QED
    BY <1>2, <2>1, <2>2
<1>16. 0 .. Reserved - 1 \subseteq bitmap'
  BY DEF BlocksApart
<1> QED
  BY <1>10, <1>11, <1>12, <1>13, <1>14, <1>15, <1>16 DEF BlocksApart

(* Pages found free belong to no block, and nobody takes them before they   *)
(* are marked,                                                              *)
LEMMA ScanKeepsApart ==
  ASSUME MemTyped, BlocksApart, NEW t \in Task, alloc_scan(t)
  PROVE  BlocksApart'
<1>1. /\ mem_pc[t] = "scan" /\ ~scan_raced /\ ~list_raced
      /\ UNCHANGED <<bitmap, status_kmalloc, flag_raced, list_raced>>
  BY ScanCases
<1>2. CASE t \notin in_list /\ Return(t) /\ UNCHANGED <<list, owned, scan_raced>>
  BY <1>1, <1>2, ReturnApart
<1>3. CASE t \in in_list /\ blocks[t] # <<>> /\ Unwind(t, list) /\ UNCHANGED scan_raced
  <2>1. UNCHANGED <<bitmap, status_kmalloc, races>> /\ GoodList(list)
    BY <1>1, <1>3 DEF races, MemTyped
  <2> QED
    BY <1>1, <1>3, <2>1, UnwindApart
<1>4. ASSUME NEW b \in FirstFit(request[t].from, request[t].to, request[t].num),
             blocks' = [blocks EXCEPT ![t] = Append(@, Candidate(t, b))],
             mem_pc' = [mem_pc EXCEPT ![t] = "mark"],
             scan_raced' = (scan_raced \/ Behind(t, "mark")),
             UNCHANGED <<list, owned, request, in_list>>,
             ~scan_raced'
      PROVE  BlocksApart'
  <2>0. PICK found : found = Candidate(t, b)
    OBVIOUS
  <2> DEFINE n == Len(blocks[t])
  <2>1. /\ found \in Block /\ PagesOf(found) \cap bitmap = {}
        /\ mem_pc'[t] = "mark"
        /\ Len(blocks'[t]) = n + 1 /\ n \in Nat
        /\ blocks'[t][n + 1] = found
        /\ \A i \in 1 .. n : blocks'[t][i] = blocks[t][i]
        /\ \A i \in 1 .. Len(blocks'[t]) : i \in 1 .. n \/ i = n + 1
        /\ \A u \in Task \ {t} : mem_pc'[u] = mem_pc[u] /\ blocks'[u] = blocks[u]
    BY <1>1, <1>4, <2>0, ScanFinds
  <2> HIDE DEF n
  <2>2. \A u \in Task \ {t} : mem_pc[u] # "mark"
    BY <1>4 DEF Behind
  <2>3. /\ 0 .. Reserved - 1 \subseteq bitmap /\ CallApart(t)
        /\ \A o \in owned : PagesOf(o.block) \subseteq bitmap
    BY <1>1 DEF BlocksApart
  <2>4. \A i \in 1 .. n : PagesOf(blocks[t][i]) \subseteq bitmap
    BY <1>1, <2>3 DEF CallApart, n
  <2>5. \A u \in Task \ {t} : \A i \in 1 .. Len(blocks[u]) : PagesOf(blocks[u][i]) \subseteq bitmap
    BY <1>1, <2>2 DEF BlocksApart, CallApart
  <2>6. CallApart(t)'
    <3>1. ASSUME NEW i \in 1 .. Len(blocks'[t])
          PROVE  /\ PagesOf(blocks'[t][i]) \cap (0 .. Reserved - 1) = {}
                 /\ PagesOf(blocks'[t][i]) \subseteq bitmap \/ i = n + 1
                 /\ \A o \in owned : PagesOf(o.block) \cap PagesOf(blocks'[t][i]) = {}
      <4>1. CASE i \in 1 .. n
        BY <2>1, <2>3, <2>4, <4>1 DEF CallApart, n
      <4>2. CASE i = n + 1
        BY <2>1, <2>3, <4>2
      <4> QED
        BY <2>1, <4>1, <4>2
    <3>2. \A i, j \in 1 .. Len(blocks'[t]) :
            i # j => PagesOf(blocks'[t][i]) \cap PagesOf(blocks'[t][j]) = {}
      <4>1. \A i, j \in 1 .. n : i # j => PagesOf(blocks[t][i]) \cap PagesOf(blocks[t][j]) = {}
        BY <2>3 DEF CallApart, n
      <4>2. \A i \in 1 .. n : PagesOf(blocks[t][i]) \cap PagesOf(found) = {}
        BY <2>1, <2>4
      <4>3. ASSUME NEW i \in 1 .. Len(blocks'[t]), NEW j \in 1 .. Len(blocks'[t]), i # j
            PROVE  PagesOf(blocks'[t][i]) \cap PagesOf(blocks'[t][j]) = {}
        <5>1. CASE i \in 1 .. n /\ j \in 1 .. n
          BY <2>1, <4>1, <4>3, <5>1
        <5>2. CASE i \in 1 .. n /\ j = n + 1
          BY <2>1, <4>2, <5>2
        <5>3. CASE i = n + 1 /\ j \in 1 .. n
          BY <2>1, <4>2, <5>3
        <5> QED
          BY <2>1, <4>3, <5>1, <5>2, <5>3
      <4> QED
        BY <4>3
    <3>3. owned' = owned /\ bitmap' = bitmap
      BY <1>1, <1>4
    <3> QED
      BY <2>1, <3>1, <3>2, <3>3 DEF CallApart
  <2>7. ASSUME NEW u \in Task \ {t}
        PROVE  CallApart(u)'
    <3>1. CallApart(u)
      BY <1>1 DEF BlocksApart
    <3> QED
      BY <1>1, <1>4, <2>1, <3>1 DEF CallApart
  <2>8. ASSUME NEW u \in Task \ {t}
        PROVE  CallsApart(t, u)' /\ CallsApart(u, t)'
    <3>1. \A i \in 1 .. n, j \in 1 .. Len(blocks[u]) :
            PagesOf(blocks[t][i]) \cap PagesOf(blocks[u][j]) = {}
      BY <1>1 DEF BlocksApart, CallsApart, n
    <3>2. \A j \in 1 .. Len(blocks[u]) : PagesOf(found) \cap PagesOf(blocks[u][j]) = {}
      BY <2>1, <2>5
    <3> QED
      BY <2>1, <3>1, <3>2 DEF CallsApart
  <2>9. \A u, v \in Task \ {t} : u # v => CallsApart(u, v)'
    BY <1>1, <2>1 DEF BlocksApart, CallsApart
  <2>10. ASSUME NEW i \in 1 .. Len(list) - 1
         PROVE  LiveStruct(i)' \/ SpentStruct(i)'
    <3>1. LiveStruct(i) => LiveStruct(i)'
      <4>1. ASSUME LiveStruct(i)
            PROVE  \A k \in 1 .. Len(blocks'[t]) : list[i].at \notin PagesOf(blocks'[t][k])
        BY <2>1, <4>1 DEF LiveStruct, n
      <4> QED
        BY <1>1, <1>4, <2>1, <4>1 DEF LiveStruct
    <3>2. SpentStruct(i) => SpentStruct(i)'
      <4>1. ASSUME SpentStruct(i)
            PROVE  \A k \in 1 .. Len(blocks'[t]) :
                     list[i].entries[1].base \notin PagesOf(blocks'[t][k])
        BY <2>1, <4>1 DEF SpentStruct, n
      <4> QED
        BY <1>1, <1>4, <2>1, <4>1 DEF SpentStruct
    <3> QED
      BY <1>1, <3>1, <3>2 DEF BlocksApart
  <2> QED
    BY <1>1, <1>4, <2>6, <2>7, <2>8, <2>9, <2>10 DEF BlocksApart
<1>5. CASE scan_raced'
  BY <1>5 DEF BlocksApart
<1> QED
  BY <1>2, <1>3, <1>4, <1>5, ScanCases

(* which marks them as this block's,                                        *)
LEMMA MarkKeepsApart ==
  ASSUME MemTyped, BlocksApart, NEW t \in Task, alloc_mark(t)
  PROVE  BlocksApart'
<1>1. /\ mem_pc[t] = "mark" /\ ~scan_raced
      /\ bitmap' = bitmap \cup PagesOf(blocks[t][Len(blocks[t])])
      /\ UNCHANGED <<list, blocks, owned>>
  BY DEF alloc_mark, At, Last
<1>2. /\ mem_pc'[t] = "record" /\ \A u \in Task \ {t} : mem_pc'[u] = mem_pc[u]
      /\ Len(blocks[t]) \in 1 .. Len(blocks[t])
  BY MarkTyped
<1>3. ASSUME NEW u \in Task
      PROVE  CallApart(u)'
  <2>1. CallApart(u)
    BY <1>1 DEF BlocksApart
  <2>2. CASE u = t
    BY <1>1, <1>2, <2>1, <2>2 DEF CallApart
  <2>3. CASE u # t
    BY <1>1, <1>2, <2>1, <2>3 DEF CallApart
  <2> QED
    BY <2>2, <2>3
<1>4. \A u, v \in Task : u # v => CallsApart(u, v)'
  BY <1>1 DEF BlocksApart, CallsApart
<1>5. ASSUME NEW i \in 1 .. Len(list) - 1
      PROVE  LiveStruct(i)' \/ SpentStruct(i)'
  BY <1>1 DEF BlocksApart, LiveStruct, SpentStruct
<1> QED
  BY <1>1, <1>3, <1>4, <1>5 DEF BlocksApart

(* and its record, in a page of its own if the list is full, disturbs no    *)
(* other block;                                                             *)
LEMMA AddEntryKeepsApart ==
  ASSUME MemTyped, BlocksApart, NEW t \in Task, add_entry(t)
  PROVE  BlocksApart'
<1>0. PICK l : l = [list EXCEPT ![1].entries = Append(@, Last(blocks[t]))]
  OBVIOUS
<1>1. /\ mem_pc[t] = "adding" /\ ~list_raced /\ ~scan_raced
      /\ t \in in_list /\ blocks[t] # <<>>
      /\ UNCHANGED <<bitmap, status_kmalloc, races>>
      /\ GoodList(l) /\ Len(l) = Len(list) /\ Unwind(t, l)
      /\ l[1].entries = Append(list[1].entries, blocks[t][Len(blocks[t])])
      /\ \A i \in 1 .. Len(list) :
           /\ l[i].at = list[i].at
           /\ i # 1 => l[i].entries = list[i].entries
  BY <1>0, AddEntryList
<1>2. /\ Len(list) \in Nat \ {0}
      /\ \A i \in 1 .. Len(list) :
           i < Len(list) => /\ list[i].entries \in Seq(Entry)
                            /\ Len(list[i].entries) \in Nat \ {0}
  BY EntriesTyped DEF MemTyped
<1>3. ASSUME NEW i \in 1 .. Len(list) - 1
      PROVE  l[i].at = list[i].at /\ l[i].entries[1] = list[i].entries[1]
  <2>1. i \in 1 .. Len(list) /\ i < Len(list)
    BY <1>2
  <2>2. CASE i = 1
    <3>1. list[1].entries \in Seq(Entry) /\ Len(list[1].entries) \in Nat \ {0}
      BY <1>2, <2>1, <2>2
    <3>2. 1 \in 1 .. Len(list[1].entries)
      BY <3>1
    <3>3. blocks[t][Len(blocks[t])] \in Entry
      <4>1. blocks[t] \in Seq(Block) /\ blocks[t] # <<>>
        BY <1>1 DEF MemTyped
      <4>2. Len(blocks[t]) \in 1 .. Len(blocks[t])
        BY <4>1, EmptySeq
      <4> QED
        BY <4>1, <4>2, ElementOfSeq, BlockHasBase
    <3> QED
      BY <1>1, <2>1, <2>2, <3>1, <3>2, <3>3, AppendProperties
  <2>3. CASE i # 1
    BY <1>1, <2>1, <2>3
  <2> QED
    BY <2>2, <2>3
<1> QED
  BY <1>1, <1>3, UnwindApart

(* a block is still its own while it is given back,                         *)
LEMMA DeallocKeepsApart ==
  ASSUME MemTyped, BlocksApart, NEW t \in Task, NEW o \in owned, dealloc_pages(t, o)
  PROVE  BlocksApart'
<1>1. /\ mem_pc[t] = "idle" /\ mem_pc'[t] = "freeing"
      /\ blocks'[t][1] = o.block /\ 1 .. Len(blocks'[t]) = {1}
      /\ \A u \in Task \ {t} : mem_pc'[u] = mem_pc[u] /\ blocks'[u] = blocks[u]
      /\ owned' = owned \ {o} /\ RecordsIntact /\ ~scan_raced
      /\ UNCHANGED <<bitmap, list>>
  BY DeallocTyped
<1>2. Len(list) \in Nat /\ DOMAIN list = 1 .. Len(list)
  BY EntriesTyped DEF MemTyped
<1>3. /\ PagesOf(o.block) \subseteq bitmap /\ PagesOf(o.block) \cap (0 .. Reserved - 1) = {}
      /\ \A q \in owned' : PagesOf(q.block) \cap PagesOf(o.block) = {}
      /\ \A u \in Task : \A i \in 1 .. Len(blocks[u]) :
           PagesOf(o.block) \cap PagesOf(blocks[u][i]) = {}
  BY <1>1 DEF BlocksApart, CallApart
<1>4. \A i \in 1 .. Len(list) - 1 : list[i].at \notin PagesOf(o.block)
  BY <1>1, <1>2 DEF RecordsIntact
<1>5. CallApart(t)'
  BY <1>1, <1>3, <1>4 DEF CallApart
<1>6. ASSUME NEW u \in Task \ {t}
      PROVE  CallApart(u)' /\ CallsApart(t, u)' /\ CallsApart(u, t)'
  <2>1. CallApart(u)
    BY <1>1 DEF BlocksApart
  <2>2. CallApart(u)'
    BY <1>1, <2>1 DEF CallApart
  <2>3. CallsApart(t, u)' /\ CallsApart(u, t)'
    BY <1>1, <1>3 DEF CallsApart
  <2> QED
    BY <2>2, <2>3
<1>7. \A u, v \in Task \ {t} : u # v => CallsApart(u, v)'
  BY <1>1 DEF BlocksApart, CallsApart
<1>8. ASSUME NEW i \in 1 .. Len(list) - 1
      PROVE  LiveStruct(i)' \/ SpentStruct(i)'
  <2>1. LiveStruct(i) => LiveStruct(i)'
    <3>1. ASSUME NEW u \in Task, NEW k \in 1 .. Len(blocks'[u]), LiveStruct(i)
          PROVE  list[i].at \notin PagesOf(blocks'[u][k])
      BY <1>1, <1>4, <3>1 DEF LiveStruct
    <3> QED
      BY <1>1, <3>1 DEF LiveStruct
  <2>2. SpentStruct(i) => SpentStruct(i)'
    <3> DEFINE p == list[i].entries[1].base
    <3>1. ASSUME NEW u \in Task, NEW k \in 1 .. Len(blocks'[u]), SpentStruct(i)
          PROVE  p \notin PagesOf(blocks'[u][k])
      <4>1. p \notin PagesOf(o.block)
        BY <3>1 DEF SpentStruct
      <4>2. CASE u = t
        BY <1>1, <4>1, <4>2
      <4>3. CASE u # t
        BY <1>1, <3>1, <4>3 DEF SpentStruct
      <4> QED
        BY <4>2, <4>3
    <3> QED
      BY <1>1, <3>1 DEF SpentStruct
  <2> QED
    BY <1>1, <2>1, <2>2 DEF BlocksApart
<1> QED
  BY <1>1, <1>5, <1>6, <1>7, <1>8 DEF BlocksApart

(* and was nobody else's.                                                   *)
LEMMA DeallocEntryKeepsApart ==
  ASSUME MemTyped, BlocksApart, NEW t \in Task, dealloc_entry(t)
  PROVE  BlocksApart'
<1> DEFINE b == blocks[t][1]
<1>1. /\ mem_pc[t] = "freeing" /\ Return(t)
      /\ RecordsIntact /\ ~scan_raced /\ 1 \in 1 .. Len(blocks[t]) /\ b \in Block
      /\ UNCHANGED <<owned, scan_raced>>
  BY DeallocEntryTyped DEF races
<1>2. /\ Len(list) \in Nat \ {0} /\ DOMAIN list = 1 .. Len(list)
      /\ \A i \in 1 .. Len(list) : i < Len(list) => Len(list[i].entries) \in Nat \ {0}
  BY EntriesTyped DEF MemTyped
<1>3. /\ CallApart(t) /\ b.base \in PagesOf(b) /\ PagesOf(b) \subseteq bitmap
      /\ \A i \in 1 .. Len(list) - 1 : list[i].at \notin PagesOf(b)
  <2>1. CallApart(t)
    BY <1>1 DEF BlocksApart
  <2> QED
    BY <1>1, <2>1, BlockHasBase DEF CallApart
<1>4. /\ Len(list') = Len(list) /\ \A i \in 1 .. Len(list) : list'[i].at = list[i].at
      /\ \/ Found(b.base) = {} /\ UNCHANGED <<bitmap, list>>
         \/ /\ 1 < Len(list) /\ list[1].entries[1].base = b.base
            /\ bitmap' = IF list[1].at \in bitmap THEN bitmap \ {list[1].at}
                                                  ELSE bitmap \cup {list[1].at}
            /\ UNCHANGED list
         \/ \E i \in 1 .. Len(list), k \in 1 .. Records :
              /\ UNCHANGED bitmap
              /\ k \in 1 .. Len(list[i].entries)
              /\ i > 1 => k > 1
              /\ list[i].entries[k].base = b.base
              /\ \A j \in 1 .. Len(list) : j # i => list'[j].entries = list[j].entries
               /\ list'[i].entries = RemoveAt(list[i].entries, k)
  <2>1. PICK base : base = blocks[t][1].base
    OBVIOUS
  <2>2. /\ Len(list') = Len(list) /\ \A i \in 1 .. Len(list) : list'[i].at = list[i].at
        /\ DeallocOutcome(base)
    BY <2>1, DeallocList
  <2>3. b.base = base
    BY <2>1
  <2> HIDE DEF b
  <2> QED
    BY ONLY <2>2, <2>3, Zenon DEF DeallocOutcome
<1> HIDE DEF b
<1>5. /\ mem_pc'[t] = "idle" /\ 1 .. Len(blocks'[t]) = {}
      /\ \A u \in Task \ {t} : mem_pc'[u] = mem_pc[u] /\ blocks'[u] = blocks[u]
  BY <1>1, ReturnTyped
<1>6. \A i \in 1 .. Len(list) - 1 : i \in 1 .. Len(list) /\ i < Len(list)
  BY <1>2
(* A struct whose first entry is of the block is not spent.                 *)
<1>7. \A i \in 1 .. Len(list) - 1 : list[i].entries[1].base = b.base => LiveStruct(i)
  BY <1>1, <1>3 DEF BlocksApart, SpentStruct, b
<1>8. CallApart(t)' /\ \A u, v \in Task : u # v => CallsApart(u, v)'
  <2>1. CallApart(t)'
    BY <1>5 DEF CallApart
  <2>2. \A u, v \in Task : u # v => CallsApart(u, v)
    BY <1>1 DEF BlocksApart
  <2> QED
    BY <1>5, <2>1, <2>2 DEF CallsApart
<1>9. CASE UNCHANGED bitmap
  <2>1. ASSUME NEW i \in 1 .. Len(list) - 1
        PROVE  \/ list'[i].entries[1] = list[i].entries[1]
               \/ list[i].entries[1].base = b.base
    <3>1. CASE UNCHANGED list
      BY <3>1
    <3>2. ASSUME NEW l \in 1 .. Len(list), NEW k \in 1 .. Records,
                 k \in 1 .. Len(list[l].entries),
                 list[l].entries[k].base = b.base,
                 \A j \in 1 .. Len(list) : j # l => list'[j].entries = list[j].entries,
                 list'[l].entries = RemoveAt(list[l].entries, k),
                 i = l, k # 1
          PROVE  list'[i].entries[1] = list[i].entries[1]
      <4>1. list[l].entries \in Seq(Entry) /\ Len(list[l].entries) \in Nat
        BY EntriesTyped DEF MemTyped
      <4>2. 1 \in 1 .. Len(list[l].entries) - 1 /\ 1 < k
        BY <3>2, <4>1
      <4>3. RemoveAt(list[l].entries, k)[1] = list[l].entries[1]
        BY <3>2, <4>1, <4>2, RemoveAtProperties
      <4> QED
        BY <3>2, <4>3
    <3>3. CASE \E l \in 1 .. Len(list), k \in 1 .. Records :
                 /\ k \in 1 .. Len(list[l].entries)
                 /\ list[l].entries[k].base = b.base
                 /\ \A j \in 1 .. Len(list) : j # l => list'[j].entries = list[j].entries
                 /\ list'[l].entries = RemoveAt(list[l].entries, k)
      <4>1. PICK l \in 1 .. Len(list), k \in 1 .. Records :
                 /\ k \in 1 .. Len(list[l].entries)
                 /\ list[l].entries[k].base = b.base
                 /\ \A j \in 1 .. Len(list) : j # l => list'[j].entries = list[j].entries
                 /\ list'[l].entries = RemoveAt(list[l].entries, k)
        BY <3>3
      <4>2. CASE i # l
        BY <1>6, <4>1, <4>2
      <4>3. CASE i = l /\ k = 1
        BY <4>1, <4>3
      <4>4. CASE i = l /\ k # 1
        BY <3>2, <4>1, <4>4
      <4> QED
        BY <4>2, <4>3, <4>4
    <3>4. \/ UNCHANGED list
          \/ \E l \in 1 .. Len(list), k \in 1 .. Records :
                 /\ k \in 1 .. Len(list[l].entries)
                 /\ list[l].entries[k].base = b.base
                 /\ \A j \in 1 .. Len(list) : j # l => list'[j].entries = list[j].entries
                 /\ list'[l].entries = RemoveAt(list[l].entries, k)
      <4>1. CASE UNCHANGED list
        BY <4>1
      <4>2. CASE \E l \in 1 .. Len(list), k \in 1 .. Records :
                   /\ UNCHANGED bitmap
                   /\ k \in 1 .. Len(list[l].entries)
                   /\ l > 1 => k > 1
                   /\ list[l].entries[k].base = b.base
                   /\ \A j \in 1 .. Len(list) : j # l => list'[j].entries = list[j].entries
                   /\ list'[l].entries = RemoveAt(list[l].entries, k)
        BY <4>2, Zenon
      <4> QED
        <5>1. CASE Found(b.base) = {} /\ UNCHANGED <<bitmap, list>>
          BY <4>1, <5>1
        <5>2. CASE /\ 1 < Len(list) /\ list[1].entries[1].base = b.base
                   /\ bitmap' = IF list[1].at \in bitmap THEN bitmap \ {list[1].at}
                                                         ELSE bitmap \cup {list[1].at}
                   /\ UNCHANGED list
          BY <4>1, <5>2
        <5> QED
          BY <1>4, <4>2, <5>1, <5>2, SMTT(60)
    <3> QED
      BY <3>1, <3>3, <3>4
  <2>2. ASSUME NEW i \in 1 .. Len(list) - 1
        PROVE  LiveStruct(i)' \/ SpentStruct(i)'
    <3>1. LiveStruct(i) => LiveStruct(i)'
      BY <1>4, <1>5, <1>6, <1>9 DEF LiveStruct
    <3>2. ASSUME SpentStruct(i), list'[i].entries[1] = list[i].entries[1]
          PROVE  SpentStruct(i)'
      BY <1>1, <1>4, <1>5, <1>6, <1>9, <3>2 DEF SpentStruct
    <3> QED
      BY <1>1, <1>7, <2>1, <3>1, <3>2 DEF BlocksApart
  <2>3. ASSUME NEW u \in Task \ {t}
        PROVE  CallApart(u)'
    <3>1. CallApart(u)
      BY <1>1 DEF BlocksApart
    <3> QED
      BY <1>1, <1>4, <1>5, <1>6, <1>9, <3>1 DEF CallApart
  <2> QED
    BY <1>1, <1>4, <1>8, <1>9, <2>2, <2>3 DEF BlocksApart
<1>10. CASE /\ 1 < Len(list) /\ list[1].entries[1].base = b.base
            /\ bitmap' = IF list[1].at \in bitmap THEN bitmap \ {list[1].at}
                                                  ELSE bitmap \cup {list[1].at}
            /\ UNCHANGED list
  <2> DEFINE page == list[1].at
  <2>1. 1 \in 1 .. Len(list) - 1
    BY <1>2, <1>10
  <2>2. LiveStruct(1)
    BY <1>7, <1>10, <2>1
  <2>3. /\ page \in bitmap /\ bitmap' = bitmap \ {page}
        /\ page \notin 0 .. Reserved - 1
        /\ \A u \in Task : \A k \in 1 .. Len(blocks[u]) : page \notin PagesOf(blocks[u][k])
    BY <1>10, <2>2 DEF LiveStruct
  <2>4. \A q \in owned : page \notin PagesOf(q.block)
    BY <1>1, <1>2, <1>6, <2>1 DEF RecordsIntact
  <2>5. \A i \in 1 .. Len(list) - 1 : i # 1 => list[i].at # page
    BY <1>1, <1>2, <1>6, <2>1 DEF RecordsIntact
  <2>6. b.base # page /\ \A i \in 1 .. Len(list) - 1 : list[i].at # b.base
    BY <1>3, <2>1
  <2> HIDE DEF page
  <2>7. SpentStruct(1)'
    <3>1. \A q \in owned : b.base \notin PagesOf(q.block)
      BY <1>1, <1>3 DEF CallApart, b
    <3>2. \A u \in Task \ {t} : \A k \in 1 .. Len(blocks[u]) : b.base \notin PagesOf(blocks[u][k])
      BY <1>1, <1>3 DEF BlocksApart, CallsApart, b
    <3>3. b.base \in bitmap'
      BY <1>3, <2>3, <2>6
    <3> QED
      BY <1>1, <1>5, <1>10, <2>6, <3>1, <3>2, <3>3 DEF SpentStruct
  <2>8. ASSUME NEW i \in 1 .. Len(list) - 1, i # 1
        PROVE  LiveStruct(i)' \/ SpentStruct(i)'
    <3>1. LiveStruct(i) => LiveStruct(i)'
      BY <1>1, <1>5, <1>10, <2>3, <2>5, <2>8 DEF LiveStruct
    <3>2. SpentStruct(i) => list[i].entries[1].base # page
      BY <2>1 DEF SpentStruct, page
    <3>3. SpentStruct(i) => SpentStruct(i)'
      BY <1>1, <1>5, <1>10, <2>3, <3>2 DEF SpentStruct
    <3> QED
      BY <1>1, <3>1, <3>3 DEF BlocksApart
  <2>9. \A i \in 1 .. Len(list') - 1 : LiveStruct(i)' \/ SpentStruct(i)'
    BY <1>10, <2>7, <2>8
  <2>10. 0 .. Reserved - 1 \subseteq bitmap'
    BY <1>1, <2>3 DEF BlocksApart
  <2>11. \A q \in owned' : /\ PagesOf(q.block) \subseteq bitmap'
                           /\ PagesOf(q.block) \cap (0 .. Reserved - 1) = {}
    BY <1>1, <2>3, <2>4 DEF BlocksApart
  <2>12. ASSUME NEW u \in Task \ {t}
         PROVE  CallApart(u)'
    <3>1. CallApart(u)
      BY <1>1 DEF BlocksApart
    <3>2. ASSUME NEW i \in 1 .. Len(blocks[u]), PagesOf(blocks[u][i]) \subseteq bitmap
          PROVE  PagesOf(blocks[u][i]) \subseteq bitmap'
      BY <2>3, <3>2
    <3> QED
      BY <1>1, <1>5, <1>10, <3>1, <3>2 DEF CallApart
  <2>13. \A o, q \in owned' : o # q => PagesOf(o.block) \cap PagesOf(q.block) = {}
    BY <1>1 DEF BlocksApart
  <2> QED
    BY <1>8, <2>9, <2>10, <2>11, <2>12, <2>13 DEF BlocksApart
<1> QED
  BY <1>4, <1>9, <1>10

(* So blocks stay apart.                                                    *)
LEMMA NextBlocksApart ==
  MemTyped /\ BlocksApart /\ [MemNext]_memvars => BlocksApart'
<1> SUFFICES ASSUME MemTyped, BlocksApart, [MemNext]_memvars
             PROVE  BlocksApart'
  OBVIOUS
<1>1. ASSUME UNCHANGED <<bitmap, list, blocks, owned, scan_raced>>,
             \A u \in Task : /\ mem_pc'[u] = "mark" <=> mem_pc[u] = "mark"
                             /\ mem_pc'[u] = "freeing" <=> mem_pc[u] = "freeing"
      PROVE  BlocksApart'
  <2>1. \A u \in Task : CallApart(u)' <=> CallApart(u)
    BY <1>1 DEF CallApart
  <2>2. \A u, v \in Task : CallsApart(u, v)' <=> CallsApart(u, v)
    BY <1>1 DEF CallsApart
  <2>3. \A i \in 1 .. Len(list) - 1 : /\ LiveStruct(i)' <=> LiveStruct(i)
                                      /\ SpentStruct(i)' <=> SpentStruct(i)
    BY <1>1 DEF LiveStruct, SpentStruct
  <2> QED
    BY <1>1, <2>1, <2>2, <2>3 DEF BlocksApart
<1>2. CASE UNCHANGED memvars
  BY <1>1, <1>2 DEF memvars, races, calls
<1>3. ASSUME NEW t \in Task, NEW n, kmalloc(t, n) \/ phisic_alloc(t, n)
      PROVE  BlocksApart'
  <2>1. /\ mem_pc[t] = "idle" /\ mem_pc' = [mem_pc EXCEPT ![t] = "flag"]
        /\ UNCHANGED <<bitmap, list, blocks, owned, scan_raced>>
    BY <1>3 DEF kmalloc, phisic_alloc, At, Call, GoTo
  <2> QED
    BY <1>1, <2>1 DEF MemTyped
<1>4. ASSUME NEW t \in Task, alloc_flag(t)
      PROVE  BlocksApart'
  <2>1. /\ mem_pc[t] = "flag" /\ mem_pc' = [mem_pc EXCEPT ![t] = "scan"]
        /\ UNCHANGED <<bitmap, list, blocks, owned, scan_raced>>
    BY <1>4 DEF alloc_flag, At, GoTo, races
  <2> QED
    BY <1>1, <2>1 DEF MemTyped
<1>5. ASSUME NEW t \in Task, add_info_pages(t)
      PROVE  BlocksApart'
  BY <1>1, <1>5, AddInfoTyped
<1> QED
  BY <1>2, <1>3, <1>4, <1>5, ScanKeepsApart, MarkKeepsApart, AddEntryKeepsApart,
     DeallocKeepsApart, DeallocEntryKeepsApart
  DEF MemNext

(* No page is given to two callers, and no page a caller holds is free for  *)
(* another call, until a call takes pages between the search and the        *)
(* marking of another (phisicmem.c:239-261).                                *)
THEOREM MemBlocksDisjoint == MemSpec => [](MemTypeOK /\ BlocksDisjoint)
<1>1. MemTyped /\ BlocksApart => MemTypeOK /\ BlocksDisjoint
  BY TypedMeansTypeOK DEF BlocksApart, BlocksDisjoint
<1>2. MemTyped /\ BlocksApart /\ [MemNext]_memvars => (MemTyped /\ BlocksApart)'
  BY NextTyped, NextBlocksApart
<1> QED
  BY <1>1, <1>2, InitTyped, PTL DEF MemSpec


-----------------------------------------------------------------------------
(* The records.                                                             *)

(* dealloc_pages finds what is recorded in the only struct.                 *)
LEMMA FoundIfRecorded ==
  ASSUME GoodList(list), Len(list) = 1, NEW k \in 1 .. Len(list[1].entries)
  PROVE  Found(list[1].entries[k].base) # {}
<1> DEFINE base == list[1].entries[k].base
           K == {j \in 1 .. Records : /\ j \in DOMAIN list[1].entries
                                      /\ list[1].entries[j].base = base}
<1>1. /\ DOMAIN list = {1} /\ DOMAIN list[1].entries = 1 .. Len(list[1].entries)
      /\ Len(list[1].entries) \in Nat /\ Len(list[1].entries) <= Records
  BY EntriesTyped DEF GoodList
<1>2. k \in K
  BY <1>1, MachineSize
<1>3. K \subseteq Nat
  OBVIOUS
<1>4. PICK m \in K : \A j \in K : m <= j
  <2> HIDE DEF K
  <2> QED
    BY <1>2, <1>3, LeastNatural
<1>5. <<1, m>> \in Found(base)
  <2> DEFINE hits == {h \in (DOMAIN list) \X (1 .. Records) :
                        /\ h[2] \in DOMAIN list[h[1]].entries
                        /\ h[1] > 1 => h[2] > 1
                        /\ list[h[1]].entries[h[2]].base = base}
  <2>1. <<1, m>> \in hits
    BY <1>1, <1>4
  <2>2. \A g \in hits : g[1] = 1 /\ g[2] \in K
    BY <1>1
  <2>3. Found(base) = {h \in hits : \A g \in hits : h[1] < g[1] \/ (h[1] = g[1] /\ h[2] <= g[2])}
    BY DEF Found
  <2> HIDE DEF hits, K, base
  <2> QED
    BY <1>4, <2>1, <2>2, <2>3
<1> QED
  BY <1>5

(* A search for one page that finds none has seen them all taken.           *)
LEMMA NoPageLeft ==
  ASSUME NEW from \in Nat, NEW to \in Nat, FirstFit(from, to, 1) = {}
  PROVE  from .. to \subseteq bitmap
<1> SUFFICES ASSUME NEW p \in from .. to, p \notin bitmap
             PROVE  FALSE
  OBVIOUS
<1> DEFINE fits == {b \in from .. to : b + 1 - 1 <= to /\ (b .. b + 1 - 1) \cap bitmap = {}}
<1>1. p \in fits
  BY MachineSize
<1>2. fits \subseteq Nat
  OBVIOUS
<1>3. PICK m \in fits : \A b \in fits : m <= b
  <2> HIDE DEF fits
  <2> QED
    BY <1>1, <1>2, LeastNatural
<1>4. FirstFit(from, to, 1) = {b \in fits : \A c \in fits : b <= c}
  BY DEF FirstFit
<1> HIDE DEF fits
<1> QED
  BY <1>3, <1>4

(* The block of a call under way that is not giving it back is none of      *)
(* those that have a record,                                                *)
LEMMA NewBlock ==
  ASSUME MemTyped, BlocksApart, ~scan_raced, NEW t \in Task,
         blocks[t] # <<>>, mem_pc[t] # "freeing"
  PROVE  blocks[t][1] \notin BlocksHeld
<1>1. 1 \in 1 .. Len(blocks[t]) /\ blocks[t][1] \in Block
  <2>1. blocks[t] \in Seq(Block)
    BY DEF MemTyped
  <2>2. 1 \in 1 .. Len(blocks[t])
    BY <2>1, EmptySeq
  <2> QED
    BY <2>1, <2>2, ElementOfSeq
<1>2. blocks[t][1].base \in PagesOf(blocks[t][1])
  BY <1>1, BlockHasBase
<1>3. CallApart(t)
  BY DEF BlocksApart
<1>4. blocks[t][1] # KernelImage
  <2>1. KernelImage.base \in 0 .. Reserved - 1
    BY MachineSize DEF KernelImage
  <2> QED
    BY <1>1, <1>2, <1>3, <2>1 DEF CallApart
<1>5. \A o \in owned : o.block # blocks[t][1]
  BY <1>1, <1>2, <1>3 DEF CallApart
<1>6. ASSUME NEW u \in Task, mem_pc[u] = "freeing"
      PROVE  blocks[u][1] # blocks[t][1]
  <2>1. CallsApart(t, u) /\ blocks[u] \in Seq(Block) /\ blocks[u] # <<>>
    BY <1>6 DEF BlocksApart, MemTyped, CallTyped
  <2>2. 1 \in 1 .. Len(blocks[u])
    BY <2>1, EmptySeq
  <2> QED
    BY <1>1, <1>2, <2>1, <2>2 DEF CallsApart
<1> QED
  BY <1>4, <1>5, <1>6 DEF BlocksHeld, KernelImage

(* and the one that is given back is no other.                              *)
LEMMA FreedBlock ==
  ASSUME MemTyped, BlocksApart, ~scan_raced, NEW t \in Task, mem_pc[t] = "freeing",
         NEW b, b = blocks[t][1]
  PROVE  /\ KernelImage.base # b.base /\ KernelImage # b
         /\ \A o \in owned : o.block.base # b.base /\ o.block # b
         /\ \A u \in Task \ {t} : mem_pc[u] = "freeing" =>
              blocks[u][1].base # b.base /\ blocks[u][1] # b
<1>1. 1 \in 1 .. Len(blocks[t]) /\ b \in Block
  <2>1. blocks[t] \in Seq(Block) /\ blocks[t] # <<>>
    BY DEF MemTyped, CallTyped
  <2>2. 1 \in 1 .. Len(blocks[t])
    BY <2>1, EmptySeq
  <2> QED
    BY <2>1, <2>2, ElementOfSeq
<1>2. b.base \in PagesOf(b) /\ CallApart(t)
  BY <1>1, BlockHasBase DEF BlocksApart
<1>3. KernelImage.base # b.base
  <2>1. KernelImage.base \in 0 .. Reserved - 1
    BY MachineSize DEF KernelImage
  <2> QED
    BY <1>1, <1>2, <2>1 DEF CallApart
<1>4. ASSUME NEW o \in owned
      PROVE  o.block.base # b.base
  <2>1. o.block.base \in PagesOf(o.block)
    BY BlockHasBase DEF MemTyped
  <2> QED
    BY <1>1, <1>2, <2>1 DEF CallApart
<1>5. ASSUME NEW u \in Task \ {t}, mem_pc[u] = "freeing"
      PROVE  blocks[u][1].base # b.base
  <2>1. CallsApart(t, u) /\ blocks[u] \in Seq(Block) /\ blocks[u] # <<>>
    BY <1>5 DEF BlocksApart, MemTyped, CallTyped
  <2>2. 1 \in 1 .. Len(blocks[u])
    BY <2>1, EmptySeq
  <2>3. blocks[u][1] \in Block
    BY <2>1, <2>2, ElementOfSeq
  <2>4. blocks[u][1].base \in PagesOf(blocks[u][1])
    BY <2>3, BlockHasBase
  <2> QED
    BY <1>1, <1>2, <2>1, <2>2, <2>4 DEF CallsApart
<1> QED
  BY <1>3, <1>4, <1>5

(* What there should be records of does not change,                         *)
LEMMA HeldSame ==
  ASSUME NEW t \in Task, mem_pc[t] # "freeing", mem_pc'[t] # "freeing",
         \A u \in Task \ {t} : mem_pc'[u] = mem_pc[u] /\ blocks'[u] = blocks[u],
         owned' = owned
  PROVE  BlocksHeld' = BlocksHeld
<1>1. {blocks'[u][1] : u \in {v \in Task : mem_pc'[v] = "freeing"}}
        = {blocks[u][1] : u \in {v \in Task : mem_pc[v] = "freeing"}}
  OBVIOUS
<1> QED
  BY <1>1 DEF BlocksHeld

(* but by the return of a call that allocates or frees.                     *)
LEMMA HeldMore ==
  ASSUME MemTyped, NEW t \in Task, mem_pc[t] # "freeing", NEW l, Unwind(t, l)
  PROVE  BlocksHeld' = BlocksHeld \cup {blocks[t][1]}
<1>1. /\ mem_pc'[t] # "freeing"
      /\ \A u \in Task \ {t} : mem_pc'[u] = mem_pc[u] /\ blocks'[u] = blocks[u]
      /\ owned' = owned \cup {[block |-> blocks[t][1], by |-> request[t].by]}
  BY ReturnTyped DEF Unwind
<1>2. {blocks'[u][1] : u \in {v \in Task : mem_pc'[v] = "freeing"}}
        = {blocks[u][1] : u \in {v \in Task : mem_pc[v] = "freeing"}}
  BY <1>1
<1>3. {o.block : o \in owned'} = {o.block : o \in owned} \cup {blocks[t][1]}
  <2>1. \A o \in owned' : o \in owned \/ o.block = blocks[t][1]
    BY <1>1
  <2>2. [block |-> blocks[t][1], by |-> request[t].by] \in owned' /\ owned \subseteq owned'
    BY <1>1
  <2>3. blocks[t][1] \in {o.block : o \in owned'}
    <3>1. [block |-> blocks[t][1], by |-> request[t].by].block = blocks[t][1]
      OBVIOUS
    <3> QED
      BY <2>2, <3>1
  <2> QED
    BY ONLY <2>1, <2>2, <2>3
<1> QED
  BY <1>2, <1>3 DEF BlocksHeld

LEMMA HeldLess ==
  ASSUME MemTyped, BlocksApart, ~scan_raced, NEW t \in Task, mem_pc[t] = "freeing",
         Return(t), owned' = owned, NEW b, b = blocks[t][1]
  PROVE  BlocksHeld' = BlocksHeld \ {b} /\ b \in BlocksHeld
<1>1. /\ mem_pc'[t] # "freeing"
      /\ \A u \in Task \ {t} : mem_pc'[u] = mem_pc[u] /\ blocks'[u] = blocks[u]
  BY ReturnTyped
<1> DEFINE F == {blocks[u][1] : u \in {v \in Task : mem_pc[v] = "freeing"}}
           G == {blocks'[u][1] : u \in {v \in Task : mem_pc'[v] = "freeing"}}
<1>2. b \in F
  OBVIOUS
<1>3. G = F \ {b}
  <2>1. ASSUME NEW u \in Task, mem_pc'[u] = "freeing"
        PROVE  blocks'[u][1] \in F \ {b}
    <3>1. u # t /\ mem_pc[u] = "freeing" /\ blocks'[u] = blocks[u]
      BY <1>1, <2>1
    <3>2. blocks[u][1] # b
      BY <3>1, FreedBlock
    <3> QED
      BY <3>1, <3>2
  <2>2. ASSUME NEW u \in Task, mem_pc[u] = "freeing", blocks[u][1] # b
        PROVE  blocks[u][1] \in G
    <3>1. u # t
      BY <2>2
    <3> QED
      BY <1>1, <2>2, <3>1
  <2> QED
    BY <2>1, <2>2
<1>4. KernelImage # b /\ \A o \in owned : o.block # b
  BY FreedBlock
<1> HIDE DEF F, G
<1>5. b \notin {KernelImage} \cup {o.block : o \in owned}
  BY <1>4
<1>6. BlocksHeld = {KernelImage} \cup {o.block : o \in owned} \cup F
  BY DEF BlocksHeld, KernelImage, F
<1>7. BlocksHeld' = {KernelImage} \cup {o.block : o \in owned} \cup G
  BY DEF BlocksHeld, KernelImage, G
<1> QED
  BY ONLY <1>2, <1>3, <1>5, <1>6, <1>7

(* No record but that of the kernel image is there at first.                *)
LEMMA InitRecordsOnce == MemInit => RecordsOnce
<1> SUFFICES ASSUME MemInit
             PROVE  RecordsOnce
  OBVIOUS
<1>1. list[1].entries = <<KernelImage>> /\ owned = {} /\ \A t \in Task : mem_pc[t] = "idle"
  BY DEF MemInit, KernelImage
<1>2. /\ Len(<<KernelImage>>) = 1 /\ 1 .. 1 = {1}
      /\ <<KernelImage>>[1] = KernelImage
  OBVIOUS
<1>3. BlocksHeld = {KernelImage}
  <2>1. {u \in Task : mem_pc[u] = "freeing"} = {}
    BY <1>1
  <2> QED
    BY <1>1, <2>1 DEF BlocksHeld, KernelImage
<1> QED
  BY <1>1, <1>2, <1>3 DEF RecordsOnce

(* What may change without touching the records.                            *)
LEMMA RecordsStay ==
  ASSUME RecordsOnce, list' = list, BlocksHeld' = BlocksHeld, bitmap \subseteq bitmap',
         flag_raced => flag_raced', scan_raced => scan_raced', list_raced => list_raced'
  PROVE  RecordsOnce'
BY DEF RecordsOnce

(* A search that finds nothing for a struct drops a record,                 *)
LEMMA ScanKeepsRecords ==
  ASSUME MemTyped, FlagIsCallers, BlocksApart, RecordsOnce, NEW t \in Task, alloc_scan(t)
  PROVE  RecordsOnce'
<1>1. /\ mem_pc[t] = "scan" /\ ~scan_raced /\ ~list_raced
      /\ UNCHANGED <<bitmap, status_kmalloc, flag_raced, list_raced>>
  BY ScanCases
<1>2. CASE t \notin in_list /\ Return(t) /\ UNCHANGED <<list, owned, scan_raced>>
  <2>1. BlocksHeld' = BlocksHeld
    BY <1>1, <1>2, ReturnTyped, HeldSame
  <2> QED
    BY <1>1, <1>2, <2>1, RecordsStay
<1>3. CASE /\ t \in in_list /\ blocks[t] # <<>>
           /\ FirstFit(request[t].from, request[t].to, request[t].num) = {}
           /\ Unwind(t, list) /\ UNCHANGED scan_raced
  <2> SUFFICES ASSUME Len(list') = 1
               PROVE  RecordsOnce'
    BY DEF RecordsOnce
  <2>1. list' = list
    <3>1. GoodList(list) /\ UNCHANGED <<bitmap, status_kmalloc, races>>
      BY <1>1, <1>3 DEF MemTyped, races
    <3>2. /\ list' = Structs(blocks[t]) \o list /\ blocks[t] \in Seq(Block)
          /\ \A i \in 1 .. Len(blocks[t]) : PagesOf(blocks[t][i]) \subseteq Page
      BY <1>1, <1>3, <3>1, UnwindTyped
    <3>3. PICK m, n : m = Structs(blocks[t]) \o list /\ n = Len(blocks[t]) - 1
      OBVIOUS
    <3>4. n \in Nat /\ Len(m) = n + Len(list) /\ (n = 0 => m = list)
      <4>1. PutOn(blocks[t], list, m, n)
        BY <1>3, <3>1, <3>2, <3>3 DEF PutOn
      <4> QED
        BY ONLY <4>1, PutStructs
    <3>5. Len(list) \in Nat \ {0} /\ Len(m) = 1
      BY <3>1, <3>2, <3>3, EntriesTyped
    <3>6. n = 0 /\ list' = m
      <4>1. list' = m
        BY ONLY <3>2, <3>3, Zenon
      <4> QED
        BY <3>4, <3>5, <4>1, SMTT(60)
    <3> QED
      BY ONLY <3>4, <3>6
  <2>2. flag_raced \/ KernelPages .. MaxPages - 1 \subseteq bitmap
    <3> SUFFICES ASSUME ~flag_raced
                 PROVE  KernelPages .. MaxPages - 1 \subseteq bitmap
      OBVIOUS
    <3>1. request[t].num = 1
      BY <1>1, <1>3 DEF MemTyped, CallTyped
    <3>2. request[t].from = KernelPages /\ request[t].to = MaxPages - 1
      BY <1>1, <1>3 DEF FlagIsCallers, ForKernel
    <3>3. FirstFit(KernelPages, MaxPages - 1, 1) = {}
      BY <1>3, <3>1, <3>2
    <3> QED
      BY <3>3, MachineSize, NoPageLeft
  <2>3. BlocksHeld' = BlocksHeld \cup {blocks[t][1]}
    BY <1>1, <1>3, HeldMore
  <2> QED
    BY <1>1, <2>1, <2>2, <2>3 DEF RecordsOnce
<1>4. ASSUME NEW b \in FirstFit(request[t].from, request[t].to, request[t].num),
             blocks' = [blocks EXCEPT ![t] = Append(@, Candidate(t, b))],
             mem_pc' = [mem_pc EXCEPT ![t] = "mark"],
             scan_raced' = (scan_raced \/ Behind(t, "mark")),
             UNCHANGED <<list, owned, request, in_list>>
      PROVE  RecordsOnce'
  <2>1. mem_pc'[t] = "mark" /\ \A u \in Task \ {t} : mem_pc'[u] = mem_pc[u] /\ blocks'[u] = blocks[u]
    BY <1>4 DEF MemTyped
  <2>2. BlocksHeld' = BlocksHeld
    BY <1>1, <1>4, <2>1, HeldSame
  <2> QED
    BY <1>1, <1>4, <2>2, RecordsStay
<1> QED
  BY <1>2, <1>3, <1>4, ScanCases

(* a new record is of a block that had none,                                *)
LEMMA AddEntryKeepsRecords ==
  ASSUME MemTyped, BlocksApart, RecordsOnce, NEW t \in Task, add_entry(t)
  PROVE  RecordsOnce'
<1> SUFFICES ASSUME Len(list') = 1
             PROVE  RecordsOnce'
  BY DEF RecordsOnce
<1> DEFINE e == list[1].entries
           b == blocks[t][1]
<1>0. PICK l : l = [list EXCEPT ![1].entries = Append(@, Last(blocks[t]))]
  OBVIOUS
<1>1. /\ mem_pc[t] = "adding" /\ ~list_raced /\ ~scan_raced
      /\ t \in in_list /\ blocks[t] # <<>>
      /\ UNCHANGED <<bitmap, status_kmalloc, races>>
      /\ GoodList(l) /\ Len(l) = Len(list) /\ Unwind(t, l)
      /\ l[1].entries = Append(e, blocks[t][Len(blocks[t])])
  BY <1>0, AddEntryList
<1>2. /\ list' = Structs(blocks[t]) \o l /\ blocks[t] \in Seq(Block) /\ b \in Block
      /\ \A i \in 1 .. Len(blocks[t]) : PagesOf(blocks[t][i]) \subseteq Page
  BY <1>1, UnwindTyped
<1>3. list' = l /\ Len(list) = 1 /\ Len(blocks[t]) = 1
  <2>1. PICK m, n : m = Structs(blocks[t]) \o l /\ n = Len(blocks[t]) - 1
    OBVIOUS
  <2>2. n \in Nat /\ Len(m) = n + Len(l) /\ (n = 0 => m = l)
    <3>1. GoodList(l) /\ blocks[t] # <<>> /\ blocks[t] \in Seq(Block)
      BY <1>1, <1>2
    <3>2. PutOn(blocks[t], l, m, n)
      BY <1>2, <2>1, <3>1 DEF PutOn
    <3> QED
      BY ONLY <3>2, PutStructs
  <2>3. Len(l) \in Nat \ {0} /\ Len(m) = 1
    BY <1>1, <1>2, <2>1, EntriesTyped
  <2>4. Len(blocks[t]) \in Nat
    BY <1>2
  <2>5. n = 0 /\ list' = m
    <3>1. list' = m
      BY ONLY <1>2, <2>1, Zenon
    <3> QED
      BY ONLY <2>2, <2>3, <3>1
  <2> QED
    BY <1>1, <2>1, <2>2, <2>3, <2>4, <2>5
<1>4. e \in Seq(Entry) /\ Len(e) \in Nat /\ b \in Entry
  BY <1>2, EntriesTyped, BlockHasBase DEF MemTyped
<1>5. b \notin BlocksHeld
  BY <1>1, NewBlock
<1>6. BlocksHeld' = BlocksHeld \cup {b}
  BY <1>1, HeldMore
<1>7. /\ \A k, j \in 1 .. Len(e) : e[k] = e[j] => k = j
      /\ \A k \in 1 .. Len(e) : e[k] \in BlocksHeld
      /\ \/ \A c \in BlocksHeld : \E k \in 1 .. Len(e) : e[k] = c
         \/ KernelPages .. MaxPages - 1 \subseteq bitmap
         \/ flag_raced
  BY <1>1, <1>3 DEF RecordsOnce
<1> DEFINE f == list'[1].entries
<1>8. f = Append(e, b)
  BY <1>1, <1>3
<1> HIDE DEF e, b, f
<1>9. /\ Len(f) = Len(e) + 1 /\ f[Len(e) + 1] = b
      /\ \A k \in 1 .. Len(e) : f[k] = e[k]
  BY <1>4, <1>8, AppendProperties
<1>10. /\ \A k \in 1 .. Len(f) : k \in 1 .. Len(e) \/ k = Len(e) + 1
       /\ \A k \in 1 .. Len(e) : k \in 1 .. Len(f)
       /\ Len(e) + 1 \in 1 .. Len(f)
  BY <1>4, <1>9
<1>11. \A k, j \in 1 .. Len(f) : f[k] = f[j] => k = j
  BY <1>5, <1>7, <1>9, <1>10
<1>12. \A k \in 1 .. Len(f) : f[k] \in BlocksHeld \cup {b}
  BY <1>7, <1>9, <1>10
<1>13. (\A c \in BlocksHeld : \E k \in 1 .. Len(e) : e[k] = c)
         => \A c \in BlocksHeld \cup {b} : \E k \in 1 .. Len(f) : f[k] = c
  BY <1>9, <1>10
<1>14. bitmap' = bitmap /\ flag_raced' = flag_raced
  BY <1>1 DEF races
<1> QED
  BY <1>6, <1>7, <1>11, <1>12, <1>13, <1>14 DEF RecordsOnce, f

(* and the one taken out is that of the block.                              *)
LEMMA DeallocEntryKeepsRecords ==
  ASSUME MemTyped, BlocksApart, RecordsOnce, NEW t \in Task, dealloc_entry(t)
  PROVE  RecordsOnce'
<1> SUFFICES ASSUME Len(list') = 1
             PROVE  RecordsOnce'
  BY DEF RecordsOnce
<1> DEFINE e == list[1].entries
           f == list'[1].entries
           held == BlocksHeld
<1>0. PICK b : b = blocks[t][1]
  OBVIOUS
<1>1. /\ mem_pc[t] = "freeing" /\ Return(t) /\ ~scan_raced /\ ~list_raced
      /\ owned' = owned /\ flag_raced' = flag_raced
  BY DeallocEntryTyped DEF races
<1>2. Len(list) = 1 /\ GoodList(list)
  BY <1>0, DeallocList DEF MemTyped
<1>3. e \in Seq(Entry) /\ Len(e) \in Nat
  BY <1>2, EntriesTyped
<1>4. /\ \A k, l \in 1 .. Len(e) : e[k] = e[l] => k = l
      /\ \A k \in 1 .. Len(e) : e[k] \in held
      /\ \/ \A c \in held : \E k \in 1 .. Len(e) : e[k] = c
         \/ KernelPages .. MaxPages - 1 \subseteq bitmap
         \/ flag_raced
  BY <1>1, <1>2 DEF RecordsOnce
<1>5. BlocksHeld' = held \ {b} /\ b \in held
  BY <1>0, <1>1, HeldLess
<1>6. \A c \in held : c.base = b.base => c = b
  <2>1. /\ KernelImage.base # b.base
        /\ \A o \in owned : o.block.base # b.base
        /\ \A u \in Task \ {t} : mem_pc[u] = "freeing" => blocks[u][1].base # b.base
    BY <1>0, <1>1, FreedBlock
  <2> QED
    BY <1>0, <2>1 DEF BlocksHeld, KernelImage
<1>7. \A k \in 1 .. Len(e) : e[k].base = b.base => e[k] = b
  BY <1>4, <1>6
<1>8. CASE Found(b.base) = {} /\ UNCHANGED <<bitmap, list>>
  <2>1. \A k \in 1 .. Len(e) : e[k] # b
    BY <1>2, <1>8, FoundIfRecorded
  <2>2. \A k \in 1 .. Len(e) : e[k] \in held \ {b}
    BY <1>4, <2>1
  <2>3. list' = list /\ bitmap' = bitmap
    BY <1>8
  <2> HIDE DEF held
  <2> QED
    BY <1>1, <1>4, <1>5, <2>2, <2>3 DEF RecordsOnce
<1>9. ASSUME NEW k \in 1 .. Len(e), e[k].base = b.base,
             f = RemoveAt(e, k), UNCHANGED bitmap
      PROVE  RecordsOnce'
  <2>1. e[k] = b
    BY <1>7, <1>9
  <2>2. /\ Len(f) = Len(e) - 1
        /\ \A i \in 1 .. Len(f) : f[i] = IF i < k THEN e[i] ELSE e[i + 1]
    <3>1. e \in Seq(Entry) /\ Len(e) \in Nat
      BY <1>3
    <3>2. f = RemoveAt(e, k)
      BY <1>9
    <3> HIDE DEF e, f, held
    <3>3. /\ Len(RemoveAt(e, k)) = Len(e) - 1
          /\ \A i \in 1 .. Len(e) - 1 :
               RemoveAt(e, k)[i] = IF i < k THEN e[i] ELSE e[i + 1]
      BY <3>1, RemoveAtProperties
    <3> QED
      BY <3>2, <3>3
  <2> HIDE DEF e, f, held
  <2> DEFINE old(i) == IF i < k THEN i ELSE i + 1
  <2>3. \A i \in 1 .. Len(f) : old(i) \in 1 .. Len(e) /\ old(i) # k
    BY <1>3, <1>9, <2>2
  <2>4. \A i \in 1 .. Len(f) : f[i] = e[old(i)]
    BY <2>2
  <2>5. \A i, j \in 1 .. Len(f) : old(i) = old(j) => i = j
    BY <1>3, <1>9, <2>2
  <2>6. \A l \in 1 .. Len(e) : l # k => \E i \in 1 .. Len(f) : old(i) = l
    <3> SUFFICES ASSUME NEW l \in 1 .. Len(e), l # k
                 PROVE  \E i \in 1 .. Len(f) : old(i) = l
      OBVIOUS
    <3>1. CASE l < k
      <4>1. l \in 1 .. Len(f) /\ old(l) = l
        BY <1>3, <1>9, <2>2, <3>1
      <4> QED
        BY <4>1
    <3>2. CASE l > k
      <4>1. l - 1 \in 1 .. Len(f) /\ old(l - 1) = l
        BY <1>3, <1>9, <2>2, <3>2
      <4> QED
        BY <4>1
    <3> QED
      BY <3>1, <3>2
  <2> HIDE DEF old
  <2>7. \A i, j \in 1 .. Len(f) : f[i] = f[j] => i = j
    BY <1>4, <2>3, <2>4, <2>5
  <2>8. \A i \in 1 .. Len(f) : f[i] \in held \ {b}
    BY <1>4, <1>9, <2>1, <2>3, <2>4, SMTT(30)
  <2>9. (\A c \in held : \E l \in 1 .. Len(e) : e[l] = c)
          => \A c \in held \ {b} : \E i \in 1 .. Len(f) : f[i] = c
    BY <2>1, <2>4, <2>6
  <2> QED
    BY <1>1, <1>4, <1>5, <1>9, <2>7, <2>8, <2>9 DEF RecordsOnce, f
<1>10. \/ Found(b.base) = {} /\ UNCHANGED <<bitmap, list>>
       \/ \E k \in 1 .. Len(e) : /\ e[k].base = b.base
                                 /\ f = RemoveAt(e, k) /\ UNCHANGED bitmap
  <2>1. 1 .. Len(list) = {1} /\ ~(1 < Len(list))
    BY <1>2
  <2>2. PICK base : base = b.base
    OBVIOUS
  <2>2a. DeallocOutcome(base)
    BY <1>0, <2>2, DeallocList
  <2>3. \/ Found(base) = {} /\ UNCHANGED <<bitmap, list>>
        \/ \E i \in 1 .. Len(list), k \in 1 .. Records :
             /\ <<i, k>> \in Found(base) /\ UNCHANGED bitmap
             /\ k \in 1 .. Len(list[i].entries)
             /\ i > 1 => k > 1
             /\ list[i].entries[k].base = base
             /\ \A j \in 1 .. Len(list) : j # i => list'[j].entries = list[j].entries
             /\ list'[i].entries = RemoveAt(list[i].entries, k)
    BY ONLY <2>1, <2>2a, Zenon DEF DeallocOutcome
  <2>4. CASE Found(base) = {} /\ UNCHANGED <<bitmap, list>>
    BY <2>2, <2>4
  <2>5. CASE \E i \in 1 .. Len(list), k \in 1 .. Records :
             /\ <<i, k>> \in Found(base) /\ UNCHANGED bitmap
             /\ k \in 1 .. Len(list[i].entries)
             /\ i > 1 => k > 1
             /\ list[i].entries[k].base = base
             /\ \A j \in 1 .. Len(list) : j # i => list'[j].entries = list[j].entries
             /\ list'[i].entries = RemoveAt(list[i].entries, k)
    <3>1. PICK i \in 1 .. Len(list), k \in 1 .. Records :
             /\ UNCHANGED bitmap
             /\ k \in 1 .. Len(list[i].entries)
             /\ list[i].entries[k].base = base
             /\ list'[i].entries = RemoveAt(list[i].entries, k)
      BY <2>5
    <3>2. i = 1
      BY <2>1, <3>1
    <3> QED
      BY <2>2, <3>1, <3>2
  <2> QED
    BY <2>3, <2>4, <2>5
<1> QED
  BY <1>8, <1>9, <1>10

(* Every step keeps one record for each block.                              *)
LEMMA NextRecordsOnce ==
  MemTyped /\ FlagIsCallers /\ BlocksApart /\ RecordsOnce /\ [MemNext]_memvars => RecordsOnce'
<1> SUFFICES ASSUME MemTyped, FlagIsCallers, BlocksApart, RecordsOnce, [MemNext]_memvars
             PROVE  RecordsOnce'
  OBVIOUS
<1>1. CASE UNCHANGED memvars
  BY <1>1 DEF memvars, calls, races, RecordsOnce, BlocksHeld
<1>2. ASSUME NEW t \in Task, NEW n, kmalloc(t, n) \/ phisic_alloc(t, n)
      PROVE  RecordsOnce'
  <2>1. /\ mem_pc[t] = "idle" /\ mem_pc' = [mem_pc EXCEPT ![t] = "flag"]
        /\ UNCHANGED <<bitmap, list, blocks, owned, scan_raced, list_raced>>
        /\ flag_raced' = (flag_raced \/ Behind(t, "flag"))
    BY <1>2 DEF kmalloc, phisic_alloc, At, Call, GoTo
  <2>2. /\ mem_pc'[t] = "flag"
        /\ \A u \in Task \ {t} : mem_pc'[u] = mem_pc[u] /\ blocks'[u] = blocks[u]
    BY <2>1 DEF MemTyped
  <2>3. BlocksHeld' = BlocksHeld
    BY <2>1, <2>2, HeldSame
  <2> QED
    BY <2>1, <2>3, RecordsStay
<1>3. ASSUME NEW t \in Task, alloc_flag(t)
      PROVE  RecordsOnce'
  <2>1. /\ mem_pc[t] = "flag" /\ mem_pc' = [mem_pc EXCEPT ![t] = "scan"]
        /\ UNCHANGED <<bitmap, list, blocks, owned, flag_raced, scan_raced, list_raced>>
    BY <1>3 DEF alloc_flag, At, GoTo, races
  <2>2. /\ mem_pc'[t] = "scan"
        /\ \A u \in Task \ {t} : mem_pc'[u] = mem_pc[u] /\ blocks'[u] = blocks[u]
    BY <2>1 DEF MemTyped
  <2>3. BlocksHeld' = BlocksHeld
    BY <2>1, <2>2, HeldSame
  <2> QED
    BY <2>1, <2>3, RecordsStay
<1>4. ASSUME NEW t \in Task, alloc_mark(t)
      PROVE  RecordsOnce'
  <2>1. /\ mem_pc[t] = "mark" /\ mem_pc' = [mem_pc EXCEPT ![t] = "record"]
        /\ UNCHANGED <<list, blocks, owned, flag_raced, scan_raced, list_raced>>
        /\ bitmap \subseteq bitmap'
    BY <1>4 DEF alloc_mark, At, GoTo, races
  <2>2. /\ mem_pc'[t] = "record"
        /\ \A u \in Task \ {t} : mem_pc'[u] = mem_pc[u] /\ blocks'[u] = blocks[u]
    BY <2>1 DEF MemTyped
  <2>3. BlocksHeld' = BlocksHeld
    BY <2>1, <2>2, HeldSame
  <2> QED
    BY <2>1, <2>3, RecordsStay
<1>5. ASSUME NEW t \in Task, add_info_pages(t)
      PROVE  RecordsOnce'
  <2>1. /\ mem_pc[t] = "record" /\ mem_pc'[t] \in {"adding", "flag"}
        /\ \A u \in Task \ {t} : mem_pc'[u] = mem_pc[u]
        /\ flag_raced => flag_raced'
        /\ list_raced => list_raced'
        /\ UNCHANGED <<bitmap, list, blocks, owned, scan_raced>>
    BY <1>5, AddInfoTyped
  <2>2. BlocksHeld' = BlocksHeld
    BY <2>1, HeldSame
  <2> QED
    BY <2>1, <2>2, RecordsStay
<1>6. ASSUME NEW t \in Task, NEW o \in owned, dealloc_pages(t, o)
      PROVE  RecordsOnce'
  <2>1. /\ mem_pc[t] = "idle" /\ mem_pc'[t] = "freeing" /\ blocks'[t][1] = o.block
        /\ \A u \in Task \ {t} : mem_pc'[u] = mem_pc[u] /\ blocks'[u] = blocks[u]
        /\ owned' = owned \ {o}
        /\ list_raced => list_raced'
        /\ UNCHANGED <<bitmap, list, flag_raced, scan_raced>>
    BY <1>6, DeallocTyped
  <2>2. BlocksHeld' = BlocksHeld
    <3>1. {blocks'[u][1] : u \in {v \in Task : mem_pc'[v] = "freeing"}}
            = {blocks[u][1] : u \in {v \in Task : mem_pc[v] = "freeing"}} \cup {o.block}
      BY <2>1
    <3>2. {q.block : q \in owned'} \cup {o.block} = {q.block : q \in owned}
      BY <2>1
    <3> QED
      BY <3>1, <3>2 DEF BlocksHeld
  <2> QED
    BY <2>1, <2>2, RecordsStay
<1> QED
  BY <1>1, <1>2, <1>3, <1>4, <1>5, <1>6,
     ScanKeepsRecords, AddEntryKeepsRecords, DeallocEntryKeepsRecords
  DEF MemNext

(* Without a repetition the entries are as many as their values.            *)
LEMMA CountEntries ==
  ASSUME NEW S, NEW e \in Seq(S), \A k, l \in 1 .. Len(e) : e[k] = e[l] => k = l
  PROVE  Cardinality(Range(e)) = Len(e)
<1>1. Len(e) \in Nat /\ DOMAIN e = 1 .. Len(e) /\ e \in [1 .. Len(e) -> S]
  BY LenProperties
<1>2. Range(e) = {e[k] : k \in 1 .. Len(e)}
  BY <1>1 DEF Range
<1>3. e \in Bijection(1 .. Len(e), Range(e))
  BY <1>1, <1>2 DEF Bijection, Injection, Surjection, IsInjective
<1>4. ExistsBijection(1 .. Len(e), Range(e))
  BY <1>3 DEF ExistsBijection
<1> QED
  BY <1>1, <1>4, FS_CountingElements

(* The only struct records the kernel image and the blocks callers hold or  *)
(* are giving back, each once, and misses one only when a record was        *)
(* dropped for want of a page or a raced flag, so a kfree finds its block:  *)
(* until two calls are in the list at once (phisicmem.c:286-356, 360-487).  *)
THEOREM MemRecordsAreBlocks == MemSpec => []RecordsAreBlocks
<1>1. MemInit => MemInv
  BY InitTyped, InitRecordsOnce DEF MemInv
<1>2. MemInv /\ [MemNext]_memvars => MemInv'
  BY NextTyped, NextFlagIsCallers, NextBlocksApart, NextRecordsOnce DEF MemInv
<1>3. MemInv => RecordsAreBlocks
  <2> SUFFICES ASSUME MemInv, Len(list) = 1, ~scan_raced, ~list_raced
               PROVE  RecordsAreBlocks
    BY DEF RecordsAreBlocks
  <2> DEFINE e == list[1].entries
  <2>1. e \in Seq(Entry) /\ DOMAIN e = 1 .. Len(e)
    BY EntriesTyped DEF MemInv, MemTyped
  <2>2. Cardinality(Range(e)) = Len(e)
    BY <2>1, CountEntries DEF MemInv, RecordsOnce
  <2>3. Range(e) = {e[k] : k \in 1 .. Len(e)}
    BY <2>1 DEF Range
  <2> QED
    BY <2>2, <2>3, SMTT(30) DEF MemInv, RecordsOnce, RecordsAreBlocks
<1> QED
  BY <1>1, <1>2, <1>3, PTL DEF MemSpec
=============================================================================
