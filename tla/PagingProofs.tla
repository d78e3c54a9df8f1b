------------------------------ MODULE PagingProofs ------------------------------
(***************************************************************************)
(* Proofs about malloc and free over the page tables (module Paging), for  *)
(* directories, tables and memories of any size and any contents of the    *)
(* pages that become tables.                                               *)
(***************************************************************************)
EXTENDS Paging, TLAPS

-----------------------------------------------------------------------------
(* The inductive invariant.                                                 *)

Block == [va : Address, page : Page]

(* A page that is a table has been allocated.                               *)
PagesTyped ==
  /\ PagingTypeOK /\ live \subseteq Block /\ lost \in BOOLEAN
  /\ \A e \in PDE : pd[e] # None => pd[e] < next_page

(* Each table is in one entry of the directory, and what the window shows   *)
(* of an entry is its table, but for the entry malloc is about to write:    *)
(* that one may have got a new table since the window last showed it.       *)
TablesApart ==
  /\ \A e, f \in PDE : pd[e] = pd[f] /\ pd[e] # None => e = f
  /\ pc \in {"boot", "kernel"} => live = {} /\ pd = Flushed
  /\ pc = "map" => pd[at[1]] # None /\ \A b \in live : b.va # at
  /\ \A e \in PDE : window[e] # None /\ pd[e] # None /\ window[e] # pd[e]
                      => pc = "map" /\ e = at[1]

(* A translation the processor keeps is that of a block in use, or of an    *)
(* address freed in this turn of the task.                                  *)
TlbKnown ==
  \A a \in Address :
    \/ tlb[a] = None \/ a \in released
    \/ \E b \in live : b.va = a /\ b.page = tlb[a]

(* An entry of a table that leads to a page is that of a block in use.      *)
EntriesKnown ==
  \A e \in PDE, p \in PTE :
    pd[e] # None /\ table[pd[e]][p] \in Page => \E b \in live : b.va = <<e, p>>

(* EmptyTablesGone, at any point of malloc.                                 *)
EmptyKnown ==
  \A e \in PDE :
    pd[e] # None /\ (\A b \in live : b.va[1] # e) =>
      \/ e \in last_freed \/ (pc = "map" /\ e = at[1])
      \/ \E p \in PTE : table[pd[e]][p] = Junk

BlocksKnown ==
  \A b \in live : Walk(b.va) = b.page /\ \A c \in live : c.va = b.va => c = b

PagingInv ==
  /\ PagesTyped
  /\ ~lost => TablesApart /\ BlocksKnown /\ TlbKnown /\ EntriesKnown /\ EmptyKnown

-----------------------------------------------------------------------------
(* Entries, pages and what the operators return.                            *)

Content == Page \cup {None, Junk}

(* What the assumptions say of pages, entries and requests.                 *)
LEMMA PagingSizes ==
  /\ MaxPage \in Nat /\ Page \subseteq Nat /\ 0 \in Page
  /\ None \notin Page /\ Junk \notin Page /\ None # Junk
  /\ N_PTE - 1 \in PTE /\ 0 \in PTE /\ 1 \in PDE /\ <<1, 0>> \in Address
  /\ Nums \subseteq Nat \ {0} /\ Found \subseteq [PTE -> {None, Junk}]
<1>1. /\ N_PDE \in Nat /\ N_PDE > 2 /\ N_PTE \in Nat /\ N_PTE > 1
      /\ MaxPage \in Nat /\ Nums \subseteq Nat \ {0}
      /\ Found \subseteq [PTE -> {None, Junk}]
  BY PagingAssumption DEF PagingAssumption
<1>2. Page \subseteq Nat /\ 0 \in Page /\ None \notin Page /\ Junk \notin Page /\ None # Junk
  BY <1>1 DEF Page, None, Junk
<1>3. N_PTE - 1 \in PTE /\ 0 \in PTE /\ 1 \in PDE
  BY <1>1 DEF PTE, PDE
<1>4. <<1, 0>> \in Address
  BY <1>3 DEF Address
<1> QED
  BY <1>1, <1>2, <1>3, <1>4

(* Pages handed out are the next ones, or page 0 when there are none left.  *)
LEMMA Allocated ==
  ASSUME next_page \in 1 .. MaxPage + 1, NEW n \in Nat \ {0}
  PROVE  /\ phisic_alloc(n) \in Page
         /\ Taken(n) \in 1 .. MaxPage + 1 /\ next_page <= Taken(n)
         /\ phisic_alloc(n) < Taken(n)
         /\ phisic_alloc(n) = Entry0 \/ phisic_alloc(n) = next_page
BY PagingSizes DEF phisic_alloc, Taken, Page, Entry0

(* A table stays below the pages still to be given out.                     *)
LEMMA TablesBelow ==
  ASSUME PagesTyped, NEW n \in Nat \ {0}, NEW e \in PDE, pd[e] # None
  PROVE  pd[e] < Taken(n)
<1>1. pd[e] \in Nat /\ pd[e] < next_page
  BY PagingSizes DEF PagesTyped, PagingTypeOK
<1>2. next_page \in 1 .. MaxPage + 1
  BY DEF PagesTyped, PagingTypeOK
<1>3. Taken(n) \in Nat /\ next_page \in Nat /\ next_page <= Taken(n)
  BY <1>2, Allocated, PagingSizes
<1> QED
  BY <1>1, <1>3

(* What the window shows of a table is a page or nothing.                   *)
LEMMA SeenTyped ==
  ASSUME PagingTypeOK
  PROVE  /\ \A e \in PDE : TableSeen(e) \in Page \cup {None}
         /\ \A es : Looked(es) => window' \in [PDE -> Page \cup {None}]
<1>1. /\ window \in [PDE -> Page \cup {None}] /\ pd \in [PDE -> Page \cup {None}]
  BY DEF PagingTypeOK
<1>2. \A e \in PDE : TableSeen(e) \in Page \cup {None}
  BY <1>1 DEF TableSeen
<1>3. ASSUME NEW es, Looked(es)
      PROVE  window' \in [PDE -> Page \cup {None}]
  <2>1. window' = [e \in PDE |-> IF e \in es /\ is_present(pd[e]) THEN TableSeen(e)
                                                                ELSE window[e]]
    BY <1>3 DEF Looked
  <2> QED
    BY <1>1, <1>2, <2>1
<1> QED
  BY <1>2, <1>3

(* edit_pte writes one entry of the table that the window shows.            *)
LEMMA EditTyped ==
  ASSUME PagingTypeOK, NEW e \in PDE, NEW p \in PTE, NEW entry \in Content,
         edit_pte(e, p, entry)
  PROVE  /\ table' \in [Page -> [PTE -> Content]]
         /\ \A t \in Page, q \in PTE :
              table'[t][q] = IF t = TableSeen(e) /\ q = p THEN entry ELSE table[t][q]
<1> DEFINE seen == TableSeen(e)
           row == [table[seen] EXCEPT ![p] = entry]
<1>1. table \in [Page -> [PTE -> Content]]
  BY DEF PagingTypeOK, Content
<1>2. table' = [table EXCEPT ![seen] = row]
  BY DEF edit_pte
<1>3. seen \in Page => row \in [PTE -> Content] /\ \A q \in PTE : row[q] = IF q = p THEN entry ELSE table[seen][q]
  BY <1>1
<1> HIDE DEF row, seen
<1>4. table' \in [Page -> [PTE -> Content]]
  BY <1>1, <1>2, <1>3
<1>5. ASSUME NEW t \in Page, NEW q \in PTE
      PROVE  table'[t][q] = IF t = seen /\ q = p THEN entry ELSE table[t][q]
  BY <1>1, <1>2, <1>3, <1>5
<1> QED
  BY <1>4, <1>5 DEF seen

(* A block is its address and its page.                                     *)
LEMMA BlockTyped ==
  ASSUME NEW b \in Block
  PROVE  /\ b = [va |-> b.va, page |-> b.page] /\ b.page \in Page /\ b.va \in Address
         /\ b.va[1] \in PDE /\ b.va[2] \in PTE /\ b.va = <<b.va[1], b.va[2]>>
BY DEF Block, Address

(* An address is the number of a table and that of an entry.                *)
LEMMA AddressTyped ==
  ASSUME NEW a \in Address
  PROVE  a[1] \in PDE /\ a[2] \in PTE /\ a = <<a[1], a[2]>>
BY DEF Address

(* What an address leads to is the content of an entry.                     *)
LEMMA WalkTyped ==
  ASSUME PagingTypeOK, NEW a \in Address
  PROVE  Walk(a) \in Content
<1>1. a[1] \in PDE /\ a[2] \in PTE
  BY AddressTyped
<1>2. pd[a[1]] \in Page \cup {None} /\ table \in [Page -> [PTE -> Content]]
  BY <1>1 DEF PagingTypeOK, Content
<1> QED
  BY <1>1, <1>2 DEF Walk, is_present, Content

(* The searches find what is free.                                          *)
LEMMA FirstFree ==
  /\ find_first_pte_free \subseteq
       {a \in Address : is_present(pd[a[1]]) /\ ~is_present(read_pte(a[1], a[2]))}
  /\ find_first_pde_free \subseteq {e \in PDE : ~is_present(pd[e])}
BY DEF find_first_pte_free, find_first_pde_free, First

-----------------------------------------------------------------------------
(* Types.                                                                   *)

(* Paging starts with no block and nothing lost.                            *)
LEMMA InitPaging == PagingInit => PagingInv
<1> SUFFICES ASSUME PagingInit
             PROVE  PagingInv
  OBVIOUS
<1>1. /\ pd = [e \in PDE |-> None] /\ window = [e \in PDE |-> None]
      /\ tlb = [a \in Address |-> None] /\ live = {} /\ pc = "boot"
      /\ table = [p \in Page |-> [q \in PTE |-> None]]
  BY DEF PagingInit, Flushed, FlushedTlb, NoTable
<1>2. PagingTypeOK
  <2>1. next_page \in 1 .. MaxPage + 1 /\ got \in Page /\ at \in Address
    BY PagingSizes DEF PagingInit
  <2> QED
    BY <1>1, <2>1 DEF PagingInit, PagingTypeOK
<1>3. PagesTyped
  BY <1>1, <1>2 DEF PagingInit, PagesTyped
<1>4. TablesApart /\ BlocksKnown /\ TlbKnown /\ EntriesKnown /\ EmptyKnown
  BY <1>1 DEF TablesApart, BlocksKnown, TlbKnown, EntriesKnown, EmptyKnown, Flushed
<1> QED
  BY <1>3, <1>4 DEF PagingInv

(* Every step keeps the type.                                               *)
LEMMA NextPagesTyped == PagesTyped /\ [PagingNext]_page_vars => PagesTyped'
<1> SUFFICES ASSUME PagesTyped, [PagingNext]_page_vars
             PROVE  PagesTyped'
  OBVIOUS
<1> USE DEF PagesTyped
<1>0. /\ PagingTypeOK /\ next_page \in Nat /\ next_page \in 1 .. MaxPage + 1
      /\ \A e \in PDE : pd[e] \in Page \cup {None} /\ (pd[e] # None => pd[e] < next_page)
  BY PagingSizes DEF PagingTypeOK
<1>1. CASE UNCHANGED page_vars
  BY <1>1 DEF page_vars, PagingTypeOK
<1>2. CASE init_paging
  BY <1>2 DEF init_paging, enable_paging, PagingTypeOK
<1>3. CASE create_task
  <2>1. next_page' \in 1 .. MaxPage + 1
    BY <1>0, <1>3, PagingSizes DEF create_task
  <2>2. pd' \in [PDE -> Page \cup {None}] /\ \A e \in PDE : pd'[e] = None
    BY <1>3 DEF create_task, Flushed
  <2> QED
    BY <1>3, <2>1, <2>2 DEF create_task, enable_paging, PagingTypeOK
<1>4. ASSUME NEW n \in Nums, malloc(n)
      PROVE  PagesTyped'
  <2>1. /\ phisic_alloc(n) \in Page /\ Taken(n) \in 1 .. MaxPage + 1 /\ next_page <= Taken(n)
    BY <1>0, Allocated, PagingSizes
  <2>2. \A e \in PDE : pd[e] # None => pd[e] < Taken(n)
    BY TablesBelow, PagingSizes
  <2> QED
    BY <1>4, <2>1, <2>2 DEF malloc, PagingTypeOK
<1>5. CASE malloc_entry
  <2>1. at' \in Address /\ window' \in [PDE -> Page \cup {None}]
    BY <1>0, <1>5, FirstFree, SeenTyped DEF malloc_entry
  <2> QED
    BY <1>5, <2>1 DEF malloc_entry, PagingTypeOK
<1>6. CASE malloc_table
  <2>1. PICK e \in find_first_pde_free, found \in Found :
          /\ pd' = [pd EXCEPT ![e] = phisic_alloc(1)]
          /\ table' = [table EXCEPT ![phisic_alloc(1)] = found]
          /\ next_page' = Taken(1)
          /\ at' = <<e, 0>>
          /\ lost' = (lost \/ phisic_alloc(1) = Entry0)
    BY <1>6 DEF malloc_table
  <2>2. /\ phisic_alloc(1) \in Page /\ Taken(1) \in 1 .. MaxPage + 1
        /\ next_page <= Taken(1) /\ phisic_alloc(1) < Taken(1)
    BY <1>0, Allocated
  <2>3. e \in PDE /\ at' \in Address
    BY <2>1, FirstFree, PagingSizes DEF Address
  <2>4. found \in [PTE -> Page \cup {None, Junk}]
    BY PagingSizes
  <2>5. pd' \in [PDE -> Page \cup {None}] /\ \A f \in PDE : pd'[f] # None => pd'[f] < next_page'
    <3>1. \A f \in PDE : pd'[f] = IF f = e THEN phisic_alloc(1) ELSE pd[f]
      BY <2>1 DEF PagingTypeOK
    <3>2. \A f \in PDE : pd[f] # None => pd[f] < Taken(1)
      BY TablesBelow
    <3> QED
      BY <2>1, <2>2, <3>1, <3>2 DEF PagingTypeOK
  <2>6. table' \in [Page -> [PTE -> Page \cup {None, Junk}]]
    BY <2>1, <2>2, <2>4 DEF PagingTypeOK
  <2>7. window' \in [PDE -> Page \cup {None}]
    BY <1>0, <1>6, SeenTyped DEF malloc_table
  <2>8. lost' \in BOOLEAN
    BY <2>1
  <2> QED
    BY <1>6, <2>1, <2>2, <2>3, <2>5, <2>6, <2>7, <2>8 DEF malloc_table, PagingTypeOK
<1>7. CASE malloc_null
  <2>1. window' \in [PDE -> Page \cup {None}]
    BY <1>0, <1>7, SeenTyped DEF malloc_null
  <2> QED
    BY <1>7, <2>1, PagingSizes DEF malloc_null, Returned, PagingTypeOK
<1>8. CASE mappage
  <2>1. at[1] \in PDE /\ at[2] \in PTE /\ got \in Page
    BY AddressTyped DEF PagingTypeOK
  <2>2. table' \in [Page -> [PTE -> Page \cup {None, Junk}]]
    BY <1>0, <1>8, <2>1, EditTyped DEF mappage, Content
  <2>3. window' \in [PDE -> Page \cup {None}]
    BY <1>0, <1>8, SeenTyped DEF mappage
  <2>4. [va |-> at, page |-> got] \in Block
    BY DEF PagingTypeOK, Block
  <2>5. lost' \in BOOLEAN
    BY <1>8 DEF mappage
  <2> QED
    BY <1>8, <2>2, <2>3, <2>4, <2>5, PagingSizes DEF mappage, Returned, PagingTypeOK
<1>9. ASSUME NEW b \in live, free(b)
      PROVE  PagesTyped'
  <2>1. b.va[1] \in PDE /\ b.va[2] \in PTE
    BY BlockTyped
  <2>2. /\ pd' \in [PDE -> Page \cup {None}] /\ \A e \in PDE : pd'[e] = pd[e] \/ pd'[e] = None
        /\ table' \in [Page -> [PTE -> Page \cup {None, Junk}]]
    <3>1. CASE Kept(b.va[1], b.va[2])
      <4>1. edit_pte(b.va[1], b.va[2], None) /\ UNCHANGED pd
        BY <1>9, <3>1 DEF free, free_pages
      <4>2. table' \in [Page -> [PTE -> Page \cup {None, Junk}]]
        BY <1>0, <2>1, <4>1, EditTyped DEF Content
      <4> QED
        BY <4>1, <4>2 DEF PagingTypeOK
    <3>2. CASE ~Kept(b.va[1], b.va[2])
      BY <1>9, <2>1, <3>2 DEF free, free_pages, PagingTypeOK
    <3> QED
      BY <3>1, <3>2
  <2>3. window' \in [PDE -> Page \cup {None}]
    BY <1>0, <1>9, SeenTyped DEF free
  <2> QED
    BY <1>9, <2>2, <2>3 DEF free, PagingTypeOK
<1>10. ASSUME NEW b \in live, use(b)
       PROVE  PagesTyped'
  <2>1. Walk(b.va) \in Content
    BY <1>0, BlockTyped, WalkTyped
  <2> QED
    BY <1>10, <2>1 DEF use, PagingTypeOK, Content
<1>11. CASE drop
  BY <1>11 DEF drop, PagingTypeOK
<1>12. CASE task_switch
  BY <1>12 DEF task_switch, enable_paging, Flushed, FlushedTlb, PagingTypeOK
<1> QED
  BY <1>1, <1>2, <1>3, <1>4, <1>5, <1>6, <1>7, <1>8, <1>9, <1>10, <1>11, <1>12
  DEF PagingNext

(* Every variable keeps its type.                                           *)
THEOREM PagingTyped == PagingSpec => []PagingTypeOK
<1>1. PagesTyped => PagingTypeOK
  BY DEF PagesTyped
<1>2. PagingInit => PagesTyped
  BY InitPaging DEF PagingInv
<1> QED
  BY <1>1, <1>2, NextPagesTyped, PTL DEF PagingSpec

-----------------------------------------------------------------------------
(* Blocks and tables.                                                       *)

Sound == TablesApart /\ BlocksKnown /\ TlbKnown /\ EntriesKnown /\ EmptyKnown

(* A block in use is where the tables say.                                  *)
LEMMA BlockHeld ==
  ASSUME PagesTyped, BlocksKnown, NEW b \in live
  PROVE  /\ b.va[1] \in PDE /\ b.va[2] \in PTE /\ b.va = <<b.va[1], b.va[2]>>
         /\ b.va \in Address /\ b.page \in Page
         /\ pd[b.va[1]] # None /\ pd[b.va[1]] \in Page
         /\ table[pd[b.va[1]]][b.va[2]] = b.page
<1>1. /\ b.va[1] \in PDE /\ b.va[2] \in PTE /\ b.va = <<b.va[1], b.va[2]>>
      /\ b.va \in Address /\ b.page \in Page
  BY BlockTyped DEF PagesTyped
<1>2. Walk(b.va) = b.page /\ b.page # None
  BY <1>1, PagingSizes DEF BlocksKnown
<1>3. pd[b.va[1]] # None
  BY <1>2 DEF Walk, is_present
<1>4. table[pd[b.va[1]]][b.va[2]] = b.page
  BY <1>2, <1>3 DEF Walk, is_present
<1> QED
  BY <1>1, <1>3, <1>4 DEF PagesTyped, PagingTypeOK

(* Outside mappage the window shows the tables themselves, and goes on to.  *)
LEMMA WindowTrue ==
  ASSUME PagesTyped, TablesApart, pc # "map"
  PROVE  /\ \A e \in PDE : pd[e] # None => TableSeen(e) = pd[e]
         /\ \A es : Looked(es) =>
              \A e \in PDE : window'[e] # None /\ pd[e] # None => window'[e] = pd[e]
<1>1. \A e \in PDE : window[e] # None /\ pd[e] # None => window[e] = pd[e]
  BY DEF TablesApart
<1>2. \A e \in PDE : pd[e] # None => TableSeen(e) = pd[e]
  BY <1>1 DEF TableSeen
<1>3. ASSUME NEW es, Looked(es), NEW e \in PDE, window'[e] # None, pd[e] # None
      PROVE  window'[e] = pd[e]
  BY <1>1, <1>2, <1>3 DEF Looked
<1> QED
  BY <1>2, <1>3

(* What a step that touches neither the tables nor the blocks leaves.       *)
LEMMA TablesKept ==
  ASSUME Sound, UNCHANGED <<pd, table, live>>
  PROVE  /\ BlocksKnown' /\ EntriesKnown'
         /\ \A e, f \in PDE : pd'[e] = pd'[f] /\ pd'[e] # None => e = f
         /\ UNCHANGED <<tlb, released>> => TlbKnown'
         /\ UNCHANGED last_freed /\ pc # "map" => EmptyKnown'
         /\ UNCHANGED <<last_freed, pc, at>> => EmptyKnown'
<1>1. BlocksKnown' /\ EntriesKnown'
  BY DEF Sound, BlocksKnown, EntriesKnown, Walk
<1>2. \A e, f \in PDE : pd'[e] = pd'[f] /\ pd'[e] # None => e = f
  BY DEF Sound, TablesApart
<1>3. UNCHANGED <<tlb, released>> => TlbKnown'
  BY DEF Sound, TlbKnown
<1>4. UNCHANGED last_freed /\ pc # "map" => EmptyKnown'
  BY DEF Sound, EmptyKnown
<1>5. UNCHANGED <<last_freed, pc, at>> => EmptyKnown'
  BY DEF Sound, EmptyKnown
<1> QED
  BY <1>1, <1>2, <1>3, <1>4, <1>5

(* A free entry of a table belongs to no block yet.                         *)
LEMMA EntryKeepsSound ==
  ASSUME PagesTyped, Sound, malloc_entry
  PROVE  Sound'
<1>1. PICK a \in find_first_pte_free : at' = a /\ Looked(1 .. a[1])
  BY DEF malloc_entry
<1>2. /\ pc = "find" /\ pc' = "map"
      /\ UNCHANGED <<pd, table, tlb, live, released, last_freed>>
  BY DEF malloc_entry
<1>3. a \in Address /\ pd[a[1]] # None /\ read_pte(a[1], a[2]) = None
  BY FirstFree DEF is_present
<1>4. a[1] \in PDE
  BY <1>3, AddressTyped
<1>5. table[pd[a[1]]][a[2]] = None
  BY <1>2, <1>3, <1>4, WindowTrue DEF Sound, read_pte
<1>6. \A b \in live : b.va # a
  BY <1>5, BlockHeld, PagingSizes DEF Sound
<1>7. \A e \in PDE : window'[e] # None /\ pd[e] # None => window'[e] = pd[e]
  BY <1>1, <1>2, WindowTrue DEF Sound
<1>8. TablesApart'
  BY <1>1, <1>2, <1>3, <1>6, <1>7, TablesKept DEF TablesApart
<1> QED
  BY <1>2, <1>8, TablesKept DEF Sound

(* A new table, unless it is lost, is no other block's.                     *)
LEMMA TableKeepsSound ==
  ASSUME PagesTyped, Sound, malloc_table, ~lost'
  PROVE  Sound'
<1> DEFINE t == phisic_alloc(1)
<1>1. PICK e \in find_first_pde_free, found \in Found :
        /\ pd' = [pd EXCEPT ![e] = t]
        /\ table' = [table EXCEPT ![t] = found]
        /\ at' = <<e, 0>>
        /\ lost' = (lost \/ t = Entry0)
        /\ last_freed' = last_freed \ {e}
  BY DEF malloc_table
<1>2. /\ pc = "find" /\ pc' = "map" /\ Looked(PDE)
      /\ UNCHANGED <<tlb, live, released>>
  BY DEF malloc_table
<1>3. e \in PDE /\ pd[e] = None
  BY FirstFree DEF is_present
<1>4. t \in Page /\ t # None /\ \A f \in PDE : pd[f] # None => pd[f] < t /\ pd[f] # t
  <2>1. t \in Page /\ (t = Entry0 \/ t = next_page)
    BY Allocated DEF PagesTyped, PagingTypeOK
  <2>2. t = next_page
    BY <1>1, <2>1
  <2>3. \A f \in PDE : pd[f] # None => pd[f] \in Page
    BY DEF PagesTyped, PagingTypeOK
  <2>4. \A f \in PDE : pd[f] # None => pd[f] < t
    BY <2>2 DEF PagesTyped
  <2> HIDE DEF t
  <2> QED
    BY <2>1, <2>3, <2>4, PagingSizes
<1> HIDE DEF t
<1>5. /\ \A f \in PDE : pd'[f] = IF f = e THEN t ELSE pd[f]
      /\ table'[t] = found
      /\ \A p \in Page \ {t} : table'[p] = table[p]
  BY <1>1, <1>3, <1>4 DEF PagesTyped, PagingTypeOK
<1>6. \A b \in live : b.va[1] # e
  BY <1>3, BlockHeld DEF Sound
<1>7. \A f \in PDE \ {e} : pd'[f] # None =>
        pd'[f] = pd[f] /\ pd[f] # t /\ table'[pd'[f]] = table[pd[f]]
  <2>1. \A f \in PDE : pd[f] # None => pd[f] \in Page
    BY DEF PagesTyped, PagingTypeOK
  <2> QED
    BY <1>4, <1>5, <2>1
<1>8. \A p \in PTE : found[p] \notin Page
  BY PagingSizes
<1>9. TablesApart'
  <2>1. \A f, g \in PDE : pd'[f] = pd'[g] /\ pd'[f] # None => f = g
    BY <1>4, <1>5 DEF Sound, TablesApart
  <2>2. pd'[at'[1]] # None /\ \A b \in live' : b.va # at'
    BY <1>1, <1>2, <1>3, <1>4, <1>5, <1>6
  <2>3. \A f \in PDE : window'[f] # None /\ pd[f] # None => window'[f] = pd[f]
    BY <1>2, WindowTrue DEF Sound
  <2>4. \A f \in PDE : window'[f] # None /\ pd'[f] # None /\ window'[f] # pd'[f] => f = at'[1]
    BY <1>1, <1>5, <2>3
  <2> QED
    BY <1>2, <2>1, <2>2, <2>4 DEF TablesApart
<1>10. BlocksKnown'
  <2>1. \A b \in live : Walk(b.va)' = b.page
    <3> SUFFICES ASSUME NEW b \in live
                 PROVE  Walk(b.va)' = b.page
      OBVIOUS
    <3>1. /\ b.va[1] \in PDE /\ pd[b.va[1]] # None
          /\ table[pd[b.va[1]]][b.va[2]] = b.page
      BY BlockHeld DEF Sound
    <3> QED
      BY <1>5, <1>6, <1>7, <3>1 DEF Walk, is_present
  <2> QED
    BY <1>2, <2>1 DEF Sound, BlocksKnown
<1>11. TlbKnown'
  BY <1>2 DEF Sound, TlbKnown
<1>12. EntriesKnown'
  <2> SUFFICES ASSUME NEW f \in PDE, NEW p \in PTE, pd'[f] # None,
                      table'[pd'[f]][p] \in Page
               PROVE  \E b \in live : b.va = <<f, p>>
    BY <1>2 DEF EntriesKnown
  <2>1. f # e
    BY <1>5, <1>8
  <2> QED
    BY <1>7, <2>1 DEF Sound, EntriesKnown
<1>13. EmptyKnown'
  <2> SUFFICES ASSUME NEW f \in PDE, pd'[f] # None, \A b \in live : b.va[1] # f, f # e
               PROVE  f \in last_freed' \/ \E p \in PTE : table'[pd'[f]][p] = Junk
    BY <1>1, <1>2 DEF EmptyKnown
  <2>1. f \in last_freed \/ \E p \in PTE : table[pd[f]][p] = Junk
    BY <1>2, <1>7 DEF Sound, EmptyKnown
  <2> QED
    BY <1>1, <1>7, <2>1
<1> QED
  BY <1>9, <1>10, <1>11, <1>12, <1>13 DEF Sound

(* Nor is the page that mappage enters.                                     *)
LEMMA MapKeepsSound ==
  ASSUME PagesTyped, Sound, mappage, ~lost'
  PROVE  Sound'
<1> DEFINE e == at[1]
           p == at[2]
<1>0. PICK new : new = [va |-> at, page |-> got]
  OBVIOUS
<1>1. /\ pc = "map" /\ pc' = "idle" /\ edit_pte(e, p, got) /\ Looked({e})
      /\ live' = live \cup {new} /\ TableSeen(e) = pd[e]
      /\ UNCHANGED <<pd, tlb, released, last_freed>>
  BY <1>0 DEF mappage, Returned
<1>2. e \in PDE /\ p \in PTE /\ at = <<e, p>> /\ got \in Page /\ at \in Address
  BY AddressTyped DEF PagesTyped, PagingTypeOK
<1>3. pd[e] # None /\ pd[e] \in Page /\ \A b \in live : b.va # at
  BY <1>1, <1>2 DEF Sound, TablesApart, PagesTyped, PagingTypeOK
<1>4. \A t \in Page, q \in PTE :
        table'[t][q] = IF t = pd[e] /\ q = p THEN got ELSE table[t][q]
  BY <1>1, <1>2, EditTyped DEF PagesTyped, Content
<1>5. /\ new.va = <<e, p>> /\ new.va[1] = e /\ new.va[2] = p
      /\ new.page = got /\ new \in live'
  BY <1>0, <1>1, <1>2
<1> HIDE DEF e, p
<1>6. \A f \in PDE, q \in PTE : pd[f] # None =>
        /\ pd[f] \in Page
        /\ table'[pd[f]][q] = IF f = e /\ q = p THEN got ELSE table[pd[f]][q]
  <2>1. \A f \in PDE : pd[f] # None => pd[f] \in Page /\ (pd[f] = pd[e] => f = e)
    BY <1>2 DEF Sound, TablesApart, PagesTyped, PagingTypeOK
  <2> QED
    BY <1>4, <2>1
<1>7. TablesApart'
  <2>1. \A f \in PDE : window'[f] # None /\ pd[f] # None => window'[f] = pd[f]
    <3> SUFFICES ASSUME NEW f \in PDE, window'[f] # None, pd[f] # None
                 PROVE  window'[f] = pd[f]
      OBVIOUS
    <3>1. window'[f] = IF f \in {e} THEN TableSeen(f) ELSE window[f]
      BY <1>1, <1>3 DEF Looked, is_present
    <3> QED
      BY <1>1, <3>1 DEF Sound, TablesApart, e
  <2> QED
    BY <1>1, <2>1 DEF Sound, TablesApart
<1>8. BlocksKnown'
  <2>1. Walk(new.va)' = new.page
    <3>1. pd'[new.va[1]] # None /\ table'[pd'[new.va[1]]][new.va[2]] = got
      BY <1>1, <1>2, <1>3, <1>5, <1>6
    <3> QED
      BY <1>5, <3>1 DEF Walk, is_present
  <2>2. \A b \in live : Walk(b.va)' = b.page
    <3> SUFFICES ASSUME NEW b \in live
                 PROVE  Walk(b.va)' = b.page
      OBVIOUS
    <3>1. /\ b.va[1] \in PDE /\ b.va[2] \in PTE /\ b.va = <<b.va[1], b.va[2]>>
          /\ pd[b.va[1]] # None /\ table[pd[b.va[1]]][b.va[2]] = b.page
      BY BlockHeld DEF Sound
    <3>2. b.va # <<e, p>>
      BY <1>2, <1>3
    <3>3. table'[pd[b.va[1]]][b.va[2]] = b.page
      BY <1>6, <3>1, <3>2
    <3> QED
      BY <1>1, <3>1, <3>3 DEF Walk, is_present
  <2>3. \A b \in live : b.va # new.va
    BY <1>2, <1>3, <1>5
  <2> QED
    <3>1. \A b \in live' : b = new \/ b \in live
      BY <1>1
    <3>2. \A b, c \in live : c.va = b.va => c = b
      BY DEF Sound, BlocksKnown
    <3>3. \A b, c \in live' : c.va = b.va => c = b
      BY <2>3, <3>1, <3>2
    <3>4. \A b \in live' : Walk(b.va)' = b.page
      BY <2>1, <2>2, <3>1
    <3> QED
      BY <3>3, <3>4 DEF BlocksKnown
<1>9. TlbKnown'
  BY <1>1 DEF Sound, TlbKnown
<1>10. EntriesKnown'
  <2> SUFFICES ASSUME NEW f \in PDE, NEW q \in PTE, pd[f] # None, table'[pd[f]][q] \in Page
               PROVE  \E b \in live' : b.va = <<f, q>>
    BY <1>1 DEF EntriesKnown
  <2>1. CASE f = e /\ q = p
    BY <1>5, <2>1
  <2>2. CASE ~(f = e /\ q = p)
    BY <1>1, <1>6, <2>2 DEF Sound, EntriesKnown
  <2> QED
    BY <2>1, <2>2
<1>11. EmptyKnown'
  <2> SUFFICES ASSUME NEW f \in PDE, pd[f] # None, \A b \in live' : b.va[1] # f
               PROVE  f \in last_freed \/ \E q \in PTE : table'[pd[f]][q] = Junk
    BY <1>1 DEF EmptyKnown
  <2>1. f # e
    BY <1>5
  <2>2. f \in last_freed \/ \E q \in PTE : table[pd[f]][q] = Junk
    BY <1>1, <2>1 DEF Sound, EmptyKnown, e
  <2> QED
    BY <1>6, <2>1, <2>2
<1> QED
  BY <1>7, <1>8, <1>9, <1>10, <1>11 DEF Sound

(* A freed block gives back its own entry and nothing else.                 *)
LEMMA FreeKeepsSound ==
  ASSUME PagesTyped, Sound, NEW b \in live, free(b)
  PROVE  Sound'
<1> DEFINE e == b.va[1]
           p == b.va[2]
<1>1. /\ pc = "idle" /\ pc' = "idle" /\ free_pages(e, p) /\ Looked({e})
      /\ live' = live \ {b} /\ released' = released \cup {b.va}
      /\ last_freed' = IF p = N_PTE - 1 THEN last_freed \cup {e} ELSE last_freed \ {e}
      /\ UNCHANGED tlb
  BY DEF free
<1>2. /\ e \in PDE /\ p \in PTE /\ b.va = <<e, p>>
      /\ pd[e] # None /\ pd[e] \in Page /\ table[pd[e]][p] = b.page
  BY BlockHeld DEF Sound
<1>3. TableSeen(e) = pd[e]
  BY <1>1, <1>2, WindowTrue DEF Sound
<1>4. \A f \in PDE : window'[f] # None /\ pd[f] # None => window'[f] = pd[f]
  BY <1>1, WindowTrue DEF Sound
<1>5. \A c \in live' : /\ c \in live /\ c # b /\ c.va # <<e, p>>
                       /\ c.va[1] \in PDE /\ c.va[2] \in PTE /\ c.va = <<c.va[1], c.va[2]>>
                       /\ pd[c.va[1]] # None /\ table[pd[c.va[1]]][c.va[2]] = c.page
                       /\ c.page # None
  BY <1>1, <1>2, BlockHeld, PagingSizes DEF Sound, BlocksKnown
<1>6. \A f \in PDE, q \in PTE :
        pd[f] # None /\ table[pd[f]][q] \in Page /\ <<f, q>> # <<e, p>>
          => \E c \in live' : c.va = <<f, q>>
  BY <1>1, <1>2 DEF Sound, EntriesKnown
<1>7. TlbKnown'
  BY <1>1 DEF Sound, TlbKnown
<1>8. \A f \in PDE \ {e} : pd[f] # None /\ (\A c \in live' : c.va[1] # f) =>
        f \in last_freed' \/ \E q \in PTE : table[pd[f]][q] = Junk
  BY <1>1 DEF Sound, EmptyKnown
<1>9. ASSUME NEW q \in PTE, table[pd[e]][q] # None, q # p
      PROVE  (\E c \in live' : c.va[1] = e) \/ table[pd[e]][q] = Junk
  <2>1. table[pd[e]][q] \in Page \/ table[pd[e]][q] = Junk
    BY <1>2, <1>9 DEF PagesTyped, PagingTypeOK
  <2>2. CASE table[pd[e]][q] \in Page
    <3> HIDE DEF e, p
    <3>1. PICK c \in live' : c.va = <<e, q>>
      BY <1>2, <1>6, <1>9, <2>2
    <3> QED
      BY <3>1
  <2> QED
    BY <2>1, <2>2
<1> HIDE DEF e, p
<1>10. CASE Kept(e, p)
  <2>1. edit_pte(e, p, None) /\ pd' = pd
    BY <1>1, <1>10 DEF free_pages
  <2>2. \A t \in Page, q \in PTE :
          table'[t][q] = IF t = pd[e] /\ q = p THEN None ELSE table[t][q]
    BY <1>2, <1>3, <2>1, EditTyped DEF PagesTyped, Content
  <2>3. \A f \in PDE, q \in PTE : pd[f] # None =>
          table'[pd[f]][q] = IF f = e /\ q = p THEN None ELSE table[pd[f]][q]
    <3>1. \A f \in PDE : pd[f] # None => pd[f] \in Page /\ (pd[f] = pd[e] => f = e)
      BY <1>2 DEF Sound, TablesApart, PagesTyped, PagingTypeOK
    <3> QED
      BY <2>2, <3>1
  <2>4. TablesApart'
    BY <1>1, <1>4, <2>1 DEF Sound, TablesApart
  <2>5. \A c \in live' : Walk(c.va)' = c.page
    <3> SUFFICES ASSUME NEW c \in live'
                 PROVE  Walk(c.va)' = c.page
      OBVIOUS
    <3>1. table'[pd[c.va[1]]][c.va[2]] = c.page
      BY <1>5, <2>3
    <3> QED
      BY <1>5, <2>1, <3>1 DEF Walk, is_present
  <2>6. BlocksKnown'
    BY <1>5, <2>5 DEF Sound, BlocksKnown
  <2>7. EntriesKnown'
    <3> SUFFICES ASSUME NEW f \in PDE, NEW q \in PTE, pd[f] # None, table'[pd[f]][q] \in Page
                 PROVE  \E c \in live' : c.va = <<f, q>>
      BY <2>1 DEF EntriesKnown
    <3>1. ~(f = e /\ q = p) /\ table[pd[f]][q] \in Page
      BY <2>3, PagingSizes
    <3> QED
      BY <1>6, <3>1
  <2>8. EmptyKnown'
    <3> SUFFICES ASSUME NEW f \in PDE, pd[f] # None, \A c \in live' : c.va[1] # f
                 PROVE  f \in last_freed' \/ \E q \in PTE : table'[pd[f]][q] = Junk
      BY <2>1 DEF EmptyKnown
    <3>1. CASE f # e
      BY <1>8, <2>3, <3>1
    <3>2. CASE f = e /\ p = N_PTE - 1
      BY <1>1, <3>2
    <3>3. CASE f = e /\ p # N_PTE - 1
      <4>1. PICK q \in PTE : q # p /\ table[pd[e]][q] # None
        BY <1>3, <1>10, <3>3, PagingSizes DEF Kept, is_present, read_pte
      <4>2. table[pd[e]][q] = Junk
        BY <1>9, <3>3, <4>1
      <4> QED
        BY <1>2, <2>3, <3>3, <4>1, <4>2
    <3> QED
      BY <3>1, <3>2, <3>3
  <2> QED
    BY <1>7, <2>4, <2>6, <2>7, <2>8 DEF Sound
<1>11. CASE ~Kept(e, p)
  <2>1. pd' = [pd EXCEPT ![e] = None] /\ table' = table
    BY <1>1, <1>11 DEF free_pages
  <2>2. \A f \in PDE : pd'[f] = IF f = e THEN None ELSE pd[f]
    BY <2>1 DEF PagesTyped, PagingTypeOK
  <2>3. \A c \in live' : c.va[1] # e
    <3> SUFFICES ASSUME NEW c \in live', c.va[1] = e
                 PROVE  FALSE
      OBVIOUS
    <3>1. c.va[2] \in PTE \ {p} /\ table[pd[e]][c.va[2]] # None
      BY <1>5
    <3> QED
      BY <1>3, <1>11, <3>1 DEF Kept, is_present, read_pte
  <2>4. TablesApart'
    BY <1>1, <1>4, <2>2 DEF Sound, TablesApart
  <2>5. \A c \in live' : Walk(c.va)' = c.page
    BY <1>5, <2>1, <2>2, <2>3 DEF Walk, is_present
  <2>6. BlocksKnown'
    BY <1>5, <2>5 DEF Sound, BlocksKnown
  <2>7. EntriesKnown'
    BY <1>6, <2>1, <2>2 DEF EntriesKnown
  <2>8. EmptyKnown'
    BY <1>8, <2>1, <2>2 DEF EmptyKnown
  <2> QED
    BY <1>7, <2>4, <2>6, <2>7, <2>8 DEF Sound
<1> QED
  BY <1>10, <1>11

(* Every step keeps the tables sound until a page is lost.                  *)
LEMMA NextSound ==
  ASSUME PagesTyped, Sound, ~lost, [PagingNext]_page_vars, ~lost'
  PROVE  Sound'
<1>1. CASE UNCHANGED page_vars
  <2>1. UNCHANGED <<pd, table, window, tlb, pc, at, live, released, last_freed>>
    BY <1>1 DEF page_vars
  <2>2. TablesApart'
    BY <2>1 DEF Sound, TablesApart
  <2> QED
    BY <2>1, <2>2, TablesKept DEF Sound
<1>2. CASE init_paging
  <2>1. /\ pc = "boot" /\ pc' = "kernel"
        /\ UNCHANGED <<pd, table, window, tlb, at, live, released, last_freed>>
    BY <1>2 DEF init_paging
  <2>2. TablesApart'
    BY <2>1 DEF Sound, TablesApart, Flushed
  <2> QED
    BY <2>1, <2>2, TablesKept DEF Sound
<1>3. CASE create_task
  <2>1. /\ pc = "kernel" /\ pc' = "idle" /\ pd' = Flushed
        /\ UNCHANGED <<table, window, tlb, at, live, released, last_freed>>
    BY <1>3 DEF create_task
  <2>2. pd' = pd
    BY <2>1 DEF Sound, TablesApart
  <2>3. TablesApart'
    BY <2>1, <2>2 DEF Sound, TablesApart
  <2> QED
    BY <2>1, <2>2, <2>3, TablesKept DEF Sound
<1>4. ASSUME NEW n \in Nums, malloc(n)
      PROVE  Sound'
  <2>1. /\ pc = "idle" /\ pc' = "find"
        /\ UNCHANGED <<pd, table, window, tlb, at, live, released, last_freed>>
    BY <1>4 DEF malloc
  <2>2. TablesApart'
    BY <2>1 DEF Sound, TablesApart
  <2> QED
    BY <2>1, <2>2, TablesKept DEF Sound
<1>5. CASE malloc_null
  <2>1. /\ pc = "find" /\ pc' = "idle" /\ Looked(PDE)
        /\ UNCHANGED <<pd, table, tlb, live, released, last_freed>>
    BY <1>5 DEF malloc_null, Returned
  <2>2. \A e \in PDE : window'[e] # None /\ pd[e] # None => window'[e] = pd[e]
    BY <2>1, WindowTrue DEF Sound
  <2>3. TablesApart'
    BY <2>1, <2>2 DEF Sound, TablesApart
  <2> QED
    BY <2>1, <2>3, TablesKept DEF Sound
<1>6. ASSUME NEW b \in live, use(b)
      PROVE  Sound'
  <2>1. /\ tlb' = [tlb EXCEPT ![b.va] = Walk(b.va)]
        /\ UNCHANGED <<pd, table, window, pc, at, live, released, last_freed>>
    BY <1>6 DEF use
  <2>2. TablesApart'
    BY <2>1 DEF Sound, TablesApart
  <2>3. \A a \in Address : tlb'[a] = tlb[a] \/ (a = b.va /\ tlb'[a] = b.page)
    BY <2>1 DEF Sound, BlocksKnown, PagesTyped, PagingTypeOK
  <2>4. TlbKnown'
    BY <2>1, <2>3 DEF Sound, TlbKnown
  <2> QED
    BY <2>1, <2>2, <2>4, TablesKept DEF Sound
<1>7. CASE drop
  <2>1. UNCHANGED <<pd, table, pc, at, live, released, last_freed>>
    BY <1>7 DEF drop
  <2>2. /\ \A e \in PDE : window'[e] = window[e] \/ window'[e] = None
        /\ \A a \in Address : tlb'[a] = tlb[a] \/ tlb'[a] = None
    BY <1>7 DEF drop, PagesTyped, PagingTypeOK
  <2>3. TablesApart'
    BY <2>1, <2>2 DEF Sound, TablesApart
  <2>4. TlbKnown'
    BY <2>1, <2>2 DEF Sound, TlbKnown
  <2> QED
    BY <2>1, <2>3, <2>4, TablesKept DEF Sound
<1>8. CASE task_switch
  <2>1. /\ \A e \in PDE : window'[e] = None
        /\ \A a \in Address : tlb'[a] = None
        /\ UNCHANGED <<pd, table, pc, at, live, last_freed>>
    BY <1>8 DEF task_switch, Flushed, FlushedTlb
  <2>2. TablesApart' /\ TlbKnown'
    BY <2>1 DEF Sound, TablesApart, TlbKnown
  <2> QED
    BY <2>1, <2>2, TablesKept DEF Sound
<1> QED
  BY <1>1, <1>2, <1>3, <1>4, <1>5, <1>6, <1>7, <1>8, EntryKeepsSound,
     TableKeepsSound, MapKeepsSound, FreeKeepsSound DEF PagingNext

(* A lost task stays lost.                                                  *)
LEMMA LostStays == [PagingNext]_page_vars /\ lost => lost'
BY DEF PagingNext, page_vars, init_paging, create_task, malloc, malloc_entry,
       malloc_table, malloc_null, mappage, free, use, drop, task_switch

(* So the whole invariant is inductive.                                     *)
LEMMA NextPaging == PagingInv /\ [PagingNext]_page_vars => PagingInv'
BY NextPagesTyped, NextSound, LostStays DEF PagingInv, Sound

(* The address malloc returned leads to the page it allocated, and to no    *)
(* other, as long as the block is in use; no two blocks have one address    *)
(* (malloc.c:31-86, paging.c:469-512).                                      *)
THEOREM PagingBlocksTranslate == PagingSpec => []BlocksTranslate
<1>1. PagingInv => BlocksTranslate
  BY DEF PagingInv, BlocksKnown, BlocksTranslate
<1> QED
  BY <1>1, InitPaging, NextPaging, PTL DEF PagingSpec

(* The processor and the tables disagree on the page of a block only at an  *)
(* address freed and given out again in one turn of the task                *)
(* (paging.c:500).                                                          *)
THEOREM PagingStale == PagingSpec => []StaleOnlyWhenReused
<1>1. PagingInv => StaleOnlyWhenReused
  <2> SUFFICES ASSUME PagingInv, ~lost, NEW b \in live,
                      tlb[b.va] \notin {None, b.page}
               PROVE  b.va \in released
    BY DEF StaleOnlyWhenReused
  <2>1. b.va \in Address
    BY BlockTyped DEF PagingInv, PagesTyped
  <2>2. TlbKnown /\ BlocksKnown
    BY DEF PagingInv
  <2>3. \A c \in live : c.va = b.va => c = b
    BY <2>2 DEF BlocksKnown
  <2> QED
    BY <2>1, <2>2, <2>3 DEF TlbKnown
<1> QED
  BY <1>1, InitPaging, NextPaging, PTL DEF PagingSpec

(* A table without blocks was given back, but for what it was found to hold *)
(* and for a last block in its last entry (paging.c:482-493).               *)
THEOREM PagingEmptyTables == PagingSpec => []EmptyTablesGone
<1>1. PagingInv => EmptyTablesGone
  <2> SUFFICES ASSUME PagingInv, ~lost, pc = "idle", NEW e \in PDE,
                      is_present(pd[e]), \A b \in live : b.va[1] # e
               PROVE  e \in last_freed \/ Junk \in {table[pd[e]][p] : p \in PTE}
    BY DEF EmptyTablesGone
  <2>1. EmptyKnown
    BY DEF PagingInv
  <2> QED
    BY <2>1 DEF EmptyKnown, is_present
<1> QED
  BY <1>1, InitPaging, NextPaging, PTL DEF PagingSpec
=============================================================================
