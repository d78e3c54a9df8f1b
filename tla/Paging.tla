-------------------------------- MODULE Paging --------------------------------
(***************************************************************************)
(* malloc and free of a task: mm/malloc.c over mm/paging.c, in the address *)
(* space that create_task (task/task.c) gives it.                          *)
(*                                                                         *)
(* A page directory leads to page tables, a table to pages.  The code      *)
(* reads and writes the tables through a window, the last entry of the     *)
(* directory, which points to the directory itself.  The processor keeps   *)
(* translations until the task switch loads CR3 again: tlb those of the    *)
(* task's addresses, window those of its tables.  Nothing else flushes     *)
(* them.  Physical pages are handed out in increasing order and never come *)
(* back (see PhysMem); page 0 is the NULL of an allocator with none left.  *)
(* A task may lose the processor between the steps of malloc.              *)
(***************************************************************************)
EXTENDS Naturals, FiniteSets

CONSTANTS
  N_PDE,       (* entries of a page directory, 1024                         *)
  N_PTE,       (* entries of a page table, 1024                             *)
  MaxPage,     (* the physical pages are 1 .. MaxPage                       *)
  Nums,        (* pages of the blocks asked for                             *)
  Found        (* what a new page table may hold: it is not cleared         *)

Entry0 == 0                    (* page 0                                    *)
None == MaxPage + 1            (* an entry that is not PRESENT              *)
Junk == MaxPage + 2            (* a PRESENT entry nobody wrote              *)

PTE == 0 .. N_PTE - 1
PDE == 1 .. N_PDE - 2          (* 0 maps the kernel and is full, the last   *)
                               (* one is the window                         *)
Page == 0 .. MaxPage
Address == PDE \X PTE

ASSUME PagingAssumption ==
  /\ N_PDE \in Nat /\ N_PDE > 2 /\ N_PTE \in Nat /\ N_PTE > 1
  /\ MaxPage \in Nat /\ Nums \subseteq Nat \ {0}
  /\ Found \subseteq [PTE -> {None, Junk}]

VARIABLES
  paging,      (* bit PG of CR0                                             *)
  next_page,   (* the first physical page not yet allocated                 *)
  pd,          (* PDBR of the task: the page table of each entry            *)
  table,       (* the contents of the pages used as tables                  *)
  window, tlb, (* translations the processor holds                          *)
  pc, got, at, (* malloc: where it is, its physical page and address        *)
  live,        (* history: the blocks in use                                *)
  released,    (* history: addresses freed since the last task switch       *)
  last_freed,  (* history: tables whose last block was in the last entry    *)
  lost         (* history: NULL was taken for a table, or a table was       *)
               (* written through the translation of an earlier one         *)

page_vars == <<paging, next_page, pd, table, window, tlb, pc, got, at, live,
               released, last_freed, lost>>

NoTable == [p \in PTE |-> None]
Flushed == [e \in PDE |-> None]
FlushedTlb == [a \in Address |-> None]

PagingInit ==
  /\ paging = FALSE /\ next_page = 1
  /\ pd = Flushed /\ table = [p \in Page |-> NoTable]
  /\ window = Flushed /\ tlb = FlushedTlb
  /\ pc = "boot" /\ got = 0 /\ at = <<1, 0>>
  /\ live = {} /\ released = {} /\ last_freed = {} /\ lost = FALSE

enable_paging(pg) == TRUE
disable_paging(pg) == ~pg      (* the bit is inverted, not cleared          *)

(* init_paging, run by main on the directory of the kernel.                 *)
init_paging ==
  /\ pc = "boot"
  /\ paging' = enable_paging(paging) /\ pc' = "kernel"
  /\ UNCHANGED <<next_page, pd, table, window, tlb, got, at, live, released,
                 last_freed, lost>>

(* The address space of a new task: a directory and the table of the kernel *)
(* are allocated, the other entries are not present.                        *)
create_task ==
  /\ pc = "kernel" /\ next_page + 1 <= MaxPage
  /\ paging' = enable_paging(disable_paging(paging))
  /\ next_page' = next_page + 2
  /\ pd' = Flushed
  /\ pc' = "idle"
  /\ UNCHANGED <<table, window, tlb, got, at, live, released, last_freed, lost>>

-----------------------------------------------------------------------------
phisic_alloc(n) == IF next_page + n - 1 <= MaxPage THEN next_page ELSE Entry0
Taken(n) == IF next_page + n - 1 <= MaxPage THEN next_page + n ELSE next_page

is_present(entry) == entry # None

(* The table that the window shows of an entry of the directory.            *)
TableSeen(e) == IF window[e] # None THEN window[e] ELSE pd[e]
read_pte(e, p) == table[TableSeen(e)][p]
edit_pte(e, p, entry) == table' = [table EXCEPT ![TableSeen(e)][p] = entry]

(* The window holds the tables of the entries that were looked at.          *)
Looked(es) ==
  window' = [e \in PDE |-> IF e \in es /\ is_present(pd[e]) THEN TableSeen(e) ELSE window[e]]

Before(a, b) == a[1] < b[1] \/ (a[1] = b[1] /\ a[2] <= b[2])
First(as) == {a \in as : \A b \in as : Before(a, b)}

(* As a set, empty when every table is full.                                *)
find_first_pte_free ==
  First({a \in Address : is_present(pd[a[1]]) /\ ~is_present(read_pte(a[1], a[2]))})

find_first_pde_free ==
  LET free == {e \in PDE : ~is_present(pd[e])}
  IN {e \in free : \A f \in free : e <= f}

(* malloc returns: its variables are gone.                                  *)
Returned == pc' = "idle" /\ got' = 0 /\ at' = <<1, 0>>

(* malloc allocates the physical block, and does not test it for NULL.      *)
malloc(n) ==
  /\ pc = "idle" /\ ~lost
  /\ got' = phisic_alloc(n) /\ next_page' = Taken(n)
  /\ pc' = "find"
  /\ UNCHANGED <<paging, pd, table, window, tlb, at, live, released, last_freed, lost>>

(* A free entry of a table is found ...                                     *)
malloc_entry ==
  /\ pc = "find"
  /\ \E a \in find_first_pte_free :
       /\ at' = a
       /\ Looked(1 .. a[1])
  /\ pc' = "map"
  /\ UNCHANGED <<paging, next_page, pd, table, tlb, got, live, released, last_freed, lost>>

(* ... or a table is added, with whatever its page held, and its entry 0    *)
(* taken ...                                                                *)
malloc_table ==
  /\ pc = "find" /\ find_first_pte_free = {}
  /\ \E e \in find_first_pde_free, found \in Found :
       LET t == phisic_alloc(1) IN
       /\ pd' = [pd EXCEPT ![e] = t]
       /\ table' = [table EXCEPT ![t] = found]
       /\ next_page' = Taken(1)
       /\ at' = <<e, 0>>
       /\ lost' = (lost \/ t = Entry0)
       /\ last_freed' = last_freed \ {e}
  /\ Looked(PDE)
  /\ pc' = "map"
  /\ UNCHANGED <<paging, tlb, got, live, released>>

(* ... or the directory is full, and the block is left behind.              *)
malloc_null ==
  /\ pc = "find" /\ find_first_pte_free = {} /\ find_first_pde_free = {}
  /\ Looked(PDE)
  /\ Returned
  /\ UNCHANGED <<paging, next_page, pd, table, tlb, live, released, last_freed, lost>>

(* mappage enters the first page of the block, and only that one.           *)
mappage ==
  /\ pc = "map"
  /\ edit_pte(at[1], at[2], got)
  /\ Looked({at[1]})
  /\ live' = live \cup {[va |-> at, page |-> got]}
  /\ lost' = (lost \/ TableSeen(at[1]) # pd[at[1]])
  /\ Returned
  /\ UNCHANGED <<paging, next_page, pd, tlb, released, last_freed>>

-----------------------------------------------------------------------------
(* Faulty variant: the scan of the table stops before its last entry.       *)
Kept_short(e, p) == \E i \in PTE \ {p, N_PTE - 1} : is_present(read_pte(e, i))

(* free_pages keeps the table if the scan ended on a present entry other    *)
(* than p.  The scan that found none ends past the last entry with that     *)
(* entry's value: the last entry keeps the table of its own block.          *)
Kept(e, p) ==
  \/ \E i \in PTE \ {p} : is_present(read_pte(e, i))
  \/ is_present(read_pte(e, N_PTE - 1))

(* Faulty variant: an entry is cleared, its table never given back.         *)
free_pages_keeps_table(e, p) ==
  edit_pte(e, p, None) /\ UNCHANGED pd

(* phisic_free gives nothing back to the bitmap, and no invlpg follows.     *)
free_pages(e, p) ==
  IF Kept(e, p)
  THEN edit_pte(e, p, None) /\ UNCHANGED pd
  ELSE pd' = [pd EXCEPT ![e] = None] /\ UNCHANGED table

free(b) ==
  LET e == b.va[1]  p == b.va[2] IN
  /\ pc = "idle" /\ ~lost
  /\ free_pages(e, p)
  /\ Looked({e})
  /\ live' = live \ {b}
  /\ released' = released \cup {b.va}
  /\ last_freed' = IF p = N_PTE - 1 THEN last_freed \cup {e} ELSE last_freed \ {e}
  /\ UNCHANGED <<paging, next_page, tlb, pc, got, at, lost>>

(* The processor's own walk through the directory and the table.            *)
Walk(a) == IF is_present(pd[a[1]]) THEN table[pd[a[1]]][a[2]] ELSE None

(* The task uses a block: the processor keeps the translation.              *)
use(b) ==
  /\ paging /\ pc = "idle" /\ ~lost
  /\ tlb[b.va] = None /\ tlb' = [tlb EXCEPT ![b.va] = Walk(b.va)]
  /\ UNCHANGED <<paging, next_page, pd, table, window, pc, got, at, live,
                 released, last_freed, lost>>

(* The processor may drop a translation at any time.                        *)
drop ==
  /\ \/ \E a \in Address : tlb[a] # None /\ tlb' = [tlb EXCEPT ![a] = None] /\ UNCHANGED window
     \/ \E e \in PDE : window[e] # None /\ window' = [window EXCEPT ![e] = None] /\ UNCHANGED tlb
  /\ UNCHANGED <<paging, next_page, pd, table, pc, got, at, live, released,
                 last_freed, lost>>

(* Faulty variant: CR3 is not loaded.                                       *)
task_switch_keeps_cr3 ==
  /\ pc \notin {"boot", "kernel"}
  /\ paging' = enable_paging(disable_paging(paging))
  /\ released' = {}
  /\ UNCHANGED <<next_page, pd, table, window, tlb, pc, got, at, live,
                 last_freed, lost>>

(* The scheduler switches to other tasks and back: paging off, CR3 loaded,  *)
(* paging on.                                                               *)
task_switch ==
  /\ pc \notin {"boot", "kernel"}
  /\ paging' = enable_paging(disable_paging(paging))
  /\ window' = Flushed /\ tlb' = FlushedTlb
  /\ released' = {}
  /\ UNCHANGED <<next_page, pd, table, pc, got, at, live, last_freed, lost>>

PagingNext ==
  \/ init_paging \/ create_task
  \/ \E n \in Nums : malloc(n)
  \/ malloc_entry \/ malloc_table \/ malloc_null \/ mappage
  \/ \E b \in live : free(b)
  \/ \E b \in live : use(b)
  \/ drop \/ task_switch

PagingSpec == PagingInit /\ [][PagingNext]_page_vars

-----------------------------------------------------------------------------
PagingTypeOK ==
  /\ paging \in BOOLEAN /\ next_page \in 1 .. MaxPage + 1
  /\ pd \in [PDE -> Page \cup {None}] /\ window \in [PDE -> Page \cup {None}]
  /\ table \in [Page -> [PTE -> Page \cup {None, Junk}]]
  /\ tlb \in [Address -> Page \cup {None, Junk}]
  /\ pc \in {"boot", "kernel", "idle", "find", "map"}
  /\ got \in Page /\ at \in Address

(* The address malloc returned leads, in the tables, to the physical page   *)
(* malloc allocated (malloc.c:31-33), and to no other as long as the block  *)
(* is in use; so no two blocks have one address.  This needs that no table  *)
(* was written through the translation of an earlier one.                   *)
BlocksTranslate ==
  ~lost => \A b \in live :
             /\ Walk(b.va) = b.page
             /\ \A c \in live : c.va = b.va => c = b

(* The processor reaches another page than the tables say only at an        *)
(* address that was freed and given out again within one turn of the task:  *)
(* free_pages leaves the translation (paging.c:500).                        *)
StaleOnlyWhenReused ==
  ~lost => \A b \in live : tlb[b.va] \notin {None, b.page} => b.va \in released

(* A table without blocks is given back, unless it holds entries it was     *)
(* found with, or its last block was that of its last entry, which the scan *)
(* of free_pages takes for another one (paging.c:482-493).                  *)
EmptyTablesGone ==
  ~lost /\ pc = "idle" =>
    \A e \in PDE : 
      is_present(pd[e]) /\ (\A b \in live : b.va[1] # e) =>
        e \in last_freed \/ Junk \in {table[pd[e]][p] : p \in PTE}
=============================================================================
