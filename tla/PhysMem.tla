------------------------------- MODULE PhysMem -------------------------------
(***************************************************************************)
(* The physical page allocator of mm/phisicmem.c with its two front ends,  *)
(* mm/kmalloc.c and mm/phisicalloc.c.                                      *)
(*                                                                         *)
(* A block is a pair of the number of its first page and its length in     *)
(* pages, in place of a physical address and a count.  An element of the   *)
(* bitmap is 32 pages; the model looks at single pages.                    *)
(*                                                                         *)
(* Nothing here disables the interrupts.  A caller that did (create_task,  *)
(* wait_add_unique) goes through it undisturbed, and so does isr_timer,    *)
(* which frees expired timers; another (add_timer, malloc) may lose the    *)
(* processor anywhere, and the model cuts its call where it tests the      *)
(* flag, marks, enters the list of records and changes it.                 *)
(***************************************************************************)
EXTENDS Naturals, SequencesExt

CONSTANTS
  Task,          (* the tasks that allocate                                 *)
  Preemptible,   (* those of them that call with the interrupts enabled     *)
  Reserved,      (* pages of the kernel image, 256 in init_pages            *)
  KernelPages,   (* KERNEL_MEM_PAGES: kmalloc takes pages below this one    *)
  MaxPages,      (* max_pages_intomem: the pages of the machine             *)
  Records,       (* entries of vett_pages_info, 510                         *)
  Nums           (* the block lengths callers ask for                       *)

ASSUME PhysMemAssumption ==
  /\ Preemptible \subseteq Task
  /\ Reserved \in Nat /\ KernelPages \in Nat /\ MaxPages \in Nat
  /\ 0 < Reserved /\ Reserved <= KernelPages /\ KernelPages <= MaxPages
  /\ Records \in Nat \ {0}
  /\ Nums \subseteq Nat \ {0}

VARIABLES
  bitmap,          (* the set of pages whose bit is 1                       *)
  list,            (* the struct mem_pages_info from punt_first_struct_list *)
                   (* on: the page each is in, the entries it holds         *)
  status_kmalloc,  (* 1 from kmalloc until alloc_pages reads it             *)
  mem_pc,          (* where each task is in a call                          *)
  request,         (* the length it asked for, and by which function        *)
  blocks,          (* the block it has found or gives back; behind it the   *)
                   (* pages found for new structs, innermost call last      *)
  in_list,         (* the tasks inside add_info_pages or dealloc_pages      *)
  owned,           (* history: the blocks callers hold, and who asked       *)
  flag_raced,      (* history: a call came between the setting and the use  *)
                   (* of status_kmalloc by another one                      *)
  scan_raced,      (* history: a call took pages between the search and the *)
                   (* marking of another one                                *)
  list_raced       (* history: a call went into the list while another one  *)
                   (* was between its reading and its last write            *)

races == <<flag_raced, scan_raced, list_raced>>
calls == <<mem_pc, request, blocks, in_list>>
memvars == <<bitmap, list, status_kmalloc, calls, owned, races>>

Page      == 0 .. MaxPages - 1
Static    == MaxPages                 (* info_pages_alloc, in no page        *)
Allocator == {"kmalloc", "phisic_alloc"}
MemPoint  == {"idle", "flag", "scan", "mark", "record", "adding", "freeing"}

(* What an idle task has in its place.                                      *)
NoRequest == [num |-> 0, by |-> "phisic_alloc", from |-> 0, to |-> 0]

PagesOf(b) == b.base .. b.base + b.num - 1

MemInit ==
  /\ bitmap = 0 .. Reserved - 1
  /\ list = <<[at |-> Static, entries |-> <<[base |-> 0, num |-> Reserved]>>]>>
  /\ status_kmalloc = 0
  /\ mem_pc = [t \in Task |-> "idle"]
  /\ request = [t \in Task |-> NoRequest]
  /\ blocks = [t \in Task |-> <<>>]
  /\ in_list = {}
  /\ owned = {}
  /\ flag_raced = FALSE /\ scan_raced = FALSE /\ list_raced = FALSE

-----------------------------------------------------------------------------
(* A task whose interrupts are disabled is not interrupted.                 *)
MayRun(t) == \A u \in Task \ (Preemptible \cup {t}) : mem_pc[u] = "idle"

(* The records are still memory of the allocator: where a caller's block    *)
(* overlaps one, what the caller writes decides what the allocator does     *)
(* next, and where a struct was put on another one the list is a ring; the  *)
(* model ends in both cases.                                                *)
RecordsIntact ==
  /\ \A i \in DOMAIN list : \A b \in owned : list[i].at \notin PagesOf(b.block)
  /\ \A i, j \in DOMAIN list : list[i].at = list[j].at => i = j

(* Once two callers may hold the same page, or two calls have worked in the *)
(* list at once, the model ends as well.                                    *)
At(t, point) ==
  /\ mem_pc[t] = point /\ MayRun(t)
  /\ RecordsIntact /\ ~scan_raced /\ ~list_raced

(* Another task is at that point of its call.                               *)
Behind(t, point) == \E u \in Task \ {t} : mem_pc[u] = point

GoTo(t, point) == mem_pc' = [mem_pc EXCEPT ![t] = point]

(* The outermost call returns: its variables are gone.                      *)
Return(t) ==
  /\ GoTo(t, "idle")
  /\ request' = [request EXCEPT ![t] = NoRequest]
  /\ blocks' = [blocks EXCEPT ![t] = <<>>]
  /\ in_list' = in_list \ {t}

(* list_info_pages is set to the first struct, and its index is read.       *)
EnterList(t) ==
  /\ in_list' = in_list \cup {t}
  /\ list_raced' = (list_raced \/ in_list \ {t} # {})

(* A call of alloc_pages for n pages begins.                                *)
Call(t, n, by) ==
  /\ request' = [request EXCEPT ![t] = [@ EXCEPT !.num = n, !.by = by]]
  /\ flag_raced' = (flag_raced \/ Behind(t, "flag"))
  /\ GoTo(t, "flag")

(* kmalloc up to its call of alloc_pages.                                   *)
kmalloc(t, n) ==
  /\ At(t, "idle")
  /\ status_kmalloc' = 1
  /\ Call(t, n, "kmalloc")
  /\ UNCHANGED <<bitmap, list, blocks, in_list, owned, scan_raced, list_raced>>

(* phisic_alloc up to its call of alloc_pages.                              *)
phisic_alloc(t, n) ==
  /\ At(t, "idle")
  /\ Call(t, n, "phisic_alloc")
  /\ UNCHANGED <<bitmap, list, status_kmalloc, blocks, in_list, owned,
                 scan_raced, list_raced>>

(* Faulty variant: the flag is not reset.                                   *)
alloc_flag_kept(t) ==
  /\ At(t, "flag")
  /\ request' = [request EXCEPT ![t] =
       IF status_kmalloc = 1
       THEN [@ EXCEPT !.from = 0, !.to = KernelPages - 1]
       ELSE [@ EXCEPT !.from = KernelPages, !.to = MaxPages - 1]]
  /\ GoTo(t, "scan")
  /\ UNCHANGED <<bitmap, list, status_kmalloc, blocks, in_list, owned, races>>

(* alloc_pages: the flag decides which pages are searched, and is reset.    *)
alloc_flag(t) ==
  /\ At(t, "flag")
  /\ request' = [request EXCEPT ![t] =
       IF status_kmalloc = 1
       THEN [@ EXCEPT !.from = 0, !.to = KernelPages - 1]
       ELSE [@ EXCEPT !.from = KernelPages, !.to = MaxPages - 1]]
  /\ status_kmalloc' = 0
  /\ GoTo(t, "scan")
  /\ UNCHANGED <<bitmap, list, blocks, in_list, owned, races>>

(* Faulty variant: the base is computed without the 1 added to j.           *)
FirstFit_off_by_one(from, to, n) ==
  LET fits == {b \in from .. to : b + n - 1 <= to
                                  /\ (b .. b + n - 1) \cap bitmap = {}}
  IN {b - 1 : b \in {c \in fits : \A d \in fits : c <= d}}

(* The base of the first n free pages in a row from page from to page to,   *)
(* as a set that is empty if there are none.                                *)
FirstFit(from, to, n) ==
  LET fits == {b \in from .. to : b + n - 1 <= to
                                  /\ (b .. b + n - 1) \cap bitmap = {}}
  IN {b \in fits : \A c \in fits : b <= c}

(* The new structs of a call that found the first block and, for its record *)
(* and the records of the pages that followed, the others.                  *)
Structs(found) ==
  [i \in 1 .. Len(found) - 1 |-> [at |-> found[i + 1].base, entries |-> <<found[i]>>]]

(* add_info_pages returns, through all the calls it is nested in: each page *)
(* becomes the struct that holds the record before it and goes to the head  *)
(* of the list, and the caller has its block.                               *)
Unwind(t, records) ==
  /\ list' = Structs(blocks[t]) \o records
  /\ owned' = owned \cup {[block |-> blocks[t][1], by |-> request[t].by]}
  /\ Return(t)

(* alloc_pages: the search.  The NULL it returns when it finds nothing goes *)
(* to the caller, or to the add_info_pages that wanted a page: that one     *)
(* drops its record with a message.                                         *)
alloc_scan(t) ==
  LET r == request[t]
      found == FirstFit(r.from, r.to, r.num)
  IN /\ At(t, "scan")
     /\ \/ /\ found = {} /\ t \notin in_list
           /\ Return(t)
           /\ UNCHANGED <<list, owned, scan_raced>>
        \/ /\ found = {} /\ t \in in_list
           /\ Unwind(t, list)
           /\ UNCHANGED scan_raced
        \/ \E b \in found :
             /\ blocks' = [blocks EXCEPT ![t] = Append(@, [base |-> b, num |-> r.num])]
             /\ GoTo(t, "mark")
             /\ scan_raced' = (scan_raced \/ Behind(t, "mark"))
             /\ UNCHANGED <<list, owned, request, in_list>>
     /\ UNCHANGED <<bitmap, status_kmalloc, flag_raced, list_raced>>

(* alloc_pages: the bits of the block are set.                              *)
alloc_mark(t) ==
  /\ At(t, "mark")
  /\ bitmap' = bitmap \cup PagesOf(Last(blocks[t]))
  /\ GoTo(t, "record")
  /\ UNCHANGED <<list, status_kmalloc, request, blocks, in_list, owned, races>>

(* add_info_pages looks at the first struct.  If it is full, alloc_pages is *)
(* called for a page for a new one: it reads and resets status_kmalloc like *)
(* any other call, and what it finds it records with add_info_pages.        *)
add_info_pages(t) ==
  /\ At(t, "record")
  /\ EnterList(t)
  /\ \/ /\ Len(list[1].entries) < Records
        /\ GoTo(t, "adding")
        /\ UNCHANGED <<request, flag_raced>>
     \/ /\ Len(list[1].entries) >= Records
        /\ Call(t, 1, request[t].by)
  /\ UNCHANGED <<bitmap, list, status_kmalloc, blocks, owned, scan_raced>>

(* add_info_pages: the entry at the index, and the index.                   *)
add_entry(t) ==
  /\ At(t, "adding")
  /\ Unwind(t, [list EXCEPT ![1].entries = Append(@, Last(blocks[t]))])
  /\ UNCHANGED <<bitmap, status_kmalloc, races>>

-----------------------------------------------------------------------------
(* The entry dealloc_pages stops at, as a set of positions <<i, k>>: index  *)
(* 0 of the structs after the first is never looked at.                     *)
Found(base) ==
  LET hits == {h \in (DOMAIN list) \X (1 .. Records) :
                 /\ h[2] \in DOMAIN list[h[1]].entries
                 /\ h[1] > 1 => h[2] > 1
                 /\ list[h[1]].entries[h[2]].base = base}
  IN {h \in hits : \A g \in hits : h[1] < g[1] \/ (h[1] = g[1] /\ h[2] <= g[2])}

(* Faulty variant: the last entry is dropped, whichever was asked for.      *)
WithoutEntry_last(s, k) == SubSeq(s, 1, Len(s) - 1)

(* The entries behind entry k are shifted down by one.                      *)
WithoutEntry(s, k) == RemoveAt(s, k)

(* dealloc_pages, by kfree or phisic_free, of a block a caller holds.       *)
dealloc_pages(t, o) ==
  /\ At(t, "idle")
  /\ EnterList(t)
  /\ owned' = owned \ {o}
  /\ blocks' = [blocks EXCEPT ![t] = <<o.block>>]
  /\ GoTo(t, "freeing")
  /\ UNCHANGED <<bitmap, list, status_kmalloc, request, flag_raced, scan_raced>>

(* dealloc_pages after its search.  The loop that looks for the entry ends  *)
(* before it reads the entry's length, so no bit of the block is cleared.   *)
(* A struct whose only entry is asked for has the bit of its own page       *)
(* flipped, but stays at the head of the list and keeps the entry.  No      *)
(* entry found: a message.                                                  *)
dealloc_entry(t) ==
  /\ At(t, "freeing")
  /\ LET base == blocks[t][1].base
     IN \/ /\ Found(base) = {}
           /\ UNCHANGED <<bitmap, list>>
        \/ \E i \in DOMAIN list, k \in 1 .. Records :
             /\ <<i, k>> \in Found(base)
             /\ IF Len(list[i].entries) = 1 /\ i < Len(list)
                THEN /\ bitmap' = IF list[i].at \in bitmap
                                  THEN bitmap \ {list[i].at}
                                  ELSE bitmap \cup {list[i].at}
                     /\ UNCHANGED list
                ELSE /\ list' = [list EXCEPT ![i].entries = WithoutEntry(@, k)]
                     /\ UNCHANGED bitmap
  /\ Return(t)
  /\ UNCHANGED <<status_kmalloc, owned, races>>

MemNext ==
  \E t \in Task :
    \/ \E n \in Nums : kmalloc(t, n) \/ phisic_alloc(t, n)
    \/ alloc_flag(t)
    \/ alloc_scan(t)
    \/ alloc_mark(t)
    \/ add_info_pages(t)
    \/ add_entry(t)
    \/ \E o \in owned : dealloc_pages(t, o)
    \/ dealloc_entry(t)

MemSpec == MemInit /\ [][MemNext]_memvars

-----------------------------------------------------------------------------
Block == [base : Page, num : Nums \cup {1}]

MemTypeOK ==
  /\ bitmap \subseteq Page
  /\ \A i \in DOMAIN list :
       /\ list[i].at \in Page \cup {Static}
       /\ Len(list[i].entries) \in 0 .. Records
  /\ status_kmalloc \in {0, 1}
  /\ mem_pc \in [Task -> MemPoint]
  /\ \A t \in Task :
       /\ request[t].num \in Nat /\ request[t].by \in Allocator
       /\ \A i \in DOMAIN blocks[t] : blocks[t][i] \in Block
  /\ in_list \subseteq Task
  /\ \A o \in owned : o.block \in Block /\ o.by \in Allocator

(* No page is given to two callers, and no page that a caller holds is free *)
(* for another allocation: first fit across the elements of the bitmap, the *)
(* marking and every order of deallocations respect the blocks in use.  The *)
(* one way to lose this is a call that takes pages between the search and   *)
(* the marking of another (phisicmem.c:239-261, interrupts enabled).        *)
BlocksDisjoint ==
  ~scan_raced =>
    /\ \A o \in owned : PagesOf(o.block) \subseteq bitmap
    /\ \A o, q \in owned : o # q => PagesOf(o.block) \cap PagesOf(q.block) = {}

(* What there should be records of: the kernel image and the blocks that    *)
(* callers hold or are giving back.                                         *)
BlocksHeld ==
  {[base |-> 0, num |-> Reserved]} \cup {o.block : o \in owned}
    \cup {blocks[t][1] : t \in {u \in Task : mem_pc[u] = "freeing"}}

(* As long as one struct holds the entries they are these blocks, once      *)
(* each; a block is missing only if the struct was full and no page was     *)
(* left for another, so a kfree finds its block.  This ends when a call     *)
(* goes into the list while another is inside (phisicmem.c:286-313,         *)
(* 360-487, interrupts enabled), and a nested call that reads another's     *)
(* status_kmalloc looks for its page among the kernel's.                    *)
RecordsAreBlocks ==
  Len(list) = 1 /\ ~scan_raced /\ ~list_raced =>
    LET recorded == Range(list[1].entries)
    IN /\ recorded \subseteq BlocksHeld
       /\ Cardinality(recorded) = Len(list[1].entries)
       /\ \/ BlocksHeld \subseteq recorded
          \/ KernelPages .. MaxPages - 1 \subseteq bitmap
          \/ flag_raced

(* "Faccio in modo che le allocazioni del kernel avvengano solo nel suo     *)
(* spazio riservato ... Mentre tutte le altre allocazioni nella bitmap      *)
(* vengono effettuate fuori dall' area riservata al kernel" (phisicmem.c):  *)
(* true until a call, one for a struct included, comes between the setting  *)
(* and the use of the flag by another one (kmalloc.c:46, phisicmem.c:174).  *)
AreasApart ==
  ~flag_raced =>
  \A o \in owned :
    o.by = "kmalloc" <=> PagesOf(o.block) \subseteq 0 .. KernelPages - 1

-----------------------------------------------------------------------------
(* What comments of the code say, and the code does not do.                 *)

(* "Questa funzione si occupa della liberazione delle pagine occupate che   *)
(* diventeranno nuovamente libere" (dealloc_pages).                         *)
PagesBecomeFree ==
  [][\A t \in Task : mem_pc[t] = "freeing" /\ mem_pc'[t] = "idle"
       => PagesOf(blocks[t][1]) \cap bitmap' = {}]_memvars
=============================================================================
