-------------------------------- MODULE MCPaging --------------------------------
(* Instance of Paging for TLC: two tables of two entries, which are all taken *)
(* and given back, and fewer physical pages than the calls ask for.           *)
EXTENDS Paging

MCFound == [PTE -> {None}] \cup {[p \in PTE |-> IF p = 1 THEN Junk ELSE None]}
=============================================================================
