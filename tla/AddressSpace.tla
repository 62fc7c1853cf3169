---------------------------- MODULE AddressSpace ----------------------------
(***************************************************************************)
(* What an address space promises a process, page by page.  A page is free *)
(* or holds a cell (a place in some backing store) with a protection, 0    *)
(* while it is only reserved.  A call either grows the space, giving free  *)
(* pages a cell and allocated pages a new protection, or releases one      *)
(* contiguous run of pages.  An allocated page never changes its cell: what*)
(* a process stored at an address stays there until the address is         *)
(* released.                                                               *)
(***************************************************************************)
EXTENDS Naturals

CONSTANTS NPages,     \* highest_address in pages
          Gran,       \* pages of a guard run
          FREE,       \* the mark of a free page
          NOCELL      \* what a guard page holds

VARIABLE page         \* page number -> FREE or [cell, prot]

APages == 0..(NPages - 1)

\* Free pages get a cell, allocated ones keep theirs; any may be committed.
AGrow ==
  \A p \in APages : page[p] # FREE =>
     page'[p] # FREE /\ page'[p].cell = page[p].cell

\* One contiguous run of allocated pages becomes free, nothing else changes.
ARelease ==
  \E lo \in APages : \E hi \in lo..(NPages - 1) :
     /\ \A p \in lo..hi : page[p] # FREE
     /\ page' = [p \in APages |-> IF p \in lo..hi THEN FREE ELSE page[p]]

\* The process ends: every page is released at once.
ADestroy == page' = [p \in APages |-> FREE]

\* Only the guard runs at the two ends are allocated when a process starts,
\* and they hold no cell that can be read.
AInit == page = [p \in APages |-> IF p < Gran \/ p >= NPages - Gran
                                  THEN [cell |-> NOCELL, prot |-> 0] ELSE FREE]

AddressSpaceSpec == AInit /\ [][AGrow \/ ARelease \/ ADestroy]_page
=============================================================================
