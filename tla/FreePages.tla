----------------------------- MODULE FreePages -----------------------------
(***************************************************************************)
(* The physical page allocator (pmm.c): one freelist of pages linked      *)
(* through their first word, shared by both harts under page_lock.  Every *)
(* operation holds the lock from start to end, so each is one step here.  *)
(* A page is its page number (address / PGSIZE), so physically adjacent   *)
(* pages differ by 1; NULL is 0, below the managed region.                *)
(*                                                                         *)
(* The callers: elf_alloc_mb (elf.c) takes one page or a contiguous pair *)
(* and panics on NULL; alloc_process, alloc_n_page and allocate_page take *)
(* one page and use it unchecked; user free_page gives a page back.       *)
(***************************************************************************)
EXTENDS Naturals, Sequences, SequencesExt, Bags, BagsExt

CONSTANTS
  FirstPage,   \* free_mem_start_addr / PGSIZE
  EndPage,     \* free_mem_end_addr / PGSIZE (not included)
  MaxNullUses  \* bound on NULL pages handed out, each one a further step

ASSUME /\ FirstPage \in Nat \ {0} /\ EndPage \in Nat /\ FirstPage < EndPage
       /\ MaxNullUses \in Nat

NULL == 0

VARIABLES
  freeList,    \* g_free_mem_list.next, then the next links: head first
  held,        \* bag of the pages the kernel has been handed (NULL included)
  halt         \* "none", or why the kernel stopped

vars == <<freeList, held, halt>>

\* The pages create_freepage_list puts on the list: p + PGSIZE < end.
Managed == {p \in FirstPage .. EndPage - 1 : p + 1 < EndPage}

\* create_freepage_list: free_page of every page in ascending order, each
\* pushed at the head, so the list is descending.
Init ==
  /\ freeList = [i \in 1 .. Cardinality(Managed) |-> EndPage - 1 - i]
  /\ held = EmptyBag
  /\ halt = "none"

Running == halt = "none"

\* alloc_page: pop the head, or return NULL (n == 0) on an empty list.
AllocPageResult == IF freeList = <<>> THEN NULL ELSE Head(freeList)

AllocPageList == IF freeList = <<>> THEN <<>> ELSE Tail(freeList)

\* alloc_two_page: n starts at the first node and moves on while the two
\* nodes after it exist and are not adjacent; the pair returned is
\* (n->next->next, n->next), the lower page first.  n->next->next is read
\* before anything is checked, so fewer than two nodes is a NULL deref.
RECURSIVE PairScan(_, _)
PairScan(s, i) ==
  IF i + 2 <= Len(s) /\ s[i + 1] - 1 # s[i + 2] THEN PairScan(s, i + 1) ELSE i

AllocTwo ==
  IF Len(freeList) < 2 THEN halt' = "null_deref" /\ UNCHANGED <<freeList, held>>
  ELSE LET i == PairScan(freeList, 1)
       IN  IF i + 2 > Len(freeList)
           THEN halt' = "panic_alloc_two" /\ UNCHANGED <<freeList, held>>
           ELSE /\ held' = BagAdd(BagAdd(held, freeList[i + 2]), freeList[i + 1])
                /\ freeList' = SubSeq(freeList, 1, i) \o
                               SubSeq(freeList, i + 3, Len(freeList))
                /\ UNCHANGED halt

-----------------------------------------------------------------------------
(* Callers                                                                *)

\* alloc_process, alloc_n_page, sys_user_allocate_page: the result is used
\* as a page whether or not it is NULL.
AllocPage ==
  /\ Running
  /\ AllocPageResult = NULL => CopiesIn(NULL, held) < MaxNullUses
  /\ held' = BagAdd(held, AllocPageResult)
  /\ freeList' = AllocPageList
  /\ UNCHANGED halt

\* elf_alloc_mb for a segment of one page: alloc_page (AllocPage), then,
\* after page_lock is released, the panic when the page it got is NULL.
\* Other callers may push pages meanwhile, so the list need not be empty.
ElfAllocOne ==
  /\ Running
  /\ BagIn(NULL, held)
  /\ halt' = "panic_elf_alloc"
  /\ UNCHANGED <<freeList, held>>

\* elf_alloc_mb for a segment of two pages.
ElfAllocTwo ==
  /\ Running
  /\ AllocTwo

\* free_page: panics on a page outside the region, else pushes it.
FreePage(p) ==
  /\ Running
  /\ BagIn(p, held)
  /\ held' = BagRemove(held, p)
  /\ IF p < FirstPage \/ p >= EndPage
     THEN halt' = "panic_free_page" /\ UNCHANGED freeList
     ELSE freeList' = <<p>> \o freeList /\ UNCHANGED halt

Next ==
  \/ AllocPage
  \/ ElfAllocOne
  \/ ElfAllocTwo
  \/ \E p \in BagToSet(held) : FreePage(p)

Spec == Init /\ [][Next]_vars

-----------------------------------------------------------------------------
(* Properties                                                             *)

TypeOK ==
  /\ freeList \in Seq(Managed)
  /\ IsABag(held) /\ BagToSet(held) \subseteq Managed \cup {NULL}
  /\ halt \in {"none", "null_deref", "panic_alloc_two", "panic_elf_alloc",
               "panic_free_page"}

(***************************************************************************)
(* Every managed page is in exactly one place: once on the freelist or    *)
(* handed out once, never both and never twice, through every sequence   *)
(* of alloc_page, alloc_two_page's unlinking of a pair from the middle    *)
(* of the list, and free_page (spec.md 8: freelist pages are distinct).   *)
(***************************************************************************)
PagesConserved ==
  \A p \in Managed :
    Cardinality({i \in 1 .. Len(freeList) : freeList[i] = p})
      + CopiesIn(p, held) = 1

(***************************************************************************)
(* spec.md, physical pages: alloc_two_page scans the freelist for physically        *)
(* adjacent pages: it does not fail while two pages next to each other    *)
(* on the list are also next to each other in memory.                     *)
(***************************************************************************)
AdjacentOnList ==
  \E i \in 1 .. Len(freeList) - 1 : freeList[i] - 1 = freeList[i + 1]

AllocTwoFindsPair ==
  [][(halt = "none" /\ halt' \in {"null_deref", "panic_alloc_two"})
        => ~AdjacentOnList]_vars

=============================================================================
