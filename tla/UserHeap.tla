------------------------------ MODULE UserHeap ------------------------------
(***************************************************************************)
(* The user heaps of the processes on one hart (process.c, syscall.c).    *)
(*                                                                         *)
(* The naive heap grows a per-process heap_top from                        *)
(* USER_FREE_ADDRESS_START and keeps a stack of freed page VAs.  The      *)
(* better heap keeps a page directory and a malloc directory per process, *)
(* and takes fresh pages at the hart's g_ufree_page cursor, which all the *)
(* processes of the hart share and which exit moves back.  Addresses are *)
(* integers in units of bytes, scaled down: a page is PGSIZE units.       *)
(*                                                                         *)
(* Every syscall runs to completion on its hart, so an action is one     *)
(* whole handler, composed from operators named after the C functions.  *)
(***************************************************************************)
EXTENDS Integers, Sequences, SequencesExt, FiniteSets, DirSort

CONSTANTS
  Procs,                    \* the process slots of the hart
  PGSIZE,                   \* page size, in address units
  USER_FREE_ADDRESS_START,  \* start of both heaps (a multiple of PGSIZE)
  MAX_HEAP_PAGES,           \* length of page_dir and free_pages_address
  MAX_MALLOC_IN_HEAP,       \* length of malloc_dir
  Sizes,                    \* the sizes better_malloc is called with
  Heaps,                    \* which heap the programs use: "naive", "better"
  MaxNaivePages,            \* bound on naive heap growth (unbounded in code)
  FilterGarbage             \* what an uninitialised free_block_filter[] entry can be

ASSUME /\ PGSIZE \in Nat \ {0}
       /\ USER_FREE_ADDRESS_START \in Nat /\ USER_FREE_ADDRESS_START % PGSIZE = 0
       /\ MAX_HEAP_PAGES \in Nat \ {0} /\ MAX_MALLOC_IN_HEAP \in Nat \ {0}
       /\ Sizes \subseteq Nat \ {0}
       /\ Heaps \subseteq {"naive", "better"}
       /\ MaxNaivePages \in Nat
       /\ FilterGarbage \subseteq BOOLEAN

VARIABLES
  alive,       \* alive[p]: slot p holds a process
  mapped,      \* mapped[p]: heap-area page VAs mapped in p's page table
  cursor,      \* g_ufree_page[hartid]
  pageDir,     \* pageDir[p]: page_dir[0 .. num_page-1], records [va_page]
  mallocDir,   \* mallocDir[p][i]: malloc_dir[i], stale entries included
  numMalloc,   \* numMalloc[p]: num_malloc
  heapTop,     \* heapTop[p]: user_heap.heap_top
  freePages,   \* freePages[p]: free_pages_address[0 .. free_pages_count-1]
  halt         \* "none", or why the kernel stopped

vars == <<alive, mapped, cursor, pageDir, mallocDir, numMalloc, heapTop,
          freePages, halt>>

B == USER_FREE_ADDRESS_START
MallocIdx == 0 .. MAX_MALLOC_IN_HEAP - 1
Zero == [va_start |-> 0, va_end |-> 0]

\* ROUNDUP(n, PGSIZE) / PGSIZE
PagesFor(n) == (n + PGSIZE - 1) \div PGSIZE

Snap == [alive |-> alive, mapped |-> mapped, cursor |-> cursor,
         pageDir |-> pageDir, mallocDir |-> mallocDir, numMalloc |-> numMalloc,
         heapTop |-> heapTop, freePages |-> freePages, halt |-> halt]

Commit(k) ==
  /\ alive' = k.alive /\ mapped' = k.mapped /\ cursor' = k.cursor
  /\ pageDir' = k.pageDir /\ mallocDir' = k.mallocDir
  /\ numMalloc' = k.numMalloc /\ heapTop' = k.heapTop
  /\ freePages' = k.freePages /\ halt' = k.halt

\* panic(), or the first undefined write; later steps of the handler do not
\* override the first reason.
Stop(k, why) == [k EXCEPT !.halt = IF @ = "none" THEN why ELSE @]

-----------------------------------------------------------------------------
(* vmm: user_vm_map panics when the page is already mapped (spec.md 7:   *)
(* double-map is kernel-fatal); user_vm_unmap removes the mapping.       *)

UserVmMap(k, p, va) ==
  IF va \in k.mapped[p] THEN Stop(k, "panic_remap")
  ELSE [k EXCEPT !.mapped[p] = @ \cup {va}]

UserVmUnmap(k, p, va) == [k EXCEPT !.mapped[p] = @ \ {va}]

-----------------------------------------------------------------------------
(* Better heap: directories                                               *)

\* add_to_page_dir: append, then sort_page_dir.
AddToPageDir(k, p, va) ==
  [k EXCEPT !.pageDir[p] = BubbleSort(Append(@, [va_page |-> va]), "va_page")]

\* The loop of alloc_n_page: map the page at the cursor, record it, advance.
RECURSIVE AllocPages(_, _, _)
AllocPages(k, p, n) ==
  IF n = 0 THEN k
  ELSE AllocPages([AddToPageDir(UserVmMap(k, p, k.cursor), p, k.cursor)
                     EXCEPT !.cursor = @ + PGSIZE], p, n - 1)

\* mutant: alloc_n_page without the MAX_HEAP_PAGES check
AllocNPageUnchecked(k, p, n) == AllocPages(k, p, n)

\* alloc_n_page: returns 0 over MAX_HEAP_PAGES, and every caller panics.
AllocNPage(k, p, n) ==
  IF Len(k.pageDir[p]) + n > MAX_HEAP_PAGES THEN Stop(k, "panic_page_alloc")
  ELSE AllocPages(k, p, n)

\* sort_malloc_dir: bubble sort of malloc_dir[0 .. num_malloc-1].
SortMallocDir(k, p) ==
  LET n == k.numMalloc[p]
      s == BubbleSort([i \in 1 .. n |-> k.mallocDir[p][i - 1]], "va_start")
  IN  [k EXCEPT !.mallocDir[p] = [i \in MallocIdx |-> IF i < n THEN s[i + 1]
                                                      ELSE @[i]]]

\* add_to_malloc_dir: writes malloc_dir[num_malloc] unchecked; past the
\* array that overwrites num_malloc and sem_index.
AddToMallocDir(k, p, s, e) ==
  IF k.numMalloc[p] = MAX_MALLOC_IN_HEAP THEN Stop(k, "malloc_dir_overflow")
  ELSE SortMallocDir(
         [k EXCEPT !.mallocDir[p][k.numMalloc[p]] = [va_start |-> s, va_end |-> e],
                   !.numMalloc[p] = @ + 1], p)

\* malloc_dir[i] as the code reads it.  At i = -1 it reads the 16 bytes
\* before the array: page_dir[MAX_HEAP_PAGES-1].pa_page, then the int
\* num_page and 4 bytes of padding, which stay 0 in the zeroed procs[].
MallocAt(k, p, i) ==
  IF i >= 0 THEN k.mallocDir[p][i]
  ELSE [va_start |-> 0, va_end |-> Len(k.pageDir[p])]

-----------------------------------------------------------------------------
(* Better heap: do_better_malloc and do_better_free                       *)

\* The first fitting gap between neighbouring allocations, or -1.
\* mutant: a gap one unit too small is taken
FirstGapShort(k, p, n) ==
  LET G == {i \in 0 .. k.numMalloc[p] - 2 :
              MallocAt(k, p, i + 1).va_start - MallocAt(k, p, i).va_end >= n - 1}
  IN  IF G = {} THEN -1 ELSE Min(G)

FirstGap(k, p, n) ==
  LET G == {i \in 0 .. k.numMalloc[p] - 2 :
              MallocAt(k, p, i + 1).va_start - MallocAt(k, p, i).va_end >= n}
  IN  IF G = {} THEN -1 ELSE Min(G)

\* No pages yet: map ceil(n / PGSIZE) pages at the cursor.
MallocFirst(k, p, n) ==
  LET k1 == AllocNPage(k, p, PagesFor(n))
      vs == k1.pageDir[p][1].va_page
  IN  IF k1.halt # "none" THEN k1
      ELSE IF k1.numMalloc[p] + 1 > MAX_MALLOC_IN_HEAP
           THEN Stop(k1, "panic_malloc")
           ELSE AddToMallocDir(k1, p, vs, vs + n)

\* Pages mapped: the front gap, then a gap, then the rear, which reads
\* malloc_dir[num_malloc - 1] and grows the pages only if the last one
\* does not reach va_start + n.
MallocMore(k, p, n) ==
  LET pd    == k.pageDir[p]
      vps   == pd[1].va_page
      vpe   == pd[Len(pd)].va_page + PGSIZE
      front == MallocAt(k, p, 0).va_start - vps
      gap   == FirstGap(k, p, n)
      new   == MallocAt(k, p, k.numMalloc[p] - 1).va_end
      rear  == vpe - new
  IN  IF front >= n THEN AddToMallocDir(k, p, vps, vps + n)
      ELSE IF gap >= 0
      THEN LET s == MallocAt(k, p, gap).va_end IN AddToMallocDir(k, p, s, s + n)
      ELSE LET k1 == AddToMallocDir(k, p, new, new + n)
           IN  IF rear < n THEN AllocNPage(k1, p, PagesFor(n - rear)) ELSE k1

DoBetterMalloc(k, p, n) ==
  IF k.pageDir[p] = <<>> THEN MallocFirst(k, p, n) ELSE MallocMore(k, p, n)

\* find_malloc_dir, then remove_from_malloc_dir: shift down, leaving the
\* old last entry in place.
DoBetterFree(k, p, va) ==
  LET n == k.numMalloc[p]
      I == {i \in 0 .. n - 1 : k.mallocDir[p][i].va_start = va}
  IN  IF I = {} THEN Stop(k, "panic_free")
      ELSE LET i == Min(I)
           IN  [k EXCEPT !.mallocDir[p] = [j \in MallocIdx |->
                                IF j >= i /\ j < n - 1 THEN @[j + 1] ELSE @[j]],
                         !.numMalloc[p] = n - 1]

\* clear_page_dir: unmap every page and move the hart's cursor back a page
\* for each; clear_malloc_dir: num_malloc = 0.
ClearPageDir(k, p) ==
  [k EXCEPT !.mapped[p] = @ \ {e.va_page : e \in ToSet(k.pageDir[p])},
            !.cursor = @ - PGSIZE * Len(k.pageDir[p]),
            !.pageDir[p] = <<>>]

ClearMallocDir(k, p) == [k EXCEPT !.numMalloc[p] = 0]

-----------------------------------------------------------------------------
(* Naive heap: sys_user_allocate_page and sys_user_free_page              *)

AllocatePage(k, p) ==
  IF k.freePages[p] # <<>>
  THEN LET va == Last(k.freePages[p])
       IN  UserVmMap([k EXCEPT !.freePages[p] = Front(@)], p, va)
  ELSE UserVmMap([k EXCEPT !.heapTop[p] = @ + PGSIZE], p, k.heapTop[p])

\* free_pages_address[free_pages_count++] = va, unchecked: past the array
\* it overwrites free_pages_count.
FreePage(k, p, va) ==
  LET k1 == UserVmUnmap(k, p, va)
  IN  IF Len(k1.freePages[p]) = MAX_HEAP_PAGES
      THEN Stop(k1, "free_pages_overflow")
      ELSE [k1 EXCEPT !.freePages[p] = Append(@, va)]

NaiveBlocks(k, p) == {B + i * PGSIZE : i \in 0 .. (k.heapTop[p] - B) \div PGSIZE - 1}

-----------------------------------------------------------------------------
(* Process lifecycle, as far as the heaps are concerned                   *)

\* alloc_process: the first FREE slot; a fresh page table, an empty naive
\* heap.  page_dir, malloc_dir and their counts are left as the slot's
\* last occupant left them (free_process zeroed the counts).
AllocProcess(k) ==
  LET free == {q \in Procs : ~k.alive[q]}
  IN  IF free = {} THEN -1 ELSE Min(free)

\* do_fork, HEAP_SEGMENT case: free_block_filter[MAX_HEAP_PAGES] is an int
\* array of which memset clears MAX_HEAP_PAGES bytes, the first
\* MAX_HEAP_PAGES \div 4 entries; the parent's free pages are set to 1;
\* the child maps every heap block from heap_bottom to heap_top whose
\* entry reads 0, then copies the heap manager.  The better heap is not
\* copied.  Entries past the cleared ones hold what the stack held: g.
ForkHeap(k, parent, c, g) ==
  LET idx(va)   == (va - B) \div PGSIZE
      freeIdx   == {idx(va) : va \in ToSet(k.freePages[parent])}
      skip(va)  == idx(va) \in freeIdx
                   \/ (idx(va) >= MAX_HEAP_PAGES \div 4 /\ g[idx(va)])
  IN  [k EXCEPT !.alive[c] = TRUE,
                !.mapped[c] = {va \in NaiveBlocks(k, parent) : ~skip(va)},
                !.heapTop[c] = k.heapTop[parent],
                !.freePages[c] = k.freePages[parent]]

\* free_process: ZOMBIE (the slot is reused once reaped), directories torn
\* down; the page table itself is not reclaimed.
FreeProcess(k, p) ==
  [ClearPageDir(ClearMallocDir(k, p), p) EXCEPT !.alive[p] = FALSE]

\* clear_process (exec): a new page table, an empty naive heap, then
\* clear_malloc_dir and clear_page_dir, which move the cursor back.
ClearProcess(k, p) ==
  ClearPageDir(ClearMallocDir(
    [k EXCEPT !.mapped[p] = {}, !.heapTop[p] = B, !.freePages[p] = <<>>], p), p)

-----------------------------------------------------------------------------
(* Syscalls of a live process                                             *)

Live(p) == halt = "none" /\ alive[p]

BetterMalloc(p, n) ==
  /\ Live(p) /\ "better" \in Heaps
  /\ Commit(DoBetterMalloc(Snap, p, n))

\* The program frees a pointer it got from better_malloc.
BetterFree(p) ==
  /\ Live(p) /\ "better" \in Heaps
  /\ \E i \in 0 .. numMalloc[p] - 1 :
       Commit(DoBetterFree(Snap, p, mallocDir[p][i].va_start))

NaiveAllocate(p) ==
  /\ Live(p) /\ "naive" \in Heaps
  /\ heapTop[p] < B + MaxNaivePages * PGSIZE \/ freePages[p] # <<>>
  /\ Commit(AllocatePage(Snap, p))

\* The program frees a page it got from allocate_page.
NaiveFree(p) ==
  /\ Live(p) /\ "naive" \in Heaps
  /\ \E va \in NaiveBlocks(Snap, p) \ ToSet(freePages[p]) :
       Commit(FreePage(Snap, p, va))

Fork(p) ==
  /\ Live(p)
  /\ LET c == AllocProcess(Snap)
     IN  IF c = -1 THEN Commit(Stop(Snap, "panic_no_free_proc"))
         ELSE \E g \in [0 .. MaxNaivePages -> FilterGarbage] :
                Commit(ForkHeap(Snap, p, c, g))

Exit(p) ==
  /\ Live(p)
  /\ Commit(FreeProcess(Snap, p))

Exec(p) ==
  /\ Live(p)
  /\ Commit(ClearProcess(Snap, p))

-----------------------------------------------------------------------------

\* s_start loads the first program into slot 0 (kernel.c), with the cursor
\* at USER_FREE_ADDRESS_START; procs[] is zeroed.
Init ==
  /\ alive = [p \in Procs |-> p = Min(Procs)]
  /\ mapped = [p \in Procs |-> {}]
  /\ cursor = B
  /\ pageDir = [p \in Procs |-> <<>>]
  /\ mallocDir = [p \in Procs |-> [i \in MallocIdx |-> Zero]]
  /\ numMalloc = [p \in Procs |-> 0]
  /\ heapTop = [p \in Procs |-> B]
  /\ freePages = [p \in Procs |-> <<>>]
  /\ halt = "none"

Next ==
  \E p \in Procs :
    \/ \E n \in Sizes : BetterMalloc(p, n)
    \/ BetterFree(p)
    \/ NaiveAllocate(p)
    \/ NaiveFree(p)
    \/ Fork(p)
    \/ Exit(p)
    \/ Exec(p)

Spec == Init /\ [][Next]_vars

-----------------------------------------------------------------------------
(* Properties                                                             *)

Entry == [va_start : Int, va_end : Int]

TypeOK ==
  /\ alive \in [Procs -> BOOLEAN]
  /\ mapped \in [Procs -> SUBSET Int]
  /\ cursor \in Int
  /\ pageDir \in [Procs -> Seq([va_page : Int])]
  /\ \A p \in Procs : Len(pageDir[p]) <= MAX_HEAP_PAGES
  /\ mallocDir \in [Procs -> [MallocIdx -> Entry]]
  /\ numMalloc \in [Procs -> 0 .. MAX_MALLOC_IN_HEAP]
  /\ heapTop \in [Procs -> Int]
  /\ freePages \in [Procs -> Seq(Int)]
  /\ halt \in {"none", "panic_remap", "panic_page_alloc", "panic_malloc",
               "panic_free", "panic_no_free_proc", "malloc_dir_overflow",
               "free_pages_overflow"}

LiveEntries(p) == {mallocDir[p][i] : i \in 0 .. numMalloc[p] - 1}
PageSet(p) == {e.va_page : e \in ToSet(pageDir[p])}

(***************************************************************************)
(* spec.md 4.4/8: the live entries of a malloc directory are ordered by   *)
(* va_start and pairwise disjoint, each a non-empty range: the front-gap,  *)
(* gap and rear searches of do_better_malloc never hand out a byte twice, *)
(* also after frees have left stale entries behind num_malloc.            *)
(***************************************************************************)
MallocDirSortedDisjoint ==
  \A p \in Procs : alive[p] =>
    \A i \in 0 .. numMalloc[p] - 1 :
      /\ mallocDir[p][i].va_start < mallocDir[p][i].va_end
      /\ i + 1 < numMalloc[p] =>
           mallocDir[p][i].va_end <= mallocDir[p][i + 1].va_start

(***************************************************************************)
(* spec.md 8: every byte of a live better_malloc allocation lies in a page *)
(* of the process's page directory.                                       *)
(***************************************************************************)
MallocInsidePages ==
  \A p \in Procs : alive[p] =>
    \A e \in LiveEntries(p) :
      \A a \in e.va_start .. e.va_end - 1 : a - (a % PGSIZE) \in PageSet(p)

(***************************************************************************)
(* The naive heap: every block below heap_top that is not on the free     *)
(* stack is mapped in the process's page table, and no block on the free  *)
(* stack is, through allocate_page, free_page, fork and exec.             *)
(***************************************************************************)
NaiveHeapMapped ==
  \A p \in Procs : alive[p] =>
    /\ NaiveBlocks(Snap, p) \ ToSet(freePages[p]) \subseteq mapped[p]
    /\ ToSet(freePages[p]) \cap mapped[p] = {}

\* spec.md 7: a double map is kernel-fatal; the heaps never map a page a
\* process already has mapped.
NoRemap == halt # "panic_remap"

=============================================================================
