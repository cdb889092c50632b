------------------------------ MODULE SmpBoot ------------------------------
(***************************************************************************)
(* s_start (kernel.c) on every hart at once, down to the instructions of  *)
(* sync_utils.h: the two sync_barrier calls that order hart 0's pmm_init, *)
(* kern_vm_init and fs_init before the other harts use them, and then the *)
(* page allocations of each hart's first program under page_lock: the    *)
(* alloc_page calls of alloc_process, and elf_load (elf.c) with one       *)
(* alloc_page or alloc_two_page per loadable segment.                     *)
(*                                                                         *)
(* Each hart is a process with a program counter pc[h]; one step is one   *)
(* instruction or one call that touches no shared state.  alloc_page is   *)
(* split where harts can interleave: the amoswap of spin_lock, the read   *)
(* of g_free_mem_list.next, the store of n->next to it, and the store of  *)
(* 0 that is spin_unlock.  alloc_two_page's scan and relink happen under *)
(* the lock and never touch the head: one step.  A hart waiting in a     *)
(* spin loop takes no step until what it spins on changes.                *)
(*                                                                         *)
(* After s_start each hart runs user code, and the traps of strap.c     *)
(* (ProxyKernel) come in: the timer trap increments the shared g_ticks    *)
(* with a plain load and store, a store page fault maps a page from       *)
(* alloc_page, a load page fault panics, which stops the machine.         *)
(* Syscalls are HartKernel's and are left out here.                       *)
(*                                                                         *)
(* Delayed stores: spin_unlock is a plain store with no fence and no      *)
(* compiler barrier, so the store to g_free_mem_list.next may become      *)
(* visible after it.  When TRUE \in DelayedStores, that store may sit in  *)
(* pend[h] and reach memory in a later step (Flush).                      *)
(***************************************************************************)
EXTENDS Naturals, Sequences, FiniteSets, SequencesExt

CONSTANTS
  NCPU,          \* number of harts; hart 0 initialises the shared state
  Pages,         \* the pages create_freepage_list puts on the list
  LoadAllocs,    \* alloc_page calls alloc_process makes
  Programs,      \* the ELF files a hart may load: sequences of segments
  DelayedStores, \* {FALSE}, or {FALSE, TRUE} to let the head store lag
  MaxFaults,     \* store page faults each hart takes after boot
  MaxTicks,      \* bound on g_ticks
  MaxFrees       \* user free_page calls each hart makes after boot

\* A program header as elf_load sees it: ELF_PROG_LOAD or not, its memsz
\* in pages (ROUNDUP), whether memsz >= filesz and vaddr + memsz does not
\* wrap, and its flags (R|X, R|W, or anything else).
Segment == [load : BOOLEAN, pages : Nat \ {0}, ok : BOOLEAN,
            flags : {"RX", "RW", "other"}]

ASSUME /\ NCPU \in Nat \ {0}
       /\ Pages \subseteq Nat \ {0} /\ Pages # {}
       /\ Pages = Min(Pages) .. Max(Pages)
       /\ LoadAllocs \in Nat \ {0}
       /\ Programs \subseteq Seq(Segment) /\ Programs # {}
       /\ DelayedStores \subseteq BOOLEAN /\ DelayedStores # {}
       /\ MaxFaults \in Nat /\ MaxTicks \in Nat /\ MaxFrees \in Nat

Harts == 0 .. NCPU - 1
NULL == 0
None == -1

VARIABLES
  pc,         \* pc[h]: where hart h is in s_start
  counter,    \* counter[b]: sync_counter (b = 1) and sync_counter_2 (b = 2)
  lock,       \* page_lock.lock
  head,       \* g_free_mem_list.next
  next,       \* next[p]: the list link stored in free page p
  pmmReady,   \* pmm_init has built the freelist
  kptReady,   \* kern_vm_init has built g_kernel_pagetable
  fsReady,    \* fs_init has mounted the file system
  paging,     \* paging[h]: hart h has written satp
  n,          \* n[h]: the register of alloc_page holding the head it read
  got,        \* got[h]: the pages alloc_page returned on hart h, in order
  pend,       \* pend[h]: hart h's store to g_free_mem_list.next not yet visible
  fi,         \* fi[h]: the index in got[h] of the page free_page is freeing, or 0
  freed,      \* freed[h]: the indices of got[h] whose pages were freed
  prog,       \* prog[h]: the program hart h loads
  seg,        \* seg[h]: i + 1 for elf_load's loop index i
  faults,     \* faults[h]: store page faults hart h has taken
  ticks,      \* g_ticks
  treg,       \* treg[h]: the value of g_ticks hart h loaded to increment
  halt        \* "none", or the panic that stopped the machine

bootVars == <<counter, pmmReady, kptReady, fsReady, paging>>
freeVars == <<fi, freed>>
pmmVars == <<lock, head, next, n, got, pend, freeVars>>
loadVars == <<prog, seg, faults>>
trapVars == <<ticks, treg>>
vars == <<pc, bootVars, pmmVars, loadVars, trapVars, halt>>

\* The pc after barrier b, and the pc of the spin loop of barrier b.
After(b) == IF b = 1 THEN "enable_paging" ELSE "spin_lock"
SpinPc(b) == IF b = 1 THEN "spin1" ELSE "spin2"
BarrierPc(b) == IF b = 1 THEN "barrier1" ELSE "barrier2"

Init ==
  /\ pc = [h \in Harts |-> "start"]
  /\ counter = [b \in {1, 2} |-> 0]
  /\ lock = 0
  /\ head = NULL
  /\ next = [p \in Pages |-> NULL]
  /\ pmmReady = FALSE /\ kptReady = FALSE /\ fsReady = FALSE
  /\ paging = [h \in Harts |-> FALSE]
  /\ n = [h \in Harts |-> NULL]
  /\ got = [h \in Harts |-> <<>>]
  /\ pend = [h \in Harts |-> None]
  /\ fi = [h \in Harts |-> 0]
  /\ freed = [h \in Harts |-> {}]
  /\ prog \in [Harts -> Programs]
  /\ seg = [h \in Harts |-> 1]
  /\ faults = [h \in Harts |-> 0]
  /\ ticks = 0
  /\ treg = [h \in Harts |-> 0]
  /\ halt = "none"

Goto(h, l) == pc' = [pc EXCEPT ![h] = l]

\* panic() shuts the machine down: no hart takes another step.
Panicked == halt # "none"

\* panic(): the step stops the machine with the given reason.
Panic(why) ==
  /\ halt' = why
  /\ UNCHANGED <<pc, bootVars, pmmVars, loadVars, trapVars>>

\* g_free_mem_list.next as hart h sees it: its own pending store, or memory.
View(h) == IF pend[h] # None THEN pend[h] ELSE head

RECURSIVE Chain(_, _)
Chain(p, fuel) ==
  IF p = NULL \/ fuel = 0 THEN <<>> ELSE <<p>> \o Chain(next[p], fuel - 1)

\* Hart h is in elf_load and the segment it allocates for has two pages:
\* elf_alloc_mb calls alloc_two_page.
Want2(h) ==
  /\ Len(got[h]) >= LoadAllocs
  /\ seg[h] <= Len(prog[h])
  /\ prog[h][seg[h]].pages = 2

-----------------------------------------------------------------------------
(* s_start up to the second barrier                                       *)

\* g_ufree_page[hartid] = USER_FREE_ADDRESS_START; hart 0 goes on to
\* pmm_init, the others to the first barrier.
Start(h) ==
  /\ pc[h] = "start"
  /\ Goto(h, IF h = 0 THEN "pmm_init" ELSE "barrier1")
  /\ UNCHANGED <<bootVars, pmmVars, loadVars, trapVars, halt>>

\* pmm_init: create_freepage_list frees the pages in ascending order, each
\* pushed at the head, so each page links to the one freed before it.  No
\* other hart takes page_lock before the first barrier: one step.
PmmInit(h) ==
  /\ pc[h] = "pmm_init"
  /\ LET s == SetToSortSeq(Pages, <)
         pos(p) == CHOOSE i \in 1 .. Len(s) : s[i] = p
     IN  /\ head' = IF s = <<>> THEN NULL ELSE Last(s)
         /\ next' = [p \in Pages |-> IF pos(p) = 1 THEN NULL ELSE s[pos(p) - 1]]
  /\ pmmReady' = TRUE
  /\ Goto(h, "kern_vm_init")
  /\ UNCHANGED <<counter, lock, kptReady, fsReady, paging, n, got, pend,
                 freeVars, loadVars, trapVars, halt>>

\* kern_vm_init (vmm.c): builds g_kernel_pagetable.
KernVmInit(h) ==
  /\ pc[h] = "kern_vm_init"
  /\ kptReady' = TRUE
  /\ Goto(h, "barrier1")
  /\ UNCHANGED <<counter, pmmReady, fsReady, paging, pmmVars, loadVars, trapVars, halt>>

\* mutant: both sync_barrier calls pass &sync_counter
ArriveOneCounter(h, b) ==
  /\ pc[h] = BarrierPc(b)
  /\ counter' = [counter EXCEPT ![1] = @ + 1]
  /\ Goto(h, IF counter[1] + 1 < NCPU THEN SpinPc(b) ELSE After(b))
  /\ UNCHANGED <<pmmReady, kptReady, fsReady, paging, pmmVars, loadVars, trapVars, halt>>

\* sync_barrier: amoadd.w returns the old count and adds 1 atomically; a
\* hart that is not the last to arrive spins.
Arrive(h, b) ==
  /\ pc[h] = BarrierPc(b)
  /\ counter' = [counter EXCEPT ![b] = @ + 1]
  /\ Goto(h, IF counter[b] + 1 < NCPU THEN SpinPc(b) ELSE After(b))
  /\ UNCHANGED <<pmmReady, kptReady, fsReady, paging, pmmVars, loadVars, trapVars, halt>>

\* mutant: the spin loop leaves one arrival early
SpinEarly(h, b) ==
  /\ pc[h] = SpinPc(b)
  /\ counter[b] >= NCPU - 1
  /\ Goto(h, After(b))
  /\ UNCHANGED <<bootVars, pmmVars, loadVars, trapVars, halt>>

\* mutant: the spin loop waits while local <= all
SpinPast(h, b) ==
  /\ pc[h] = SpinPc(b)
  /\ counter[b] > NCPU
  /\ Goto(h, After(b))
  /\ UNCHANGED <<bootVars, pmmVars, loadVars, trapVars, halt>>

\* The lw loop: leaves once the counter has reached all.
Spin(h, b) ==
  /\ pc[h] = SpinPc(b)
  /\ counter[b] >= NCPU
  /\ Goto(h, After(b))
  /\ UNCHANGED <<bootVars, pmmVars, loadVars, trapVars, halt>>

\* enable_paging: satp = MAKE_SATP(g_kernel_pagetable).
EnablePaging(h) ==
  /\ pc[h] = "enable_paging"
  /\ paging' = [paging EXCEPT ![h] = TRUE]
  /\ Goto(h, "init_proc_pool")
  /\ UNCHANGED <<counter, pmmReady, kptReady, fsReady, pmmVars, loadVars, trapVars, halt>>

\* init_proc_pool clears the hart's own row of procs; hart 0 then runs
\* fs_init, the others go to the second barrier.
InitProcPool(h) ==
  /\ pc[h] = "init_proc_pool"
  /\ Goto(h, IF h = 0 THEN "fs_init" ELSE "barrier2")
  /\ UNCHANGED <<bootVars, pmmVars, loadVars, trapVars, halt>>

\* fs_init (vfs.c): mounts the file system the loaders read from.
FsInit(h) ==
  /\ pc[h] = "fs_init"
  /\ fsReady' = TRUE
  /\ Goto(h, "barrier2")
  /\ UNCHANGED <<counter, pmmReady, kptReady, paging, pmmVars, loadVars, trapVars, halt>>

-----------------------------------------------------------------------------
(* Refinement mapping to FreePages: the list reached from                 *)
(* g_free_mem_list.next is the abstract freelist (before pmm_init, the    *)
(* list it will build), and the pages handed out are those the harts have *)
(* taken off the list (or read as NULL), returned to the caller or not.   *)

FreeListImage ==
  IF pmmReady THEN Chain(head, Cardinality(Pages))
  ELSE [i \in 1 .. Cardinality(Pages) |-> Max(Pages) + 1 - i]

\* Hart h has taken its pages off the list and has not returned them yet.
Popped(h) == pc[h] = "spin_unlock" /\ fi[h] = 0

\* The page at got[h][i] is no longer held: freed, pushed on the list by
\* the free_page hart h is in, or the NULL whose free_page panicked.
Returned(h, i) ==
  \/ i \in freed[h]
  \/ fi[h] = i /\ pc[h] = "spin_unlock"
  \/ fi[h] = i /\ pc[h] = "free_check" /\ halt = "panic_free_page"

\* The pages that call returns: n, or the pair n, n + 1 of alloc_two_page.
InFlight(h) == IF Want2(h) THEN <<n[h], n[h] + 1>> ELSE <<n[h]>>

HandedCount(x) ==
  LET inSeq(s) == Cardinality({i \in 1 .. Len(s) : s[i] = x})
      held(h) == Cardinality({i \in 1 .. Len(got[h]) :
                                got[h][i] = x /\ ~Returned(h, i)})
      c(h) == held(h) + (IF Popped(h) THEN inSeq(InFlight(h)) ELSE 0)
  IN  FoldFunction(+, 0, [h \in Harts |-> c(h)])

HeldImage ==
  [x \in {y \in Pages \cup {NULL} : HandedCount(y) > 0} |-> HandedCount(x)]

\* The panics of the allocator and of elf_alloc_mb; the others stop the
\* machine for reasons FreePages does not know.
PmmHalt ==
  IF halt \in {"null_deref", "panic_alloc_two", "panic_elf_alloc",
               "panic_free_page"} THEN halt
  ELSE "none"

\* At most one NULL per alloc_page call.
NullBound ==
  NCPU * (LoadAllocs + MaxFaults + Max({Len(p) : p \in Programs}))

Pmm == INSTANCE FreePages WITH
         FirstPage <- Min(Pages), EndPage <- Max(Pages) + 2,
         MaxNullUses <- NullBound,
         freeList <- FreeListImage, held <- HeldImage, halt <- PmmHalt

-----------------------------------------------------------------------------
(* load_user_program / load_cycle_program: LoadAllocs alloc_page calls   *)
(* of alloc_process, then the allocations of elf_load                     *)

\* spin_lock returns to alloc_page, or to free_page when hart h frees.
AfterLock(h) == IF fi[h] = 0 THEN "read_head" ELSE "free_check"

\* mutant: spin_lock does not retry when amoswap returns 1
SpinLockNoRetry(h) ==
  /\ pc[h] = "spin_lock"
  /\ lock' = 1
  /\ Goto(h, AfterLock(h))
  /\ UNCHANGED <<head, next, n, got, pend, freeVars, bootVars, loadVars, trapVars, halt>>

\* spin_lock: amoswap.w.aq swaps 1 in; bnez retries while the old value
\* was 1, so a hart enters only on a swap that returned 0.
SpinLock(h) ==
  /\ pc[h] = "spin_lock"
  /\ lock = 0
  /\ lock' = 1
  /\ Goto(h, AfterLock(h))
  /\ UNCHANGED <<head, next, n, got, pend, freeVars, bootVars, loadVars, trapVars, halt>>

\* mutant: spin_unlock moved up, before the store to g_free_mem_list.next
ReadHeadUnlock(h) ==
  /\ pc[h] = "read_head"
  /\ ~Want2(h)
  /\ n' = [n EXCEPT ![h] = View(h)]
  /\ lock' = 0
  /\ Goto(h, "unlink")
  /\ UNCHANGED <<head, next, got, pend, freeVars, bootVars, loadVars, trapVars, halt>>

\* n = g_free_mem_list.next; a hart sees its own store even while it is
\* not yet visible to the others.
ReadHead(h) ==
  /\ pc[h] = "read_head"
  /\ ~Want2(h)
  /\ n' = [n EXCEPT ![h] = View(h)]
  /\ Goto(h, "unlink")
  /\ UNCHANGED <<lock, head, next, got, pend, freeVars, bootVars, loadVars, trapVars, halt>>

\* alloc_two_page, from n = g_free_mem_list.next: the scan of FreePages
\* over the list as this hart sees it.  A list of fewer than two nodes is
\* a NULL dereference; no adjacent pair is the panic; else n->next is
\* relinked past the pair and the lower page is returned.
TwoScan(h) ==
  /\ pc[h] = "read_head"
  /\ Want2(h)
  /\ LET s == Chain(View(h), Cardinality(Pages))
         i == Pmm!PairScan(s, 1)
     IN  \/ Len(s) < 2 /\ Panic("null_deref")
         \/ Len(s) >= 2 /\ i + 2 > Len(s) /\ Panic("panic_alloc_two")
         \/ /\ Len(s) >= 2 /\ i + 2 <= Len(s)
            /\ n' = [n EXCEPT ![h] = s[i + 2]]
            /\ next' = [next EXCEPT ![s[i]] =
                           IF i + 3 <= Len(s) THEN s[i + 3] ELSE NULL]
            /\ Goto(h, "spin_unlock")
            /\ UNCHANGED <<lock, head, got, pend, freeVars, bootVars, loadVars,
                           trapVars, halt>>

\* if (n) g_free_mem_list.next = n->next: the store reaches memory now, or
\* waits in pend[h].
Unlink(h) ==
  /\ pc[h] = "unlink"
  /\ IF n[h] = NULL
     THEN UNCHANGED <<head, pend>>
     ELSE \E delayed \in DelayedStores :
            IF delayed THEN pend' = [pend EXCEPT ![h] = next[n[h]]] /\ UNCHANGED head
                       ELSE head' = next[n[h]] /\ UNCHANGED pend
  /\ Goto(h, "spin_unlock")
  /\ UNCHANGED <<lock, next, n, got, freeVars, bootVars, loadVars, trapVars, halt>>

\* Where the call returns to: alloc_process calls alloc_page again until it
\* has its pages and the loader opens the ELF file; in elf_load,
\* elf_alloc_mb checks the page; after boot the page-fault handler maps it.
Caller(h) ==
  CASE Len(got[h]) + 1 < LoadAllocs -> "spin_lock"
    [] Len(got[h]) + 1 = LoadAllocs -> "load_elf"
    [] seg[h] <= Len(prog[h]) -> "elf_check"
    [] OTHER -> "map_pages"

\* spin_unlock: lock->lock = 0; alloc_page returns its page (or pair) to
\* its caller, free_page returns to sys_user_free_page, which pushes the
\* va on free_pages_address and returns to the user.
SpinUnlock(h) ==
  /\ pc[h] = "spin_unlock"
  /\ lock' = 0
  /\ \/ /\ fi[h] = 0
        /\ got' = [got EXCEPT ![h] = @ \o InFlight(h)]
        /\ Goto(h, Caller(h))
        /\ UNCHANGED freeVars
     \/ /\ fi[h] # 0
        /\ freed' = [freed EXCEPT ![h] = @ \cup {fi[h]}]
        /\ fi' = [fi EXCEPT ![h] = 0]
        /\ Goto(h, "user")
        /\ UNCHANGED got
  /\ UNCHANGED <<head, next, n, pend, bootVars, loadVars, trapVars, halt>>

\* A delayed store becomes visible.
Flush(h) ==
  /\ pend[h] # None
  /\ head' = pend[h]
  /\ pend' = [pend EXCEPT ![h] = None]
  /\ UNCHANGED <<pc, lock, next, n, got, freeVars, bootVars, loadVars, trapVars, halt>>

\* load_bincode_from_vfs_elf: vfs_open of the program on the mounted file
\* system and elf_init's read of the ELF header; then elf_load's loop.
LoadElf(h) ==
  /\ pc[h] = "load_elf"
  /\ Goto(h, "elf_seg")
  /\ UNCHANGED <<bootVars, pmmVars, loadVars, trapVars, halt>>

\* One turn of elf_load's loop over the program headers: a segment that is
\* not ELF_PROG_LOAD is skipped; a bad memsz returns EL_ERR, on which the
\* loader panics; elf_alloc_mb panics on more than two pages and calls
\* alloc_page or alloc_two_page for one or two.
ElfSegment(h) ==
  /\ pc[h] = "elf_seg"
  /\ seg[h] <= Len(prog[h])
  /\ LET ph == prog[h][seg[h]]
     IN  \/ /\ ~ph.load
            /\ seg' = [seg EXCEPT ![h] = @ + 1]
            /\ UNCHANGED <<pc, bootVars, pmmVars, prog, faults, trapVars, halt>>
         \/ ph.load /\ ~ph.ok /\ Panic("elf_load_failed")
         \/ ph.load /\ ph.ok /\ ph.pages > 2 /\ Panic("elf_too_big")
         \/ /\ ph.load /\ ph.ok /\ ph.pages <= 2
            /\ Goto(h, "spin_lock")
            /\ UNCHANGED <<bootVars, pmmVars, loadVars, trapVars, halt>>

\* elf_alloc_mb panics when the page is NULL; elf_load then records the
\* region in mapped_info and panics on flags other than R|X and R|W.
ElfCheck(h) ==
  /\ pc[h] = "elf_check"
  /\ \/ n[h] = NULL /\ Panic("panic_elf_alloc")
     \/ n[h] # NULL /\ prog[h][seg[h]].flags = "other" /\ Panic("unknown_segment")
     \/ /\ n[h] # NULL /\ prog[h][seg[h]].flags # "other"
        /\ seg' = [seg EXCEPT ![h] = @ + 1]
        /\ Goto(h, "elf_seg")
        /\ UNCHANGED <<bootVars, pmmVars, prog, faults, trapVars, halt>>

\* elf_load returns EL_OK: the loader sets epc and argv and closes the
\* file; s_start puts the process on the ready queue and schedule() runs it.
ElfDone(h) ==
  /\ pc[h] = "elf_seg"
  /\ seg[h] > Len(prog[h])
  /\ Goto(h, "user")
  /\ UNCHANGED <<bootVars, pmmVars, loadVars, trapVars, halt>>

-----------------------------------------------------------------------------
(* smode_trap_handler: the traps a hart takes from its user program       *)

\* A trap from user mode (SPP clear) with current[hartid] set.
UserTrap(h) == pc[h] = "user"

\* CAUSE_MTIMER_S_TRAP: handle_mtimer_trap loads g_ticks for g_ticks++.
TimerTrap(h) ==
  /\ UserTrap(h)
  /\ ticks < MaxTicks
  /\ treg' = [treg EXCEPT ![h] = ticks]
  /\ Goto(h, "tick_store")
  /\ UNCHANGED <<ticks, bootVars, pmmVars, loadVars, halt>>

\* The store of g_ticks++; clearing sip and rrsched touch only this hart.
TickStore(h) ==
  /\ pc[h] = "tick_store"
  /\ ticks' = treg[h] + 1
  /\ Goto(h, "user")
  /\ UNCHANGED <<treg, bootVars, pmmVars, loadVars, halt>>

\* CAUSE_STORE_PAGE_FAULT: handle_user_page_fault calls alloc_page.
StoreFault(h) ==
  /\ UserTrap(h)
  /\ faults[h] < MaxFaults
  /\ faults' = [faults EXCEPT ![h] = @ + 1]
  /\ Goto(h, "spin_lock")
  /\ UNCHANGED <<bootVars, pmmVars, prog, seg, trapVars, halt>>

\* map_pages at ROUNDDOWN(stval, PGSIZE) with the page alloc_page returned,
\* NULL included; then switch_to the process.
MapPages(h) ==
  /\ pc[h] = "map_pages"
  /\ Goto(h, "user")
  /\ UNCHANGED <<bootVars, pmmVars, loadVars, trapVars, halt>>

\* The pages hart h's process has mapped and may free: those elf_load and
\* the page-fault handler got, NULL included, not yet freed.
UserPages(h) ==
  {i \in LoadAllocs + 1 .. Len(got[h]) : i \notin freed[h]}

\* SYS_user_free_page: sys_user_free_page's user_vm_unmap with free = 1
\* unmaps one of the process's pages and calls free_page on its frame,
\* which starts with spin_lock.
FreeCall(h) ==
  /\ UserTrap(h)
  /\ Cardinality(freed[h]) < MaxFrees
  /\ \E i \in UserPages(h) : fi' = [fi EXCEPT ![h] = i]
  /\ Goto(h, "spin_lock")
  /\ UNCHANGED <<lock, head, next, n, got, pend, freed, bootVars, loadVars,
                 trapVars, halt>>

\* free_page under page_lock: a frame outside [free_mem_start_addr,
\* free_mem_end_addr), NULL among them, is the panic (with the lock held);
\* else n->next = g_free_mem_list.next.
FreeCheck(h) ==
  /\ pc[h] = "free_check"
  /\ LET p == got[h][fi[h]]
     IN  \/ p \notin Pages /\ Panic("panic_free_page")
         \/ /\ p \in Pages
            /\ next' = [next EXCEPT ![p] = View(h)]
            /\ Goto(h, "free_head")
            /\ UNCHANGED <<lock, head, n, got, pend, freeVars, bootVars,
                           loadVars, trapVars, halt>>

\* g_free_mem_list.next = n: reaches memory now, or waits in pend[h].
FreeHead(h) ==
  /\ pc[h] = "free_head"
  /\ \E delayed \in DelayedStores :
       IF delayed THEN pend' = [pend EXCEPT ![h] = got[h][fi[h]]] /\ UNCHANGED head
                  ELSE head' = got[h][fi[h]] /\ UNCHANGED pend
  /\ Goto(h, "spin_unlock")
  /\ UNCHANGED <<lock, next, n, got, freeVars, bootVars, loadVars, trapVars, halt>>

\* CAUSE_LOAD_PAGE_FAULT: panic("unknown page fault.").
LoadFault(h) ==
  /\ UserTrap(h)
  /\ Panic("unknown_page_fault")

Step(h) ==
  /\ ~Panicked
  /\ \/ Start(h) \/ PmmInit(h) \/ KernVmInit(h)
     \/ \E b \in {1, 2} : Arrive(h, b) \/ Spin(h, b)
     \/ EnablePaging(h) \/ InitProcPool(h) \/ FsInit(h)
     \/ SpinLock(h) \/ ReadHead(h) \/ TwoScan(h) \/ Unlink(h)
     \/ SpinUnlock(h) \/ Flush(h)
     \/ LoadElf(h) \/ ElfSegment(h) \/ ElfCheck(h) \/ ElfDone(h)
     \/ TimerTrap(h) \/ TickStore(h)
     \/ StoreFault(h) \/ MapPages(h) \/ LoadFault(h)
     \/ FreeCall(h) \/ FreeCheck(h) \/ FreeHead(h)

Next == \E h \in Harts : Step(h)

\* Every hart is a core that keeps executing: weak fairness per hart.
Spec == Init /\ [][Next]_vars /\ \A h \in Harts : WF_vars(Step(h))

-----------------------------------------------------------------------------
(* Properties                                                             *)

Pcs == {"start", "pmm_init", "kern_vm_init", "barrier1", "spin1",
        "enable_paging", "init_proc_pool", "fs_init", "barrier2", "spin2",
        "spin_lock", "read_head", "unlink", "spin_unlock", "load_elf",
        "elf_seg", "elf_check", "user", "tick_store", "map_pages",
        "free_check", "free_head"}

Halts == {"none", "null_deref", "panic_alloc_two", "panic_elf_alloc",
          "elf_load_failed", "elf_too_big", "unknown_segment",
          "unknown_page_fault", "panic_free_page"}

TypeOK ==
  /\ pc \in [Harts -> Pcs]
  /\ counter \in [{1, 2} -> 0 .. NCPU]
  /\ lock \in {0, 1}
  /\ head \in Pages \cup {NULL}
  /\ next \in [Pages -> Pages \cup {NULL}]
  /\ n \in [Harts -> Pages \cup {NULL}]
  /\ got \in [Harts -> Seq(Pages \cup {NULL})]
  /\ pend \in [Harts -> Pages \cup {NULL, None}]
  /\ \A h \in Harts : fi[h] \in 0 .. Len(got[h]) /\ freed[h] \subseteq 1 .. Len(got[h])
  /\ prog \in [Harts -> Programs]
  /\ \A h \in Harts : seg[h] \in 1 .. Len(prog[h]) + 1
  /\ faults \in [Harts -> 0 .. MaxFaults]
  /\ ticks \in 0 .. MaxTicks
  /\ treg \in [Harts -> 0 .. MaxTicks]
  /\ halt \in Halts

LoadPcs == {"spin_lock", "read_head", "unlink", "spin_unlock", "load_elf",
            "elf_seg", "elf_check", "user", "tick_store", "map_pages",
        "free_check", "free_head"}

(***************************************************************************)
(* The barriers order the boot: no hart writes satp before hart 0 has     *)
(* built the freelist and g_kernel_pagetable, and none allocates or loads *)
(* its program before fs_init, whatever the order in which the harts      *)
(* reach and leave sync_barrier.                                          *)
(***************************************************************************)
BootOrdered ==
  \A h \in Harts :
    /\ paging[h] => pmmReady /\ kptReady
    /\ pc[h] \in LoadPcs => fsReady

(***************************************************************************)
(* spec.md, physical pages: under page_lock no page is handed out twice:  *)
(* the pages alloc_page and alloc_two_page have returned on all harts, to *)
(* alloc_process, to elf_load and to the page-fault handlers, and that    *)
(* free_page has not taken back, are pairwise distinct, however the       *)
(* harts' amoswap, load, store and unlock steps interleave.  (NULL,       *)
(* returned once the list is empty, is not a page.)                       *)
(***************************************************************************)
Live(h) == {i \in 1 .. Len(got[h]) : i \notin freed[h]}

PagesHandedOnce ==
  \A h1, h2 \in Harts :
    \A i \in Live(h1), j \in Live(h2) :
      (<<h1, i>> # <<h2, j>> /\ got[h1][i] # NULL) => got[h1][i] # got[h2][j]

\* Hart h has left s_start: its program is loaded and has run.
Booted(h) == pc[h] \in {"user", "tick_store"} \/ faults[h] > 0

\* alloc_page, split into the amoswap, the load of the head, the store of
\* its next and the unlocking store, and alloc_two_page, on both harts at
\* once, implement pmm.c's freelist with each operation one atomic step
\* (FreePages), and elf_alloc_mb's panics are those of FreePages, as
\* page_lock is meant to ensure.
PmmRefinement == Pmm!Spec

\* Every hart gets through both barriers, its allocations and elf_load and
\* runs its program: nobody spins forever on a barrier or on page_lock,
\* unless a panic has stopped the machine first.
BootCompletes == <>(Panicked \/ \A h \in Harts : Booted(h))

====
