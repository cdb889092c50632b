# TLA+ models of the HUST proxy kernel (PKE)

This directory holds TLA+ models of the multi-hart RISC-V proxy kernel in
`src/projects/*` and `src/project/*`, with the TLC configurations that check
them. `PROJECT.json` records the components, the runs, the mutants, the
line-by-line map from definitions to source, the findings and the hazards.

## The system

| Part | Source | State | Operations |
|---|---|---|---|
| Scheduler | `src/project/PKE_with_shell/kernel/sched.c`, `sched.h` | per hart: `ready_queue_head`, `blocked_queue_head` (intrusive lists through `queue_next`), `current` | insert/remove on both queues, `schedule()` (wake scan, then dispatch or shutdown/panic) |
| Process table | `src/projects/PKE_with_shell/kernel/process.c`, `ProxyKernel/kernel/process.h` | `procs[NCPU][NPROC]`: `status`, `parent`, `waiting_pid`, `sem_index`, `tick_count`, heap directories | `alloc_process`, `free_process`, `do_fork`, `do_exec`, `do_wait`, `clear_process` |
| Semaphores | `sched.c` 146-184 | global `semaphores[10]`, `num_semaphores` (shared by all harts, no lock) | `add_to_semaphores`, `P_semaphore`, `V_semaphore` |
| Traps and syscalls | `Proxy-Kernel/kernel/strap.c`, `syscall.c` | none of their own | `smode_trap_handler`, `do_syscall`, `rrsched` (timer) |
| Boot | `ProxyKernel/kernel/kernel.c`, `PKE_with_shell/kernel/sync_utils.h` | `sync_counter`, `sync_counter_2`, `page_lock` | `s_start`, `sync_barrier`, `spin_lock`/`spin_unlock` |
| Trap handlers (ProxyKernel) | `ProxyKernel/kernel/strap.c` | `g_ticks` (one static for both harts) | `handle_mtimer_trap`, `handle_user_page_fault` |
| Better heap | `process.c` 500-693 | per process `page_dir`, `malloc_dir`; per hart `g_ufree_page` | `do_better_malloc`, `do_better_free` |
| Naive heap | `syscall.c` 60-95, `do_fork` in `process.c` 245-281 | per process `user_heap`: `heap_top`, `free_pages_address[]` | `allocate_page`, `free_page`, fork's copy |
| Physical pages | `PKE_with_shell/kernel/pmm.c` | `g_free_mem_list` | `alloc_page`, `free_page`, `alloc_two_page` |
| ELF loader | `Proxy-Kernel/kernel/elf.c` | per process `mapped_info`, `total_mapped_region` | `load_bincode_from_vfs_elf`, `elf_load`, `elf_alloc_mb` (one page from `alloc_page`, two from `alloc_two_page`) |
| User library, shell, string/stdio | `user_lib.c`, `app_shell.c`, `string.c`, `stdio.c` | buffers | syscall wrappers, command parsing, formatting |
| Selective-repeat sender (network lab) | `src/labs/network_labs/lab2/StopWait/src/SRRdtSender.cpp` | window base, next sequence number, timers | send, receive ack, timeout |

How they interact: every trap enters `smode_trap_handler`. A syscall first goes
to `do_syscall`, which **inserts `current` into the ready queue**. The handler
then runs. Either it returns, and `switch_to(current)` resumes the caller, or
it calls `schedule()`. `schedule()` never returns to its caller: it ends in
`switch_to` → `return_to_user`. The timer trap calls `rrsched`, which requeues
the runner once its slice of `TIME_SLICE_LEN` ticks is used up. Blocking is
done in two ways:

- `wait()` sets `waiting_pid` and blocks. The wake scan at the top of every
  `schedule()` readies the process once that slot is a ZOMBIE.
- `P` sets `sem_index` and blocks. `V` readies the first blocked process whose
  `semaphores[sem_index]` is at least 1.

Both wake loops stop at the first process they wake, because
`insert_to_ready_queue` sets `queue_next = NULL`.

## Modules

- **`HartKernel.tla`** models one hart's process table, queues, semaphores and
  syscalls.
  - **State.** The variables are:
    - `status`, `parent`, `waiting` (`waiting_pid`), `semIndex` (`sem_index`)
      and `tick`, per slot;
    - `ready` and `blocked`, the queues as sequences in list order;
    - `current`;
    - `semaphores` and `numSem`;
    - `straySem`, the word before the semaphore table, which the code reads and
      decrements through `sem_index = -1`;
    - `halt`: `"none"`, `"shutdown"` or a panic.
  - **How an action is built.** It takes a snapshot `Snap` and passes it through
    operators named after the C functions (`Enter` for the entry insert in
    `do_syscall`, `InsertToReadyQueue`, `FreeProcess`, `WakeScan`, `Dispatch`,
    ...), then commits the result. A handler's whole call chain is therefore one
    step, in the order the code makes the calls. This is sound because nothing
    else runs on the hart during a trap: interrupts are off in S-mode.
  - **Actions.** There is one action per syscall (`SysOther`, `SysExit`,
    `SysFork`, `SysYield`, `SysWait(pid)`, `SysExec`, `SysSemNew(v)`,
    `SysSemP(i)`, `SysSemV(i)`) and one for the timer (`TimerTick`).
    - `SysOther` stands for every syscall that does not touch scheduling state:
      print, scan, the file calls, the naive heap and `printpa`. It performs
      only the entry insert.
    - Out-of-range reads the C code makes are nondeterministic inputs.
      `procs[hartid][-1].status == ZOMBIE` is drawn from the constant
      `StrayZombieReads`, and the initial `semaphores[-1]` from `StraySemInit`.
- **`Semaphore.tla`** is the abstract counting semaphore of spec.md 4.9.
  - `New`: the table is filled in order.
  - `Acquire`: P takes a unit.
  - `Block`: P blocks the caller, only when the count is 0.
  - `Release`: V hands its unit to the oldest waiter, or keeps it.
  - `HartKernel` maps onto it. `count` is `semaphores`, and `queue[s]` is the
    blocked queue filtered by `sem_index = s`. `SemRefinement` checks this
    mapping.
- **`MCHartKernel.tla`** gives the constants for TLC.
- **`DirSort.tla`** translates `sort_page_dir`/`sort_malloc_dir`
  (`process.c` 599-644): the bubble sort that runs after every append to a
  heap directory. `BubblePass` is the inner loop and `BubbleFrom` the outer
  one; the key is a record field name. `StableSorted` is a reference stable
  sort kept beside it.
- **`UserHeap.tla`** models both user heaps of the processes of one hart.
  - **State.** `alive` per slot; `mapped`, the user VAs in the page table;
    `cursor`, the hart's `g_ufree_page`; per process `pageDir`
    (`page_dir[0..num_page-1]`), `mallocDir` (the whole `malloc_dir` array,
    stale entries included), `numMalloc`, `heapTop` and `freePages` (the
    naive heap's free stack); `halt`.
  - **Actions.** `BetterMalloc(p, n)` and `BetterFree(p)` (the syscalls
    `better_allocate_page`/`better_free_page`), `NaiveAllocate(p)` and
    `NaiveFree(p)` (`allocate_page`/`free_page`), and the heap side of
    `Fork(p)`, `Exit(p)` and `Exec(p)`. Each is built like `HartKernel`'s:
    a snapshot passed through operators named after the C functions
    (`DoBetterMalloc` → `MallocFirst`/`MallocMore` → `AddToMallocDir` →
    `SortMallocDir`, `AllocNPage` → `AllocPages` → `UserVmMap` →
    `AddToPageDir`, `ClearPageDir`, `ForkHeap`, ...).
  - **Out-of-bounds and undefined reads.** `MallocAt(k, p, -1)` is the
    16 bytes before `malloc_dir`: by the layout of `process` its `va_end`
    is `num_page`. The uncleared entries of `do_fork`'s `free_block_filter`
    are the choice `FilterGarbage`. Writes past `malloc_dir` or
    `free_pages_address` stop the model (`halt`), as the corruption that
    follows is not modelled.
  - `user_vm_map`/`user_vm_unmap` (`vmm.c`, not in the repository's source)
    are modelled from spec.md: a map of a mapped page panics.
- **`FreePages.tla`** models `pmm.c`'s freelist, shared by both harts. Every
  operation holds `page_lock` from start to end, so each is one step. A page
  is its page number, so adjacent pages differ by 1 and NULL is 0. `Init`
  is the list `create_freepage_list` builds: descending, without the last
  page. Actions: `AllocPage` (every `alloc_page` call, `elf_alloc_mb`'s
  included), `ElfAllocOne` (`elf_alloc_mb`'s panic on a NULL it got, a step
  after `page_lock` is released, so another hart may have freed a page in
  between), `ElfAllocTwo` (`alloc_two_page`), and `FreePage(p)`. `PairScan` is the loop of
  `alloc_two_page`, including its NULL dereferences on a short list.
- **`SmpBoot.tla`** runs `s_start` on every hart at once. Each hart has a
  program counter `pc[h]`, and one step is one instruction that touches
  shared memory.
  - `Arrive` is the `amoadd.w` of `sync_barrier`; `Spin` is its `lw` loop,
    which can leave only once the counter has reached `NCPU`.
  - Hart 0 runs `PmmInit` (the descending freelist, as `next` links),
    `KernVmInit` and `FsInit`. The other harts reach the barriers first.
    `kern_vm_init` and `fs_init` are not in the repository's source; each
    is one step that sets a flag.
  - Each hart's `alloc_process` calls `alloc_page` `LoadAllocs` times.
    `alloc_page` is split where the harts can interleave: `SpinLock` (the
    `amoswap` loop), `ReadHead`, `Unlink` (the store to
    `g_free_mem_list.next`) and `SpinUnlock` (the plain store of 0).
    `alloc_two_page` scans and relinks under the lock without touching the
    head, so its body is one step (`TwoScan`, with `FreePages`' `PairScan`
    over the list the hart sees). `Caller` says where the call returns: to
    `alloc_process`, to `elf_load`, or to the page-fault handler.
  - The loader then runs `elf_load` over the hart's program, a sequence of
    segments drawn from `Programs`. `ElfSegment` is one turn of the loop:
    it skips a segment that is not `ELF_PROG_LOAD`, panics on a bad
    `memsz` (`EL_ERR`) or on more than two pages, and otherwise calls the
    allocator for one or two pages (`Want2`). `ElfCheck` is the rest of
    the turn: `elf_alloc_mb`'s panic on NULL and the panic on flags other
    than R|X or R|W. `ElfDone` returns `EL_OK` and schedules the program.
    The bytes read from the file and the `mapped_info` records are not
    modelled.
  - A booted hart may call `sys_user_free_page` on a page its program
    mapped (`FreeCall`, at most `MaxFrees` times; `got[h]` keeps every
    page returned to hart h and `freed[h]` the ones freed). `free_page`
    takes `page_lock` (`SpinLock`, which `AfterLock` sends on to
    `FreeCheck`), panics on a frame outside the region, NULL included,
    else stores `n->next` (`FreeCheck`), then stores the new head
    (`FreeHead`, which may be delayed like `Unlink`'s), then unlocks.
  - Every `panic` is a step of the hart that panics (`Panic`), recorded in
    `halt`, and then no hart moves.
  - After boot, a hart takes traps from its program. `TimerTrap` and
    `TickStore` are the load and the store of `g_ticks++`. `StoreFault`
    calls `alloc_page`, and `MapPages` maps its result, NULL included.
    `LoadFault` panics, and the machine stops (`Panicked`). Syscalls are
    HartKernel's and are left out.
  - `Pmm` instantiates `FreePages` with a refinement mapping. The
    abstract freelist is the chain from `head` through `next`; before
    `pmm_init`, it is the list `pmm_init` will build. The abstract `held`
    is the bag of pages the harts have popped, whether returned yet or
    not, less those pushed back (`Returned`). `Unlink` (or reading NULL)
    is the abstract `AllocPage`, `TwoScan` is `ElfAllocTwo`, the NULL
    panic of `ElfCheck` is `ElfAllocOne`, and `FreeHead` (or the panic of
    `FreeCheck`) is `FreePage`. The allocator's panics map to
    `FreePages`' `halt`, and the other panics to no abstract step.
  - `DelayedStores` lets the head store of `Unlink` or `FreeHead` wait in `pend[h]` until a
    later `Flush`. `spin_unlock` has no fence, so RVWMO allows this.
- **`MCUserHeap.tla`**, **`MCFreePages.tla`**, **`MCSmpBoot.tla`** give
  their constants.

## Runs

The kernel runs use `NPROC = 3`, `TIME_SLICE_LEN = 2` (the code's value),
`MAX_SEMAPHORE_NUM = 1`, sem_new values `{0,1}`, counters capped at
`MaxCount = 2`, and wait arguments `{-1,0,1,2,3}`. That last set includes an
invalid pid.

- Three slots are the fewest in which each of these happens:
  - an orphan can outlive its parent;
  - a slot can be reaped and reused;
  - two processes can block while a third runs.
- `MaxCount` only bounds V in a loop.

The heap runs use `PGSIZE = 2` and `USER_FREE_ADDRESS_START = 16`, well above
the small integers a stray read of `num_page` yields. They use
`MAX_HEAP_PAGES = 4`, `MAX_MALLOC_IN_HEAP = 3`, malloc sizes `{1, 3}` (within
a page, and across two), and at most 3 naive pages.

- With 4 heap pages, `memset` clears 4 div 4 = 1 filter entry, as its 32 bytes
  clear 8 of the 32 entries in the code. The fork-filter run lets the other
  entries read either way (`FilterGarbage = {FALSE, TRUE}`).
- Three malloc slots allow a gap between two allocations with a third
  beside them.

The atomic allocator run manages pages 1..4 of a region 1..5. That is enough
for a pair in the middle of the list, a list of two, and exhaustion. At most
one NULL page is handed out.

The boot runs have `NCPU = 2`, as in the code, and 6 free pages.
`alloc_process` makes 1 `alloc_page` call instead of 5: one already gives
every interleaving of two harts' lock, read, store and unlock steps. Each
hart then loads one of four programs:

- a code page and a two-page data segment;
- a skipped segment, a code page and a segment with unknown flags;
- one segment with a bad `memsz`;
- one segment of three pages.

Finally it takes 1 store fault and frees 1 of its pages. Two harts loading the first program need
8 pages, so the later calls find the list short. They reach NULL from
`alloc_page`, the no-pair panic and the NULL dereference of
`alloc_two_page`, and `elf_alloc_mb`'s panic. `g_ticks` is bounded by 2, so
both harts can sit between the load and the store of `g_ticks++`. A fault
on the emptied list maps NULL, and freeing that page is `free_page(0)`'s
panic; a page freed while the other hart allocates is pushed on a list the
other hart is reading.

`CHECK_DEADLOCK FALSE` everywhere. The real machine stops for good at
`shutdown()` and `panic()`, and the model stops with it. In SmpBoot, a hart
whose program has used its bounded faults and ticks also takes no further
step.

| Run | cfg | Expect | What it shows |
|---|---|---|---|
| wait_liveness | `HartKernelWaitLive.cfg` | pass | Fork/wait/exit workload, checked under weak fairness of the timer. The queues hold no duplicates and never overlap; a process is on the blocked queue exactly when BLOCKED and on the ready queue exactly when READY, and only the current process is RUNNING (`QueuesMatchStatus`). Where the runner sits after a syscall is left out of it: see the divergence under further behaviours. A process blocked in wait() always awaits a non-FREE slot whose parent is the waiter. Every ready process eventually runs. Every parent whose awaited child has exited is eventually resumed, unless the machine stops. |
| sem_refinement | `HartKernelSem.cfg` | pass | Fork and semaphores without wait(): the queues stay consistent as above, and the kernel implements `Semaphore`. |
| parent_cycle | `HartKernelParentCycle.cfg` | violation | The panic is reachable with fork/wait/exit alone. 0 forks 1, and 1 forks 2. 1 exits and 0 reaps it. 0 exits. 2 forks and receives slot 1. Now 1 and 2 are each other's parent. Both wait, and `schedule()` panics. |
| stale_sem_index | `HartKernelStaleSemIndex.cfg` | violation | 0 blocks in P and 1's V releases it, so 0 keeps `sem_index = 0`. 1 exits, 0 forks 2 and Vs, and the semaphore holds a unit. 0 then blocks in wait(2): a blocked process bound to a semaphore with a free unit, which no FIFO semaphore has (`SemRefinement` fails here, state 10). The next V would wake 0 out of wait() and take the unit. |
| heap_better | `UserHeapBetter.cfg` | pass | One process uses both heaps, execs and exits (3.8M states, under 2 minutes). Its live better-heap allocations stay sorted and disjoint through the front, gap and rear paths and the stale entries frees leave. |
| fork_filter_garbage | `UserHeapForkFilter.cfg` | violation | `free_block_filter` is an int array cleared by `MAX_HEAP_PAGES` bytes. 0 allocates naive blocks 16 and 18 and forks; the entry of 18 is uncleared and reads non-zero, so the child maps only 16 (`NaiveHeapMapped`). |
| heap_stray_read | `UserHeapStrayRead.cfg` | violation | malloc(1) gets [16,17). Free it, and malloc(1) again. Now `num_malloc = 0`, so the rear path reads `malloc_dir[-1]` and returns [1,2), outside the heap. |
| heap_remap_after_exit | `UserHeapRemapAfterExit.cfg` | violation | 0 mallocs page 16 and forks 1. 1 mallocs page 18. 0 exits, and `clear_page_dir` moves the shared cursor back to 18. 1's malloc(3) grows at the rear, maps 18 again, and `user_vm_map` panics. |
| smp_boot | `SmpBoot.cfg` | pass | Both harts through `s_start`, `elf_load` and their trap handlers, with stores visible in program order, and one user `free_page` per hart (97k states, under 3 minutes). No hart writes `satp` before the freelist and kernel page table exist, and none allocates before `fs_init`. No two calls of `alloc_page` or `alloc_two_page`, on either hart, return the same page while it is held: at boot, in `elf_load` or in a page fault. Every hart finishes booting unless a panic stops the machine. The split allocator, `free_page` included, implements `FreePages`' atomic one, panics included (`PmmRefinement`). |
| smp_unlock_no_fence | `SmpBootNoFence.cfg` | violation | `spin_unlock` has no fence, so hart 0's store of the new freelist head can still be pending when hart 1 takes the lock. Hart 1 reads the old head, and both harts get the same page (`PagesHandedOnce`). |
| wait_any_zombie | `HartKernelWaitAny.cfg` | violation | 0 forks 1 and 2, and 2 exits. 0's wait(-1) meets 1 (READY) first, breaks out of the scan and blocks on it, while 2 is a ZOMBIE that spec.md 4.8 says wait(-1) reaps at once (`WaitAnyReapsZombie`, 9 states). |
| pmm_two | `FreePagesTwo.cfg` | violation | Two single-page allocations take pages 4 and 3, leaving the list [2, 1]. Those two are adjacent, yet `alloc_two_page` never tests the pair at the head, and it panics. |

Each property of a passing run has a mutant in `PROJECT.json`: a plausible bug
in the definition it is about, which TLC shows breaks the property.

| Property | Mutant |
|---|---|
| `TypeOK` (HartKernel) | a slice one tick long |
| `QueuesMatchStatus` | `free_process` without `remove_from_ready_queue` |
| `ReadyEventuallyRuns` | dispatch from the tail |
| `ZombieWaiterWoken` | the scan tests for FREE instead of ZOMBIE |
| `AwaitedIsLiveChild` | wait without the parent check |
| `SemRefinement` | V wakes the last eligible waiter |
| `TypeOK` (UserHeap) | `alloc_n_page` without the `MAX_HEAP_PAGES` check |
| `MallocDirSortedDisjoint` | a gap one byte too small is taken; the sort's inner loop stops one comparison early |
| `TypeOK` (SmpBoot) | both barriers pass `&sync_counter` |
| `BootOrdered` | the barrier spin leaves one arrival early |
| `BootCompletes` | the barrier spin waits while `local <= all` |
| `PagesHandedOnce` | `spin_lock` enters without retrying |
| `PmmRefinement` | `spin_unlock` moved before the store of the new head |

### Further behaviours the model reaches

These are not given runs of their own. The model reaches each of them with a
constant changed, and TLC showed it while the models were built.

- **Both heaps.** With `Heaps = {"naive", "better"}`, one process maps page
  16 twice (`NoRemap`). Both heaps start at `USER_FREE_ADDRESS_START`.
  `heap_better` reaches this `panic_remap`; `NoRemap` is checked only in
  `heap_remap_after_exit`.
- **Shared cursor.** Two processes mallocing in turn get interleaved pages,
  so a process's `page_dir` is not one contiguous range (spec.md §3).
- **Free stack overflow.** With more naive pages than `MAX_HEAP_PAGES`,
  `free_page` writes past `free_pages_address`
  (`halt = "free_pages_overflow"`).
- **Malloc directory overflow.** A fourth live allocation through the front,
  gap or rear path writes past `malloc_dir` (`halt = "malloc_dir_overflow"`).
  Only the first-page path checks the bound.
- **NULL pages.** On an exhausted freelist, `alloc_page` hands NULL to
  `alloc_n_page`, `alloc_process` and `allocate_page`, which use it.
- **Lost ticks.** Two harts between the load and the store of `g_ticks++`
  count one tick for two, and a late store can move `g_ticks` back. Only
  hart 1's minute print reads it.
- **Stray reads in the scheduler.**
  - If `procs[hartid][-1]` reads as ZOMBIE, the wake scan readies a P-blocked
    process without a V (`SemRefinement`).
- **The runner on the ready queue.** Step 2 of the comment at the head of
  `sched.c` says the process returning to user is taken off the ready
  queue, and spec.md §3/§8 put a RUNNING process on no queue. `do_syscall`
  inserts the caller on entry (`syscall.c` 351), and a handler that
  returns leaves it there, READY, while it runs. With `QueuesMatchStatus`
  strengthened by `status[current] = RUNNING /\ current \notin ready`,
  TLC fails in 2 states, after the first syscall. The wait and semaphore
  runs therefore state the queue invariant without the runner clause.

## Fairness

`Spec` has `WF_vars(TimerTick)`. The machine timer interrupts the running user
process periodically whatever it does, and `rrsched` runs on every timer trap.
Nothing is assumed of user programs: a process may exit, wait or loop as it
pleases.

`SmpBoot` has `WF_vars(Step(h))` for every hart. Each hart is a core that
keeps executing instructions, so an enabled step of a hart is eventually
taken. A spinning hart has no enabled step until the value it spins on
changes, so fairness never forces it past the spin.

## Not modelled, and the plan

- **Abstracted in HartKernel.** Address spaces, trapframes, ELF loading and
  files. They do not feed back into scheduling.
- **Syscall arguments.** P and V get only created semaphore indices
  (`i < numSem`). The code does not check this.
- **UserHeap.**
  - Physical frames are not tracked there: a mapping is a VA in `mapped`,
    and FreePages models the frames.
  - `user_vm_unmap` of an unmapped VA is a no-op.
  - Processes never wait in UserHeap. A slot is reusable as soon as its
    process exits, as if it were already reaped.
  - Code and stack segments, and the CoW handling of fork, are not modelled.
- **Mixed workload.** No passing run mixes wait() and semaphores:
  `stale_sem_index` shows that the mix breaks `SemRefinement`, and under
  the mix TLC also finds `AwaitedIsLiveChild` violated. The queue invariants are checked in the wait and
  semaphore runs separately.
- **SmpBoot.**
  - Only the stores of the new head may be delayed. The store of
    `n->next` in `alloc_two_page` is made visible at once.
  - `elf_load`'s `mapped_info` records are not modelled. Each segment is
    recorded with `npages = 1`, even a two-page one (`elf.c` 135), and
    `do_fork` copies `npages` pages of a data segment. Showing what a
    child then lacks needs a model of `do_fork`'s segment copy, which
    nothing here has.
  - `rrsched`'s effect on the queues is HartKernel's, and syscalls are
    left out. `map_pages` (in `vmm.c`, not in the repository's
  source) is one step: a store fault on a page that is already mapped
  read-only would panic there. This case is not modelled.
- **User library, shell, `string.c`, `stdio.c`.** spec.md puts the shell,
  ELF parsing and the network labs outside its scope. These files have no
  shared state and no concurrency: syscall wrappers, argument splitting and
  `printf` formatting, all sequential functions of their inputs. Their
  effect on the kernel enters as HartKernel's syscall inputs.
- **FreePages.** A caller that got NULL does nothing further in the model,
  except a user `free_page` of it in SmpBoot. A user free of a VA that is
  not mapped, or of one freed already, is not modelled: `user_vm_unmap` is
  not in the repository's source.
  The last page of memory, which `create_freepage_list` leaves out, is
  simply not managed.
- **Later modules, in order:**
  1. **Two harts sharing `semaphores[]`.** Unlocked `add_to_semaphores` and
     P/V read-modify-write steps, split into separate steps. A V on one hart
     cannot wake a waiter on another.
  2. **The selective-repeat sender** over a lossy, reordering channel, with
     sequence-number wraparound.
  3. **A ghost variable in `HartKernel`** for the return value of a wait()
     that blocked (`process.c` 413). The wait(-1) scan that stops at the
     first live child is `wait_any_zombie`.
