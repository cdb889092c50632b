----------------------------- MODULE HartKernel -----------------------------
(***************************************************************************)
(* One hart of the PKE proxy kernel: its process pool procs[hartid][..],  *)
(* its ready and blocked queues, the process running on it, and the       *)
(* semaphore table, as driven by the trap entry (strap.c), the syscall    *)
(* dispatcher (syscall.c), the lifecycle calls (process.c) and the        *)
(* scheduler (sched.c).                                                   *)
(*                                                                        *)
(* Each hart owns its own procs row and queues and never touches the      *)
(* other's (sched.c:16), and the kernel is not preemptible, so a trap is  *)
(* handled to completion before the next one: every action below is one  *)
(* whole trap, from smode_trap_handler to switch_to / return_to_user, or  *)
(* to shutdown / panic.                                                   *)
(*                                                                        *)
(* The intrusive queue_next lists are sequences.  Addresses, trapframes,  *)
(* page tables and the file table are left out: the scheduler never reads *)
(* them.  The user program is arbitrary: the running process may issue   *)
(* any syscall at any time.                                               *)
(***************************************************************************)
EXTENDS Integers, Sequences, SequencesExt, FiniteSets

CONSTANTS
  NPROC,              \* size of the process pool (process.h:23, 32 there)
  MAX_SEMAPHORE_NUM,  \* size of the semaphore table (sched.h:8, 10 there)
  TIME_SLICE_LEN,     \* ticks per slice (sched.h:7)
  SemInit,            \* initial values a program passes to sem_new
  MaxCount,           \* bound on a semaphore counter (model bound)
  StrayZombieReads,   \* what procs[hartid][-1].status == ZOMBIE may read
  StraySemInit,       \* what the word semaphores[-1] may hold at boot
  WaitArgs            \* the pids the program passes to wait()

ASSUME NPROC \in Nat \ {0}
ASSUME MAX_SEMAPHORE_NUM \in Nat /\ TIME_SLICE_LEN \in Nat \ {0}
ASSUME SemInit \subseteq Nat /\ MaxCount \in Nat
ASSUME StrayZombieReads \subseteq BOOLEAN /\ StrayZombieReads # {}
ASSUME StraySemInit \subseteq Int /\ StraySemInit # {}
ASSUME WaitArgs \subseteq Int

Procs == 0 .. NPROC - 1
NULL  == -1             \* the NULL parent pointer and the -1 indices
SemIds == 0 .. MAX_SEMAPHORE_NUM - 1

\* enum proc_status (process.h:43-49)
FREE == "FREE"  READY == "READY"  RUNNING == "RUNNING"
BLOCKED == "BLOCKED"  ZOMBIE == "ZOMBIE"
Status == {FREE, READY, RUNNING, BLOCKED, ZOMBIE}

VARIABLES
  status,      \* procs[hartid][p].status
  parent,      \* procs[hartid][p].parent, as a slot index or NULL
  waiting,     \* procs[hartid][p].waiting_pid
  semIndex,    \* procs[hartid][p].sem_index
  tick,        \* procs[hartid][p].tick_count
  ready,       \* ready_queue_head[hartid] and its queue_next chain
  blocked,     \* blocked_queue_head[hartid] and its queue_next chain
  current,     \* current[hartid]
  semaphores,  \* semaphores[] (sched.c:21)
  numSem,      \* num_semaphores (sched.c:22)
  straySem,    \* the int just before semaphores[], read as semaphores[-1]
  halt         \* "none", or how the machine stopped: shutdown or panic

vars == <<status, parent, waiting, semIndex, tick, ready, blocked, current,
          semaphores, numSem, straySem, halt>>

(***************************************************************************)
(* The kernel state as one record, so that a trap handler can be written  *)
(* as the composition of the C functions it calls, each a map from record *)
(* to record, and committed once at the end.                              *)
(***************************************************************************)
Snap == [status |-> status, parent |-> parent, waiting |-> waiting,
         semIndex |-> semIndex, tick |-> tick, ready |-> ready,
         blocked |-> blocked, current |-> current, semaphores |-> semaphores,
         numSem |-> numSem, straySem |-> straySem, halt |-> halt]

Commit(k) ==
  /\ status' = k.status      /\ parent' = k.parent    /\ waiting' = k.waiting
  /\ semIndex' = k.semIndex  /\ tick' = k.tick        /\ ready' = k.ready
  /\ blocked' = k.blocked    /\ current' = k.current
  /\ semaphores' = k.semaphores /\ numSem' = k.numSem
  /\ straySem' = k.straySem  /\ halt' = k.halt

-----------------------------------------------------------------------------
(* sched.c: the queues                                                    *)

\* insert_to_ready_queue: append and mark READY, unless already linked
\* (then it returns without touching the status).
InsertToReadyQueue(k, p) ==
  IF Contains(k.ready, p) THEN k
  ELSE [k EXCEPT !.status[p] = READY, !.ready = Append(@, p)]

InsertToBlockedQueue(k, p) ==
  IF Contains(k.blocked, p) THEN k
  ELSE [k EXCEPT !.status[p] = BLOCKED, !.blocked = Append(@, p)]

\* remove_from_*_queue unlink p if it is linked and leave its status alone.
RemoveFromReadyQueue(k, p) == [k EXCEPT !.ready = RemoveFirst(@, p)]
RemoveFromBlockedQueue(k, p) == [k EXCEPT !.blocked = RemoveFirst(@, p)]

FromReadyToBlocked(k, p) == InsertToBlockedQueue(RemoveFromReadyQueue(k, p), p)
FromBlockedToReady(k, p) == InsertToReadyQueue(RemoveFromBlockedQueue(k, p), p)

(***************************************************************************)
(* schedule().  The wake scan reads procs[hartid][p->waiting_pid] for     *)
(* every blocked p, also when waiting_pid is -1 (a semaphore waiter): that *)
(* reads past the row, and zs[p] is what that read yields.  A woken p is  *)
(* appended to the ready queue, which sets p->queue_next = NULL, so the   *)
(* loop ends at the first process it wakes.                               *)
(***************************************************************************)
\* mutant: the scan looks for a reaped (FREE) child instead of a ZOMBIE one
ScanWakesFree(k, zs, p) ==
  IF k.waiting[p] >= 0 THEN k.status[k.waiting[p]] = FREE ELSE zs[p]

ScanWakes(k, zs, p) ==
  IF k.waiting[p] >= 0 THEN k.status[k.waiting[p]] = ZOMBIE ELSE zs[p]

WakeScan(k, zs) ==
  LET i == SelectInSeq(k.blocked, LAMBDA p : ScanWakes(k, zs, p))
  IN  IF i = 0 THEN k
      ELSE LET p == k.blocked[i]
           IN  FromBlockedToReady([k EXCEPT !.waiting[p] = NULL], p)

\* mutant: schedule() takes the tail of the ready queue
DispatchLast(k) ==
  IF k.ready = <<>>
  THEN [k EXCEPT !.halt =
          IF \A q \in Procs : k.status[q] \in {FREE, ZOMBIE}
          THEN "shutdown" ELSE "panic_no_ready"]
  ELSE LET p == k.ready[Len(k.ready)]
       IN  [k EXCEPT !.current = p, !.status[p] = RUNNING,
                     !.ready = SubSeq(@, 1, Len(@) - 1)]

Dispatch(k) ==
  IF k.ready = <<>>
  THEN [k EXCEPT !.halt =
          IF \A q \in Procs : k.status[q] \in {FREE, ZOMBIE}
          THEN "shutdown" ELSE "panic_no_ready"]
  ELSE LET p == Head(k.ready)
       IN  [k EXCEPT !.current = p, !.status[p] = RUNNING,
                     !.ready = Tail(@)]

Schedule(k, zs) == Dispatch(WakeScan(k, zs))

StrayReads == [Procs -> StrayZombieReads]

-----------------------------------------------------------------------------
(* process.c: lifecycle                                                   *)

\* free_process: ZOMBIE, directories cleared, unlinked from both queues.
\* mutant: free_process forgets remove_from_ready_queue
FreeProcessKeepReady(k, p) ==
  RemoveFromBlockedQueue([k EXCEPT !.status[p] = ZOMBIE], p)

FreeProcess(k, p) ==
  RemoveFromReadyQueue(RemoveFromBlockedQueue(
      [k EXCEPT !.status[p] = ZOMBIE], p), p)

\* clear_process: the fields exec resets that the scheduler reads.
ClearProcess(k, p) == [k EXCEPT !.semIndex[p] = NULL, !.waiting[p] = NULL]

\* do_syscall entry: the caller is put on the ready queue first.
Enter(k) == InsertToReadyQueue(k, k.current)

-----------------------------------------------------------------------------
(* Traps taken by the running process                                     *)

Running == halt = "none"

\* Any syscall that does not touch scheduling state (print, scan, file
\* calls, naive heap calls, printpa): entry insert, then switch_to(current).
SysOther ==
  /\ Running
  /\ Commit(Enter(Snap))

SysExit ==
  /\ Running
  /\ \E zs \in StrayReads :
       Commit(Schedule(FreeProcess(Enter(Snap), current), zs))

\* alloc_process: the first FREE slot, or NULL where the code panics.  It
\* does not reset waiting_pid, sem_index, tick_count or parent.
AllocProcess(k) ==
  LET free == {q \in Procs : k.status[q] = FREE}
  IN  IF free = {} THEN NULL ELSE Min(free)

\* do_fork: the child is READY, its parent is the caller, and it is put on
\* the ready queue; the caller keeps running.
SysFork ==
  /\ Running
  /\ LET k == Enter(Snap)
         c == AllocProcess(k)
     IN  IF c = NULL
         THEN Commit([k EXCEPT !.halt = "panic_no_free_proc"])
         ELSE Commit(InsertToReadyQueue(
                  [k EXCEPT !.status[c] = READY, !.parent[c] = k.current], c))

SysYield ==
  /\ Running
  /\ \E zs \in StrayReads :
       LET k == Enter(Snap)
       IN  Commit(Schedule(FromBlockedToReady(
                      [k EXCEPT !.status[k.current] = READY], k.current), zs))

\* do_wait(pid): reap a ZOMBIE child at once, else block on one.
\* For pid = -1 the scan stops at the first non-FREE child, zombie or not.
\* mutant: wait(pid) does not check that pid is the caller's child
WaitTargetAnyPid(k, pid) ==
  LET me == k.current
      isChild(q) == k.parent[q] = me /\ k.status[q] # FREE
      kids == {q \in Procs : isChild(q)}
  IN  IF pid = -1 THEN (IF kids = {} THEN NULL ELSE Min(kids))
      ELSE IF pid \in Procs /\ k.status[pid] # FREE THEN pid
      ELSE NULL

WaitTarget(k, pid) ==
  LET me == k.current
      isChild(q) == k.parent[q] = me /\ k.status[q] # FREE
      kids == {q \in Procs : isChild(q)}
  IN  IF pid = -1 THEN (IF kids = {} THEN NULL ELSE Min(kids))
      ELSE IF pid \in Procs /\ isChild(pid) THEN pid
      ELSE NULL

SysWait(pid) ==
  /\ Running
  /\ \E zs \in StrayReads :
       LET k == Enter(Snap)
           c == WaitTarget(k, pid)
       IN  IF c = NULL THEN Commit(k)
           ELSE IF k.status[c] = ZOMBIE
           THEN Commit([k EXCEPT !.status[c] = FREE])
           ELSE Commit(Schedule(FromReadyToBlocked(
                    [k EXCEPT !.waiting[k.current] = c], k.current), zs))

\* do_exec: clear_process, load the new image, then schedule().
SysExec ==
  /\ Running
  /\ \E zs \in StrayReads :
       Commit(Schedule(ClearProcess(Enter(Snap), current), zs))

\* add_to_semaphores: panics when the table is full.
SysSemNew(v) ==
  /\ Running
  /\ LET k == Enter(Snap)
     IN  IF k.numSem + 1 > MAX_SEMAPHORE_NUM
         THEN Commit([k EXCEPT !.halt = "panic_sem_table"])
         ELSE Commit([k EXCEPT !.semaphores[k.numSem] = v,
                               !.numSem = @ + 1])

\* P_semaphore
SysSemP(i) ==
  /\ Running
  /\ i < numSem
  /\ \E zs \in StrayReads :
       LET k == Enter(Snap)
       IN  IF k.semaphores[i] >= 1
           THEN Commit([k EXCEPT !.semaphores[i] = @ - 1])
           ELSE Commit(Schedule(FromReadyToBlocked(
                    [k EXCEPT !.semIndex[k.current] = i], k.current), zs))

(***************************************************************************)
(* V_semaphore: increment, then wake the first blocked p whose            *)
(* semaphores[p->sem_index] >= 1, whatever p is blocked for; with         *)
(* sem_index = -1 that is the word before the table.  The wake appends p  *)
(* to the ready queue and so ends the loop.                               *)
(***************************************************************************)
SemWord(k, p) ==
  IF k.semIndex[p] >= 0 THEN k.semaphores[k.semIndex[p]] ELSE k.straySem

TakeSemWord(k, p) ==
  IF k.semIndex[p] >= 0 THEN [k EXCEPT !.semaphores[k.semIndex[p]] = @ - 1]
  ELSE [k EXCEPT !.straySem = @ - 1]

\* mutant: V wakes the last eligible waiter instead of the first
VScanLast(k) ==
  LET I == {i \in 1 .. Len(k.blocked) : SemWord(k, k.blocked[i]) >= 1}
  IN  IF I = {} THEN k
      ELSE LET p == k.blocked[Max(I)]
           IN  FromBlockedToReady(TakeSemWord(k, p), p)

VScan(k) ==
  LET i == SelectInSeq(k.blocked, LAMBDA p : SemWord(k, p) >= 1)
  IN  IF i = 0 THEN k
      ELSE FromBlockedToReady(TakeSemWord(k, k.blocked[i]), k.blocked[i])

SysSemV(i) ==
  /\ Running
  /\ i < numSem
  /\ semaphores[i] < MaxCount
  /\ LET k == Enter(Snap)
     IN  Commit(VScan([k EXCEPT !.semaphores[i] = @ + 1]))

\* mutant: rrsched lets a process run one tick past its slice
TimerTickLate ==
  /\ Running
  /\ \E zs \in StrayReads :
       LET me == current
       IN  IF tick[me] + 1 > TIME_SLICE_LEN
           THEN Commit(Schedule(InsertToReadyQueue(
                    [Snap EXCEPT !.tick[me] = 0, !.status[me] = READY], me),
                    zs))
           ELSE Commit([Snap EXCEPT !.tick[me] = @ + 1])

\* Timer interrupt: handle_mtimer_trap, then rrsched().
TimerTick ==
  /\ Running
  /\ \E zs \in StrayReads :
       LET me == current
       IN  IF tick[me] + 1 >= TIME_SLICE_LEN
           THEN Commit(Schedule(InsertToReadyQueue(
                    [Snap EXCEPT !.tick[me] = 0, !.status[me] = READY], me),
                    zs))
           ELSE Commit([Snap EXCEPT !.tick[me] = @ + 1])

-----------------------------------------------------------------------------
(***************************************************************************)
(* Boot (kernel.c s_start): init_proc_pool, then load_user_program takes  *)
(* slot 0, inserts it in the ready queue and schedule() dispatches it.    *)
(***************************************************************************)
Init ==
  /\ status = [p \in Procs |-> IF p = 0 THEN RUNNING ELSE FREE]
  /\ parent = [p \in Procs |-> NULL]
  /\ waiting = [p \in Procs |-> NULL]
  /\ semIndex = [p \in Procs |-> NULL]
  /\ tick = [p \in Procs |-> 0]
  /\ ready = <<>>
  /\ blocked = <<>>
  /\ current = 0
  /\ semaphores = [s \in SemIds |-> 0]
  /\ numSem = 0
  /\ straySem \in StraySemInit
  /\ halt = "none"

Next ==
  \/ SysOther
  \/ SysExit
  \/ SysFork
  \/ SysYield
  \/ \E pid \in WaitArgs : SysWait(pid)
  \/ SysExec
  \/ \E v \in SemInit : SysSemNew(v)
  \/ \E i \in SemIds : SysSemP(i)
  \/ \E i \in SemIds : SysSemV(i)
  \/ TimerTick

\* The timer interrupt fires whenever a user process runs.
Fairness == WF_vars(TimerTick)

Spec == Init /\ [][Next]_vars /\ Fairness

-----------------------------------------------------------------------------
TypeOK ==
  /\ status \in [Procs -> Status]
  /\ parent \in [Procs -> Procs \cup {NULL}]
  /\ waiting \in [Procs -> Procs \cup {NULL}]
  /\ semIndex \in [Procs -> SemIds \cup {NULL}]
  /\ tick \in [Procs -> 0 .. TIME_SLICE_LEN - 1]
  /\ ready \in Seq(Procs) /\ blocked \in Seq(Procs)
  /\ current \in Procs
  /\ semaphores \in [SemIds -> 0 .. MaxCount]
  /\ numSem \in 0 .. MAX_SEMAPHORE_NUM
  /\ straySem \in Int
  /\ halt \in {"none", "shutdown", "panic_no_ready", "panic_no_free_proc",
               "panic_sem_table"}

(***************************************************************************)
(* While the machine runs, the two intrusive queues and the status fields *)
(* agree, through every fork, exit, wait, reap and semaphore block and    *)
(* wake: no process is on a queue twice or on both; a process is on the  *)
(* blocked queue exactly when it is BLOCKED and on the ready queue        *)
(* exactly when it is READY; only the current process is RUNNING.  Each  *)
(* syscall inserts the caller on entry (do_syscall), so every handler     *)
(* that blocks or frees it must take it off again, and free_process and   *)
(* the wake scans must move exactly the processes they change.  (Where    *)
(* the runner is after a syscall that returns to it is not stated here:   *)
(* it stays READY on the ready queue, against step 2 of sched.c's header *)
(* comment; see README.md.)                                               *)
(***************************************************************************)
QueuesMatchStatus ==
  halt = "none" =>
    /\ Len(ready) = Cardinality(ToSet(ready))
    /\ Len(blocked) = Cardinality(ToSet(blocked))
    /\ ToSet(ready) \cap ToSet(blocked) = {}
    /\ \A p \in Procs :
         /\ (p \in ToSet(blocked)) <=> (status[p] = BLOCKED)
         /\ (p \in ToSet(ready)) <=> (status[p] = READY)
         /\ status[p] = RUNNING => p = current

(***************************************************************************)
(* Round robin: a process waiting on the ready queue (not the runner,     *)
(* which may sit there too) is eventually dispatched: schedule() pops the *)
(* head and rrsched() requeues the runner at the tail every               *)
(* TIME_SLICE_LEN ticks; unless the machine stops first.                  *)
(***************************************************************************)
ReadyEventuallyRuns ==
  \A p \in Procs :
    (p \in ToSet(ready) /\ p # current /\ halt = "none") ~> (status[p] = RUNNING \/ halt # "none")

(***************************************************************************)
(* A parent blocked in wait() on a child that has exited is eventually    *)
(* woken by the wake scan of schedule(), although that scan stops at the  *)
(* first process it wakes.                                                *)
(***************************************************************************)
ZombieWaiterWoken ==
  \A p \in Procs :
    (status[p] = BLOCKED /\ waiting[p] # NULL /\ status[waiting[p]] = ZOMBIE)
      ~> (status[p] # BLOCKED \/ halt # "none")

(***************************************************************************)
(* A process blocked in wait() awaits a live child of its own: the child  *)
(* it named is not FREE and its parent link points back at the waiter.   *)
(* Only the waiter can reap that child, and a slot is reused only once    *)
(* FREE, so no exit, reap or fork of another process can break this.     *)
(***************************************************************************)
AwaitedIsLiveChild ==
  \A p \in ToSet(blocked) :
    waiting[p] # NULL =>
      /\ status[waiting[p]] # FREE
      /\ parent[waiting[p]] = p

(***************************************************************************)
(* Without semaphores, schedule() never finds the ready queue empty while *)
(* a process is still alive: every blocked parent waits on a descendant   *)
(* chain that ends in a runnable or exited process, and the wake scan     *)
(* readies a parent whose child has exited.  spec.md 4.5 calls that panic *)
(* an invariant violation.                                                *)
(***************************************************************************)
NoPanicWithoutSemaphores == halt # "panic_no_ready"

(***************************************************************************)
(* spec.md 4.8 and the fork-wait pairing of spec.md 9: wait(-1) reaps a   *)
(* ZOMBIE child at once whenever the caller has one.  do_wait's scan      *)
(* (process.c:369-379) stops at the first non-FREE child it meets, so no  *)
(* step of wait(-1) may block the caller while one of its children is a   *)
(* ZOMBIE.                                                                *)
(***************************************************************************)
HasZombieChild(p) == \E q \in Procs : parent[q] = p /\ status[q] = ZOMBIE

WaitAnyReapsZombie ==
  [][SysWait(-1) /\ HasZombieChild(current) => status'[current] # BLOCKED]_vars

(***************************************************************************)
(* The semaphore syscalls implement Semaphore: the counters are           *)
(* semaphores[], and the processes blocked on s are those on the blocked  *)
(* queue whose sem_index is s, in queue order.                            *)
(***************************************************************************)
SemQueue(s) == SelectSeq(blocked, LAMBDA p : semIndex[p] = s)

Sem == INSTANCE Semaphore WITH
         Proc <- Procs, MaxSem <- MAX_SEMAPHORE_NUM, InitVals <- SemInit,
         count <- semaphores, queue <- [s \in SemIds |-> SemQueue(s)]

SemRefinement == Sem!Spec

=============================================================================
