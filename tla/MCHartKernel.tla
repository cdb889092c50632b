--------------------------- MODULE MCHartKernel ---------------------------
(***************************************************************************)
(* Model-checking instances of HartKernel.  Three process slots: enough   *)
(* for a parent, a child and a grandchild, or for a slot to be reaped and *)
(* reused by a later fork.  One semaphore, created with 0 or 1, counters  *)
(* capped at 2.                                                           *)
(***************************************************************************)
EXTENDS HartKernel

MC_NPROC == 3
MC_TIME_SLICE_LEN == 2
MC_MaxCount == 2
MC_SemInit == {0, 1}

\* Programs that use semaphores create one; programs that do not, none
\* (then sem_new panics on the full table, as the real one does at 10).
MC_MAX_SEMAPHORE_NUM == 1
MC_NoSemaphores == 0

\* wait(-1), wait on every slot, and an out-of-range pid; or no wait().
MC_WaitArgs == {-1} \cup (0 .. MC_NPROC)
MC_NoWait == {}

\* The memory before procs[0] and before semaphores[] holds no ZOMBIE (4)
\* and no positive int.
MC_StrayZombieReads == {FALSE}
MC_StraySemInit == {0}
=============================================================================
