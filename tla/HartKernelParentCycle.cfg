\* Fork, wait and exit only: can an orphan's stale parent link reach a panic?
CONSTANTS
  NPROC <- MC_NPROC
  MAX_SEMAPHORE_NUM <- MC_NoSemaphores
  TIME_SLICE_LEN <- MC_TIME_SLICE_LEN
  SemInit <- MC_SemInit
  MaxCount <- MC_MaxCount
  StrayZombieReads <- MC_StrayZombieReads
  StraySemInit <- MC_StraySemInit
  WaitArgs <- MC_WaitArgs

SPECIFICATION Spec
INVARIANT NoPanicWithoutSemaphores
\* The machine stops for good at shutdown() or panic().
CHECK_DEADLOCK FALSE
