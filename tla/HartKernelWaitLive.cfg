\* Programs that fork, wait and exit, without semaphores.
CONSTANTS
  NPROC <- MC_NPROC
  MAX_SEMAPHORE_NUM <- MC_NoSemaphores
  TIME_SLICE_LEN <- MC_TIME_SLICE_LEN
  SemInit <- MC_SemInit
  MaxCount <- MC_MaxCount
  StrayZombieReads <- MC_StrayZombieReads
  StraySemInit <- MC_StraySemInit
  WaitArgs <- MC_WaitArgs

SPECIFICATION Spec
INVARIANT TypeOK
INVARIANT QueuesMatchStatus
INVARIANT AwaitedIsLiveChild
PROPERTY ReadyEventuallyRuns
PROPERTY ZombieWaiterWoken
\* The machine stops for good at shutdown() or panic().
CHECK_DEADLOCK FALSE
