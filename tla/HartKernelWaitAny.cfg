\* Fork, wait and exit only: does wait(-1) ever block beside a ZOMBIE child?
CONSTANTS
  NPROC <- MC_NPROC
  MAX_SEMAPHORE_NUM <- MC_NoSemaphores
  TIME_SLICE_LEN <- MC_TIME_SLICE_LEN
  SemInit <- MC_SemInit
  MaxCount <- MC_MaxCount
  StrayZombieReads <- MC_StrayZombieReads
  StraySemInit <- MC_StraySemInit
  WaitArgs <- MC_WaitArgs

SPECIFICATION Spec
PROPERTY WaitAnyReapsZombie
\* The machine stops for good at shutdown() or panic().
CHECK_DEADLOCK FALSE
