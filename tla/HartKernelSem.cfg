\* Programs that fork and use semaphores, without wait().
CONSTANTS
  NPROC <- MC_NPROC
  MAX_SEMAPHORE_NUM <- MC_MAX_SEMAPHORE_NUM
  TIME_SLICE_LEN <- MC_TIME_SLICE_LEN
  SemInit <- MC_SemInit
  MaxCount <- MC_MaxCount
  StrayZombieReads <- MC_StrayZombieReads
  StraySemInit <- MC_StraySemInit
  WaitArgs <- MC_NoWait

SPECIFICATION Spec
PROPERTY SemRefinement
\* The machine stops for good at shutdown() or panic().
CHECK_DEADLOCK FALSE
