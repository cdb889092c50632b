\* Two processes on the cursor, one exiting while the other keeps its pages.
CONSTANTS
  Procs <- MC_TwoProcs
  PGSIZE <- MC_PGSIZE
  USER_FREE_ADDRESS_START <- MC_USER_FREE_ADDRESS_START
  MAX_HEAP_PAGES <- MC_MAX_HEAP_PAGES
  MAX_MALLOC_IN_HEAP <- MC_MAX_MALLOC_IN_HEAP
  Sizes <- MC_Sizes
  Heaps <- MC_Better
  MaxNaivePages <- MC_MaxNaivePages
  FilterGarbage <- MC_FilterZero

SPECIFICATION Spec
INVARIANT NoRemap
\* The kernel stops for good at panic(), and at shutdown() once every process has exited.
CHECK_DEADLOCK FALSE
