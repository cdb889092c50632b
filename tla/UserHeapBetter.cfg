\* One process using both heaps: better_malloc/free and
\* allocate_page/free_page, exec and exit (fork finds no free slot).
CONSTANTS
  Procs <- MC_OneProc
  PGSIZE <- MC_PGSIZE
  USER_FREE_ADDRESS_START <- MC_USER_FREE_ADDRESS_START
  MAX_HEAP_PAGES <- MC_MAX_HEAP_PAGES
  MAX_MALLOC_IN_HEAP <- MC_MAX_MALLOC_IN_HEAP
  Sizes <- MC_Sizes
  Heaps <- MC_BothHeaps
  MaxNaivePages <- MC_MaxNaivePages
  FilterGarbage <- MC_FilterZero

SPECIFICATION Spec
INVARIANT TypeOK
INVARIANT MallocDirSortedDisjoint
\* The kernel stops for good at panic(), and at shutdown() once every process has exited.
CHECK_DEADLOCK FALSE
