\* Two process slots using allocate_page/free_page and fork: the entries of
\* free_block_filter that memset leaves uncleared may read non-zero.
CONSTANTS
  Procs <- MC_TwoProcs
  PGSIZE <- MC_PGSIZE
  USER_FREE_ADDRESS_START <- MC_USER_FREE_ADDRESS_START
  MAX_HEAP_PAGES <- MC_MAX_HEAP_PAGES
  MAX_MALLOC_IN_HEAP <- MC_MAX_MALLOC_IN_HEAP
  Sizes <- MC_Sizes
  Heaps <- MC_Naive
  MaxNaivePages <- MC_MaxNaivePages
  FilterGarbage <- MC_FilterAny

SPECIFICATION Spec
INVARIANT NaiveHeapMapped
\* The kernel stops for good at panic(), and at shutdown() once every process has exited.
CHECK_DEADLOCK FALSE
