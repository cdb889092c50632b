\* Both harts through s_start and then their trap handlers, with the
\* stores of alloc_page made visible in program order.  A hart whose
\* program has used its faults and ticks takes no further step here, and
\* a load fault panics the machine: the run stops there.
CONSTANTS
  NCPU <- MC_NCPU
  Pages <- MC_Pages
  LoadAllocs <- MC_LoadAllocs
  Programs <- MC_Programs
  MaxFaults <- MC_MaxFaults
  MaxTicks <- MC_MaxTicks
  MaxFrees <- MC_MaxFrees
  DelayedStores <- MC_InOrderStores
SPECIFICATION Spec
INVARIANT TypeOK
INVARIANT BootOrdered
INVARIANT PagesHandedOnce
PROPERTY BootCompletes
PROPERTY PmmRefinement
CHECK_DEADLOCK FALSE
