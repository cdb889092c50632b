\* s_start on both harts with spin_unlock's missing fence: the store of
\* the new freelist head may become visible after the lock is released.
CONSTANTS
  NCPU <- MC_NCPU
  Pages <- MC_Pages
  LoadAllocs <- MC_LoadAllocs
  Programs <- MC_Programs
  MaxFaults <- MC_MaxFaults
  MaxTicks <- MC_MaxTicks
  MaxFrees <- MC_MaxFrees
  DelayedStores <- MC_DelayedStores
SPECIFICATION Spec
INVARIANT PagesHandedOnce
CHECK_DEADLOCK FALSE
