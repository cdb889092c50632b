----------------------------- MODULE MCSmpBoot -----------------------------
EXTENDS SmpBoot

\* Two harts, as NCPU in the code.  alloc_process takes one page here (it
\* takes 5 in the code; one already lets the harts alternate on page_lock)
\* and each hart then loads one of the programs below and takes one store
\* page fault.  Six pages: two harts loading Code1 and Data2 need eight,
\* so the lists run short on the later calls and the NULL and
\* no-adjacent-pair paths are reached.  g_ticks up to 2: both harts can be
\* between the load and the store of g_ticks++.
Code1 == [load |-> TRUE, pages |-> 1, ok |-> TRUE, flags |-> "RX"]
Data2 == [load |-> TRUE, pages |-> 2, ok |-> TRUE, flags |-> "RW"]
Note == [load |-> FALSE, pages |-> 1, ok |-> TRUE, flags |-> "other"]
Bad == [load |-> TRUE, pages |-> 1, ok |-> FALSE, flags |-> "RW"]
Big == [load |-> TRUE, pages |-> 3, ok |-> TRUE, flags |-> "RW"]
Odd == [load |-> TRUE, pages |-> 1, ok |-> TRUE, flags |-> "other"]

MC_NCPU == 2
MC_Pages == 1 .. 6
MC_LoadAllocs == 1
MC_Programs == {<<Code1, Data2>>, <<Note, Code1, Odd>>, <<Bad>>, <<Big>>}
MC_MaxFaults == 1
MC_MaxTicks == 2
MC_MaxFrees == 1
MC_InOrderStores == {FALSE}
MC_DelayedStores == {FALSE, TRUE}
=============================================================================
