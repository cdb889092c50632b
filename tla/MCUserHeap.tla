---------------------------- MODULE MCUserHeap -----------------------------
EXTENDS UserHeap

\* Pages of 2 units; the heaps start well above the small integers that a
\* stray read of num_page yields, as USER_FREE_ADDRESS_START does.
MC_PGSIZE == 2
MC_USER_FREE_ADDRESS_START == 16
\* 4 pages: memset clears MAX_HEAP_PAGES \div 4 = 1 filter entry, as 32
\* bytes clear 8 of the 32 entries in the code.
MC_MAX_HEAP_PAGES == 4
MC_MAX_MALLOC_IN_HEAP == 3
\* A size within a page and one that spans two.
MC_Sizes == {1, 3}
MC_OneProc == {0}
MC_TwoProcs == {0, 1}
MC_Better == {"better"}
MC_Naive == {"naive"}
MC_MaxNaivePages == 3
MC_FilterZero == {FALSE}
MC_FilterAny == {FALSE, TRUE}
MC_BothHeaps == {"naive", "better"}

=============================================================================
