---------------------------- MODULE MCFreePages ----------------------------
EXTENDS FreePages

\* Four managed pages 1..4 (page 5 is the one create_freepage_list leaves out).
MC_FirstPage == 1
MC_EndPage == 6
MC_MaxNullUses == 1
=============================================================================
