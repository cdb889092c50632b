\* The allocator under every sequence of alloc_page, elf_alloc_mb and
\* free_page.  A panic stops the machine for good, so no deadlock check.
CONSTANTS
  FirstPage <- MC_FirstPage
  EndPage <- MC_EndPage
  MaxNullUses <- MC_MaxNullUses
SPECIFICATION Spec
PROPERTY AllocTwoFindsPair
CHECK_DEADLOCK FALSE
