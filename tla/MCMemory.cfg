SPECIFICATION FairSpec
INVARIANTS TypeOK BlocksAreOwned TablesApart KernelStaysMapped
PROPERTIES FailureIsClean CallsReturn IsFlat
CONSTRAINT WhileIntact
CONSTANTS
  PageSize = 2
  Entries = 4
  Pd = 8
  BootMemory <- MCBootMemory
  Heaps <- MCHeaps
  Videos <- MCVideos
  Bootstrap <- MCBootstrap
  Mbi = 1
  Sizes = {0, 1, 2, 3, 30}
  MaxBlocks = 3
  Cacheable <- MCCacheable
  StackPage <- MCStackPage
CHECK_DEADLOCK FALSE
