SPECIFICATION Spec
INVARIANTS TypeOK PoolSuffices HeapIsLargest MaskedIsQuiet
PROPERTIES VirtualIsLinked FaultsAreReported
CONSTANTS
  PageSize = 2
  Entries = 8
  Pd = 4
  Base = 64
  Pool = 5
  PoolSize = 3
  Layouts <- MCLayouts
  Infos <- MCInfos
  Irqs = {0, 8}
  Exceptions = {14}
  LoaderMasks <- MCMasks
CHECK_DEADLOCK FALSE
