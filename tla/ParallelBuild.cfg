SPECIFICATION FairSpec
CONSTANTS
  Names = {a, b}
  MaxFiles = 3
  MaxSymbols = 2
  MaxSamples = 1
  HardwareThreads = 2
  MinFilesPerThread = 1
CHECK_DEADLOCK FALSE
INVARIANTS TypeOK EveryFileOnce WorkerTablesExact TableExact
PROPERTIES ImplementsSymbolTable BuildEnds
