SPECIFICATION FairSpec
CONSTANTS
  malloc = malloc  free = free
  Names <- SomeNames
  Nameless = Nameless
  Query = malloc
  File <- SomeFiles
  MaxFiles = 4
  MaxListed = 3
  HardwareThreads = 3
  MinFilesPerThread = 1
INVARIANTS EntriesAreWhole ThreadsPrintTheirShare TimeComesLast
PROPERTY FreeRunEnds
\* The program ends.
CHECK_DEADLOCK FALSE
