SPECIFICATION FairSpec
CONSTANTS
  Codes = {10, 13, 16, 29}
  Empty = Empty
  Golden = 11
  HashSpace = 16
  MinCapacity = 2
  MaxWords = 2
INVARIANTS TypeOK LookupExact ProbeChainsUnbroken FreeSlotLeft
PROPERTIES FilledSlotsStay ImplementsIndex TableFinishes LookupTerminates
