\* What the comment on step 2 says of step 3.
SPECIFICATION Spec
CONSTANTS
    Letters = 2
    Names <- MCNames
    Queries <- MCQueries
    Paths <- MCPaths
    Files <- MCFiles
    OffsetLimit = 7
    RefSize = 3
    EntrySize <- MCEntrySize
    MaxSymbols = 2
    MaxRefs = 2
INVARIANTS
    ResultsHaveTheName
