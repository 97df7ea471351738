\* Databases of up to three symbols, every query.
SPECIFICATION Spec
CONSTANTS
    Letters = 2
    Names <- MCNames
    Queries <- MCQueries
    Paths <- MCPaths
    Files <- MCFiles
    OffsetLimit = 7
    RefSize = 3
    EntrySize <- MCEntrySize
    MaxSymbols = 3
    MaxRefs = 3
INVARIANTS
    TablesRoundTrip
    AnswerIsExact
    NotFoundIsTrue
