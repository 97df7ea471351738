\* Two builds one after the other, or one with a short write or of another
\* profile; each may die anywhere; searches at any time.
SPECIFICATION Spec
CONSTANTS
    Profiles <- SomeProfiles
    Usual <- TwoCells
    MaxEvents = 2
    OffsetLimit = 45
INVARIANTS
    TypeOK
    QuietSearchIsTrue
    HeaderNeverRunsAhead
    SuccessIsWhole
    PostingsResolve
PROPERTIES
    BlocksNeverOverlap
