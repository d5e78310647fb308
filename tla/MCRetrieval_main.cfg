CONSTANTS
    CharLimit = 5
    LegTopK = 2
    Overfetch = 2
    MaxPerMemento = 1
    MaxSnippets = 2
    Ids = {1, 2, 3}
    Inputs <- MCInputs
    Began <- MCBegan
    Literals <- MCLiterals
    Queries <- MCQueries
    Distance <- MCDistance
    Wanted = {1, 2}
    None = None
    MaxWrites = 3
    MaxCalls = 1

SPECIFICATION Spec
INVARIANTS TrigramIsScan PostingsInverse ChunksFit ListingComplete RecallFull
CHECK_DEADLOCK FALSE
