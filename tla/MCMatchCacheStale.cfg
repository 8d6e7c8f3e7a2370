SPECIFICATION MatchSpec
CONSTANTS
    chd = chd
    Paths <- OneFile
    Kinds <- BothKinds
    DatSets <- Lists
    MaxDats = 2
    MaxRuns = 1
    MaxEvents = 1
INVARIANT NoStaleMiss
CHECK_DEADLOCK FALSE
