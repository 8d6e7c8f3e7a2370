SPECIFICATION MatchSpec
CONSTANTS
    chd = chd
    Paths <- OneFile
    Kinds <- BothKinds
    DatSets <- Lists
    MaxDats = 2
    MaxRuns = 1
    MaxEvents = 1
CHECK_DEADLOCK FALSE
INVARIANTS
  LocalWins
PROPERTIES
  SentRightly
  KeepsIdentity
