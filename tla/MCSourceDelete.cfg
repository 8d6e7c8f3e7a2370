SPECIFICATION Spec
CHECK_DEADLOCK FALSE
CONSTANTS
  j = j
  k = k
  cue = cue
  bin = bin
  wav = wav
  Jobs <- TwoJobs
  Files <- Shared
  Desc <- Input
  Out <- Result
  Refs <- Tracks
  MaxVersion = 3
SYMMETRY Exchange
INVARIANTS
  TypeOK
  OnlyConvertedRemoved
  RemovalSafe
