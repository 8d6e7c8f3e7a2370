SPECIFICATION Spec
CHECK_DEADLOCK FALSE
CONSTANTS
  j = j
  k = k
  cue = cue
  bin = bin
  wav = wav
  Jobs <- OneJob
  Files <- Disc
  Desc <- Input
  Out <- Result
  Refs <- Tracks
  MaxVersion = 4
PROPERTIES
  NotPulledOut
