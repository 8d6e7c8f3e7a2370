SPECIFICATION LiveSpec
CHECK_DEADLOCK FALSE
CONSTANTS
  a = a
  d = d
  e = e
  f = f
  oA = oA
  oD = oD
  oE = oE
  NoJob = NoJob
  Jobs <- ThreeJobs
  Outs = {oA, oD, oE}
  Out <- DestOwn
  Dirs <- Folders
  OutInside <- DestIn
  SrcInside <- SourceIn
  Nested <- Nests
  Overwrite = {}
  Verify = {}
  MaxConcurrent = 2
  MaxQueue = 3
  Foreign = {}
PROPERTIES
  EveryJobEnds
