SPECIFICATION MainSpec
CHECK_DEADLOCK FALSE
CONSTANTS
  a = a
  d = d
  e = e
  f = f
  oA = oA
  oD = oD
  oE = oE
  NoJob = NoJob
  Jobs <- ThreeJobs
  Outs = {oA, oD}
  Out <- Dest
  Dirs <- Folders
  OutInside <- DestIn
  SrcInside <- SourceIn
  Nested <- Nests
  Overwrite = {a}
  Verify = {d}
  MaxConcurrent = 2
  MaxQueue = 3
  Foreign = {f}
INVARIANTS
  TypeOK
  OneWriter
  FolderQuiet
  Accounted
  WithinLimits
  CancelledNeverWrites
PROPERTIES
  NoRevival
  Exclusive
