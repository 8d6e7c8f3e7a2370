SPECIFICATION Spec
CHECK_DEADLOCK FALSE
CONSTANTS
  a = a
  d = d
  e = e
  f = f
  oA = oA
  oD = oD
  oE = oE
  NoJob = NoJob
  Jobs <- TwoJobs
  Outs = {oA, oD}
  Out <- Dest
  Dirs <- Folders
  OutInside <- DestIn
  SrcInside <- SourceIn
  Nested <- Nests
  Overwrite = {}
  Verify = {}
  MaxConcurrent = 1
  MaxQueue = 2
  Foreign = {}
PROPERTIES
  TerminalIsFinal
