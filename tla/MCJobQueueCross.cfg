SPECIFICATION FairSpec
CHECK_DEADLOCK FALSE
CONSTANTS
  a = a
  d = d
  e = e
  f = f
  oA = oA
  oD = oD
  oE = oE
  NoJob = NoJob
  Jobs <- Packs
  Outs = {oD, oE}
  Out <- DestOwn
  Dirs <- Folders
  OutInside <- DestCross
  SrcInside <- SourceIn
  Nested = {}
  Overwrite = {}
  Verify = {}
  MaxConcurrent = 2
  MaxQueue = 2
  Foreign = {}
PROPERTIES
  DeferralEnds
