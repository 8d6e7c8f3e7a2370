SPECIFICATION FairSpec
CHECK_DEADLOCK FALSE
CONSTANTS
  left = left
  right = right
  left1 = left1
  left2 = left2
  right1 = right1
  Procs = {left, right}
  Keys = {left1, left2, right1}
  Owner <- OwnerOf
  Rank <- RankOf
  MaxConcurrent = 1
  MaxCrashes = 1
  Faults = {"counter", "empty", "garbled", "ticket"}
  MaxFaults = 1
INVARIANTS
  SlotInv
PROPERTIES
  TicketsGrow
  FifoAcross
  NoStarvation
