SPECIFICATION Spec
CONSTANTS
    Inputs = {"link", "second", "rom", "sheet", "track"}
    Files = {"cue", "bin", "cue_1", "bin_1", "chd"}
    Names <- Spellings
    Real <- Spelt
    Derived <- To
    Sidecars <- Beside
    Renames <- Number
    Priority <- Rank
    Batches <- Asked
    Policies <- Ways
    Initially <- Before
    Requests = {r, s}
    Jobs = {j, k, l}
    MaxDepth = 2
    MaxRunning = 2
    MaxWorld = 1
    Free = Free
INVARIANT SidecarSpared
SYMMETRY Exchange
CHECK_DEADLOCK FALSE
