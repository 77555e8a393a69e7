CONSTANTS
    MaxBssId <- MCMaxBssId
    BSSIDs <- MCBSSIDs
    MaxPending <- MCMaxPending
SPECIFICATION Spec
INVARIANTS ParsedFrameFreed
