CONSTANTS
    MaxBssId <- MCMaxBssId
    BSSIDs <- MCBSSIDs
    MaxPending <- MCMaxPending
SPECIFICATION Spec
INVARIANTS TypeOK ClosedMeansClean
PROPERTIES RoamSynchAllOrNothing PeLifecycleSpec
