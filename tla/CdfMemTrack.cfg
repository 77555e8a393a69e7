\* cdf_mem_exit unloads the driver and CDF_BUG halts the kernel: both end
\* every behaviour, so deadlock is not checked.
CONSTANTS
    NBlocks <- MCNBlocks
    Pool <- MCPool
    MaxElem <- MCMaxElem
SPECIFICATION Spec
INVARIANTS TypeOK TrackedAreLive CdfBugOnlyOnMisuse NoUnownedMemory
CHECK_DEADLOCK FALSE
