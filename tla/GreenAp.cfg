CONSTANTS
    PsOnTime <- MCPsOnTime
    GreenApCfg <- MCGreenApCfg
    MaxNodes <- MCMaxNodes
SPECIFICATION Spec
INVARIANTS
    TypeOK
CHECK_DEADLOCK FALSE
