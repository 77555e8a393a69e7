CONSTANTS
    Channels <- MCChannels
    OperChannel <- MCOperChannel
    EncType <- MCEncType
    CurPrivacy <- MCCurPrivacy
    CurMisc <- MCCurMisc
SPECIFICATION FairSpec
INVARIANTS
    DetectorFlagsConsistent
PROPERTIES
    BeaconMissResolves
