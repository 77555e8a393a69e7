CONSTANTS
    Channels <- MCChannels
    OperChannel <- MCOperChannel
    EncType <- MCEncType
    CurPrivacy <- MCCurPrivacy
    CurMisc <- MCCurMisc
SPECIFICATION FavourableSpec
PROPERTIES
    PersistentChangeNotified
