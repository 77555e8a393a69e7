CONSTANTS
    TickMod <- MCTickMod
    Window <- MCWindow
    MaxTime <- MCMaxTime
SPECIFICATION Spec

PROPERTIES UnprotDeauthDroppedOnlyInWindow
