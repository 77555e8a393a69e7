CONSTANTS
    TickMod <- MCTickMod
    Window <- MCWindow
    MaxTime <- MCMaxTime
SPECIFICATION Spec
INVARIANTS TypeOK TrustedDeauthAtMostOnce
PROPERTIES UnprotDeauthRateLimited
