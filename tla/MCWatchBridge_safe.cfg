SPECIFICATION BridgeSpec
CONSTANTS
    MaxFrames = 3
    Scripts <- MCScripts
    MaxUpdates = 2
INVARIANTS BridgeTypeOK EveryFrameTreated EndsForCause
PROPERTIES SessionEnds NothingLeft
CHECK_DEADLOCK FALSE
