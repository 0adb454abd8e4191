SPECIFICATION WatchSpec
CONSTANTS
    p1 = p1  p2 = p2  ghost = ghost
    Ids = {p1, p2, ghost}
    Products = {p1, p2}
    Level <- MCLevel
    MaxChanges <- MCChanges
    MaxLosses = 1
    Scripts <- MCScripts
    Unsent = Unsent
PROPERTIES SnapshotFirst
CHECK_DEADLOCK FALSE
