\* two goroutines call Stop
CONSTANTS
    Emitters = {e1, e2}
    EventTypes <- TwoTypes
    ToolNames = {list}
    SessionIDs = {demo, other}
    Filters <- OneFilter
    Limits = {1, 3}
    Retention = 1
    Stoppers = {c1, c2}
    MaxInt = 3
    MaxEvents = 3
    MaxTime = 1
    MaxPages = 0
SPECIFICATION Spec
INVARIANT StopIsSafe
