\* paging, statistics, pruning and stopping beside two emitters
CONSTANTS
    Emitters = {e1, e2}
    EventTypes <- TwoTypes
    ToolNames = {list}
    SessionIDs = {demo, other}
    Filters <- OneFilter
    Limits = {1, 3}
    Retention = 1
    Stoppers = {c1}
    MaxInt = 3
    MaxEvents = 3
    MaxTime = 1
    MaxPages = 3
SPECIFICATION FairSpec
INVARIANTS EventTypeOK NothingLostEarly PagesFaithful StatsMatchQueries
PROPERTIES ExpiredPruned PrunerReleased
