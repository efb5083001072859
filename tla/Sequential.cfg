\* one call at a time, five calls, every kind of rule set, tokens that expire
SPECIFICATION FairSpec
CONSTANTS
    list = list  edit = edit  drop = drop
    Tools = {list, edit, drop}
    NoTool = NoTool  Torn = Torn
    Sessions = {demo}  EmptySession = EmptySession
    DefaultExpiry = 1  GeneratorFails = TRUE
    Calls = {c1}
    Configs <- AllConfigs
    MaxCalls = 5  MaxTime = 1  MaxDeletes = 0
INVARIANTS BoundedReuse TokensMirrored HistoryComplete
PROPERTY CallsReturn
