\* one call at a time, a tool with two one-time rules
SPECIFICATION Spec
CONSTANTS
    list = list  edit = edit  drop = drop
    Tools = {list, edit, drop}
    NoTool = NoTool  Torn = Torn
    Sessions = {demo}  EmptySession = EmptySession
    DefaultExpiry = 2  GeneratorFails = FALSE
    Calls = {c1}
    Configs <- EitherOnly
    MaxCalls = 3  MaxTime = 0  MaxDeletes = 0
INVARIANT SingleUse
