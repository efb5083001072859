\* overlapping calls and the shared Tokens map
SPECIFICATION Spec
CONSTANTS
    list = list  edit = edit  drop = drop
    Tools = {list, edit}
    NoTool = NoTool  Torn = Torn
    Sessions = {demo}  EmptySession = EmptySession
    DefaultExpiry = 2  GeneratorFails = FALSE
    Calls = {c1, c2}
    Configs <- ReusableOnly
    MaxCalls = 2  MaxTime = 0  MaxDeletes = 0
INVARIANT NoRuntimeThrow
