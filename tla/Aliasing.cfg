\* A host that deletes sessions, calls without a session, and histories long
\* enough to share a backing array: three calls one by one, then overlapping.
SPECIFICATION Spec
CONSTANTS
    list = list  edit = edit  drop = drop
    Tools = {list, edit}
    NoTool = NoTool  Torn = Torn
    Sessions = {demo, EmptySession}  EmptySession = EmptySession
    DefaultExpiry = 2  GeneratorFails = FALSE
    Calls = {c1, c2}
    Configs <- TwoToolConfigs
    MaxCalls = 5  MaxTime = 0  MaxDeletes = 1
SYMMETRY CallSymmetry
CONSTRAINT SequentialPrefix
INVARIANTS OrderInv HistoryNeverInvents AttemptsAnswered
