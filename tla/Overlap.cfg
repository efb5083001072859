\* two calls in flight over one session, four calls, one-time and reusable rules
SPECIFICATION Spec
CONSTANTS
    list = list  edit = edit  drop = drop
    Tools = {list, edit}
    NoTool = NoTool  Torn = Torn
    Sessions = {demo}  EmptySession = EmptySession
    DefaultExpiry = 2  GeneratorFails = TRUE
    Calls = {c1, c2}
    Configs <- TwoToolConfigs
    MaxCalls = 4  MaxTime = 1  MaxDeletes = 0
SYMMETRY CallSymmetry
INVARIANTS TypeOK OrderEnforced HistoryNeverInvents TokensConserved AttemptsAnswered TokensAnnounced HistoryNeverWiped BoundedReuse
PROPERTIES SessionNeverReplaced ImplementsGate
