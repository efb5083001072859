\* two loads of every small file, or the start-up of the demo, and RegisterRule
CONSTANTS
    list = list  edit = edit  drop = drop
    Tools = {list, edit, drop}
    NoTool = NoTool
    Sessions = {s}
    DefaultExpiry = 5
    FileRules = 3
    Files <- AllFiles
    Undecodable = Undecodable
    Unset = Unset
    Malformed = Malformed
    MaxLoads = 2
    MaxRules = 1
SPECIFICATION FairSpec
INVARIANTS ConfigTypeOK LoadedRulesAcyclic VerdictCorrect
PROPERTY ValidationEnds
