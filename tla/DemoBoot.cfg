\* the start-up of the demo server
CONSTANTS
    list = list  edit = edit  drop = drop
    Tools = {list, edit, drop}
    NoTool = NoTool
    Sessions = {s}
    DefaultExpiry = 5
    FileRules = 3
    Files <- AllFiles
    Undecodable = Undecodable
    Unset = Unset
    Malformed = Malformed
    MaxLoads = 1
    MaxRules = 0
SPECIFICATION Spec
INVARIANT RulesAcyclic
