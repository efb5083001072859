\* every combination of configuration files, and two requests
SPECIFICATION FairSpec
CONSTANTS
    Tools = {greet, get_user_name}
    Requests = {r1, r2}
    RatchetFiles <- SomeRatchetFiles
    MCPFiles <- SomeMCPFiles
    Paths <- SomePaths
INVARIANTS DemoTypeOK NeverUngated StreamFed CleanExit ServeErrorReported
PROPERTY RunEnds
