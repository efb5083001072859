\* the client c1 may stop reading; events of a session nobody listens to
SPECIFICATION FairSpec
CONSTANTS
    Emitters = {e1, e2}
    Conns = {c1, c2}
    demo = demo  other = other
    Subscriptions <- SameSession
    SessionIDs = {demo, other}
    BaseFails = FALSE
    Slow = {c1}
    NoOne = NoOne
    MaxEvents = 2
PROPERTY BystandersReturn
