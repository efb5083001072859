\* two tool calls emit, two clients come and go
SPECIFICATION FairSpec
CONSTANTS
    Emitters = {e1, e2}
    Conns = {c1, c2}
    demo = demo  other = other
    Subscriptions <- SameSession
    SessionIDs = {demo, other}
    BaseFails = TRUE
    Slow = {c1}
    NoOne = NoOne
    MaxEvents = 2
INVARIANTS StreamTypeOK SubscriptionsExact NoWriteAfterClose StreamFaithful NoEventMissed
PROPERTY StreamLive
