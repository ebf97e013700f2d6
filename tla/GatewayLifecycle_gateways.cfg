SPECIFICATION FairSpec
CONSTANTS
    m1 = m1
    m2 = m2
    t1 = t1
    s1 = s1
    s2 = s2
    p1 = p1
    p2 = p2
    p3 = p3
    NoSlot = NoSlot
    NoTimer = NoTimer
    Macs <- MCMacs
    Threads <- MCThreads
    Slots <- MCSlots
    Polls <- MCPolls
    Operator <- MCOperator
    MaxRequests = 2
    MaxUnplugs = 1
INVARIANT TypeOK
INVARIANT NoCorpse
PROPERTY PolledUnlessRetried
PROPERTY NoPollAfterShutdown
PROPERTY GatewayReturns
CHECK_DEADLOCK FALSE
