SPECIFICATION MCFairSpec
CONSTANTS
    d1 = d1
    n1 = n1  n2 = n2
    g1 = g1  g2 = g2
    NoNet = NoNet
    NoDev = NoDev
    Devices <- OneDevice
    Networks <- TwoNetworks
    GroupIds <- TwoGroups
    Operator <- Requests
    MaxEvents = 2
    MaxCalls = 1
PROPERTIES
    EditsKeepMembership
    ScenesFollowGroups
    RelocationLeavesGroup
    RebootIsRestored
