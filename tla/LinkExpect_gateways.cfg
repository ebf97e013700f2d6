SPECIFICATION LinkSpec
CONSTANTS
    c1 = c1
    d1 = d1
    d2 = d2
    d3 = d3
    g1 = g1
    g2 = g2
    g3 = g3
    NoTag = NoTag
    Callers <- MCCallers
    Devices <- MCDevices
    Gateways <- MCGateways
    Ethernet <- Second
    Untagged <- Third
    GatewayOf <- MCGatewayOf
    MaxSends = 2
INVARIANT LinkTypeOK
PROPERTY DecidesOwnGateway
PROPERTY FreshExpectSurvives
CHECK_DEADLOCK FALSE
