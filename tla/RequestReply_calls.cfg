SPECIFICATION Spec
CONSTANTS
    c1 = c1
    c2 = c2
    d1 = d1
    d2 = d2
    g1 = g1
    g2 = g2
    STREAM = STREAM
    Callers <- MCCallers
    Devices <- MCDevices
    Gateways <- MCGateways
    Opcodes <- MCOpcodes
    GatewayOf <- MCGatewayOf
    MaxCalls = 2
    MaxAttempts = 2
INVARIANT RegistryHoldsWaiters
INVARIANT SuccessIsTrue
INVARIANT CollectedOnHomeRadio
PROPERTY OwnReplyNotMissed
PROPERTY PromiseKept
CONSTRAINTS FewUnderWay OneRetries QuietSibling RefusalsAreRare
SYMMETRY Symmetry
CHECK_DEADLOCK FALSE
