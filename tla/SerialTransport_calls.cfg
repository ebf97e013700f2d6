SPECIFICATION FairSpec
CONSTANTS
    s1 = s1
    s2 = s2
    NoSender = none
    Senders <- MCSenders
    MaxSends = 2
    MaxExtras = 1
INVARIANT PendingIsWaiting
INVARIANT SoloOutcomeIsOwn
INVARIANT MirrorLagsByWire
PROPERTY FirstOutcomeStands
PROPERTY LinkNeverStuck
CHECK_DEADLOCK FALSE
