\* Two connections, one message between them, kicks and closeServer anywhere.
SPECIFICATION FairSpec
CONSTANTS
    Socks = {s1, s2}
    MaxMsgs = 1
INVARIANTS
    ServerInv
    StayInStep
PROPERTIES
    ShutdownEnds
CHECK_DEADLOCK FALSE
