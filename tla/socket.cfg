\* The kernel takes each buffer whole; the peer keeps reading.
SPECIFICATION FairSpec
CONSTANTS
    m1 = m1
    m2 = m2
    m3 = m3
    m4 = m4
    Msgs <- MCMsgs
    Size <- MCSize
    HeadSize = 1
    MaxBody = 2
    BaseSize = 3
    PartialSend = FALSE
    MaxCloses = 2
    MaxReads = 1
INVARIANTS
    NothingStranded
    PassiveCloseOnce
    RoomForEveryPacket
    DrainedBeforeClose
PROPERTIES
    SendBufferStable
    ImplementsStream
    CloseCompletes
CHECK_DEADLOCK FALSE
