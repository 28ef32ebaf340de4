\* Packets from empty to one byte too long, cut anywhere, counted with a top
\* index of 3; the buffer is one byte longer than the longest packet, as in
\* common.hpp.
SPECIFICATION FairReaderSpec
CONSTANTS
    Lens = {0, 3, 4}
    Indices = {0, 1, 2, 3}
    PacketHeadSize = 2
    MaxPacket = 5
    BufSize = 6
    TopIndex = 3
    MaxPackets = 3
INVARIANTS
    ReaderInv
    HonestPeerKept
    Consecutive
PROPERTIES
    AllDelivered
CHECK_DEADLOCK FALSE
