\* Two packets of three bytes, cut anywhere, with empty frames between; rooms and frames
\* smaller than a packet.
SPECIFICATION FairSpec
CONSTANTS
    SniffLen = 2
    ReadMax = 2
    FrameMax = 2
    PacketLen = 3
    MaxPackets = 2
    MaxReplies = 1
INVARIANTS
    StreamIntact
    RepliesIntact
    ProtocolFound
PROPERTY
    PacketsAreRead
CHECK_DEADLOCK FALSE
