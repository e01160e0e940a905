\* A WebSocket client whose frame holds no byte.
SPECIFICATION Spec
CONSTANTS
    SniffLen = 2
    ReadMax = 2
    FrameMax = 2
    PacketLen = 3
    MaxPackets = 1
    MaxReplies = 0
INVARIANT EofMeansClosed
CHECK_DEADLOCK FALSE
