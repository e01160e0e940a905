\* A ring and a channel of two, so that five entries fill each more than twice.
SPECIFICATION FairSpec
CONSTANTS
    Writers = {w1, w2}
    Pages = {p1}
    Capacity = 2
    ChannelSize = 2
    HistoryCount = 2
    RowsMax = 3
    MaxEntries = 5
    NoOne = NoOne
INVARIANTS
    RingIsLatest
    StreamInOrder
PROPERTY
    EntriesReachStreams
