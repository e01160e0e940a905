\* One push key and a name that is none, identifiers 1 and 2, deadlines of 1 and 5 units.
SPECIFICATION FairSpec
CONSTANTS
    t1 = t1
    other = other
    Topics = {t1}
    Names = {t1, other}
    ClientPackets <- Packets
    Ids = {1, 2}
    RaisedAlives = {1}
    LongAlive = 2
    Grace = 1
    PkidMax = 2
    MaxWire = 1
    MaxHeld = 1
    MaxSilent = 2
INVARIANTS
    AnswersInOrder
    ViewIsSubscribed
    IdsNotReused
PROPERTIES
    PunctualKept
    SilentIsReaped
CHECK_DEADLOCK FALSE
