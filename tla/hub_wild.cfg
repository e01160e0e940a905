\* A TCP and a WebSocket slot, clients that subscribe twice or unsubscribe what they
\* never held, a router that may refuse a message, a panel that turns the switch.
SPECIFICATION Spec
CONSTANTS
    Clients = {c1, c2}
    WsClients = {c2}
    Publishers = {p1}
    Topics = {t1}
    Limits = {1}
    Moves = {"resubscribe", "foreignUnsubscribe", "routerError", "offline"}
    MaxMsgs = 2
    MaxCount = 2
    MaxConns = 3
    None = None
SYMMETRY Symmetry
INVARIANTS
    TypeOK
    HandoverLosesNothing
    ReplayedOnce
    QueueBounded
PROPERTIES
    ReplayNotOvertaken
CHECK_DEADLOCK FALSE
