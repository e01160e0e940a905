\* One WebSocket client.
SPECIFICATION Spec
CONSTANTS
    Clients = {c1}
    WsClients = {c1}
    Publishers = {p1}
    Topics = {t1}
    Limits = {1}
    Moves = {}
    MaxMsgs = 1
    MaxCount = 2
    MaxConns = 2
    None = None
INVARIANTS
    SubscriptionsCountConnections
CHECK_DEADLOCK FALSE
