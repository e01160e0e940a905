\* One TCP client that may subscribe again to what it holds.
SPECIFICATION Spec
CONSTANTS
    Clients = {c1}
    WsClients = {}
    Publishers = {p1}
    Topics = {t1}
    Limits = {1}
    Moves = {"resubscribe"}
    MaxMsgs = 1
    MaxCount = 2
    MaxConns = 2
    None = None
INVARIANTS
    SubscriptionsCountConnections
CHECK_DEADLOCK FALSE
