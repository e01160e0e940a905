\* Two TCP clients that subscribe and unsubscribe what they hold, two topics, one
\* publisher (so a request with two keys), the offline switch on.
SPECIFICATION Spec
CONSTANTS
    Clients = {c1, c2}
    WsClients = {}
    Publishers = {p1}
    Topics = {t1, t2}
    Limits = {1}
    Moves = {}
    MaxMsgs = 1
    MaxCount = 2
    MaxConns = 2
    None = None
SYMMETRY Symmetry
INVARIANTS
    SubscriptionsCountConnections
    OnlineIsReachable
CHECK_DEADLOCK FALSE
