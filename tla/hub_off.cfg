\* One TCP client, one publisher, a panel that turns the switch.
SPECIFICATION Spec
CONSTANTS
    Clients = {c1}
    WsClients = {}
    Publishers = {p1}
    Topics = {t1}
    Limits = {1}
    Moves = {"offline"}
    MaxMsgs = 1
    MaxCount = 2
    MaxConns = 2
    None = None
PROPERTIES
    OffReplaysNothing
CHECK_DEADLOCK FALSE
