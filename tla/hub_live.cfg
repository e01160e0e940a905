\* One TCP client that also publishes, a panel that edits the keys and the switch:
\* liveness under the scheduling tokio gives.
SPECIFICATION FairSpec
CONSTANTS
    Clients = {c1}
    WsClients = {}
    Publishers = {p1}
    Topics = {t1}
    Limits = {1}
    Moves = {"clientPublish", "keys", "offline"}
    MaxMsgs = 2
    MaxCount = 2
    MaxConns = 2
    None = None
PROPERTIES
    HeldIsWritten
    QueueDrainsToSubscriber
CHECK_DEADLOCK FALSE
