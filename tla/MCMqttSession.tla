--------------------------- MODULE MCMqttSession ---------------------------
\* The instance TLC runs: session.cfg.
EXTENDS MqttSession

CONSTANTS t1, other

\* A keepalive of 0 and one that is raised; what a client sends of each kind.
Packets ==
    {[kind |-> "CONNECT", level |-> "V4", alive |-> k] : k \in {0, 1}} \cup
    {[kind |-> "CONNECT", level |-> "V5", alive |-> 0],
     [kind |-> "SUBSCRIBE", topics |-> <<other, t1>>],
     [kind |-> "UNSUBSCRIBE", topics |-> <<t1>>],
     [kind |-> "PUBLISH", topics |-> <<t1>>, qos |-> 0],
     [kind |-> "PUBLISH", topics |-> <<t1>>, qos |-> 1],
     [kind |-> "PUBREL"], [kind |-> "PINGREQ"], [kind |-> "ACK"], [kind |-> "DISCONNECT"]}

=============================================================================
