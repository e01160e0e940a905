----------------------------- MODULE MCMqttHub -----------------------------
(* Instances of MqttHub for TLC: the symmetry of the interchangeable slots,  *)
(* publishers and topics.                                                    *)
EXTENDS MqttHub, TLC

Symmetry ==
    Permutations(WsClients) \cup Permutations(Clients \ WsClients)
        \cup Permutations(Publishers) \cup Permutations(Topics)

=============================================================================
