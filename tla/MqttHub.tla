------------------------------ MODULE MqttHub ------------------------------
(***************************************************************************)
(* The message core of the server (src/src/mqtt.rs): the hub's subscription *)
(* counts and offline queues, the MQTT sessions that change them, and the   *)
(* publishers (push API and panel test push) that read them.                *)
(*                                                                          *)
(* A session is an async task; between two of its lock acquisitions or      *)
(* awaits every other task may run, so a handler that takes several locks   *)
(* is several actions here, linked by pc.  A message is a record of its     *)
(* source and its number at that source; topics (push keys) are model       *)
(* values.  The rumqttd router is external: a link is the set of topics a   *)
(* session subscribed to, and a publish appends to the inbox of every link. *)
(***************************************************************************)
EXTENDS Integers, Sequences, FiniteSets

CONSTANTS
    Clients,     \* connection slots; a slot is reused after its session ends
    WsClients,   \* the slots that arrive over WebSocket (handle_ws)
    Publishers,  \* concurrent push requests
    Topics,      \* push keys
    Limits,      \* values of offline_limit
    Moves,       \* what the environment may do besides the ordinary, see AllMoves
    MaxMsgs,     \* bound: messages per source
    MaxCount,    \* bound: subscription count above which no SUBSCRIBE arrives
    MaxConns,    \* bound: value of the connection counter above which none arrives
    None         \* "no topic"

\* resubscribe: SUBSCRIBE to a topic already subscribed.  foreignUnsubscribe:
\* UNSUBSCRIBE from a topic never subscribed.  clientPublish: PUBLISH by an MQTT
\* client.  keys, offline: the panel edits the key list, the offline settings.
\* routerError: LinkTx::publish returns an error.
AllMoves == {"resubscribe", "foreignUnsubscribe", "clientPublish",
             "keys", "offline", "routerError"}

ASSUME ConstantsAssumption ==
    /\ IsFiniteSet(Clients)
    /\ WsClients \subseteq Clients
    /\ Clients \cap Publishers = {}
    /\ None \notin Topics
    /\ Limits \subseteq Nat
    /\ Limits # {}
    /\ Moves \subseteq AllMoves
    /\ MaxMsgs \in Nat
    /\ MaxCount \in Nat
    /\ MaxConns \in Nat

VARIABLES
    \* the part of AppConfig the hub depends on
    keys, offline_messages, offline_limit,
    message_count,          \* ConfigStore's counter of successful pushes
    \* MqttHub
    subscriptions,          \* topic -> number of subscribing connections
    offline,                \* topic -> queue of messages kept for a reconnect
    connections,
    \* one MQTT session per client slot
    pc, subscribed, todo, cur, pending,
    \* the router: what each link subscribes to, what it has not yet handed over
    links, inbox,
    \* one publish call per publisher
    job,
    issued,                 \* source -> messages created so far
    \* history: per session, the <<topic, message>> pairs written to its socket;
    \* the pairs whose publish the router refused
    wrote, unrouted

config     == <<keys, offline_messages, offline_limit, message_count>>
hub        == <<subscriptions, offline, connections>>
session    == <<pc, subscribed, todo, cur, pending>>
router     == <<links, inbox>>
publishing == <<job, issued>>
history    == <<wrote, unrouted>>
vars       == <<config, hub, session, router, publishing, history>>

----------------------------------------------------------------------------
(* Types and helpers *)

Sources   == Clients \cup Publishers
Msg       == [by : Sources, n : Nat]
Delivery  == Topics \X Msg

SessionPC == {"closed", "handshake", "loop", "filter", "count", "take",
              "replay", "unlink", "uncount", "cleanup"}
JobPC     == {"idle", "flags", "online", "store", "route"}

Job == [pc : JobPC, todo : SUBSET Topics, key : Topics \cup {None},
        enabled : BOOLEAN, limit : Nat]

Idle == [pc |-> "idle", todo |-> {}, key |-> None, enabled |-> FALSE, limit |-> 0]

Elements(q) == {q[i] : i \in DOMAIN q}

\* The message a source is publishing: the last one it issued.
Current(s) == [by |-> s, n |-> issued[s]]

\* A session that has cut its link for t (or all its links) and has not yet
\* taken itself off the count.
Leaving(c, t) ==
    \/ pc[c] = "cleanup"
    \/ pc[c] = "uncount" /\ cur[c] = t

----------------------------------------------------------------------------
(* Initial state: a fresh process with some configuration *)

Init ==
    /\ keys = Topics
    /\ offline_messages \in (IF "offline" \in Moves THEN BOOLEAN ELSE {TRUE})
    /\ offline_limit \in Limits
    /\ message_count = 0
    /\ subscriptions = [t \in Topics |-> 0]
    /\ offline = [t \in Topics |-> <<>>]
    /\ connections = 0
    /\ pc = [c \in Clients |-> "closed"]
    /\ subscribed = [c \in Clients |-> {}]
    /\ todo = [c \in Clients |-> {}]
    /\ cur = [c \in Clients |-> None]
    /\ pending = [c \in Clients |-> <<>>]
    /\ links = [c \in Clients |-> {}]
    /\ inbox = [c \in Clients |-> <<>>]
    /\ job = [p \in Publishers |-> Idle]
    /\ issued = [s \in Sources |-> 0]
    /\ wrote = [c \in Clients |-> {}]
    /\ unrouted = {}

----------------------------------------------------------------------------
(* The router (rumqttd) *)

\* A message published on topic t reaches the inbox of every link subscribed to t.
Deliver(t, m) ==
    inbox' = [c \in Clients |->
                IF t \in links[c] THEN Append(inbox[c], <<t, m>>) ELSE inbox[c]]

----------------------------------------------------------------------------
(* The connection: handle_client, client_session *)

\* handle_client counts the connection before the session starts.
Accept(c) ==
    /\ pc[c] = "closed"
    /\ connections < MaxConns
    /\ connections' = connections + 1
    /\ pc' = [pc EXCEPT ![c] = "handshake"]
    /\ UNCHANGED <<config, subscriptions, offline, subscribed, todo, cur, pending,
                   router, publishing, history>>

\* CONNECT read, link built, CONNACK written: the session enters its loop.
Handshake(c) ==
    /\ pc[c] = "handshake"
    /\ pc' = [pc EXCEPT ![c] = "loop"]
    /\ UNCHANGED <<config, hub, subscribed, todo, cur, pending,
                   router, publishing, history>>

\* client_session_loop returns: DISCONNECT, a refused or malformed packet, end of
\* stream, the keepalive timeout, a failed write or a closed router link.  Its
\* locals (the link, the messages taken for replay) are dropped; client_session
\* goes on to clean the counts.
EndLoop(c) ==
    /\ pc' = [pc EXCEPT ![c] = "cleanup"]
    /\ todo' = [todo EXCEPT ![c] = {}]
    /\ cur' = [cur EXCEPT ![c] = None]
    /\ pending' = [pending EXCEPT ![c] = <<>>]
    /\ links' = [links EXCEPT ![c] = {}]
    /\ inbox' = [inbox EXCEPT ![c] = <<>>]

\* The loop can end wherever it reads, writes or calls the router.
LeaveLoop(c) ==
    /\ pc[c] \in {"handshake", "loop", "filter", "replay"}
    /\ EndLoop(c)
    /\ UNCHANGED <<config, hub, subscribed, publishing, history>>

\* Mutant: the decrement does not saturate.
Decrement_Wraps(t) ==
    subscriptions' = [subscriptions EXCEPT ![t] = @ - 1]

\* unsubscribe_topic: a saturating decrement under the write lock.
Decrement(t) ==
    subscriptions' = [subscriptions EXCEPT ![t] = IF @ > 0 THEN @ - 1 ELSE 0]

\* Mutant: the session forgets its topics without uncounting them.
Cleanup_KeepsCount(c) ==
    /\ pc[c] = "cleanup"
    /\ \E t \in subscribed[c] :
         /\ subscriptions' = subscriptions
         /\ subscribed' = [subscribed EXCEPT ![c] = @ \ {t}]
    /\ UNCHANGED <<config, offline, connections, pc, todo, cur, pending,
                   router, publishing, history>>

\* client_session's cleanup, one topic of the session's set at a time.
Cleanup(c) ==
    /\ pc[c] = "cleanup"
    /\ \E t \in subscribed[c] :
         /\ Decrement(t)
         /\ subscribed' = [subscribed EXCEPT ![c] = @ \ {t}]
    /\ UNCHANGED <<config, offline, connections, pc, todo, cur, pending,
                   router, publishing, history>>

\* handle_client uncounts the connection once its session has returned.
FinishSession(c) ==
    /\ pc[c] = "cleanup"
    /\ subscribed[c] = {}
    /\ connections' = connections - 1
    /\ pc' = [pc EXCEPT ![c] = "closed"]
    /\ wrote' = [wrote EXCEPT ![c] = {}]
    /\ UNCHANGED <<config, subscriptions, offline, subscribed, todo, cur, pending,
                   router, publishing, unrouted>>

\* handle_ws saw the WebSocket end and aborted the session task: the task is
\* dropped at the await it is parked at, and nothing after that await runs.
WsAbort(c) ==
    /\ c \in WsClients
    /\ pc[c] \in {"handshake", "loop"}
    /\ pc' = [pc EXCEPT ![c] = "closed"]
    /\ subscribed' = [subscribed EXCEPT ![c] = {}]
    /\ links' = [links EXCEPT ![c] = {}]
    /\ inbox' = [inbox EXCEPT ![c] = <<>>]
    /\ wrote' = [wrote EXCEPT ![c] = {}]
    /\ UNCHANGED <<config, hub, todo, cur, pending, publishing, unrouted>>

----------------------------------------------------------------------------
(* SUBSCRIBE: for each filter, link, count, take the queue, replay it *)

\* The whitelist is read once per packet; filters outside it are refused in the
\* SUBACK and change nothing.
ReceiveSubscribe(c, fs) ==
    /\ pc[c] = "loop"
    /\ fs # {}
    /\ "resubscribe" \in Moves \/ fs \cap subscribed[c] = {}
    /\ \A t \in fs : subscriptions[t] < MaxCount
    /\ fs \cap keys # {}
    /\ todo' = [todo EXCEPT ![c] = fs \cap keys]
    /\ pc' = [pc EXCEPT ![c] = "filter"]
    /\ UNCHANGED <<config, hub, subscribed, cur, pending,
                   router, publishing, history>>

\* link_tx.subscribe: from here on the router forwards t to this session.
LinkFilter(c) ==
    /\ pc[c] = "filter"
    /\ \E t \in todo[c] :
         /\ cur' = [cur EXCEPT ![c] = t]
         /\ todo' = [todo EXCEPT ![c] = @ \ {t}]
         /\ links' = [links EXCEPT ![c] = @ \cup {t}]
    /\ pc' = [pc EXCEPT ![c] = "count"]
    /\ UNCHANGED <<config, hub, subscribed, pending, inbox, publishing, history>>

\* hub.subscribe_topic, and the session remembers the topic for its cleanup.
CountSubscription(c) ==
    /\ pc[c] = "count"
    /\ subscriptions' = [subscriptions EXCEPT ![cur[c]] = @ + 1]
    /\ subscribed' = [subscribed EXCEPT ![c] = @ \cup {cur[c]}]
    /\ pc' = [pc EXCEPT ![c] = "take"]
    /\ UNCHANGED <<config, offline, connections, todo, cur, pending,
                   router, publishing, history>>

\* Mutant: the queue is copied and left in place.
TakeOffline_Copies(c) ==
    /\ pc[c] = "take"
    /\ pending' = [pending EXCEPT ![c] = offline[cur[c]]]
    /\ pc' = [pc EXCEPT ![c] = "replay"]
    /\ UNCHANGED <<config, hub, subscribed, todo, cur,
                   router, publishing, history>>

\* hub.take_offline: the queue is removed under the write lock and handed to the
\* session, whatever the offline switch says.
TakeOffline(c) ==
    /\ pc[c] = "take"
    /\ pending' = [pending EXCEPT ![c] = offline[cur[c]]]
    /\ offline' = [offline EXCEPT ![cur[c]] = <<>>]
    /\ pc' = [pc EXCEPT ![c] = "replay"]
    /\ UNCHANGED <<config, subscriptions, connections, subscribed, todo, cur,
                   router, publishing, history>>

\* One replayed message written to the socket.
Replay(c) ==
    /\ pc[c] = "replay"
    /\ pending[c] # <<>>
    /\ wrote' = [wrote EXCEPT ![c] = @ \cup {<<cur[c], Head(pending[c])>>}]
    /\ pending' = [pending EXCEPT ![c] = Tail(@)]
    /\ UNCHANGED <<config, hub, pc, subscribed, todo, cur,
                   router, publishing, unrouted>>

\* Mutant: the filter ends with messages still to be replayed.
EndFilter_Early(c) ==
    /\ pc[c] = "replay"
    /\ pending' = [pending EXCEPT ![c] = <<>>]
    /\ cur' = [cur EXCEPT ![c] = None]
    /\ pc' = [pc EXCEPT ![c] = IF todo[c] = {} THEN "loop" ELSE "filter"]
    /\ UNCHANGED <<config, hub, subscribed, todo,
                   router, publishing, history>>

\* The filter is done; after the last one the SUBACK goes out.
EndFilter(c) ==
    /\ pc[c] = "replay"
    /\ pending[c] = <<>>
    /\ cur' = [cur EXCEPT ![c] = None]
    /\ pc' = [pc EXCEPT ![c] = IF todo[c] = {} THEN "loop" ELSE "filter"]
    /\ UNCHANGED <<config, hub, subscribed, todo, pending,
                   router, publishing, history>>

----------------------------------------------------------------------------
(* UNSUBSCRIBE: for each topic, unlink, uncount *)

ReceiveUnsubscribe(c, ts) ==
    /\ pc[c] = "loop"
    /\ ts # {}
    /\ "foreignUnsubscribe" \in Moves \/ ts \subseteq subscribed[c]
    /\ todo' = [todo EXCEPT ![c] = ts]
    /\ pc' = [pc EXCEPT ![c] = "unlink"]
    /\ UNCHANGED <<config, hub, subscribed, cur, pending,
                   router, publishing, history>>

\* link_tx.unsubscribe, its result ignored.
Unlink(c) ==
    /\ pc[c] = "unlink"
    /\ \E t \in todo[c] :
         /\ cur' = [cur EXCEPT ![c] = t]
         /\ todo' = [todo EXCEPT ![c] = @ \ {t}]
         /\ links' = [links EXCEPT ![c] = @ \ {t}]
    /\ pc' = [pc EXCEPT ![c] = "uncount"]
    /\ UNCHANGED <<config, hub, subscribed, pending, inbox, publishing, history>>

\* Mutant: UNSUBSCRIBE forgets to take the session off the count.
Uncount_KeepsCount(c) ==
    /\ pc[c] = "uncount"
    /\ subscribed' = [subscribed EXCEPT ![c] = @ \ {cur[c]}]
    /\ cur' = [cur EXCEPT ![c] = None]
    /\ pc' = [pc EXCEPT ![c] = IF todo[c] = {} THEN "loop" ELSE "unlink"]
    /\ UNCHANGED <<config, hub, todo, pending,
                   router, publishing, history>>

\* hub.unsubscribe_topic: the count goes down even when the session never held t.
Uncount(c) ==
    /\ pc[c] = "uncount"
    /\ Decrement(cur[c])
    /\ subscribed' = [subscribed EXCEPT ![c] = @ \ {cur[c]}]
    /\ cur' = [cur EXCEPT ![c] = None]
    /\ pc' = [pc EXCEPT ![c] = IF todo[c] = {} THEN "loop" ELSE "unlink"]
    /\ UNCHANGED <<config, offline, connections, todo, pending,
                   router, publishing, history>>

----------------------------------------------------------------------------
(* The other branches of the session loop *)

\* Mutant: routed messages are written while a replay is under way.
Forward_DuringReplay(c) ==
    /\ pc[c] \in {"loop", "replay"}
    /\ inbox[c] # <<>>
    /\ wrote' = [wrote EXCEPT ![c] = @ \cup {Head(inbox[c])}]
    /\ inbox' = [inbox EXCEPT ![c] = Tail(@)]
    /\ UNCHANGED <<config, hub, session, links, publishing, unrouted>>

\* Notification::Forward: the next routed message is written to the socket.
Forward(c) ==
    /\ pc[c] = "loop"
    /\ inbox[c] # <<>>
    /\ wrote' = [wrote EXCEPT ![c] = @ \cup {Head(inbox[c])}]
    /\ inbox' = [inbox EXCEPT ![c] = Tail(@)]
    /\ UNCHANGED <<config, hub, session, links, publishing, unrouted>>

\* PUBLISH from an MQTT client: routed without touching the offline queue.
ClientPublish(c, t) ==
    /\ "clientPublish" \in Moves
    /\ pc[c] = "loop"
    /\ t \in keys
    /\ issued[c] < MaxMsgs
    /\ issued' = [issued EXCEPT ![c] = @ + 1]
    /\ Deliver(t, [by |-> c, n |-> issued[c] + 1])
    /\ UNCHANGED <<config, hub, session, links, job, history>>

\* A PUBLISH to a topic outside the whitelist ends the session.
ClientPublishRefused(c, t) ==
    /\ "clientPublish" \in Moves
    /\ pc[c] = "loop"
    /\ t \notin keys
    /\ EndLoop(c)
    /\ UNCHANGED <<config, hub, subscribed, publishing, history>>

----------------------------------------------------------------------------
(* Publishers: push_api, api_test, MqttHub::publish *)

\* push_api: one configuration snapshot gives the whitelist and the offline flags.
StartPush(p, ks) ==
    /\ job[p].pc = "idle"
    /\ issued[p] < MaxMsgs
    /\ ks # {}
    /\ ks \subseteq keys
    /\ issued' = [issued EXCEPT ![p] = @ + 1]
    /\ \E k \in ks :
         job' = [job EXCEPT ![p] = [pc |-> "online", todo |-> ks \ {k}, key |-> k,
                                    enabled |-> offline_messages,
                                    limit |-> offline_limit]]
    /\ UNCHANGED <<config, hub, session, router, history>>

\* api_test: the whitelist and the flags come from two separate snapshots.
StartTest(p, k) ==
    /\ job[p].pc = "idle"
    /\ issued[p] < MaxMsgs
    /\ k \in keys
    /\ issued' = [issued EXCEPT ![p] = @ + 1]
    /\ job' = [job EXCEPT ![p] = [Idle EXCEPT !.pc = "flags", !.key = k]]
    /\ UNCHANGED <<config, hub, session, router, history>>

ReadFlags(p) ==
    /\ job[p].pc = "flags"
    /\ job' = [job EXCEPT ![p].pc = "online",
                          ![p].enabled = offline_messages,
                          ![p].limit = offline_limit]
    /\ UNCHANGED <<config, hub, session, router, issued, history>>

\* publish reads the online count under the read lock, and releases it.
ReadOnline(p) ==
    /\ job[p].pc = "online"
    /\ job' = [job EXCEPT ![p].pc =
                 IF job[p].enabled /\ job[p].limit > 0
                    /\ subscriptions[job[p].key] = 0
                 THEN "store" ELSE "route"]
    /\ UNCHANGED <<config, hub, session, router, issued, history>>

\* Mutant: the limit is off by one.
Enqueue_OffByOne(q, m, limit) ==
    Append(IF Len(q) > limit /\ q # <<>> THEN Tail(q) ELSE q, m)

\* A full queue gives up its oldest message, and only that one.
Enqueue(q, m, limit) ==
    Append(IF Len(q) >= limit /\ q # <<>> THEN Tail(q) ELSE q, m)

\* The next key of the request, or the response.
NextKey(p) ==
    IF job[p].todo = {}
    THEN job' = [job EXCEPT ![p] = Idle]
    ELSE \E k \in job[p].todo :
           job' = [job EXCEPT ![p].pc = "online", ![p].key = k,
                              ![p].todo = @ \ {k}]

\* Mutant: publish returns once it has queued the message.
Store_Returns(p) ==
    /\ job[p].pc = "store"
    /\ offline' = [offline EXCEPT ![job[p].key] =
                     Enqueue(@, Current(p), job[p].limit)]
    /\ NextKey(p)
    /\ UNCHANGED <<config, subscriptions, connections, session, router, issued, history>>

\* The queue is extended under the write lock, by what the count said before.
Store(p) ==
    /\ job[p].pc = "store"
    /\ offline' = [offline EXCEPT ![job[p].key] =
                     Enqueue(@, Current(p), job[p].limit)]
    /\ job' = [job EXCEPT ![p].pc = "route"]
    /\ UNCHANGED <<config, subscriptions, connections, session, router, issued, history>>

\* publish_link.publish, then the caller counts the message.
Route(p) ==
    /\ job[p].pc = "route"
    /\ Deliver(job[p].key, Current(p))
    /\ message_count' = message_count + 1
    /\ NextKey(p)
    /\ UNCHANGED <<keys, offline_messages, offline_limit, hub, session, links,
                   issued, history>>

\* The router refuses the message: the key is reported failed, the queue keeps it.
RouteFails(p) ==
    /\ "routerError" \in Moves
    /\ job[p].pc = "route"
    /\ unrouted' = unrouted \cup {<<job[p].key, Current(p)>>}
    /\ NextKey(p)
    /\ UNCHANGED <<config, hub, session, router, issued, wrote>>

----------------------------------------------------------------------------
(* The panel: each edit is one ConfigStore::update *)

SetOffline(enabled, limit) ==
    /\ "offline" \in Moves
    /\ offline_messages' = enabled
    /\ offline_limit' = limit
    /\ UNCHANGED <<keys, message_count, hub, session, router, publishing, history>>

AddKey(k) ==
    /\ "keys" \in Moves
    /\ k \notin keys
    /\ keys' = keys \cup {k}
    /\ UNCHANGED <<offline_messages, offline_limit, message_count,
                   hub, session, router, publishing, history>>

\* The key leaves the whitelist; its sessions, counts and queue stay as they are.
DeleteKey(k) ==
    /\ "keys" \in Moves
    /\ keys' = keys \ {k}
    /\ UNCHANGED <<offline_messages, offline_limit, message_count,
                   hub, session, router, publishing, history>>

----------------------------------------------------------------------------
(* Specification *)

\* Steps a session takes by itself once a packet has been read or its loop left.
SessionStep(c) ==
    \/ LinkFilter(c)
    \/ CountSubscription(c)
    \/ TakeOffline(c)
    \/ Replay(c)
    \/ EndFilter(c)
    \/ Unlink(c)
    \/ Uncount(c)
    \/ Cleanup(c)
    \/ FinishSession(c)

\* What the peer decides: connect, send a packet, go away.
PeerStep(c) ==
    \/ Accept(c)
    \/ Handshake(c)
    \/ LeaveLoop(c)
    \/ WsAbort(c)
    \/ \E ts \in SUBSET Topics : ReceiveSubscribe(c, ts)
    \/ \E ts \in SUBSET Topics : ReceiveUnsubscribe(c, ts)
    \/ \E t \in Topics : ClientPublish(c, t)
    \/ \E t \in Topics : ClientPublishRefused(c, t)

PublishStep(p) ==
    \/ ReadFlags(p)
    \/ ReadOnline(p)
    \/ Store(p)
    \/ Route(p)
    \/ RouteFails(p)

Request(p) ==
    \/ \E ks \in SUBSET Topics : StartPush(p, ks)
    \/ \E k \in Topics : StartTest(p, k)

PanelStep ==
    \/ \E enabled \in BOOLEAN, limit \in Limits : SetOffline(enabled, limit)
    \/ \E k \in Topics : AddKey(k)
    \/ \E k \in Topics : DeleteKey(k)

Next ==
    \/ \E c \in Clients : SessionStep(c) \/ Forward(c) \/ PeerStep(c)
    \/ \E p \in Publishers : PublishStep(p) \/ Request(p)
    \/ PanelStep

Spec == Init /\ [][Next]_vars

\* tokio polls every ready task, so a session in a handler and a publish call go
\* on; select! picks among its ready branches at random, so a session with routed
\* messages does not starve them for ever behind inbound packets.
Fairness ==
    /\ \A c \in Clients : WF_vars(SessionStep(c)) /\ SF_vars(Forward(c))
    /\ \A p \in Publishers : WF_vars(PublishStep(p))

FairSpec == Spec /\ Fairness

----------------------------------------------------------------------------
(* Properties *)

\* The type invariant.
TypeOK ==
    /\ keys \subseteq Topics
    /\ offline_messages \in BOOLEAN
    /\ offline_limit \in Nat
    /\ message_count \in Nat
    /\ subscriptions \in [Topics -> Nat]
    /\ offline \in [Topics -> Seq(Msg)]
    /\ connections \in Int
    /\ pc \in [Clients -> SessionPC]
    /\ subscribed \in [Clients -> SUBSET Topics]
    /\ todo \in [Clients -> SUBSET Topics]
    /\ cur \in [Clients -> Topics \cup {None}]
    /\ pending \in [Clients -> Seq(Msg)]
    /\ links \in [Clients -> SUBSET Topics]
    /\ inbox \in [Clients -> Seq(Delivery)]
    /\ job \in [Publishers -> Job]
    /\ issued \in [Sources -> Nat]
    /\ wrote \in [Clients -> SUBSET Delivery]
    /\ unrouted \subseteq Delivery

\* subscriptions is what its comment says, "topic -> number of subscribing
\* connections": the count of every topic equals the number of sessions that
\* hold it, at every moment between two lock acquisitions (mqtt.rs:111, 236).
SubscriptionsCountConnections ==
    \A t \in Topics :
        subscriptions[t] = Cardinality({c \in Clients : t \in subscribed[c]})

\* The connection counter the panel shows equals the number of live sessions
\* (proved in MqttHub_proofs, where no slot is a WebSocket).
ConnectionsCountSessions ==
    connections = Cardinality({c \in Clients : pc[c] # "closed"})

\* The test publish makes, "the count is not 0, so do not queue", is justified:
\* some session has a link for the topic, or is on its way out and about to
\* uncount itself.
OnlineIsReachable ==
    \A t \in Topics :
        subscriptions[t] > 0 =>
            \E c \in Clients : t \in links[c] \/ Leaving(c, t)

\* The handover from queue to live delivery loses nothing: a message that sits
\* in the queue of a topic while a session has taken that queue and still holds
\* the topic has reached that session live, or is about to (its publisher has
\* stored it and not yet routed it), unless the router refused it.  This is what
\* the order link, count, take in SUBSCRIBE and store, route in publish are for.
HandoverLosesNothing ==
    \A t \in Topics, c \in Clients :
        (t \in subscribed[c] /\ ~Leaving(c, t) /\ ~(pc[c] = "take" /\ cur[c] = t)) =>
            \A m \in Elements(offline[t]) :
                \/ <<t, m>> \in Elements(inbox[c]) \cup wrote[c] \cup unrouted
                \/ /\ m.by \in Publishers
                   /\ job[m.by].pc = "route"
                   /\ job[m.by].key = t
                   /\ m = Current(m.by)

\* A queued message is handed to one session: no two sessions replay the same
\* message of a topic, and none replays one that is still queued.
ReplayedOnce ==
    \A c \in Clients :
        cur[c] \in Topics =>
            /\ Elements(pending[c]) \cap Elements(offline[cur[c]]) = {}
            /\ \A d \in Clients \ {c} :
                 cur[d] = cur[c] => Elements(pending[c]) \cap Elements(pending[d]) = {}

\* However publishers interleave and whatever the limit was when each of them
\* read it, no queue is longer than the largest limit that can be configured.
QueueBounded ==
    \A t \in Topics :
        offline[t] # <<>> => \E l \in Limits : Len(offline[t]) <= l

\* Replay does not run backwards: a message a session first sees by replay comes
\* before every later message of its publisher, whether that one was replayed or
\* forwarded live.  (A live message can come late: when the queue evicts it between
\* link and take, the session is replayed its successors first.)
ReplayNotOvertaken ==
    [][\A c \in Clients :
         \A d \in (wrote'[c] \ wrote[c]) \ unrouted :
           \A e \in wrote[c] :
             (pending'[c] # pending[c] /\ e[1] = d[1] /\ e[2].by = d[2].by)
                => e[2].n < d[2].n]_vars

\* In hand: routed to the session, or taken from the queue for it.
Held(c, t, m) ==
    \/ <<t, m>> \in Elements(inbox[c])
    \/ cur[c] = t /\ m \in Elements(pending[c])

BoundedMsg == [by : Sources, n : 1..MaxMsgs]

\* A message in a session's hand is written to its socket unless the session ends.
HeldIsWritten ==
    \A c \in Clients, t \in Topics, m \in BoundedMsg :
        Held(c, t, m) ~> (<<t, m>> \in wrote[c] \/ pc[c] \in {"cleanup", "closed"})

\* While the switch is on ("replayed in order and the queue emptied", src/README.md:218),
\* what is queued for a topic leaves the queue once a subscriber to it is counted.
QueueDrainsToSubscriber ==
    \A c \in Clients, t \in Topics, m \in BoundedMsg :
        (pc[c] = "count" /\ cur[c] = t /\ m \in Elements(offline[t]) /\ offline_messages)
            ~> (m \notin Elements(offline[t]) \/ ~offline_messages)

\* "Switch off: neither cached nor replayed" (src/README.md:219): no session is given a
\* message to replay while the switch is off.
OffReplaysNothing ==
    [][\A c \in Clients : TakeOffline(c) /\ ~offline_messages => pending'[c] = <<>>]_vars

=============================================================================
