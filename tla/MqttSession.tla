---------------------------- MODULE MqttSession ----------------------------
(***************************************************************************)
(* One MQTT session as its client sees it: client_session_loop and         *)
(* handle_inbound of src/src/mqtt.rs with the clock, the CONNECT checks,   *)
(* the packet identifiers and the answers.  What several sessions share,   *)
(* the counts and the queues, is MqttHub's; here the queue of a topic and  *)
(* the link to the router hold so many messages.                           *)
(*                                                                         *)
(* The unit of time is left open.  A timer fires before the clock moves    *)
(* on: Tick waits for a session whose deadline has come.  The socket takes *)
(* a packet at once or, while the peer does not read, not at all.          *)
(***************************************************************************)
EXTENDS Naturals, Sequences, SequencesExt

CONSTANTS
    Topics,         \* push keys the panel may register
    Names,          \* what a client may name as a topic
    ClientPackets,  \* what the client may send, but for the identifiers
    Ids,            \* the identifiers it uses
    RaisedAlives,   \* keepalives the code replaces, {60, 300, 600}
    LongAlive,      \* by this one, 3600
    Grace,          \* added to twice the keepalive, 10
    PkidMax,        \* the largest packet identifier, 65535
    MaxWire,        \* bound: packets the client has on their way
    MaxHeld,        \* bound: messages in the link, and in the queue of a topic
    MaxSilent       \* bound: silence is counted up to here

Kinds == {"CONNECT", "SUBSCRIBE", "UNSUBSCRIBE", "PUBLISH", "PUBREL", "PINGREQ",
          "ACK", "DISCONNECT"}

ASSUME SessionAssumption ==
    /\ {Grace, PkidMax, LongAlive, MaxWire, MaxHeld, MaxSilent} \subseteq Nat \ {0}
    /\ RaisedAlives \subseteq 0..LongAlive
    /\ Ids \subseteq Nat
    /\ Topics \subseteq Names
    /\ \A p \in ClientPackets :
        /\ p.kind \in Kinds
        /\ p.kind = "CONNECT" => p.level \in {"V4", "V5"} /\ p.alive \in Nat /\ 3 * p.alive < 2 * MaxSilent
        /\ p.kind \in {"SUBSCRIBE", "UNSUBSCRIBE", "PUBLISH"} => p.topics \in Seq(Names)
        /\ p.kind = "PUBLISH" => Len(p.topics) = 1 /\ p.qos \in {0, 1}

VARIABLES
    pc,          \* where the session task is
    peer,        \* what the client does with what it is sent
    wire,        \* packets the client has sent, not yet read
    out,         \* the packet the task is writing, <<>> if none
    alive,       \* the keepalive of the CONNECT
    idle,        \* how long the read has been waiting
    silent,      \* how long the client has sent nothing
    keys,        \* the whitelist
    whitelist,   \* the snapshot a SUBSCRIBE was given
    sub,         \* the SUBSCRIBE being handled: its identifier, the filters
                 \* left, the codes so far, the messages left to replay
    subscribed,  \* the topics of the session's link
    queued,      \* offline messages of each topic
    inbox,       \* messages in the link
    pkid,        \* the last identifier used
    asked,       \* history: requests of the client that wait for an answer
    view,        \* history: what the client knows it is subscribed to
    recent       \* history: the last PkidMax identifiers used

client   == <<peer, wire, asked>>
time     == <<idle, silent>>
panel    == <<keys>>
handling == <<whitelist, sub>>
topics   == <<subscribed, queued, inbox, view>>
numbers  == <<pkid, recent>>
vars     == <<pc, out, alive, client, time, panel, handling, topics, numbers>>

----------------------------------------------------------------------------
(* Helpers *)

NoSub == [id |-> 0, todo |-> <<>>, codes |-> <<>>, replays |-> 0]

Loop == pc = "loop" /\ out = <<>>      \* in select!
First == Head(wire).packet
Expects(p) == p.kind \notin {"ACK", "DISCONNECT"} /\ (p.kind = "PUBLISH" => p.qos > 0)

Answer(kind, id) == [kind |-> kind, id |-> id, codes |-> <<>>]

\* The keepalive the session works with, and its deadline.
Effective(k) == IF k \in RaisedAlives THEN LongAlive ELSE k

Deadline(k) == 2 * Effective(k) + Grace

\* Mutant: 0 is not skipped.
NextId_WithZero(n) == (n + 1) % (PkidMax + 1)

\* pkid.wrapping_add(1), and 1 for 0.
NextId(n) == LET m == (n + 1) % (PkidMax + 1) IN IF m = 0 THEN 1 ELSE m

\* The task writes a message under the next identifier.
WritesPublish ==
    /\ pkid' = NextId(pkid)
    /\ out' = <<Answer("PUBLISH", pkid')>>
    /\ recent' = SubSeq(Append(recent, pkid'), IF Len(recent) = PkidMax THEN 2 ELSE 1,
                        Len(recent) + 1)

\* Mutant: a keepalive of 0 switches the timeout off.
TimedOut_ZeroIsNever == Loop /\ wire = <<>> /\ alive # 0 /\ idle >= Deadline(alive)

TimedOut == Loop /\ wire = <<>> /\ idle >= Deadline(alive)

\* Mutant: the deadline counts from the start of the loop.
Waits_On == idle' = idle

\* The future of the timeout is made anew in every round of the loop.
Waits == idle' = 0

Init ==
    /\ pc = "connect"
    /\ peer = "reading"
    /\ wire = <<>> /\ out = <<>>
    /\ alive = 0 /\ idle = 0 /\ silent = 0
    /\ keys \in SUBSET Topics
    /\ whitelist = {} /\ sub = NoSub
    /\ subscribed = {}
    /\ queued \in [Topics -> 0..MaxHeld]
    /\ inbox = 0
    /\ pkid = 0
    /\ asked = <<>> /\ view = {} /\ recent = <<>>

----------------------------------------------------------------------------
(* The client, the clock, the panel and the other publishers *)

ClientSends(p, id) ==
    /\ pc # "ended" /\ peer # "gone"
    /\ Len(wire) < MaxWire
    /\ id \notin {asked[i].id : i \in DOMAIN asked}
    /\ wire' = Append(wire, [packet |-> p, id |-> id])
    /\ asked' = IF Expects(p) THEN Append(asked, [packet |-> p, id |-> id]) ELSE asked
    /\ silent' = 0
    /\ UNCHANGED <<pc, out, alive, peer, idle, panel, handling, topics, numbers>>

\* It stops reading, reads again, or closes the connection.
PeerTurns(how) ==
    /\ pc # "ended" /\ peer # "gone"
    /\ peer' = how
    /\ UNCHANGED <<pc, out, alive, wire, asked, time, panel, handling, topics, numbers>>

Tick ==
    /\ pc # "ended"
    /\ ~TimedOut
    /\ silent' = IF silent < MaxSilent THEN silent + 1 ELSE silent
    /\ idle' = IF Loop /\ idle < Deadline(alive) THEN idle + 1 ELSE idle
    /\ UNCHANGED <<pc, out, alive, client, panel, handling, topics, numbers>>

EditKeys(t) ==
    /\ pc # "ended"
    /\ keys' = IF t \in keys THEN keys \ {t} ELSE keys \cup {t}
    /\ UNCHANGED <<pc, out, alive, client, time, handling, topics, numbers>>

\* Somebody publishes to t: routed to the session, and queued if it does not hold t.
Publish(t) ==
    /\ pc # "ended"
    /\ IF t \in subscribed
         THEN inbox < MaxHeld /\ inbox' = inbox + 1 /\ UNCHANGED queued
         ELSE /\ queued[t] < MaxHeld
              /\ queued' = [queued EXCEPT ![t] = @ + 1]
              /\ UNCHANGED inbox
    /\ UNCHANGED <<pc, out, alive, client, time, panel, handling, subscribed, view, numbers>>

----------------------------------------------------------------------------
(* client_session_loop before its loop *)

\* The session is over: its link, its buffers and its clock are gone.
End ==
    /\ pc' = "ended"
    /\ out' = <<>> /\ wire' = <<>> /\ asked' = <<>>
    /\ alive' = 0 /\ idle' = 0 /\ silent' = 0
    /\ whitelist' = {} /\ sub' = NoSub
    /\ subscribed' = {} /\ inbox' = 0 /\ view' = {}
    /\ pkid' = 0 /\ recent' = <<>>
    /\ UNCHANGED <<peer, keys, queued>>

\* read_packet has no timeout here: a peer that never sends a packet is waited for.
ReadConnect ==
    /\ pc = "connect" /\ out = <<>> /\ wire # <<>>
    /\ LET p == First IN
        \/ p.kind # "CONNECT" /\ End
        \/ /\ p.kind = "CONNECT" /\ p.level = "V5"
           /\ pc' = "refused"
           /\ out' = <<Answer("REFUSED", Head(wire).id)>>
           /\ wire' = Tail(wire)
           /\ UNCHANGED <<alive, peer, asked, time, panel, handling, topics, numbers>>
        \/ /\ p.kind = "CONNECT" /\ p.level = "V4"
           /\ pc' = "loop"
           /\ alive' = p.alive
           /\ out' = <<Answer("CONNACK", Head(wire).id)>>
           /\ wire' = Tail(wire)
           /\ Waits
           /\ UNCHANGED <<peer, asked, silent, panel, handling, topics, numbers>>

EndRefused ==
    /\ pc = "refused" /\ out = <<>>
    /\ End

----------------------------------------------------------------------------
(* Writing, and the ways out of the loop *)

Granted(p, codes) == {p.topics[i] : i \in {j \in DOMAIN codes : codes[j]}}

\* write_packet: the socket takes the packet.
Write ==
    /\ out # <<>>
    /\ peer # "stalled"
    /\ out' = <<>>
    /\ IF Head(out).kind = "PUBLISH" THEN UNCHANGED <<asked, view>>
       ELSE /\ asked' = Tail(asked)
            /\ view' = CASE Head(out).kind = "SUBACK" -> view \cup Granted(Head(asked).packet, Head(out).codes)
                         [] Head(out).kind = "UNSUBACK" -> view \ Range(Head(asked).packet.topics)
                         [] OTHER -> view
    /\ UNCHANGED <<pc, alive, wire, peer, time, panel, handling, subscribed, queued, inbox, numbers>>

\* A write fails, at last when TCP gives up a peer that does not read.
WriteFails ==
    /\ out # <<>>
    /\ peer # "reading"
    /\ End

\* The read times out.
Timeout ==
    /\ TimedOut
    /\ End

\* The read finds the end of the stream.
PeerClosed ==
    /\ pc \in {"connect", "loop"} /\ out = <<>> /\ wire = <<>>
    /\ peer = "gone"
    /\ End

\* The router drops the link, or refuses a message.
RouterCloses == Loop /\ End

\* It gives no link to a client that connects.
NoLink ==
    /\ pc = "connect" /\ out = <<>> /\ wire # <<>>
    /\ First.kind = "CONNECT" /\ First.level = "V4"
    /\ End

----------------------------------------------------------------------------
(* handle_inbound *)

\* select! takes the next packet.
Takes(kinds) ==
    /\ Loop /\ wire # <<>>
    /\ First.kind \in kinds
    /\ wire' = Tail(wire)
    /\ Waits

ReadEcho ==
    /\ Takes({"PINGREQ", "PUBREL"})
    /\ out' = <<Answer(IF First.kind = "PINGREQ" THEN "PINGRESP" ELSE "PUBCOMP", Head(wire).id)>>
    /\ UNCHANGED <<pc, alive, peer, asked, silent, panel, handling, topics, numbers>>

\* PUBACK, PUBREC and PUBCOMP are ignored.
ReadAck ==
    /\ Takes({"ACK"})
    /\ UNCHANGED <<pc, out, alive, peer, asked, silent, panel, handling, topics, numbers>>

\* DISCONNECT, a second CONNECT, or a PUBLISH to what is not on the whitelist.
ReadEnd ==
    /\ Loop /\ wire # <<>>
    /\ \/ First.kind \in {"DISCONNECT", "CONNECT"}
       \/ First.kind = "PUBLISH" /\ First.topics[1] \notin keys
    /\ End

\* Mutant: QoS 0 is acknowledged as well.
Acknowledged_Always(p) == TRUE

Acknowledged(p) == p.qos > 0

\* Into the router, which sends it back to a session that holds the topic.
ReadPublish ==
    /\ Takes({"PUBLISH"})
    /\ First.topics[1] \in keys
    /\ IF First.topics[1] \in subscribed
         THEN inbox < MaxHeld /\ inbox' = inbox + 1 ELSE UNCHANGED inbox
    /\ out' = IF Acknowledged(First) THEN <<Answer("PUBACK", Head(wire).id)>> ELSE <<>>
    /\ UNCHANGED <<pc, alive, peer, asked, silent, panel, handling, subscribed, queued, view, numbers>>

ReadUnsubscribe ==
    /\ Takes({"UNSUBSCRIBE"})
    /\ subscribed' = subscribed \ Range(First.topics)
    /\ out' = <<Answer("UNSUBACK", Head(wire).id)>>
    /\ UNCHANGED <<pc, alive, peer, asked, silent, panel, handling, queued, inbox, view, numbers>>

ReadSubscribe ==
    /\ Takes({"SUBSCRIBE"})
    /\ pc' = "subscribe"
    /\ whitelist' = keys
    /\ sub' = [NoSub EXCEPT !.id = Head(wire).id, !.todo = First.topics]
    /\ UNCHANGED <<out, alive, peer, asked, silent, panel, topics, numbers>>

Filtering == pc = "subscribe" /\ out = <<>> /\ sub.replays = 0

\* Mutant: the code is taken from the whitelist of the moment.
Code_Again(t) == t \in keys

Code(t) == t \in whitelist

\* One filter: linked, counted and its queue taken, or refused.
Filter ==
    /\ Filtering /\ sub.todo # <<>>
    /\ LET t == Head(sub.todo)
           ok == t \in whitelist
       IN  /\ subscribed' = IF ok THEN subscribed \cup {t} ELSE subscribed
           /\ sub' = [sub EXCEPT !.todo = Tail(@), !.codes = Append(@, Code(t)),
                                 !.replays = IF ok THEN queued[t] ELSE 0]
           /\ queued' = IF ok THEN [queued EXCEPT ![t] = 0] ELSE queued
    /\ UNCHANGED <<pc, out, alive, client, time, panel, whitelist, inbox, view, numbers>>

\* The router refuses a filter.
FilterFails ==
    /\ Filtering /\ sub.todo # <<>>
    /\ Head(sub.todo) \in whitelist
    /\ End

Replay ==
    /\ pc = "subscribe" /\ out = <<>> /\ sub.replays > 0
    /\ WritesPublish
    /\ sub' = [sub EXCEPT !.replays = @ - 1]
    /\ UNCHANGED <<pc, alive, client, time, panel, whitelist, topics>>

EndSubscribe ==
    /\ Filtering /\ sub.todo = <<>>
    /\ out' = <<[kind |-> "SUBACK", id |-> sub.id, codes |-> sub.codes]>>
    /\ pc' = "loop"
    /\ whitelist' = {} /\ sub' = NoSub
    /\ UNCHANGED <<alive, client, time, panel, topics, numbers>>

----------------------------------------------------------------------------
(* The other branch of select! *)

Forward ==
    /\ Loop /\ inbox > 0
    /\ inbox' = inbox - 1
    /\ WritesPublish
    /\ Waits
    /\ UNCHANGED <<pc, alive, client, silent, panel, handling, subscribed, queued, view>>

ReadStep ==
    \/ ReadEcho \/ ReadAck \/ ReadEnd \/ ReadPublish
    \/ ReadUnsubscribe \/ ReadSubscribe

SessionStep ==
    \/ ReadConnect \/ EndRefused \/ PeerClosed
    \/ ReadStep \/ Filter \/ Replay \/ EndSubscribe \/ Forward

Next ==
    \/ \E p \in ClientPackets, id \in Ids : ClientSends(p, id)
    \/ \E how \in {"reading", "stalled", "gone"} \ {peer} : PeerTurns(how)
    \/ Tick
    \/ \E t \in Topics : EditKeys(t) \/ Publish(t)
    \/ SessionStep \/ Write \/ WriteFails \/ Timeout
    \/ RouterCloses \/ NoLink \/ FilterFails

Spec == Init /\ [][Next]_vars

\* tokio polls a task that can go on; timers fire; TCP gives up a peer that does
\* not read.
FairSpec ==
    /\ Spec
    /\ WF_vars(SessionStep) /\ WF_vars(Write \/ WriteFails)
    /\ WF_vars(Timeout) /\ WF_vars(Tick)

----------------------------------------------------------------------------
(* Properties *)

\* What the client has on its way, the session's bookkeeping, and its identifiers.
TypeOK ==
    /\ pc \in {"connect", "refused", "loop", "subscribe", "ended"}
    /\ peer \in {"reading", "stalled", "gone"}
    /\ wire \in Seq([packet : ClientPackets, id : Ids]) /\ Len(wire) <= MaxWire
    /\ Len(out) <= 1
    /\ alive \in Nat /\ idle \in 0..Deadline(alive) /\ silent \in 0..MaxSilent
    /\ keys \subseteq Topics /\ whitelist \subseteq Topics /\ subscribed \subseteq Topics
    /\ sub \in [id : Nat, todo : Seq(Names), codes : Seq(BOOLEAN), replays : 0..MaxHeld]
    /\ queued \in [Topics -> 0..MaxHeld] /\ inbox \in 0..MaxHeld
    /\ pkid \in 0..PkidMax
    /\ recent \in Seq(1..PkidMax) /\ Len(recent) <= PkidMax

\* What answers a request, by its kind.
AnswerTo == [CONNECT |-> {"CONNACK", "REFUSED"}, SUBSCRIBE |-> {"SUBACK"}, UNSUBSCRIBE |-> {"UNSUBACK"},
             PUBLISH |-> {"PUBACK"}, PUBREL |-> {"PUBCOMP"}, PINGREQ |-> {"PINGRESP"}]

\* handle_inbound: whatever is replayed and forwarded in between, what the
\* session writes next in answer is for the oldest request that waits for one:
\* of its kind, with its identifier, a SUBACK with a code for each filter.
AnswersInOrder ==
    out # <<>> /\ Head(out).kind # "PUBLISH" =>
        /\ asked # <<>>
        /\ Head(out).kind \in AnswerTo[Head(asked).packet.kind]
        /\ Head(out).id = Head(asked).id
        /\ Head(out).kind = "SUBACK" => Len(Head(out).codes) = Len(Head(asked).packet.topics)

\* What a client concludes from the codes it was sent is what the session holds,
\* though the whitelist is edited while filters are handled.
ViewIsSubscribed == Loop => view = subscribed

\* Replays and forwarded messages share the identifiers of a session: none is 0,
\* and none comes back before all others have been used.
IdsNotReused ==
    /\ 0 \notin Range(recent)
    /\ \A i, j \in DOMAIN recent : i # j => recent[i] # recent[j]

\* The comment at idle_timeout and MQTT's rule: a session is ended for silence
\* only after one and a half keepalives in which its client sent nothing; what
\* waits unread while a write is blocked counts as sent.
PunctualKept == [][Timeout => 2 * silent > 3 * alive]_vars

\* A client that was accepted, sends nothing any more and is routed nothing is
\* dropped, reading or not.
SilentIsReaped ==
    <>[][silent' # 0 /\ inbox' <= inbox]_vars => [](pc = "loop" => <>(pc = "ended"))

=============================================================================
