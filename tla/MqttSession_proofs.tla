-------------------------- MODULE MqttSession_proofs --------------------------
(* Proofs about MqttSession, for any keys, packets, keepalives and bounds: type  *)
(* correctness, the packet identifiers, who may be ended for silence, and the    *)
(* order of requests and answers.                                                *)
EXTENDS MqttSession, SequenceTheorems, TLAPS

----------------------------------------------------------------------------
(* Helpers *)

LEMMA Bounds ==
  /\ Grace \in Nat /\ Grace > 0 /\ PkidMax \in Nat /\ PkidMax > 0
  /\ LongAlive \in Nat /\ MaxWire \in Nat /\ MaxWire > 0 /\ MaxHeld \in Nat /\ MaxHeld > 0
  /\ MaxSilent \in Nat /\ MaxSilent > 0 /\ RaisedAlives \subseteq 0..LongAlive /\ Topics \subseteq Names /\ Ids \subseteq Nat
BY SessionAssumption

LEMMA DeadlineType == ASSUME NEW k \in Nat PROVE Effective(k) \in Nat /\ Deadline(k) \in Nat
BY Bounds DEF Effective, Deadline

LEMMA NextIdType ==
  ASSUME NEW n \in 0..PkidMax
  PROVE  NextId(n) = IF n = PkidMax THEN 1 ELSE n + 1
<1>1. (PkidMax + 1) % (PkidMax + 1) = 0
  BY Bounds
<1>2. n # PkidMax => (n + 1) % (PkidMax + 1) = n + 1
  BY Bounds
<1>3. QED
  BY Bounds, <1>1, <1>2 DEF NextId

LEMMA OnePacket == ASSUME NEW x PROVE Len(<<x>>) <= 1
OBVIOUS

LEMMA TailType ==
  ASSUME NEW S, NEW s \in Seq(S), s # <<>>
  PROVE  /\ Head(s) \in S /\ Tail(s) \in Seq(S) /\ Len(Tail(s)) = Len(s) - 1
BY HeadTailProperties

\* The identifiers kept when x is the next one.
LEMMA Kept ==
  ASSUME NEW S, NEW s \in Seq(S), NEW x \in S, NEW m \in {1, 2}, m <= Len(s) + 1
  PROVE  LET t == SubSeq(Append(s, x), m, Len(s) + 1)
         IN  /\ t \in Seq(S) /\ Len(t) = Len(s) + 2 - m
             /\ \A i \in 1..Len(t) : t[i] = IF i + m - 1 = Len(s) + 1 THEN x ELSE s[i + m - 1]
<1>1. /\ Append(s, x) \in Seq(S) /\ Len(Append(s, x)) = Len(s) + 1 /\ Len(s) \in Nat
      /\ \A i \in 1..Len(s) + 1 : Append(s, x)[i] = IF i = Len(s) + 1 THEN x ELSE s[i]
  <2>1. Len(s) \in Nat
    OBVIOUS
  <2>2. QED
    BY <2>1, AppendProperties
<1>2. \A i \in m..Len(s) + 1 : Append(s, x)[i] \in S
  BY <1>1, ElementOfSeq
<1> DEFINE t == SubSeq(Append(s, x), m, Len(s) + 1)
<1>3. /\ t \in Seq(S) /\ Len(t) = Len(s) + 2 - m
      /\ \A i \in 1..Len(s) + 2 - m : t[i] = Append(s, x)[m + i - 1]
  <2>1. m \in Int /\ Len(s) + 1 \in Int /\ (m <= Len(s) + 1 => Len(s) + 1 - m + 1 = Len(s) + 2 - m)
        /\ (~(m <= Len(s) + 1) => Len(s) + 2 - m = 0)
    BY <1>1
  <2>2. QED
    BY <1>2, <2>1, SubSeqProperties
<1>4. QED
  BY <1>1, <1>3

\* The first packet on the wire.
LEMMA FirstType ==
  ASSUME TypeOK, wire # <<>>
  PROVE  /\ Head(wire) \in [packet : ClientPackets, id : Ids]
         /\ First \in ClientPackets /\ Head(wire).id \in Nat
         /\ Tail(wire) \in Seq([packet : ClientPackets, id : Ids]) /\ Len(Tail(wire)) <= MaxWire
         /\ First.kind = "CONNECT" => First.alive \in Nat /\ 3 * First.alive < 2 * MaxSilent
         /\ First.kind = "SUBSCRIBE" => First.topics \in Seq(Names)
<1>1. /\ Head(wire) \in [packet : ClientPackets, id : Ids]
      /\ Tail(wire) \in Seq([packet : ClientPackets, id : Ids]) /\ Len(Tail(wire)) <= MaxWire
  <2>1. wire \in Seq([packet : ClientPackets, id : Ids]) /\ Len(wire) <= MaxWire
    BY DEF TypeOK
  <2>2. /\ Head(wire) \in [packet : ClientPackets, id : Ids]
        /\ Tail(wire) \in Seq([packet : ClientPackets, id : Ids]) /\ Len(Tail(wire)) = Len(wire) - 1
    BY <2>1, TailType
  <2>3. QED
    BY <2>1, <2>2, Bounds
<1>2. First \in ClientPackets /\ Head(wire).id \in Nat
  BY <1>1, Bounds DEF First
<1>3. QED
  BY <1>1, <1>2, SessionAssumption

LEMMA WritesPublishType ==
  ASSUME TypeOK, WritesPublish
  PROVE  /\ Len(out') <= 1 /\ pkid' \in 1..PkidMax
         /\ recent' \in Seq(1..PkidMax) /\ Len(recent') <= PkidMax
<1>1. pkid' \in 1..PkidMax
  <2>1. pkid' = NextId(pkid) /\ pkid \in 0..PkidMax
    BY DEF WritesPublish, TypeOK
  <2>2. NextId(pkid) = IF pkid = PkidMax THEN 1 ELSE pkid + 1
    BY <2>1, NextIdType
  <2>3. QED
    BY <2>1, <2>2, Bounds
<1>2. Len(recent) \in Nat /\ Len(recent) <= PkidMax /\ recent \in Seq(1..PkidMax)
  BY DEF TypeOK
<1>3. Len(out') <= 1
  BY OnePacket DEF WritesPublish
<1>4. CASE Len(recent) = PkidMax
  <2>1. recent' = SubSeq(Append(recent, pkid'), 2, Len(recent) + 1)
    BY <1>4 DEF WritesPublish
  <2>2. recent' \in Seq(1..PkidMax) /\ Len(recent') = Len(recent)
    BY <1>1, <1>2, <1>4, <2>1, Kept, Bounds
  <2>3. QED
    BY <1>1, <1>2, <1>3, <2>2
<1>5. CASE Len(recent) # PkidMax
  <2>1. recent' = SubSeq(Append(recent, pkid'), 1, Len(recent) + 1)
    BY <1>5 DEF WritesPublish
  <2>2. /\ SubSeq(Append(recent, pkid'), 1, Len(recent) + 1) \in Seq(1..PkidMax)
        /\ Len(SubSeq(Append(recent, pkid'), 1, Len(recent) + 1)) = Len(recent) + 1
    <3>1. 1 \in {1, 2} /\ 1 <= Len(recent) + 1 /\ Len(recent) + 2 - 1 = Len(recent) + 1
      BY <1>2
    <3>2. QED
      BY <1>1, <1>2, <3>1, Kept
  <2>3. QED
    BY <1>1, <1>2, <1>3, <1>5, <2>1, <2>2, Bounds
<1>6. QED
  BY <1>4, <1>5

----------------------------------------------------------------------------
(* Type correctness *)

LEMMA NoSubType == NoSub \in [id : Nat, todo : Seq(Names), codes : Seq(BOOLEAN), replays : 0..MaxHeld]
BY Bounds DEF NoSub

LEMMA InitTypeOK == Init => TypeOK
<1> SUFFICES ASSUME Init PROVE TypeOK
  OBVIOUS
<1>1. 0 \in 0..Deadline(0)
  BY DeadlineType
<1>2. QED
  BY <1>1, NoSubType, Bounds DEF Init, TypeOK

\* The clock of the read stands still.
LEMMA ClockKept ==
  ASSUME TypeOK, alive' = alive, idle' = idle
  PROVE  alive' \in Nat /\ idle' \in 0..Deadline(alive)'
BY DEF TypeOK, Deadline, Effective

\* The records that SUBSCRIBE goes through.
LEMMA SubType ==
  ASSUME NEW i \in Nat, NEW t \in Seq(Names), NEW c \in Seq(BOOLEAN), NEW r \in 0..MaxHeld
  PROVE  [id |-> i, todo |-> t, codes |-> c, replays |-> r]
           \in [id : Nat, todo : Seq(Names), codes : Seq(BOOLEAN), replays : 0..MaxHeld]
OBVIOUS

LEMMA EndTypeOK == ASSUME TypeOK, End PROVE TypeOK'
<1>1. 0 \in 0..Deadline(0)
  BY DeadlineType
<1>2. /\ pc' = "ended" /\ out' = <<>> /\ wire' = <<>> /\ alive' = 0 /\ idle' = 0 /\ silent' = 0
      /\ whitelist' = {} /\ sub' = NoSub /\ subscribed' = {} /\ inbox' = 0 /\ pkid' = 0 /\ recent' = <<>>
      /\ UNCHANGED <<peer, keys, queued>>
  BY DEF End
<1>3. 0 \in 0..MaxSilent /\ 0 \in 0..MaxHeld /\ 0 \in 0..PkidMax /\ 0 <= MaxWire
  BY Bounds
<1>4. Deadline(alive)' = Deadline(0)
  BY <1>2 DEF Deadline, Effective
<1>5. /\ <<>> \in Seq([packet : ClientPackets, id : Ids]) /\ <<>> \in Seq(1..PkidMax)
      /\ Len(<<>>) = 0
  OBVIOUS
<1>6. /\ peer' \in {"reading", "stalled", "gone"} /\ keys' \subseteq Topics
      /\ queued' \in [Topics -> 0..MaxHeld]
  BY <1>2 DEF TypeOK
<1>7. Len(wire') <= MaxWire /\ Len(out') <= 1 /\ Len(recent') <= PkidMax
  BY <1>2, <1>5, Bounds
<1>8. QED
  BY <1>1, <1>2, <1>3, <1>4, <1>5, <1>6, <1>7, NoSubType, Bounds DEF TypeOK

LEMMA StepTypeOK == TypeOK /\ [Next]_vars => TypeOK'
<1> SUFFICES ASSUME TypeOK, [Next]_vars PROVE TypeOK'
  OBVIOUS
<1> USE Bounds
<1> USE DEF client, time, panel, handling, topics, numbers
<1>1. CASE UNCHANGED vars
  BY <1>1 DEF TypeOK, vars, Deadline, Effective
<1>2. ASSUME NEW p \in ClientPackets, NEW id \in Ids, ClientSends(p, id) PROVE TypeOK'
  <2>1. [packet |-> p, id |-> id] \in [packet : ClientPackets, id : Ids]
    OBVIOUS
  <2>2. wire' \in Seq([packet : ClientPackets, id : Ids]) /\ Len(wire') <= MaxWire
    <3>1. /\ wire \in Seq([packet : ClientPackets, id : Ids]) /\ Len(wire) \in Nat
          /\ Len(wire) < MaxWire /\ wire' = Append(wire, [packet |-> p, id |-> id])
      BY <1>2 DEF ClientSends, TypeOK
    <3>2. /\ Append(wire, [packet |-> p, id |-> id]) \in Seq([packet : ClientPackets, id : Ids])
          /\ Len(Append(wire, [packet |-> p, id |-> id])) = Len(wire) + 1
      BY <2>1, <3>1, AppendProperties
    <3>3. QED
      BY <3>1, <3>2, Bounds
  <2>3. silent' = 0 /\ UNCHANGED <<pc, out, alive, peer, idle, panel, handling, topics, numbers>>
    BY <1>2 DEF ClientSends
  <2>4. QED
    BY <2>2, <2>3, ClockKept DEF TypeOK
<1>3. ASSUME NEW how \in {"reading", "stalled", "gone"}, PeerTurns(how) PROVE TypeOK'
  BY <1>3 DEF PeerTurns, TypeOK, Deadline, Effective
<1>4. CASE Tick
  <2>1. silent' \in 0..MaxSilent /\ idle' \in 0..Deadline(alive) /\ Deadline(alive)' = Deadline(alive)
    BY <1>4, DeadlineType DEF Tick, TypeOK, Deadline, Effective
  <2>2. QED
    BY <1>4, <2>1 DEF Tick, TypeOK
<1>5. ASSUME NEW t \in Topics, EditKeys(t) PROVE TypeOK'
  BY <1>5 DEF EditKeys, TypeOK, Deadline, Effective
<1>6. ASSUME NEW t \in Topics, Publish(t) PROVE TypeOK'
  <2>1. /\ inbox' \in 0..MaxHeld /\ queued' \in [Topics -> 0..MaxHeld]
        /\ UNCHANGED <<pc, out, alive, client, time, panel, handling, subscribed, view, numbers>>
    <3>1. CASE t \in subscribed
      BY <1>6, <3>1 DEF Publish, TypeOK
    <3>2. CASE t \notin subscribed
      <4>1. /\ queued[t] < MaxHeld /\ queued' = [queued EXCEPT ![t] = queued[t] + 1] /\ inbox' = inbox
            /\ queued \in [Topics -> 0..MaxHeld] /\ inbox \in 0..MaxHeld
        BY <1>6, <3>2 DEF Publish, TypeOK
      <4>2. queued[t] + 1 \in 0..MaxHeld
        BY <4>1
      <4>3. QED
        BY <1>6, <4>1, <4>2 DEF Publish
    <3>3. QED
      BY <3>1, <3>2
  <2>2. QED
    BY <2>1, ClockKept DEF TypeOK
<1>7. CASE End
  BY <1>7, EndTypeOK
<1>8. CASE ReadConnect
  <2>1. CASE End
    BY <2>1, EndTypeOK
  <2>2. CASE ~End
    <3>1. /\ pc' \in {"refused", "loop"} /\ Len(out') <= 1
          /\ wire' = Tail(wire) /\ wire # <<>>
          /\ \/ alive' = alive /\ idle' = idle
             \/ alive' = First.alive /\ First.kind = "CONNECT" /\ idle' = 0
          /\ UNCHANGED <<peer, silent, keys, whitelist, sub, subscribed, queued, inbox, pkid, recent>>
      <4>1. /\ wire # <<>> /\ First.kind = "CONNECT"
            /\ \/ /\ pc' = "refused"
                  /\ out' = <<Answer("REFUSED", Head(wire).id)>>
                  /\ wire' = Tail(wire)
                  /\ UNCHANGED <<alive, peer, asked, time, panel, handling, topics, numbers>>
               \/ /\ pc' = "loop"
                  /\ alive' = First.alive
                  /\ out' = <<Answer("CONNACK", Head(wire).id)>>
                  /\ wire' = Tail(wire)
                  /\ idle' = 0
                  /\ UNCHANGED <<peer, asked, silent, panel, handling, topics, numbers>>
        BY <1>8, <2>2 DEF ReadConnect, Waits
      <4>2. Len(out') <= 1
        BY <4>1, OnePacket
      <4>3. QED
        BY <4>1, <4>2
    <3>2. alive' \in Nat /\ idle' \in 0..Deadline(alive)'
      <4>1. CASE alive' = alive /\ idle' = idle
        BY <4>1 DEF TypeOK, Deadline, Effective
      <4>2. CASE alive' = First.alive /\ First.kind = "CONNECT" /\ idle' = 0
        <5>1. alive' \in Nat
          BY <3>1, <4>2, FirstType
        <5>2. Effective(alive') \in Nat /\ Deadline(alive') \in Nat
          BY <5>1, DeadlineType
        <5>3. Deadline(alive)' = Deadline(alive')
          BY DEF Deadline, Effective
        <5>4. QED
          BY <4>2, <5>1, <5>2, <5>3
      <4>3. QED
        BY <3>1, <4>1, <4>2
    <3>3. QED
      BY <3>1, <3>2, FirstType DEF TypeOK
  <2>3. QED
    BY <2>1, <2>2
<1>9. CASE Write
  <2>1. /\ Len(out') <= 1
        /\ UNCHANGED <<pc, alive, wire, peer, time, panel, handling, subscribed, queued, inbox, numbers>>
    BY <1>9 DEF Write
  <2>2. QED
    BY <2>1, ClockKept DEF TypeOK
<1>10. ASSUME NEW kinds, Takes(kinds),
              Len(out') <= 1, peer' = peer, alive' = alive, silent' = silent, keys' = keys,
              UNCHANGED numbers,
              pc' \in {"loop", "subscribe"}, whitelist' \subseteq Topics,
              sub' \in [id : Nat, todo : Seq(Names), codes : Seq(BOOLEAN), replays : 0..MaxHeld],
              subscribed' \subseteq Topics, queued' = queued, inbox' \in 0..MaxHeld
       PROVE  TypeOK'
  <2>1. wire # <<>> /\ wire' = Tail(wire) /\ idle' = 0
    BY <1>10 DEF Takes, Waits
  <2>2. alive' \in Nat /\ idle' \in 0..Deadline(alive)'
    BY <1>10, <2>1, DeadlineType DEF TypeOK, Deadline, Effective
  <2>3. QED
    BY <1>10, <2>1, <2>2, FirstType DEF TypeOK
<1>11. CASE ReadEcho
  <2>1. Len(out') <= 1
    BY <1>11, OnePacket DEF ReadEcho
  <2>2. QED
    BY <1>10, <1>11, <2>1 DEF ReadEcho, TypeOK, Takes, Loop
<1>12. CASE ReadAck
  BY <1>10, <1>12 DEF ReadAck, TypeOK, Takes, Loop
<1>13. CASE ReadPublish
  <2>1. inbox' \in 0..MaxHeld
    <3>1. inbox' = inbox \/ (inbox < MaxHeld /\ inbox' = inbox + 1)
      BY <1>13 DEF ReadPublish
    <3>2. inbox \in 0..MaxHeld
      BY DEF TypeOK
    <3>3. QED
      BY <3>1, <3>2
  <2>2. Len(out') <= 1
    <3>1. CASE Acknowledged(First)
      BY <1>13, <3>1, OnePacket DEF ReadPublish
    <3>2. CASE ~Acknowledged(First)
      BY <1>13, <3>2 DEF ReadPublish
    <3>3. QED
      BY <3>1, <3>2
  <2>3. QED
    BY <1>10, <1>13, <2>1, <2>2 DEF ReadPublish, TypeOK, Takes, Loop
<1>14. CASE ReadUnsubscribe
  <2>1. Len(out') <= 1
    BY <1>14, OnePacket DEF ReadUnsubscribe
  <2>2. QED
    BY <1>10, <1>14, <2>1 DEF ReadUnsubscribe, TypeOK, Takes, Loop
<1>15. CASE ReadSubscribe
  <2>1. First.topics \in Seq(Names) /\ Head(wire).id \in Nat
    BY <1>15, FirstType DEF ReadSubscribe, Takes
  <2>2. sub' \in [id : Nat, todo : Seq(Names), codes : Seq(BOOLEAN), replays : 0..MaxHeld]
    <3>1. sub' = [id |-> Head(wire).id, todo |-> First.topics, codes |-> <<>>, replays |-> 0]
      BY <1>15 DEF ReadSubscribe, NoSub
    <3>2. QED
      BY <2>1, <3>1, SubType
  <2>3. QED
    BY <1>10, <1>15, <2>2 DEF ReadSubscribe, TypeOK, Takes, Loop
<1>16. CASE Filter
  <2>1. /\ sub.todo \in Seq(Names) /\ sub.todo # <<>> /\ sub.codes \in Seq(BOOLEAN)
        /\ Head(sub.todo) \in whitelist => Head(sub.todo) \in Topics
    BY <1>16 DEF Filter, TypeOK
  <2>2. Append(sub.codes, Code(Head(sub.todo))) \in Seq(BOOLEAN) /\ Tail(sub.todo) \in Seq(Names)
    BY <2>1 DEF Code
  <2>3. sub' \in [id : Nat, todo : Seq(Names), codes : Seq(BOOLEAN), replays : 0..MaxHeld]
    <3>1. /\ sub' = [sub EXCEPT !.todo = Tail(@), !.codes = Append(@, Code(Head(sub.todo))),
                               !.replays = sub'.replays]
          /\ sub'.replays = IF Head(sub.todo) \in whitelist THEN queued[Head(sub.todo)] ELSE 0
      BY <1>16 DEF Filter, TypeOK
    <3>2. sub'.replays \in 0..MaxHeld
      <4>1. queued \in [Topics -> 0..MaxHeld] /\ 0 \in 0..MaxHeld
        BY DEF TypeOK
      <4>2. QED
        BY <2>1, <3>1, <4>1
    <3>3. QED
      BY <2>2, <3>1, <3>2 DEF TypeOK
  <2>4. subscribed' \subseteq Topics /\ queued' \in [Topics -> 0..MaxHeld]
    <3>1. CASE Head(sub.todo) \in whitelist
      <4>1. /\ subscribed' = subscribed \cup {Head(sub.todo)}
            /\ queued' = [queued EXCEPT ![Head(sub.todo)] = 0]
        BY <1>16, <3>1 DEF Filter
      <4>2. QED
        BY <2>1, <3>1, <4>1 DEF TypeOK
    <3>2. CASE Head(sub.todo) \notin whitelist
      BY <1>16, <3>2 DEF Filter, TypeOK
    <3>3. QED
      BY <3>1, <3>2
  <2>5. QED
    BY <1>16, <2>3, <2>4, ClockKept DEF Filter, TypeOK
<1>17. CASE Replay
  <2>1. sub' \in [id : Nat, todo : Seq(Names), codes : Seq(BOOLEAN), replays : 0..MaxHeld]
    <3>1. sub' = [sub EXCEPT !.replays = sub.replays - 1] /\ sub.replays > 0
      BY <1>17 DEF Replay
    <3>2. /\ sub \in [id : Nat, todo : Seq(Names), codes : Seq(BOOLEAN), replays : 0..MaxHeld]
          /\ sub.replays \in 0..MaxHeld
      BY DEF TypeOK
    <3>3. sub.replays - 1 \in 0..MaxHeld
      BY <3>1, <3>2
    <3>4. QED
      BY <3>1, <3>2, <3>3
  <2>2. /\ Len(out') <= 1 /\ pkid' \in 0..PkidMax
        /\ recent' \in Seq(1..PkidMax) /\ Len(recent') <= PkidMax
    BY <1>17, WritesPublishType DEF Replay
  <2>3. QED
    BY <1>17, <2>1, <2>2, ClockKept DEF Replay, TypeOK
<1>18. CASE EndSubscribe
  <2>1. Len(out') <= 1
    BY <1>18, OnePacket DEF EndSubscribe
  <2>2. QED
    BY <1>18, <2>1, NoSubType, ClockKept DEF EndSubscribe, TypeOK
<1>19. CASE Forward
  <2>1. idle' = 0 /\ inbox' \in 0..MaxHeld
    BY <1>19 DEF Forward, Waits, TypeOK
  <2>2. idle' \in 0..Deadline(alive)'
    BY <1>19, <2>1, DeadlineType DEF Forward, TypeOK, Deadline, Effective
  <2>3. /\ Len(out') <= 1 /\ pkid' \in 0..PkidMax
        /\ recent' \in Seq(1..PkidMax) /\ Len(recent') <= PkidMax
    BY <1>19, WritesPublishType DEF Forward
  <2>4. UNCHANGED <<pc, alive, client, silent, panel, handling, subscribed, queued, view>>
    BY <1>19 DEF Forward
  <2>5. QED
    BY <2>1, <2>2, <2>3, <2>4 DEF TypeOK
<1>20. CASE EndRefused \/ PeerClosed \/ ReadEnd \/ WriteFails \/ Timeout \/ RouterCloses \/ NoLink \/ FilterFails
  BY <1>7, <1>20 DEF EndRefused, PeerClosed, ReadEnd, WriteFails, Timeout, RouterCloses, NoLink, FilterFails
<1>21. QED
  BY <1>1, <1>2, <1>3, <1>4, <1>5, <1>6, <1>8, <1>9, <1>11, <1>12, <1>13, <1>14, <1>15, <1>16, <1>17,
     <1>18, <1>19, <1>20 DEF Next, SessionStep, ReadStep

\* Packets, positions, clocks and identifiers keep their ranges, whatever the client sends.
THEOREM TypeCorrect == Spec => []TypeOK
BY InitTypeOK, StepTypeOK, PTL DEF Spec

----------------------------------------------------------------------------
(* The identifiers *)

\* The identifier d numbers before n, counting from PkidMax down again after 1.
Earlier(n, d) == IF n - d >= 1 THEN n - d ELSE n - d + PkidMax

\* The identifiers used last are those before the next one, in their order.
RecentInv ==
  /\ pkid = 0 => recent = <<>>
  /\ \A i \in 1..Len(recent) : recent[i] = Earlier(pkid, Len(recent) - i)

LEMMA EarlierDiffers ==
  ASSUME NEW n \in 0..PkidMax, NEW d \in 0..PkidMax - 1, NEW e \in 0..PkidMax - 1, d # e
  PROVE  Earlier(n, d) # Earlier(n, e)
<1>1. Earlier(n, d) = n - d \/ (n - d < 1 /\ Earlier(n, d) = n - d + PkidMax)
  BY Bounds DEF Earlier
<1>2. Earlier(n, e) = n - e \/ (n - e < 1 /\ Earlier(n, e) = n - e + PkidMax)
  BY Bounds DEF Earlier
<1>3. QED
  BY <1>1, <1>2, Bounds

LEMMA EarlierNext ==
  ASSUME NEW n \in 1..PkidMax, NEW d \in 0..PkidMax - 1
  PROVE  Earlier(IF n = PkidMax THEN 1 ELSE n + 1, d + 1) = Earlier(n, d)
<1>1. CASE n = PkidMax
  BY <1>1, Bounds DEF Earlier
<1>2. CASE n # PkidMax
  BY <1>2, Bounds DEF Earlier
<1>3. QED
  BY <1>1, <1>2

LEMMA WritesPublishRecent ==
  ASSUME TypeOK, RecentInv, WritesPublish PROVE RecentInv'
<1>1. /\ pkid \in 0..PkidMax /\ pkid' = IF pkid = PkidMax THEN 1 ELSE pkid + 1
      /\ pkid' \in 1..PkidMax
  <2>1. pkid \in 0..PkidMax /\ pkid' = NextId(pkid)
    BY DEF WritesPublish, TypeOK
  <2>2. QED
    BY <2>1, NextIdType, WritesPublishType
<1>2. /\ recent \in Seq(1..PkidMax) /\ Len(recent) \in 0..PkidMax
      /\ pkid = 0 => Len(recent) = 0
      /\ \A i \in 1..Len(recent) : recent[i] = Earlier(pkid, Len(recent) - i)
  <2>1. recent \in Seq(1..PkidMax) /\ Len(recent) \in Nat /\ Len(recent) <= PkidMax
    BY DEF TypeOK
  <2>2. QED
    BY <2>1, Bounds DEF RecentInv
<1> DEFINE m == IF Len(recent) = PkidMax THEN 2 ELSE 1
<1>3. /\ m \in {1, 2} /\ m <= Len(recent) + 1
      /\ recent' = SubSeq(Append(recent, pkid'), m, Len(recent) + 1)
  BY <1>2, Bounds DEF WritesPublish
<1>4. /\ Len(recent') = Len(recent) + 2 - m
      /\ \A i \in 1..Len(recent') :
           recent'[i] = IF i + m - 1 = Len(recent) + 1 THEN pkid' ELSE recent[i + m - 1]
  BY <1>1, <1>2, <1>3, Kept
<1>5. ASSUME NEW i \in 1..Len(recent') PROVE recent'[i] = Earlier(pkid', Len(recent') - i)
  <2>1. CASE i + m - 1 = Len(recent) + 1
    <3>1. recent'[i] = pkid'
      BY <1>4, <2>1
    <3>2. Len(recent') - i = 0
      BY <1>2, <1>3, <1>4, <2>1
    <3>3. Earlier(pkid', 0) = pkid'
      BY <1>1 DEF Earlier
    <3>4. QED
      BY <3>1, <3>2, <3>3
  <2>2. CASE i + m - 1 # Len(recent) + 1
    <3>1. i + m - 1 \in 1..Len(recent)
      BY <1>2, <1>3, <1>4, <2>2
    <3>2. recent'[i] = Earlier(pkid, Len(recent) - (i + m - 1))
      BY <1>2, <1>4, <2>2, <3>1
    <3>3. pkid # 0
      BY <1>2, <3>1
    <3>4. Len(recent) - (i + m - 1) \in 0..PkidMax - 1
      BY <1>2, <3>1, Bounds
    <3>5. Len(recent') - i = Len(recent) - (i + m - 1) + 1
      BY <1>2, <1>3, <1>4
    <3>6. Earlier(pkid', Len(recent) - (i + m - 1) + 1) = Earlier(pkid, Len(recent) - (i + m - 1))
      BY <1>1, <3>3, <3>4, EarlierNext
    <3>7. QED
      BY <3>2, <3>5, <3>6
  <2>3. QED
    BY <2>1, <2>2
<1>6. QED
  BY <1>1, <1>5, Bounds DEF RecentInv, Earlier

\* Who touches the identifiers.
LEMMA NumbersStep ==
  ASSUME [Next]_vars
  PROVE  WritesPublish \/ UNCHANGED numbers \/ (pkid' = 0 /\ recent' = <<>>)
<1> USE DEF client, time, panel, handling, topics, numbers
<1>1. CASE UNCHANGED vars
  BY <1>1 DEF vars
<1>2. CASE ReadEcho \/ ReadAck \/ ReadEnd \/ ReadPublish \/ ReadUnsubscribe \/ ReadSubscribe
  BY <1>2 DEF ReadEcho, ReadAck, ReadEnd, ReadPublish, ReadUnsubscribe, ReadSubscribe, End
<1>3. CASE ReadConnect \/ EndRefused \/ PeerClosed \/ Filter \/ Replay \/ EndSubscribe \/ Forward
  BY <1>3 DEF ReadConnect, EndRefused, PeerClosed, Filter, Replay, EndSubscribe, Forward, End
<1>4. CASE Write \/ WriteFails \/ Timeout \/ RouterCloses \/ NoLink \/ FilterFails
  BY <1>4 DEF Write, WriteFails, Timeout, RouterCloses, NoLink, FilterFails, End
<1>5. CASE \/ \E p \in ClientPackets, id \in Ids : ClientSends(p, id)
           \/ \E how \in {"reading", "stalled", "gone"} \ {peer} : PeerTurns(how)
           \/ Tick
           \/ \E t \in Topics : EditKeys(t) \/ Publish(t)
  BY <1>5 DEF ClientSends, PeerTurns, Tick, EditKeys, Publish
<1>6. QED
  BY <1>1, <1>2, <1>3, <1>4, <1>5 DEF Next, SessionStep, ReadStep

LEMMA RecentInvImplies == ASSUME TypeOK, RecentInv PROVE IdsNotReused
<1>1. recent \in Seq(1..PkidMax) /\ Len(recent) \in 0..PkidMax /\ pkid \in 0..PkidMax
  <2>1. recent \in Seq(1..PkidMax) /\ Len(recent) \in Nat /\ Len(recent) <= PkidMax
    BY DEF TypeOK
  <2>2. QED
    BY <2>1, Bounds DEF TypeOK
<1>2. 0 \notin Range(recent)
  <2>1. \A i \in 1..Len(recent) : recent[i] \in 1..PkidMax
    BY <1>1, ElementOfSeq
  <2>2. QED
    BY <1>1, <2>1 DEF Range
<1>3. ASSUME NEW i \in 1..Len(recent), NEW j \in 1..Len(recent), i # j PROVE recent[i] # recent[j]
  <2>1. recent[i] = Earlier(pkid, Len(recent) - i) /\ recent[j] = Earlier(pkid, Len(recent) - j)
    BY DEF RecentInv
  <2>2. /\ Len(recent) - i \in 0..PkidMax - 1 /\ Len(recent) - j \in 0..PkidMax - 1
        /\ Len(recent) - i # Len(recent) - j
    BY <1>1, <1>3, Bounds
  <2>3. QED
    BY <1>1, <2>1, <2>2, EarlierDiffers
<1>4. DOMAIN recent = 1..Len(recent)
  BY <1>1
<1>5. QED
  BY <1>2, <1>3, <1>4 DEF IdsNotReused

\* None of the last PkidMax messages of a session had identifier 0 or that of
\* another, wherever the counter wraps and whichever loop counted.
THEOREM FreshIds == Spec => []IdsNotReused
<1>1. Init => RecentInv
  BY DEF Init, RecentInv
<1>2. TypeOK /\ RecentInv /\ [Next]_vars => RecentInv'
  <2> SUFFICES ASSUME TypeOK, RecentInv, [Next]_vars PROVE RecentInv'
    OBVIOUS
  <2>1. CASE UNCHANGED numbers
    BY <2>1 DEF numbers, RecentInv
  <2>2. CASE pkid' = 0 /\ recent' = <<>>
    BY <2>2 DEF RecentInv
  <2>3. QED
    BY <2>1, <2>2, NumbersStep, WritesPublishRecent
<1>3. TypeOK /\ RecentInv => IdsNotReused
  BY RecentInvImplies
<1>4. QED
  BY <1>1, <1>2, <1>3, TypeCorrect, PTL DEF Spec

----------------------------------------------------------------------------
(* The deadline *)

\* A read does not wait longer than the client is silent, once it has nothing to read.
SilentInv ==
  /\ 3 * alive < 2 * MaxSilent
  /\ pc = "connect" => idle = 0
  /\ wire = <<>> => idle <= silent \/ silent = MaxSilent

LEMMA StepSilent == TypeOK /\ SilentInv /\ [Next]_vars => SilentInv'
<1> SUFFICES ASSUME TypeOK, SilentInv, [Next]_vars PROVE SilentInv'
  OBVIOUS
<1> USE DEF client, time, panel, handling, topics, numbers
<1>0. /\ idle \in Nat /\ silent \in 0..MaxSilent /\ alive \in Nat
      /\ wire \in Seq([packet : ClientPackets, id : Ids])
  BY DeadlineType DEF TypeOK
<1>1. CASE UNCHANGED <<pc, alive, wire, time>>
  BY <1>1 DEF SilentInv
<1>2. CASE End
  BY <1>2, Bounds DEF End, SilentInv
<1>3. CASE idle' = 0 /\ pc' # "connect" /\ alive' = alive /\ silent' = silent
  BY <1>0, <1>3 DEF SilentInv
<1>4. CASE \E kinds : Takes(kinds) /\ pc' \in {pc, "subscribe"} /\ alive' = alive /\ silent' = silent
  BY <1>3, <1>4 DEF Takes, Waits, Loop
<1>5. CASE \E p \in ClientPackets, id \in Ids : ClientSends(p, id)
  <2>1. PICK p \in ClientPackets, id \in Ids : ClientSends(p, id)
    BY <1>5
  <2>2. wire' # <<>> /\ UNCHANGED <<pc, alive, idle>>
    BY <1>0, <2>1 DEF ClientSends
  <2>3. QED
    BY <2>2 DEF SilentInv
<1>6. CASE Tick
  <2>1. /\ UNCHANGED <<pc, alive, wire>>
        /\ silent' = IF silent < MaxSilent THEN silent + 1 ELSE silent
        /\ idle' = IF Loop /\ idle < Deadline(alive) THEN idle + 1 ELSE idle
    BY <1>6 DEF Tick
  <2>2. pc = "connect" => idle' = idle
    BY <2>1 DEF Loop
  <2>3. idle' \in {idle, idle + 1}
    BY <2>1
  <2>4. QED
    BY <1>0, <2>1, <2>2, <2>3, Bounds DEF SilentInv
<1>7. CASE ReadConnect
  <2>1. CASE End
    BY <1>2, <2>1
  <2>2. CASE ~End
    <3>1. /\ wire # <<>> /\ First.kind = "CONNECT" /\ pc = "connect" /\ silent' = silent
          /\ \/ alive' = alive /\ idle' = idle /\ pc' = "refused"
             \/ alive' = First.alive /\ idle' = 0 /\ pc' = "loop"
      BY <1>7, <2>2 DEF ReadConnect, Waits
    <3>2. idle' = 0 /\ pc' # "connect"
      BY <3>1 DEF SilentInv
    <3>3. 3 * alive' < 2 * MaxSilent
      BY <3>1, FirstType DEF SilentInv
    <3>4. QED
      BY <1>0, <3>1, <3>2, <3>3 DEF SilentInv
  <2>3. QED
    BY <2>1, <2>2
<1>8. CASE ReadStep
  <2>1. CASE ReadEnd
    BY <1>2, <2>1 DEF ReadEnd
  <2>2. CASE ReadEcho \/ ReadAck \/ ReadPublish \/ ReadUnsubscribe \/ ReadSubscribe
    BY <1>4, <2>2 DEF ReadEcho, ReadAck, ReadPublish, ReadUnsubscribe, ReadSubscribe
  <2>3. QED
    BY <1>8, <2>1, <2>2 DEF ReadStep
<1>9. CASE Forward
  BY <1>3, <1>9 DEF Forward, Loop, Waits
<1>10. CASE Filter \/ Replay
  BY <1>1, <1>10 DEF Filter, Replay
<1>11. CASE EndSubscribe
  BY <1>0, <1>11 DEF EndSubscribe, SilentInv
<1>12. CASE Write
  BY <1>1, <1>12 DEF Write
<1>13. CASE EndRefused \/ PeerClosed \/ WriteFails \/ Timeout \/ RouterCloses \/ NoLink \/ FilterFails
  BY <1>2, <1>13 DEF EndRefused, PeerClosed, WriteFails, Timeout, RouterCloses, NoLink, FilterFails
<1>14. CASE \/ \E how \in {"reading", "stalled", "gone"} \ {peer} : PeerTurns(how)
            \/ \E t \in Topics : EditKeys(t) \/ Publish(t)
            \/ UNCHANGED vars
  BY <1>1, <1>14 DEF PeerTurns, EditKeys, Publish, vars
<1>15. QED
  BY <1>5, <1>6, <1>7, <1>8, <1>9, <1>10, <1>11, <1>12, <1>13, <1>14 DEF Next, SessionStep

LEMMA SilentPunctual == ASSUME TypeOK, SilentInv, Timeout PROVE 2 * silent > 3 * alive
<1>1. /\ wire = <<>> /\ idle >= 2 * Effective(alive) + Grace
      /\ alive \in Nat /\ silent \in 0..MaxSilent /\ idle \in Nat
  BY DeadlineType DEF Timeout, TimedOut, Deadline, TypeOK
<1>2. Effective(alive) \in Nat /\ alive <= Effective(alive)
  BY <1>1, Bounds DEF Effective
<1>3. CASE silent = MaxSilent
  BY <1>1, <1>3, Bounds DEF SilentInv
<1>4. CASE idle <= silent
  BY <1>1, <1>2, <1>4, Bounds
<1>5. QED
  BY <1>1, <1>3, <1>4 DEF SilentInv

\* A session that times out had a client silent for more than one and a half of the
\* keepalives it announced.
THEOREM Punctual == Spec => PunctualKept
<1>1. Init => SilentInv
  BY Bounds DEF Init, SilentInv
<1>2. TypeOK /\ SilentInv /\ [Next]_vars => [Timeout => 2 * silent > 3 * alive]_vars
  BY SilentPunctual
<1>3. QED
  BY <1>1, <1>2, StepSilent, TypeCorrect, PTL DEF Spec, PunctualKept


----------------------------------------------------------------------------
(* Requests and their answers *)

\* The requests r are those packets of w that expect an answer, in their order.
Sifts(r, w) ==
  \E f \in [1..Len(r) -> 1..Len(w)] :
    /\ \A i, j \in 1..Len(r) : i < j => f[i] < f[j]
    /\ \A i \in 1..Len(r) : r[i] = w[f[i]]
    /\ \A k \in 1..Len(w) : Expects(w[k].packet) <=> \E i \in 1..Len(r) : f[i] = k

LEMMA SiftsEmpty == Sifts(<<>>, <<>>)
<1> DEFINE f == [i \in 1..0 |-> 0]
<1>1. Len(<<>>) = 0 /\ \A i \in 1..0 : FALSE
  OBVIOUS
<1>2. f \in [1..Len(<<>>) -> 1..Len(<<>>)]
  BY <1>1
<1>3. /\ \A i, j \in 1..Len(<<>>) : i < j => f[i] < f[j]
      /\ \A i \in 1..Len(<<>>) : <<>>[i] = <<>>[f[i]]
      /\ \A k \in 1..Len(<<>>) : Expects(<<>>[k].packet) <=> \E i \in 1..Len(<<>>) : f[i] = k
  BY <1>1
<1>4. QED
  BY <1>2, <1>3 DEF Sifts

\* A packet is sent: it is the last one, and the last request if it expects an answer.
LEMMA SiftsAppend ==
  ASSUME NEW S, NEW r \in Seq(S), NEW w \in Seq(S), NEW x \in S, Sifts(r, w)
  PROVE  Sifts(IF Expects(x.packet) THEN Append(r, x) ELSE r, Append(w, x))
<1>1. PICK f \in [1..Len(r) -> 1..Len(w)] :
        /\ \A i, j \in 1..Len(r) : i < j => f[i] < f[j]
        /\ \A i \in 1..Len(r) : r[i] = w[f[i]]
        /\ \A k \in 1..Len(w) : Expects(w[k].packet) <=> \E i \in 1..Len(r) : f[i] = k
  BY DEF Sifts
<1> DEFINE v == Append(w, x)
           n == Len(w)
           m == Len(r)
<1>2. n \in Nat /\ m \in Nat
  OBVIOUS
<1>3. Len(v) = n + 1 /\ v[n + 1] = x /\ \A k \in 1..n : v[k] = w[k]
  BY <1>2
<1>4. CASE ~Expects(x.packet)
  <2>1. f \in [1..m -> 1..Len(v)]
    BY <1>2, <1>3
  <2>2. \A i \in 1..m : r[i] = v[f[i]]
    BY <1>1, <1>3
  <2>3. ASSUME NEW k \in 1..Len(v) PROVE Expects(v[k].packet) <=> \E i \in 1..m : f[i] = k
    <3>1. CASE k = n + 1
      BY <1>2, <1>3, <1>4, <3>1
    <3>2. CASE k \in 1..n
      BY <1>1, <1>3, <3>2
    <3>3. QED
      BY <1>2, <1>3, <3>1, <3>2
  <2>4. Sifts(r, v)
    BY <1>1, <2>1, <2>2, <2>3 DEF Sifts
  <2>5. QED
    BY <1>4, <2>4
<1>5. CASE Expects(x.packet)
  <2> DEFINE q == Append(r, x)
             g == [i \in 1..m + 1 |-> IF i = m + 1 THEN n + 1 ELSE f[i]]
  <2>1. Len(q) = m + 1 /\ q[m + 1] = x /\ \A i \in 1..m : q[i] = r[i]
    BY <1>2
  <2>2. g \in [1..Len(q) -> 1..Len(v)] /\ g[m + 1] = n + 1 /\ \A i \in 1..m : g[i] = f[i] /\ f[i] \in 1..n
    <3>1. \A i \in 1..m : f[i] \in 1..n /\ i # m + 1
      BY <1>2
    <3>2. \A i \in 1..m + 1 : i = m + 1 \/ i \in 1..m
      BY <1>2
    <3>3. ASSUME NEW i \in 1..m + 1 PROVE (IF i = m + 1 THEN n + 1 ELSE f[i]) \in 1..n + 1
      BY <1>2, <3>1, <3>2
    <3>4. m + 1 \in 1..m + 1 /\ \A i \in 1..m : i \in 1..m + 1
      BY <1>2
    <3>5. QED
      BY <1>3, <2>1, <3>1, <3>3, <3>4
  <2>3. \A i, j \in 1..Len(q) : i < j => g[i] < g[j]
    <3>1. ASSUME NEW i \in 1..Len(q), NEW j \in 1..Len(q), i < j PROVE g[i] < g[j]
      <4>1. i \in 1..m /\ (j = m + 1 \/ j \in 1..m)
        BY <1>2, <2>1, <3>1
      <4>2. QED
        BY <1>1, <1>2, <2>2, <3>1, <4>1
    <3>2. QED
      BY <3>1
  <2>4. ASSUME NEW i \in 1..Len(q) PROVE q[i] = v[g[i]]
    <3>1. i = m + 1 \/ i \in 1..m
      BY <1>2, <2>1
    <3>2. QED
      BY <1>1, <1>3, <2>1, <2>2, <3>1
  <2>5. ASSUME NEW k \in 1..Len(v) PROVE Expects(v[k].packet) <=> \E i \in 1..Len(q) : g[i] = k
    <3>1. CASE k = n + 1
      BY <1>2, <1>3, <1>5, <2>1, <2>2, <3>1
    <3>2. CASE k \in 1..n
      <4>1. Expects(v[k].packet) <=> \E i \in 1..m : f[i] = k
        BY <1>1, <1>3, <3>2
      <4>2. (\E i \in 1..m : f[i] = k) => \E i \in 1..Len(q) : g[i] = k
        BY <1>2, <2>1, <2>2
      <4>3. ASSUME NEW i \in 1..Len(q), g[i] = k PROVE i \in 1..m
        BY <1>2, <2>1, <2>2, <3>2, <4>3
      <4>4. QED
        BY <2>2, <4>1, <4>2, <4>3
    <3>3. QED
      BY <1>2, <1>3, <3>1, <3>2
  <2>6. Sifts(q, v)
    BY <2>2, <2>3, <2>4, <2>5 DEF Sifts
  <2>7. QED
    BY <1>5, <2>6
<1>6. QED
  BY <1>4, <1>5

\* The first packet is read: it is the first request if it expects an answer.
LEMMA SiftsTail ==
  ASSUME NEW S, NEW r \in Seq(S), NEW w \in Seq(S), w # <<>>, Sifts(r, w)
  PROVE  IF Expects(Head(w).packet)
           THEN r # <<>> /\ Head(r) = Head(w) /\ Sifts(Tail(r), Tail(w))
           ELSE Sifts(r, Tail(w))
<1>1. PICK f \in [1..Len(r) -> 1..Len(w)] :
        /\ \A i, j \in 1..Len(r) : i < j => f[i] < f[j]
        /\ \A i \in 1..Len(r) : r[i] = w[f[i]]
        /\ \A k \in 1..Len(w) : Expects(w[k].packet) <=> \E i \in 1..Len(r) : f[i] = k
  BY DEF Sifts
<1> DEFINE v == Tail(w)
           n == Len(w)
           m == Len(r)
<1>2. n \in Nat /\ m \in Nat /\ n > 0
  OBVIOUS
<1>3. Len(v) = n - 1 /\ Head(w) = w[1] /\ \A k \in 1..n - 1 : v[k] = w[k + 1]
  BY <1>2
<1>4. CASE ~Expects(Head(w).packet)
  <2>1. \A i \in 1..m : f[i] \in 2..n
    BY <1>1, <1>2, <1>3, <1>4
  <2> DEFINE g == [i \in 1..m |-> f[i] - 1]
  <2>2. g \in [1..m -> 1..Len(v)] /\ \A i \in 1..m : g[i] = f[i] - 1
    BY <1>2, <1>3, <2>1
  <2>3. \A i, j \in 1..m : i < j => g[i] < g[j]
    BY <1>1, <2>1, <2>2
  <2>4. \A i \in 1..m : r[i] = v[g[i]]
    BY <1>1, <1>2, <1>3, <2>1, <2>2
  <2>5. ASSUME NEW k \in 1..Len(v) PROVE Expects(v[k].packet) <=> \E i \in 1..m : g[i] = k
    <3>1. k + 1 \in 1..n /\ v[k] = w[k + 1]
      BY <1>2, <1>3
    <3>2. Expects(v[k].packet) <=> \E i \in 1..m : f[i] = k + 1
      BY <1>1, <3>1
    <3>3. \A i \in 1..m : f[i] = k + 1 <=> g[i] = k
      BY <1>2, <1>3, <2>1, <2>2
    <3>4. QED
      BY <3>2, <3>3
  <2>6. Sifts(r, v)
    BY <2>2, <2>3, <2>4, <2>5 DEF Sifts
  <2>7. QED
    BY <1>4, <2>6
<1>5. CASE Expects(Head(w).packet)
  <2>1. PICK a \in 1..m : f[a] = 1
    BY <1>1, <1>2, <1>3, <1>5
  <2>2. a = 1 /\ m > 0 /\ 1 \in 1..m /\ f[1] = 1
    <3>1. m > 0 /\ 1 \in 1..m
      BY <1>2, <2>1
    <3>2. ~(1 < a)
      BY <1>1, <1>2, <2>1, <3>1
    <3>3. QED
      BY <2>1, <3>1, <3>2
  <2>3. r # <<>> /\ Head(r) = Head(w)
    <3>1. r # <<>> /\ Head(r) = r[1]
      BY <1>2, <2>2
    <3>2. QED
      BY <1>1, <1>3, <2>2, <3>1
  <2> DEFINE q == Tail(r)
             g == [i \in 1..m - 1 |-> f[i + 1] - 1]
  <2>4. Len(q) = m - 1 /\ \A i \in 1..m - 1 : q[i] = r[i + 1]
    BY <1>2, <2>3
  <2>5. \A i \in 2..m : f[i] \in 2..n
    <3>1. ASSUME NEW i \in 2..m PROVE f[i] \in 2..n
      <4>1. i \in 1..m /\ 1 < i /\ f[i] \in 1..n
        BY <1>2
      <4>2. f[1] < f[i]
        BY <1>1, <2>2, <4>1
      <4>3. QED
        BY <1>2, <2>2, <4>1, <4>2
    <3>2. QED
      BY <3>1
  <2>6. g \in [1..Len(q) -> 1..Len(v)] /\ \A i \in 1..m - 1 : g[i] = f[i + 1] - 1 /\ i + 1 \in 2..m
    <3>1. ASSUME NEW i \in 1..m - 1 PROVE i + 1 \in 2..m /\ f[i + 1] - 1 \in 1..n - 1
      <4>1. i + 1 \in 2..m
        BY <1>2
      <4>2. f[i + 1] \in 2..n
        BY <2>5, <4>1
      <4>3. QED
        BY <1>2, <4>1, <4>2
    <3>2. QED
      BY <1>3, <2>4, <3>1
  <2>7. ASSUME NEW i \in 1..Len(q), NEW j \in 1..Len(q), i < j PROVE g[i] < g[j]
    <3>1. i + 1 \in 1..m /\ j + 1 \in 1..m /\ i + 1 < j + 1
      BY <1>2, <2>4, <2>7
    <3>2. f[i + 1] < f[j + 1]
      BY <1>1, <3>1
    <3>3. i + 1 \in 2..m /\ j + 1 \in 2..m
      BY <1>2, <2>4
    <3>4. QED
      BY <1>2, <2>4, <2>5, <2>6, <3>2, <3>3
  <2>8. ASSUME NEW i \in 1..Len(q) PROVE q[i] = v[g[i]]
    <3>1. i + 1 \in 1..m /\ f[i + 1] \in 2..n /\ g[i] = f[i + 1] - 1 /\ q[i] = r[i + 1]
      BY <1>2, <2>4, <2>5, <2>6
    <3>2. v[f[i + 1] - 1] = w[f[i + 1]]
      BY <1>2, <1>3, <3>1
    <3>3. QED
      BY <1>1, <3>1, <3>2
  <2>9. ASSUME NEW k \in 1..Len(v) PROVE Expects(v[k].packet) <=> \E i \in 1..Len(q) : g[i] = k
    <3>1. k + 1 \in 1..n /\ v[k] = w[k + 1]
      BY <1>2, <1>3
    <3>2. Expects(v[k].packet) <=> \E i \in 1..m : f[i] = k + 1
      BY <1>1, <3>1
    <3>3. ASSUME NEW i \in 1..m, f[i] = k + 1 PROVE \E j \in 1..Len(q) : g[j] = k
      <4>1. i # 1
        BY <1>2, <2>2, <3>3
      <4>2. i - 1 \in 1..m - 1
        BY <1>2, <4>1
      <4>3. g[i - 1] = f[i - 1 + 1] - 1 /\ i - 1 + 1 = i
        BY <2>6, <4>2
      <4>4. g[i - 1] = k
        BY <3>3, <4>3
      <4>5. QED
        BY <2>4, <4>2, <4>4
    <3>4. ASSUME NEW i \in 1..Len(q), g[i] = k PROVE \E j \in 1..m : f[j] = k + 1
      <4>1. i + 1 \in 1..m /\ g[i] = f[i + 1] - 1 /\ f[i + 1] \in 2..n
        BY <1>2, <2>4, <2>5, <2>6
      <4>2. f[i + 1] = k + 1
        BY <3>4, <4>1
      <4>3. QED
        BY <4>1, <4>2
    <3>5. QED
      BY <3>2, <3>3, <3>4
  <2>10. Sifts(q, v)
    BY <2>6, <2>7, <2>8, <2>9 DEF Sifts
  <2>11. QED
    BY <1>5, <2>3, <2>10
<1>6. QED
  BY <1>4, <1>5

Packet == [packet : ClientPackets, id : Ids]

\* The session is handling a request or writing its answer.
Answering == out # <<>> /\ Head(out).kind # "PUBLISH"
Busy == pc = "subscribe" \/ Answering

\* The requests that wait are those on the wire, behind the one at work.
OrderInv ==
  IF Busy THEN asked # <<>> /\ Sifts(Tail(asked), wire) ELSE Sifts(asked, wire)

\* What answers are written where, and what they carry.
AnswerInv ==
  /\ asked \in Seq(Packet)
  /\ pc = "subscribe" => ~Answering
  /\ pc \in {"connect", "ended"} => out = <<>>
  /\ Answering => Head(out).codes \in Seq(BOOLEAN)
  /\ AnswersInOrder

\* How far a SUBSCRIBE is handled.
HandlingInv ==
  pc = "subscribe" =>
    /\ Head(asked).packet.kind = "SUBSCRIBE" /\ sub.id = Head(asked).id
    /\ Len(sub.codes) + Len(sub.todo) = Len(Head(asked).packet.topics)
    /\ \A i \in 1..Len(sub.todo) : sub.todo[i] = Head(asked).packet.topics[Len(sub.codes) + i]
    /\ \A i \in 1..Len(sub.codes) : sub.codes[i] = Code(Head(asked).packet.topics[i])

\* What the client will know when it has read the answer.
ViewInv ==
  subscribed =
    IF pc = "subscribe" THEN view \cup Granted(Head(asked).packet, sub.codes)
    ELSE IF Answering /\ Head(out).kind = "SUBACK" THEN view \cup Granted(Head(asked).packet, Head(out).codes)
    ELSE IF Answering /\ Head(out).kind = "UNSUBACK" THEN view \ Range(Head(asked).packet.topics)
    ELSE view

RequestInv == OrderInv /\ AnswerInv /\ HandlingInv /\ ViewInv

\* A session that ends has no request left.
LEMMA EndRequest == ASSUME End PROVE RequestInv'
<1>1. pc' = "ended" /\ out' = <<>> /\ wire' = <<>> /\ asked' = <<>> /\ subscribed' = {} /\ view' = {}
  BY DEF End
<1>2. OrderInv'
  BY <1>1, SiftsEmpty DEF OrderInv, Busy, Answering
<1>3. AnswerInv'
  BY <1>1 DEF AnswerInv, Answering, AnswersInOrder
<1>4. QED
  BY <1>1, <1>2, <1>3 DEF RequestInv, HandlingInv, ViewInv, Answering

\* Nothing of it is touched, or a message is written in between.
LEMMA QuietRequest ==
  ASSUME RequestInv, UNCHANGED <<pc, wire, asked, view, subscribed, whitelist>>,
         UNCHANGED <<sub.id, sub.todo, sub.codes>>,
         \/ out' = out
         \/ out = <<>> /\ pc \in {"loop", "subscribe"} /\ out' # <<>> /\ Head(out').kind = "PUBLISH"
  PROVE  RequestInv'
<1>1. (Answering' <=> Answering) /\ (Busy' <=> Busy) /\ (Answering => out' = out)
  BY DEF Answering, Busy
<1>2. OrderInv'
  BY <1>1 DEF RequestInv, OrderInv
<1>3. AnswerInv'
  BY <1>1 DEF RequestInv, AnswerInv, AnswersInOrder, Answering
<1>4. HandlingInv'
  BY DEF RequestInv, HandlingInv, Code
<1>5. ViewInv'
  BY <1>1 DEF RequestInv, ViewInv, Granted
<1>6. QED
  BY <1>2, <1>3, <1>4, <1>5 DEF RequestInv

\* A packet that is sent.
LEMMA SentRequest ==
  ASSUME TypeOK, RequestInv, NEW p \in ClientPackets, NEW id \in Ids, ClientSends(p, id)
  PROVE  RequestInv'
<1> DEFINE x == [packet |-> p, id |-> id]
<1>0. /\ UNCHANGED <<pc, out, subscribed, view, whitelist, sub>>
      /\ wire' = Append(wire, x) /\ asked' = IF Expects(p) THEN Append(asked, x) ELSE asked
  BY DEF ClientSends, handling, topics
<1>1. x \in Packet /\ wire \in Seq(Packet) /\ asked \in Seq(Packet) /\ x.packet = p
  BY DEF Packet, TypeOK, RequestInv, AnswerInv
<1>2. (Answering' <=> Answering) /\ (Busy' <=> Busy)
  BY <1>0 DEF Answering, Busy
<1>3. asked' \in Seq(Packet)
  BY <1>0, <1>1
<1>4. asked # <<>> => Head(asked') = Head(asked) /\ asked' # <<>>
                      /\ Tail(asked') = IF Expects(p) THEN Append(Tail(asked), x) ELSE Tail(asked)
  <2>1. CASE Expects(p)
    BY <1>0, <1>1, <2>1
  <2>2. CASE ~Expects(p)
    BY <1>0, <2>2
  <2>3. QED
    BY <2>1, <2>2
<1>5. CASE Busy
  <2>1. asked # <<>> /\ Sifts(Tail(asked), wire) /\ Tail(asked) \in Seq(Packet)
    BY <1>1, <1>5 DEF RequestInv, OrderInv
  <2>2. Sifts(Tail(asked'), wire')
    BY <1>0, <1>1, <1>4, <2>1, SiftsAppend
  <2>3. OrderInv'
    BY <1>2, <1>4, <1>5, <2>1, <2>2 DEF OrderInv
  <2>4. AnswerInv'
    BY <1>0, <1>2, <1>3, <1>4, <2>1 DEF RequestInv, AnswerInv, AnswersInOrder, Answering
  <2>5. Head(asked') = Head(asked)
    BY <1>4, <2>1
  <2>6. HandlingInv'
    BY <1>0, <2>5 DEF RequestInv, HandlingInv, Code
  <2>7. ViewInv'
    BY <1>0, <1>2, <2>5 DEF RequestInv, ViewInv, Granted
  <2>8. QED
    BY <2>3, <2>4, <2>6, <2>7 DEF RequestInv
<1>6. CASE ~Busy
  <2>1. Sifts(asked, wire)
    BY <1>6 DEF RequestInv, OrderInv
  <2>2. Sifts(asked', wire')
    BY <1>0, <1>1, <2>1, SiftsAppend
  <2>3. OrderInv'
    BY <1>2, <1>6, <2>2 DEF OrderInv
  <2>4. AnswerInv'
    BY <1>0, <1>2, <1>3, <1>6 DEF RequestInv, AnswerInv, AnswersInOrder, Answering, Busy
  <2>5. HandlingInv' /\ ViewInv'
    BY <1>0, <1>2, <1>6 DEF RequestInv, HandlingInv, ViewInv, Busy
  <2>6. QED
    BY <2>3, <2>4, <2>5 DEF RequestInv
<1>7. QED
  BY <1>5, <1>6

\* A packet that is read, with what it is to the requests.
LEMMA ReadRequest ==
  ASSUME TypeOK, RequestInv, pc \in {"connect", "loop"}, out = <<>>, wire # <<>>
  PROVE  /\ Tail(wire) \in Seq(Packet) /\ asked \in Seq(Packet) /\ subscribed = view
         /\ Expects(First) => asked # <<>> /\ Head(asked) = Head(wire) /\ Sifts(Tail(asked), Tail(wire))
         /\ ~Expects(First) => Sifts(asked, Tail(wire))
<1>1. wire \in Seq(Packet) /\ asked \in Seq(Packet) /\ Tail(wire) \in Seq(Packet)
  BY DEF TypeOK, Packet, RequestInv, AnswerInv
<1>2. ~Answering /\ ~Busy
  BY DEF Answering, Busy
<1>3. Sifts(asked, wire) /\ subscribed = view
  BY <1>2 DEF RequestInv, OrderInv, ViewInv, Busy
<1>4. QED
  BY <1>1, <1>3, SiftsTail DEF First

\* A request is answered at once.
LEMMA AnsweredRequest ==
  ASSUME TypeOK, RequestInv, pc \in {"connect", "loop"}, out = <<>>, wire # <<>>, wire' = Tail(wire),
         Expects(First), UNCHANGED <<asked, view>>, pc' \in {"loop", "refused"}, NEW kind,
         kind \in AnswerTo[First.kind], kind \notin {"PUBLISH", "SUBACK"}, out' = <<Answer(kind, Head(wire).id)>>,
         subscribed' = IF kind = "UNSUBACK" THEN subscribed \ Range(First.topics) ELSE subscribed
  PROVE  RequestInv'
<1>1. /\ asked # <<>> /\ Head(asked) = Head(wire) /\ Sifts(Tail(asked), Tail(wire))
      /\ asked \in Seq(Packet) /\ subscribed = view
  BY ReadRequest
<1>2. out' # <<>> /\ Head(out').kind = kind /\ Head(out').id = Head(wire).id /\ Head(out').codes = <<>>
  BY DEF Answer
<1>3. Answering' /\ Busy' /\ pc' \notin {"subscribe", "connect", "ended"}
  BY <1>2 DEF Answering, Busy
<1>4. OrderInv'
  BY <1>1, <1>3 DEF OrderInv
<1>5. AnswersInOrder'
  BY <1>1, <1>2 DEF AnswersInOrder, First
<1>6. AnswerInv'
  <2>1. asked' \in Seq(Packet) /\ <<>> \in Seq(BOOLEAN)
    BY <1>1
  <2>2. QED
    BY <1>2, <1>3, <1>5, <2>1 DEF AnswerInv
<1>7. ViewInv'
  BY <1>1, <1>2, <1>3 DEF ViewInv, First
<1>8. QED
  BY <1>3, <1>4, <1>6, <1>7 DEF RequestInv, HandlingInv

\* A packet is read that waits for no answer.
LEMMA SkippedRequest ==
  ASSUME TypeOK, RequestInv, Loop, wire # <<>>, wire' = Tail(wire),
         ~Expects(First), UNCHANGED <<pc, out, asked, view, subscribed>>
  PROVE  RequestInv'
<1>1. Sifts(asked, Tail(wire)) /\ asked \in Seq(Packet) /\ subscribed = view
  BY ReadRequest DEF Loop
<1>2. ~Answering' /\ ~Busy' /\ pc' = "loop" /\ out' = <<>>
  BY DEF Answering, Busy, Loop
<1>3. QED
  BY <1>1, <1>2 DEF RequestInv, OrderInv, AnswerInv, AnswersInOrder, HandlingInv, ViewInv, Answering

\* A code is put next to those of the filters before it.
LEMMA GrantedMore ==
  ASSUME NEW p, NEW S, p.topics \in Seq(S), NEW c \in Seq(BOOLEAN), NEW b \in BOOLEAN, Len(c) < Len(p.topics)
  PROVE  Granted(p, Append(c, b)) = IF b THEN Granted(p, c) \cup {p.topics[Len(c) + 1]} ELSE Granted(p, c)
<1> DEFINE d == Append(c, b)
           n == Len(c)
<1>1. n \in Nat /\ DOMAIN c = 1..n /\ DOMAIN d = 1..n + 1 /\ d[n + 1] = b /\ \A i \in 1..n : d[i] = c[i]
  OBVIOUS
<1>2. \A i \in 1..n + 1 : i = n + 1 \/ i \in 1..n
  BY <1>1
<1>3. n + 1 \in 1..n + 1 /\ \A i \in 1..n : i \in 1..n + 1
  BY <1>1
<1>4. CASE b
  <2>1. {j \in DOMAIN d : d[j]} = {j \in DOMAIN c : c[j]} \cup {n + 1}
    BY <1>1, <1>2, <1>3, <1>4
  <2>2. QED
    BY <1>4, <2>1 DEF Granted
<1>5. CASE ~b
  <2>1. {j \in DOMAIN d : d[j]} = {j \in DOMAIN c : c[j]}
    BY <1>1, <1>2, <1>3, <1>5
  <2>2. QED
    BY <1>5, <2>1 DEF Granted
<1>6. QED
  BY <1>4, <1>5

\* A SUBSCRIBE is taken up.
LEMMA SubscribeRequest ==
  ASSUME TypeOK, RequestInv, ReadSubscribe PROVE RequestInv'
<1>0. /\ Loop /\ wire # <<>> /\ First.kind = "SUBSCRIBE" /\ wire' = Tail(wire) /\ pc' = "subscribe"
      /\ UNCHANGED <<out, asked, view, subscribed>>
      /\ sub' = [id |-> Head(wire).id, todo |-> First.topics, codes |-> <<>>, replays |-> 0]
  BY DEF ReadSubscribe, Takes, topics, NoSub
<1>1. /\ asked # <<>> /\ Head(asked) = Head(wire) /\ Sifts(Tail(asked), Tail(wire))
      /\ asked \in Seq(Packet) /\ subscribed = view
  <2>1. Expects(First)
    BY <1>0 DEF Expects
  <2>2. QED
    BY <1>0, <2>1, ReadRequest DEF Loop
<1>2. ~Answering' /\ Busy' /\ out' = <<>>
  BY <1>0 DEF Answering, Busy, Loop
<1>3. OrderInv' /\ AnswerInv'
  BY <1>0, <1>1, <1>2 DEF OrderInv, AnswerInv, AnswersInOrder, Answering
<1>4. HandlingInv'
  <2>1. First.topics \in Seq(Names)
    BY <1>0, FirstType
  <2>2. Len(First.topics) \in Nat /\ Len(<<>>) = 0
    BY <2>1
  <2>3. sub'.codes = <<>> /\ sub'.todo = First.topics /\ sub'.id = Head(wire).id
    BY <1>0
  <2>4. Head(asked').packet = First /\ Head(asked').id = Head(wire).id
    BY <1>0, <1>1 DEF First
  <2>5. \A i \in 1..Len(sub'.todo) : sub'.todo[i] = Head(asked').packet.topics[Len(sub'.codes) + i]
    BY <2>2, <2>3, <2>4
  <2>6. (\A i \in 1..Len(sub.codes) : sub.codes[i] = Code(Head(asked).packet.topics[i]))'
    BY <2>2, <2>3
  <2>7. QED
    BY <1>0, <2>2, <2>3, <2>4, <2>5, <2>6 DEF HandlingInv
<1>5. ViewInv'
  <2>1. Granted(Head(asked').packet, sub'.codes) = {}
    BY <1>0 DEF Granted
  <2>2. QED
    BY <1>0, <1>1, <2>1 DEF ViewInv, Granted
<1>6. QED
  BY <1>3, <1>4, <1>5 DEF RequestInv

\* The next filter, and those after it.
LEMMA NextFilter ==
  ASSUME NEW s \in Seq(Names), NEW todo \in Seq(Names), todo # <<>>, NEW n \in Nat,
         n + Len(todo) = Len(s), \A i \in 1..Len(todo) : todo[i] = s[n + i]
  PROVE  /\ n < Len(s) /\ Head(todo) = s[n + 1]
         /\ n + 1 + Len(Tail(todo)) = Len(s)
         /\ \A i \in 1..Len(Tail(todo)) : Tail(todo)[i] = s[n + 1 + i]
<1>1. /\ Len(s) \in Nat /\ Len(todo) \in Nat /\ Len(todo) > 0 /\ Head(todo) = todo[1]
      /\ Len(Tail(todo)) = Len(todo) - 1
      /\ \A i \in 1..Len(todo) - 1 : Tail(todo)[i] = todo[i + 1]
  OBVIOUS
<1>2. ASSUME NEW i \in 1..Len(todo) - 1 PROVE Tail(todo)[i] = s[n + 1 + i]
  <2>1. i + 1 \in 1..Len(todo) /\ n + (i + 1) = n + 1 + i
    BY <1>1
  <2>2. todo[i + 1] = s[n + (i + 1)]
    BY <2>1
  <2>3. QED
    BY <1>1, <2>1, <2>2
<1>3. QED
  BY <1>1, <1>2

\* A filter is handled.
LEMMA FilterRequest ==
  ASSUME TypeOK, RequestInv, Filter PROVE RequestInv'
<1> DEFINE p == Head(asked).packet
           n == Len(sub.codes)
           t == Head(sub.todo)
<1>0. /\ pc = "subscribe" /\ out = <<>> /\ sub.todo # <<>>
      /\ UNCHANGED <<pc, out, wire, asked, view, whitelist>>
      /\ subscribed' = (IF t \in whitelist THEN subscribed \cup {t} ELSE subscribed)
      /\ sub'.id = sub.id /\ sub'.todo = Tail(sub.todo) /\ sub'.codes = Append(sub.codes, Code(t))
  BY DEF Filter, Filtering, client, TypeOK
<1>1. /\ sub.todo \in Seq(Names) /\ sub.codes \in Seq(BOOLEAN) /\ n \in Nat /\ asked \in Seq(Packet) /\ asked # <<>>
  BY <1>0 DEF TypeOK, RequestInv, AnswerInv, OrderInv, Busy
<1>2. p.topics \in Seq(Names)
  <2>1. p \in ClientPackets
    <3>1. Head(asked) \in Packet
      BY <1>1, TailType
    <3>2. QED
      BY <3>1 DEF Packet
  <2>2. p.kind = "SUBSCRIBE"
    BY <1>0 DEF RequestInv, HandlingInv
  <2>3. QED
    BY <2>1, <2>2, SessionAssumption
<1>3. n + Len(sub.todo) = Len(p.topics) /\ \A i \in 1..Len(sub.todo) : sub.todo[i] = p.topics[n + i]
  BY <1>0 DEF RequestInv, HandlingInv
<1>4. /\ p.kind = "SUBSCRIBE" /\ sub.id = Head(asked).id
      /\ \A i \in 1..n : sub.codes[i] = Code(p.topics[i])
      /\ subscribed = view \cup Granted(p, sub.codes)
  BY <1>0 DEF RequestInv, HandlingInv, ViewInv
<1>5. /\ n < Len(p.topics) /\ t = p.topics[n + 1]
      /\ n + 1 + Len(Tail(sub.todo)) = Len(p.topics)
      /\ \A i \in 1..Len(Tail(sub.todo)) : Tail(sub.todo)[i] = p.topics[n + 1 + i]
  <2>1. /\ sub.todo \in Seq(Names) /\ sub.todo # <<>> /\ n \in Nat /\ p.topics \in Seq(Names)
        /\ n + Len(sub.todo) = Len(p.topics) /\ \A i \in 1..Len(sub.todo) : sub.todo[i] = p.topics[n + i]
    BY <1>0, <1>1, <1>2, <1>3
  <2> HIDE DEF n, p
  <2>2. QED
    BY <2>1, NextFilter
<1>6. t = p.topics[n + 1] /\ n < Len(p.topics)
  BY <1>5
<1>7. /\ Len(sub'.codes) = n + 1 /\ sub'.codes[n + 1] = Code(t)
      /\ \A i \in 1..n : sub'.codes[i] = sub.codes[i]
  BY <1>0, <1>1
<1>8. HandlingInv'
  <2>1. Len(sub'.codes) + Len(sub'.todo) = Len(p.topics)
    BY <1>0, <1>5, <1>7
  <2>2. \A i \in 1..Len(sub'.todo) : sub'.todo[i] = p.topics[Len(sub'.codes) + i]
    BY <1>0, <1>5, <1>7
  <2>3. ASSUME NEW i \in 1..Len(sub'.codes) PROVE sub'.codes[i] = Code(p.topics[i])
    <3>1. i = n + 1 \/ i \in 1..n
      BY <1>1, <1>7
    <3>2. QED
      BY <1>4, <1>6, <1>7, <3>1
  <2>4. QED
    BY <1>0, <1>4, <2>1, <2>2, <2>3 DEF HandlingInv, Code
<1>9. ViewInv'
  <2>1. Code(t) \in BOOLEAN /\ (Code(t) <=> t \in whitelist)
    BY DEF Code
  <2>2. n < Len(p.topics) /\ t = p.topics[n + 1]
    BY <1>6
  <2>3. Granted(p, Append(sub.codes, Code(t)))
          = IF Code(t) THEN Granted(p, sub.codes) \cup {p.topics[n + 1]} ELSE Granted(p, sub.codes)
    BY <1>1, <1>2, <2>1, <2>2, GrantedMore
  <2>4. Granted(p, sub'.codes) = IF t \in whitelist THEN Granted(p, sub.codes) \cup {t} ELSE Granted(p, sub.codes)
    BY <1>0, <2>1, <2>2, <2>3
  <2>5. subscribed' = view \cup Granted(p, sub'.codes)
    BY <1>0, <1>4, <2>4
  <2>6. QED
    BY <1>0, <2>5 DEF ViewInv, Granted
<1>10. OrderInv' /\ AnswerInv'
  BY <1>0 DEF RequestInv, OrderInv, AnswerInv, AnswersInOrder, Busy, Answering
<1>11. QED
  BY <1>8, <1>9, <1>10 DEF RequestInv

\* The SUBACK is written.
LEMMA EndSubscribeRequest ==
  ASSUME TypeOK, RequestInv, EndSubscribe PROVE RequestInv'
<1> DEFINE p == Head(asked).packet
<1>0. /\ pc = "subscribe" /\ out = <<>> /\ sub.todo = <<>> /\ pc' = "loop"
      /\ UNCHANGED <<wire, asked, view, subscribed>>
      /\ out' = <<[kind |-> "SUBACK", id |-> sub.id, codes |-> sub.codes]>>
  BY DEF EndSubscribe, Filtering, client, topics
<1>1. /\ out' # <<>> /\ Head(out').kind = "SUBACK" /\ Head(out').id = sub.id /\ Head(out').codes = sub.codes
  BY <1>0
<1>2. /\ asked # <<>> /\ Sifts(Tail(asked), wire) /\ p.kind = "SUBSCRIBE" /\ sub.id = Head(asked).id
      /\ Len(sub.codes) + Len(sub.todo) = Len(p.topics) /\ subscribed = view \cup Granted(p, sub.codes)
      /\ sub.codes \in Seq(BOOLEAN) /\ asked \in Seq(Packet)
  BY <1>0 DEF RequestInv, OrderInv, AnswerInv, HandlingInv, ViewInv, Busy, TypeOK
<1>3. Len(sub.codes) = Len(p.topics)
  BY <1>0, <1>2
<1>4. Answering' /\ Busy'
  BY <1>1 DEF Answering, Busy
<1>5. AnswersInOrder'
  BY <1>0, <1>1, <1>2, <1>3 DEF AnswersInOrder, AnswerTo
<1>6. AnswerInv' /\ OrderInv'
  BY <1>0, <1>1, <1>2, <1>4, <1>5 DEF AnswerInv, OrderInv
<1>7. HandlingInv' /\ ViewInv'
  BY <1>0, <1>1, <1>2, <1>4 DEF HandlingInv, ViewInv, Granted
<1>8. QED
  BY <1>6, <1>7 DEF RequestInv

\* The answer is taken by the socket.
LEMMA WriteRequest ==
  ASSUME TypeOK, RequestInv, Write PROVE RequestInv'
<1>0. out # <<>> /\ out' = <<>> /\ UNCHANGED <<pc, wire, subscribed, whitelist, sub>>
  BY DEF Write, handling
<1>1. CASE Head(out).kind = "PUBLISH"
  <2>1. UNCHANGED <<asked, view>> /\ ~Answering /\ ~Answering'
    BY <1>0, <1>1 DEF Write, Answering
  <2>2. Busy' <=> Busy
    BY <1>0, <2>1 DEF Busy
  <2>3. OrderInv' /\ AnswerInv'
    BY <1>0, <2>1, <2>2 DEF RequestInv, OrderInv, AnswerInv, AnswersInOrder, Answering
  <2>4. HandlingInv' /\ ViewInv'
    BY <1>0, <2>1 DEF RequestInv, HandlingInv, ViewInv, Code, Granted
  <2>5. QED
    BY <2>3, <2>4 DEF RequestInv
<1>2. CASE Head(out).kind # "PUBLISH"
  <2>1. Answering /\ ~Answering' /\ pc # "subscribe" /\ ~Busy'
    BY <1>0, <1>2 DEF Answering, Busy, RequestInv, AnswerInv
  <2>2. asked' = Tail(asked) /\ asked # <<>> /\ asked \in Seq(Packet) /\ Sifts(Tail(asked), wire)
    BY <1>2, <2>1 DEF Write, RequestInv, OrderInv, AnswerInv, Busy
  <2>3. view' = subscribed
    <3>1. view' = CASE Head(out).kind = "SUBACK" -> view \cup Granted(Head(asked).packet, Head(out).codes)
                    [] Head(out).kind = "UNSUBACK" -> view \ Range(Head(asked).packet.topics)
                    [] OTHER -> view
      BY <1>2 DEF Write
    <3>2. QED
      BY <2>1, <3>1 DEF RequestInv, ViewInv
  <2>4. OrderInv' /\ AnswerInv'
    BY <1>0, <2>1, <2>2 DEF OrderInv, AnswerInv, AnswersInOrder, Answering
  <2>5. HandlingInv' /\ ViewInv'
    BY <1>0, <2>1, <2>3 DEF HandlingInv, ViewInv
  <2>6. QED
    BY <2>4, <2>5 DEF RequestInv
<1>3. QED
  BY <1>1, <1>2

\* The CONNECT.
LEMMA ConnectRequest ==
  ASSUME TypeOK, RequestInv, ReadConnect PROVE RequestInv'
<1>1. CASE End
  BY <1>1, EndRequest
<1>2. CASE ~End
  <2>1. /\ pc = "connect" /\ out = <<>> /\ wire # <<>> /\ First.kind = "CONNECT" /\ wire' = Tail(wire)
        /\ UNCHANGED <<asked, view, subscribed>>
        /\ \/ pc' = "refused" /\ out' = <<Answer("REFUSED", Head(wire).id)>>
           \/ pc' = "loop" /\ out' = <<Answer("CONNACK", Head(wire).id)>>
    BY <1>2 DEF ReadConnect, topics
  <2>2. Expects(First) /\ AnswerTo[First.kind] = {"CONNACK", "REFUSED"}
    BY <2>1 DEF Expects, AnswerTo
  <2>3. CASE pc' = "refused"
    BY <2>1, <2>2, <2>3, AnsweredRequest
  <2>4. CASE pc' = "loop"
    BY <2>1, <2>2, <2>4, AnsweredRequest
  <2>5. QED
    BY <2>1, <2>3, <2>4
<1>3. QED
  BY <1>1, <1>2

\* Packets that are answered or dropped in one step.
LEMMA AtOnceRequest ==
  ASSUME TypeOK, RequestInv, ReadEcho \/ ReadAck \/ ReadPublish \/ ReadUnsubscribe PROVE RequestInv'
<1>1. CASE ReadEcho
  <2>1. /\ Loop /\ wire # <<>> /\ wire' = Tail(wire) /\ First.kind \in {"PINGREQ", "PUBREL"}
        /\ out' = <<Answer(IF First.kind = "PINGREQ" THEN "PINGRESP" ELSE "PUBCOMP", Head(wire).id)>>
        /\ UNCHANGED <<pc, asked, view, subscribed>>
    BY <1>1 DEF ReadEcho, Takes, topics
  <2>2. pc = "loop" /\ out = <<>> /\ Expects(First)
    BY <2>1 DEF Loop, Expects
  <2>3. AnswerTo["PINGREQ"] = {"PINGRESP"} /\ AnswerTo["PUBREL"] = {"PUBCOMP"}
    BY DEF AnswerTo
  <2>4. CASE First.kind = "PINGREQ"
    BY <2>1, <2>2, <2>3, <2>4, AnsweredRequest
  <2>5. CASE First.kind = "PUBREL"
    BY <2>1, <2>2, <2>3, <2>5, AnsweredRequest
  <2>6. QED
    BY <2>1, <2>4, <2>5
<1>2. CASE ReadAck
  <2>1. /\ Loop /\ wire # <<>> /\ wire' = Tail(wire) /\ First.kind = "ACK"
        /\ UNCHANGED <<pc, out, asked, view, subscribed>>
    BY <1>2 DEF ReadAck, Takes, topics
  <2>2. ~Expects(First)
    BY <2>1 DEF Expects
  <2>3. QED
    BY <2>1, <2>2, SkippedRequest
<1>3. CASE ReadPublish
  <2>1. /\ Loop /\ wire # <<>> /\ wire' = Tail(wire) /\ First.kind = "PUBLISH"
        /\ UNCHANGED <<pc, asked, view, subscribed>>
        /\ out' = IF Acknowledged(First) THEN <<Answer("PUBACK", Head(wire).id)>> ELSE <<>>
    BY <1>3 DEF ReadPublish, Takes
  <2>2. pc = "loop" /\ out = <<>> /\ (Expects(First) <=> Acknowledged(First)) /\ AnswerTo[First.kind] = {"PUBACK"}
    BY <2>1 DEF Loop, Expects, Acknowledged, AnswerTo
  <2>3. CASE Acknowledged(First)
    BY <2>1, <2>2, <2>3, AnsweredRequest
  <2>4. CASE ~Acknowledged(First)
    BY <2>1, <2>2, <2>4, SkippedRequest
  <2>5. QED
    BY <2>3, <2>4
<1>4. CASE ReadUnsubscribe
  <2>1. /\ Loop /\ wire # <<>> /\ wire' = Tail(wire) /\ First.kind = "UNSUBSCRIBE"
        /\ out' = <<Answer("UNSUBACK", Head(wire).id)>> /\ subscribed' = subscribed \ Range(First.topics)
        /\ UNCHANGED <<pc, asked, view>>
    BY <1>4 DEF ReadUnsubscribe, Takes
  <2>2. pc = "loop" /\ out = <<>> /\ Expects(First) /\ AnswerTo[First.kind] = {"UNSUBACK"}
    BY <2>1 DEF Loop, Expects, AnswerTo
  <2>3. QED
    BY <2>1, <2>2, AnsweredRequest
<1>5. QED
  BY <1>1, <1>2, <1>3, <1>4

LEMMA StepRequest == TypeOK /\ RequestInv /\ [Next]_vars => RequestInv'
<1> SUFFICES ASSUME TypeOK, RequestInv, [Next]_vars PROVE RequestInv'
  OBVIOUS
<1>1. CASE \E p \in ClientPackets, id \in Ids : ClientSends(p, id)
  BY <1>1, SentRequest
<1>2. CASE \/ \E how \in {"reading", "stalled", "gone"} \ {peer} : PeerTurns(how)
           \/ Tick
           \/ \E t \in Topics : EditKeys(t) \/ Publish(t)
           \/ UNCHANGED vars
  <2>1. UNCHANGED <<pc, out, wire, asked, view, subscribed, whitelist, sub>>
    BY <1>2 DEF PeerTurns, Tick, EditKeys, Publish, client, handling, topics, vars
  <2>2. QED
    BY <2>1, QuietRequest
<1>3. CASE Replay \/ Forward
  <2>1. /\ out = <<>> /\ pc \in {"loop", "subscribe"} /\ out' # <<>> /\ Head(out').kind = "PUBLISH"
        /\ UNCHANGED <<pc, wire, asked, view, subscribed, whitelist>>
    BY <1>3 DEF Replay, Forward, Loop, WritesPublish, Answer, client, handling, topics
  <2>2. UNCHANGED <<sub.id, sub.todo, sub.codes>>
    <3>1. CASE Replay
      BY <3>1 DEF Replay, TypeOK
    <3>2. CASE Forward
      BY <3>2 DEF Forward, handling
    <3>3. QED
      BY <1>3, <3>1, <3>2
  <2>3. QED
    BY <2>1, <2>2, QuietRequest
<1>4. CASE EndRefused \/ PeerClosed \/ ReadEnd \/ WriteFails \/ Timeout \/ RouterCloses \/ NoLink \/ FilterFails
  BY <1>4, EndRequest DEF EndRefused, PeerClosed, ReadEnd, WriteFails, Timeout, RouterCloses, NoLink, FilterFails
<1>5. QED
  BY <1>1, <1>2, <1>3, <1>4, ConnectRequest, AtOnceRequest, SubscribeRequest, FilterRequest,
     EndSubscribeRequest, WriteRequest DEF Next, SessionStep, ReadStep

LEMMA RequestCorrect == Spec => []RequestInv
<1>1. Init => RequestInv
  <2> SUFFICES ASSUME Init PROVE RequestInv
    OBVIOUS
  <2>1. pc = "connect" /\ out = <<>> /\ wire = <<>> /\ asked = <<>> /\ subscribed = {} /\ view = {}
    BY DEF Init
  <2>2. OrderInv
    BY <2>1, SiftsEmpty DEF OrderInv, Busy, Answering
  <2>3. QED
    BY <2>1, <2>2 DEF RequestInv, AnswerInv, AnswersInOrder, HandlingInv, ViewInv, Answering
<1>2. QED
  BY <1>1, StepRequest, TypeCorrect, PTL DEF Spec

\* What handle_inbound writes in answer is for the oldest request that waits for one,
\* with its identifier and a code for each filter, whatever is replayed or forwarded
\* in between: for any packets, any number of them on their way, any identifiers.
THEOREM InOrder == Spec => []AnswersInOrder
<1>1. RequestInv => AnswersInOrder
  BY DEF RequestInv, AnswerInv
<1>2. QED
  BY <1>1, RequestCorrect, PTL

\* In select!, what the client concludes from the codes and UNSUBACKs it was sent is
\* what its link holds, for filters in any number, repeated or refused.
THEOREM ViewExact == Spec => []ViewIsSubscribed
<1>1. RequestInv => ViewIsSubscribed
  BY DEF RequestInv, ViewInv, ViewIsSubscribed, Loop, Answering
<1>2. QED
  BY <1>1, RequestCorrect, PTL
=============================================================================
