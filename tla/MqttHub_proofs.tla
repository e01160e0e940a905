--------------------------- MODULE MqttHub_proofs ---------------------------
(***************************************************************************)
(* Proofs about MqttHub, for any number of clients, publishers and topics.  *)
(***************************************************************************)
EXTENDS MqttHub, FiniteSetTheorems, TLAPS

----------------------------------------------------------------------------
(* Types of the helpers *)

LEMMA IdleType == Idle \in Job
  BY ConstantsAssumption DEF Idle, Job, JobPC

LEMMA CurrentType == ASSUME TypeOK, NEW p \in Publishers PROVE Current(p) \in Msg
  BY DEF TypeOK, Current, Msg, Sources

LEMMA DeliverType ==
  ASSUME TypeOK, NEW t \in Topics, NEW m \in Msg, Deliver(t, m)
  PROVE  inbox' \in [Clients -> Seq(Delivery)]
  BY DEF TypeOK, Deliver, Delivery

LEMMA EnqueueType ==
  ASSUME NEW q \in Seq(Msg), NEW m \in Msg, NEW limit \in Nat
  PROVE  Enqueue(q, m, limit) \in Seq(Msg)
  BY DEF Enqueue

LEMMA HeadTailType ==
  ASSUME NEW q \in Seq(Msg), q # <<>>
  PROVE  Head(q) \in Msg /\ Tail(q) \in Seq(Msg)
  OBVIOUS

\* A record update of one publisher's job is a job.
LEMMA JobStep ==
  ASSUME NEW jobs \in [Publishers -> Job], NEW p \in Publishers, NEW to \in JobPC
  PROVE  /\ [jobs EXCEPT ![p].pc = to] \in [Publishers -> Job]
         /\ [jobs EXCEPT ![p].pc = to][p].key = jobs[p].key
  BY DEF Job

----------------------------------------------------------------------------
(* Type correctness *)

\* Inside a SUBSCRIBE or UNSUBSCRIBE handler the session works on a topic, and a
\* publish call that has started has a key.
CurInv ==
    /\ \A c \in Clients : pc[c] \in {"count", "take", "replay", "uncount"} => cur[c] \in Topics
    /\ \A p \in Publishers : job[p].pc # "idle" => job[p].key \in Topics

TypeInv == TypeOK /\ CurInv

LEMMA InitTypeInv == Init => TypeInv
<1> SUFFICES ASSUME Init PROVE TypeInv
  OBVIOUS
<1>1. job \in [Publishers -> Job]
  BY IdleType DEF Init
<1>2. /\ offline \in [Topics -> Seq(Msg)]
      /\ pending \in [Clients -> Seq(Msg)]
      /\ inbox \in [Clients -> Seq(Delivery)]
  BY DEF Init
<1>3. offline_messages \in BOOLEAN /\ offline_limit \in Nat
  BY ConstantsAssumption DEF Init
<1>4. TypeOK
  <2> HIDE DEF Msg, Delivery, Job
  <2> QED BY <1>1, <1>2, <1>3 DEF Init, TypeOK, SessionPC
<1>5. CurInv
  BY DEF Init, CurInv, Idle
<1> QED
  BY <1>4, <1>5 DEF TypeInv

\* NextKey moves the publisher to another key of its request or to idle.
LEMMA NextKeyType ==
  ASSUME TypeInv, NEW p \in Publishers, NextKey(p)
  PROVE  /\ job' \in [Publishers -> Job]
         /\ \A q \in Publishers : job'[q].pc # "idle" => job'[q].key \in Topics
<1>1. CASE job[p].todo = {}
  <2>1. job' = [job EXCEPT ![p] = Idle]
    BY <1>1 DEF NextKey
  <2>2. Idle.pc = "idle"
    BY DEF Idle
  <2> QED BY <2>1, <2>2, IdleType DEF TypeInv, TypeOK, CurInv
<1>2. CASE job[p].todo # {}
  <2>1. PICK k \in job[p].todo :
          job' = [job EXCEPT ![p].pc = "online", ![p].key = k, ![p].todo = @ \ {k}]
    BY <1>2 DEF NextKey
  <2>2. job[p] \in Job /\ k \in Topics
    BY DEF TypeInv, TypeOK, Job
  <2>3. job' \in [Publishers -> Job]
    BY <2>1, <2>2 DEF TypeInv, TypeOK, Job, JobPC
  <2>4. job'[p].key = k /\ \A q \in Publishers \ {p} : job'[q] = job[q]
    BY <2>1, <2>2 DEF TypeInv, TypeOK, Job
  <2> QED BY <2>2, <2>3, <2>4 DEF TypeInv, CurInv
<1> QED
  BY <1>1, <1>2

LEMMA StepTypeInv == TypeInv /\ [Next]_vars => TypeInv'
<1> SUFFICES ASSUME TypeInv, [Next]_vars PROVE TypeInv'
  OBVIOUS
<1> USE ConstantsAssumption DEF TypeInv, TypeOK, CurInv, SessionPC, config, hub, session, router,
        publishing, history
<1>1. ASSUME NEW c \in Clients, Accept(c) PROVE TypeInv'
  BY <1>1 DEF Accept
<1>2. ASSUME NEW c \in Clients, Handshake(c) PROVE TypeInv'
  BY <1>2 DEF Handshake
<1>3. ASSUME NEW c \in Clients, LeaveLoop(c) PROVE TypeInv'
  BY <1>3 DEF LeaveLoop, EndLoop
<1>4. ASSUME NEW c \in Clients, WsAbort(c) PROVE TypeInv'
  BY <1>4 DEF WsAbort
<1>5. ASSUME NEW c \in Clients, NEW ts \in SUBSET Topics, ReceiveSubscribe(c, ts) PROVE TypeInv'
  BY <1>5 DEF ReceiveSubscribe
<1>6. ASSUME NEW c \in Clients, NEW ts \in SUBSET Topics, ReceiveUnsubscribe(c, ts) PROVE TypeInv'
  BY <1>6 DEF ReceiveUnsubscribe
<1>7. ASSUME NEW c \in Clients, NEW t \in Topics, ClientPublish(c, t) PROVE TypeInv'
  <2>1. [by |-> c, n |-> issued[c] + 1] \in Msg
    BY DEF Msg, Sources
  <2>2. inbox' \in [Clients -> Seq(Delivery)]
    BY <1>7, <2>1, DeliverType DEF ClientPublish
  <2> QED BY <1>7, <2>2 DEF ClientPublish, Sources
<1>8. ASSUME NEW c \in Clients, NEW t \in Topics, ClientPublishRefused(c, t) PROVE TypeInv'
  BY <1>8 DEF ClientPublishRefused, EndLoop
<1>9. ASSUME NEW c \in Clients, LinkFilter(c) PROVE TypeInv'
  BY <1>9 DEF LinkFilter
<1>10. ASSUME NEW c \in Clients, CountSubscription(c) PROVE TypeInv'
  BY <1>10 DEF CountSubscription
<1>11. ASSUME NEW c \in Clients, TakeOffline(c) PROVE TypeInv'
  BY <1>11 DEF TakeOffline
<1>12. ASSUME NEW c \in Clients, Replay(c) PROVE TypeInv'
  <2>1. Head(pending[c]) \in Msg /\ Tail(pending[c]) \in Seq(Msg)
    BY <1>12, HeadTailType DEF Replay
  <2>2. <<cur[c], Head(pending[c])>> \in Delivery
    BY <1>12, <2>1 DEF Replay, Delivery
  <2> QED BY <1>12, <2>1, <2>2 DEF Replay
<1>13. ASSUME NEW c \in Clients, EndFilter(c) PROVE TypeInv'
  BY <1>13 DEF EndFilter
<1>14. ASSUME NEW c \in Clients, Unlink(c) PROVE TypeInv'
  BY <1>14 DEF Unlink
<1>15. ASSUME NEW c \in Clients, Uncount(c) PROVE TypeInv'
  BY <1>15, SMTT(30) DEF Uncount, Decrement
<1>16. ASSUME NEW c \in Clients, Cleanup(c) PROVE TypeInv'
  BY <1>16 DEF Cleanup, Decrement
<1>17. ASSUME NEW c \in Clients, FinishSession(c) PROVE TypeInv'
  BY <1>17 DEF FinishSession
<1>18. ASSUME NEW c \in Clients, Forward(c) PROVE TypeInv'
  BY <1>18, SMTT(30) DEF Forward, Delivery
<1>19. ASSUME NEW p \in Publishers, ReadFlags(p) PROVE TypeInv'
  <2>1. job[p] \in Job
    OBVIOUS
  <2>2. job' \in [Publishers -> Job]
    BY <1>19, <2>1 DEF ReadFlags, Job, JobPC
  <2>3. job'[p].key = job[p].key /\ \A q \in Publishers \ {p} : job'[q] = job[q]
    BY <1>19, <2>1 DEF ReadFlags, Job
  <2> QED BY <1>19, <2>2, <2>3 DEF ReadFlags
<1>20. ASSUME NEW p \in Publishers, ReadOnline(p) PROVE TypeInv'
  <2>1. PICK to \in JobPC : job' = [job EXCEPT ![p].pc = to]
    BY <1>20 DEF ReadOnline, JobPC
  <2>2. job' \in [Publishers -> Job] /\ job'[p].key = job[p].key
    BY <2>1, JobStep
  <2>3. \A q \in Publishers \ {p} : job'[q] = job[q]
    BY <2>1
  <2> QED BY <1>20, <2>2, <2>3 DEF ReadOnline
<1>21. ASSUME NEW p \in Publishers, Store(p) PROVE TypeInv'
  <2>1. "route" \in JobPC /\ job' = [job EXCEPT ![p].pc = "route"]
    BY <1>21 DEF Store, JobPC
  <2>2. job' \in [Publishers -> Job] /\ job'[p].key = job[p].key
    BY <2>1, JobStep, ZenonT(30)
  <2>3. \A q \in Publishers \ {p} : job'[q] = job[q]
    BY <2>1
  <2>4. job[p].limit \in Nat /\ job[p].key \in Topics
    BY <1>21 DEF Store, Job
  <2>5. Enqueue(offline[job[p].key], Current(p), job[p].limit) \in Seq(Msg)
    BY <2>4, EnqueueType, CurrentType
  <2> QED BY <1>21, <2>2, <2>3, <2>4, <2>5 DEF Store
<1>22. ASSUME NEW p \in Publishers, Route(p) PROVE TypeInv'
  <2>1. inbox' \in [Clients -> Seq(Delivery)]
    BY <1>22, CurrentType, DeliverType DEF Route
  <2>2. job' \in [Publishers -> Job] /\ \A q \in Publishers : job'[q].pc # "idle" => job'[q].key \in Topics
    BY <1>22, NextKeyType DEF Route
  <2> QED BY <1>22, <2>1, <2>2 DEF Route
<1>23. ASSUME NEW p \in Publishers, RouteFails(p) PROVE TypeInv'
  <2>1. <<job[p].key, Current(p)>> \in Delivery
    BY <1>23, CurrentType DEF RouteFails, Delivery
  <2>2. job' \in [Publishers -> Job] /\ \A q \in Publishers : job'[q].pc # "idle" => job'[q].key \in Topics
    BY <1>23, NextKeyType DEF RouteFails
  <2> QED BY <1>23, <2>1, <2>2 DEF RouteFails
<1>24. ASSUME NEW p \in Publishers, NEW ks \in SUBSET Topics, StartPush(p, ks) PROVE TypeInv'
  BY <1>24 DEF StartPush, Job, JobPC, Sources
<1>25. ASSUME NEW p \in Publishers, NEW k \in Topics, StartTest(p, k) PROVE TypeInv'
  <2>1. [Idle EXCEPT !.pc = "flags", !.key = k] \in Job
    BY IdleType DEF Job, JobPC
  <2>2. [Idle EXCEPT !.pc = "flags", !.key = k].key = k
    BY DEF Idle
  <2> QED BY <1>25, <2>1, <2>2 DEF StartTest, Sources
<1>26. ASSUME NEW e \in BOOLEAN, NEW l \in Limits, SetOffline(e, l) PROVE TypeInv'
  BY <1>26 DEF SetOffline
<1>27. ASSUME NEW k \in Topics, AddKey(k) PROVE TypeInv'
  BY <1>27 DEF AddKey
<1>28. ASSUME NEW k \in Topics, DeleteKey(k) PROVE TypeInv'
  BY <1>28 DEF DeleteKey
<1>29. CASE UNCHANGED vars
  BY <1>29 DEF vars
<1> QED
  BY <1>1, <1>2, <1>3, <1>4, <1>5, <1>6, <1>7, <1>8, <1>9, <1>10, <1>11, <1>12, <1>13, <1>14, <1>15, <1>16, <1>17, <1>18, <1>19, <1>20, <1>21, <1>22, <1>23, <1>24, <1>25, <1>26, <1>27, <1>28, <1>29
  DEF Next, SessionStep, PeerStep, PublishStep, Request, PanelStep

\* Every variable of the hub, its sessions and its publishers keeps its type,
\* whatever clients, the panel and the router do (mqtt.rs:103-460).
THEOREM TypeCorrect == Spec => []TypeOK
<1>1. TypeInv => TypeOK
  BY DEF TypeInv
<1> QED
  BY <1>1, InitTypeInv, StepTypeInv, PTL DEF Spec

----------------------------------------------------------------------------
(* The counts, with well-behaved TCP clients: no slot is a WebSocket (whose     *)
(* session may be aborted), none subscribes twice or unsubscribes what it does  *)
(* not hold.  The run hub_ws_leak shows what a WebSocket does to the counts.    *)

WellBehaved ==
    /\ WsClients = {}
    /\ "resubscribe" \notin Moves
    /\ "foreignUnsubscribe" \notin Moves

\* What a handler in progress knows of the session's topics: the filters still to
\* be subscribed are not held, those still to be unsubscribed are.
HoldInv ==
    \A c \in Clients :
        /\ pc[c] \in {"closed", "handshake"} => subscribed[c] = {}
        /\ pc[c] \in {"filter", "count", "take", "replay"} => todo[c] \cap subscribed[c] = {}
        /\ pc[c] = "count" => cur[c] \notin subscribed[c] \cup todo[c]
        /\ pc[c] \in {"unlink", "uncount"} => todo[c] \subseteq subscribed[c]
        /\ pc[c] = "uncount" => cur[c] \in subscribed[c] \ todo[c]

LEMMA StepHoldInv ==
  ASSUME WellBehaved, TypeInv, HoldInv, [Next]_vars
  PROVE  HoldInv'
<1> USE DEF WellBehaved, TypeInv, TypeOK, CurInv, HoldInv, config, hub, session, router,
        publishing, history
<1>1. ASSUME NEW c \in Clients, Accept(c) PROVE HoldInv'
  BY <1>1 DEF Accept
<1>2. ASSUME NEW c \in Clients, Handshake(c) PROVE HoldInv'
  BY <1>2 DEF Handshake
<1>3. ASSUME NEW c \in Clients, LeaveLoop(c) PROVE HoldInv'
  BY <1>3 DEF LeaveLoop, EndLoop
<1>4. ASSUME NEW c \in Clients, WsAbort(c) PROVE HoldInv'
  BY <1>4 DEF WsAbort
<1>5. ASSUME NEW c \in Clients, NEW ts \in SUBSET Topics, ReceiveSubscribe(c, ts) PROVE HoldInv'
  BY <1>5 DEF ReceiveSubscribe
<1>6. ASSUME NEW c \in Clients, NEW ts \in SUBSET Topics, ReceiveUnsubscribe(c, ts) PROVE HoldInv'
  BY <1>6 DEF ReceiveUnsubscribe
<1>7. ASSUME NEW c \in Clients, NEW t \in Topics, ClientPublish(c, t) PROVE HoldInv'
  BY <1>7 DEF ClientPublish
<1>8. ASSUME NEW c \in Clients, NEW t \in Topics, ClientPublishRefused(c, t) PROVE HoldInv'
  BY <1>8 DEF ClientPublishRefused, EndLoop
<1>9. ASSUME NEW c \in Clients, LinkFilter(c) PROVE HoldInv'
  BY <1>9 DEF LinkFilter
<1>10. ASSUME NEW c \in Clients, CountSubscription(c) PROVE HoldInv'
  BY <1>10 DEF CountSubscription
<1>11. ASSUME NEW c \in Clients, TakeOffline(c) PROVE HoldInv'
  BY <1>11 DEF TakeOffline
<1>12. ASSUME NEW c \in Clients, Replay(c) PROVE HoldInv'
  BY <1>12 DEF Replay
<1>13. ASSUME NEW c \in Clients, EndFilter(c) PROVE HoldInv'
  BY <1>13 DEF EndFilter
<1>14. ASSUME NEW c \in Clients, Unlink(c) PROVE HoldInv'
  BY <1>14 DEF Unlink
<1>15. ASSUME NEW c \in Clients, Uncount(c) PROVE HoldInv'
  BY <1>15 DEF Uncount
<1>16. ASSUME NEW c \in Clients, Cleanup(c) PROVE HoldInv'
  BY <1>16 DEF Cleanup
<1>17. ASSUME NEW c \in Clients, FinishSession(c) PROVE HoldInv'
  BY <1>17 DEF FinishSession
<1>18. ASSUME NEW c \in Clients, Forward(c) PROVE HoldInv'
  BY <1>18 DEF Forward
<1>19. ASSUME NEW p \in Publishers, ReadFlags(p) PROVE HoldInv'
  BY <1>19 DEF ReadFlags
<1>20. ASSUME NEW p \in Publishers, ReadOnline(p) PROVE HoldInv'
  BY <1>20 DEF ReadOnline
<1>21. ASSUME NEW p \in Publishers, Store(p) PROVE HoldInv'
  BY <1>21 DEF Store
<1>22. ASSUME NEW p \in Publishers, Route(p) PROVE HoldInv'
  BY <1>22 DEF Route
<1>23. ASSUME NEW p \in Publishers, RouteFails(p) PROVE HoldInv'
  BY <1>23 DEF RouteFails
<1>24. ASSUME NEW p \in Publishers, NEW ks \in SUBSET Topics, StartPush(p, ks) PROVE HoldInv'
  BY <1>24 DEF StartPush
<1>25. ASSUME NEW p \in Publishers, NEW k \in Topics, StartTest(p, k) PROVE HoldInv'
  BY <1>25 DEF StartTest
<1>26. ASSUME NEW e \in BOOLEAN, NEW l \in Limits, SetOffline(e, l) PROVE HoldInv'
  BY <1>26 DEF SetOffline
<1>27. ASSUME NEW k \in Topics, AddKey(k) PROVE HoldInv'
  BY <1>27 DEF AddKey
<1>28. ASSUME NEW k \in Topics, DeleteKey(k) PROVE HoldInv'
  BY <1>28 DEF DeleteKey
<1>29. CASE UNCHANGED vars
  BY <1>29 DEF vars
<1> QED
  BY <1>1, <1>2, <1>3, <1>4, <1>5, <1>6, <1>7, <1>8, <1>9, <1>10, <1>11, <1>12, <1>13, <1>14, <1>15, <1>16, <1>17, <1>18, <1>19, <1>20, <1>21, <1>22, <1>23, <1>24, <1>25, <1>26, <1>27, <1>28, <1>29
  DEF Next, SessionStep, PeerStep, PublishStep, Request, PanelStep

Holders(t) == {c \in Clients : t \in subscribed[c]}

\* A session takes a topic it did not hold, and the count of that topic goes up.
LEMMA CountUp ==
  ASSUME TypeOK, SubscriptionsCountConnections,
         NEW c \in Clients, NEW t \in Topics, t \notin subscribed[c],
         subscriptions' = [subscriptions EXCEPT ![t] = @ + 1],
         subscribed' = [subscribed EXCEPT ![c] = @ \cup {t}]
  PROVE  SubscriptionsCountConnections'
<1> SUFFICES ASSUME NEW s \in Topics
             PROVE  subscriptions'[s] = Cardinality(Holders(s)')
  BY DEF SubscriptionsCountConnections, Holders
<1>1. subscriptions[s] = Cardinality(Holders(s)) /\ IsFiniteSet(Holders(s))
  BY ConstantsAssumption, FS_Subset DEF SubscriptionsCountConnections, Holders
<1>2. CASE s = t
  <2>1. Holders(s)' = Holders(s) \cup {c} /\ c \notin Holders(s)
    BY <1>2 DEF Holders, TypeOK
  <2>2. Cardinality(Holders(s)') = Cardinality(Holders(s)) + 1
    BY <1>1, <2>1, FS_AddElement
  <2> QED BY <1>1, <1>2, <2>2 DEF TypeOK
<1>3. CASE s # t
  <2>1. Holders(s)' = Holders(s)
    BY <1>3 DEF Holders, TypeOK
  <2> QED BY <1>1, <1>3, <2>1 DEF TypeOK
<1> QED
  BY <1>2, <1>3

\* A session drops a topic it held, and the saturating decrement takes one off.
LEMMA CountDown ==
  ASSUME TypeOK, SubscriptionsCountConnections,
         NEW c \in Clients, NEW t \in Topics, t \in subscribed[c],
         Decrement(t),
         subscribed' = [subscribed EXCEPT ![c] = @ \ {t}]
  PROVE  SubscriptionsCountConnections'
<1> SUFFICES ASSUME NEW s \in Topics
             PROVE  subscriptions'[s] = Cardinality(Holders(s)')
  BY DEF SubscriptionsCountConnections, Holders
<1>1. subscriptions[s] = Cardinality(Holders(s)) /\ IsFiniteSet(Holders(s))
  BY ConstantsAssumption, FS_Subset DEF SubscriptionsCountConnections, Holders
<1>2. CASE s = t
  <2>1. Holders(s)' = Holders(s) \ {c} /\ c \in Holders(s)
    BY <1>2 DEF Holders, TypeOK
  <2>2. Cardinality(Holders(s)') = Cardinality(Holders(s)) - 1
    BY <1>1, <2>1, FS_RemoveElement
  <2>3. Cardinality(Holders(s)') \in Nat
    BY <1>1, <2>1, FS_RemoveElement, FS_CardinalityType
  <2>4. subscriptions[s] > 0
    BY <1>1, <2>2, <2>3 DEF TypeOK
  <2> QED BY <1>1, <1>2, <2>2, <2>4 DEF TypeOK, Decrement
<1>3. CASE s # t
  <2>1. Holders(s)' = Holders(s)
    BY <1>3 DEF Holders, TypeOK
  <2> QED BY <1>1, <1>3, <2>1 DEF TypeOK, Decrement
<1> QED
  BY <1>2, <1>3

\* Every other action leaves the counts and the sessions' topics alone.
LEMMA CountSame ==
  ASSUME SubscriptionsCountConnections, UNCHANGED <<subscriptions, subscribed>>
  PROVE  SubscriptionsCountConnections'
  BY DEF SubscriptionsCountConnections

LEMMA StepCounts ==
  ASSUME WellBehaved, TypeInv, HoldInv, SubscriptionsCountConnections, [Next]_vars
  PROVE  SubscriptionsCountConnections'
<1>1. ASSUME NEW c \in Clients, Accept(c) PROVE SubscriptionsCountConnections'
  BY <1>1, CountSame DEF Accept, hub, session
<1>2. ASSUME NEW c \in Clients, Handshake(c) PROVE SubscriptionsCountConnections'
  BY <1>2, CountSame DEF Handshake, hub, session
<1>3. ASSUME NEW c \in Clients, LeaveLoop(c) PROVE SubscriptionsCountConnections'
  BY <1>3, CountSame DEF LeaveLoop, hub
<1>4. ASSUME NEW c \in Clients, WsAbort(c) PROVE SubscriptionsCountConnections'
  BY <1>4 DEF WsAbort, WellBehaved
<1>5. ASSUME NEW c \in Clients, NEW ts \in SUBSET Topics, ReceiveSubscribe(c, ts) PROVE SubscriptionsCountConnections'
  BY <1>5, CountSame DEF ReceiveSubscribe, hub, session
<1>6. ASSUME NEW c \in Clients, NEW ts \in SUBSET Topics, ReceiveUnsubscribe(c, ts) PROVE SubscriptionsCountConnections'
  BY <1>6, CountSame DEF ReceiveUnsubscribe, hub, session
<1>7. ASSUME NEW c \in Clients, NEW t \in Topics, ClientPublish(c, t) PROVE SubscriptionsCountConnections'
  BY <1>7, CountSame DEF ClientPublish, hub, session
<1>8. ASSUME NEW c \in Clients, NEW t \in Topics, ClientPublishRefused(c, t) PROVE SubscriptionsCountConnections'
  BY <1>8, CountSame DEF ClientPublishRefused, hub
<1>9. ASSUME NEW c \in Clients, LinkFilter(c) PROVE SubscriptionsCountConnections'
  BY <1>9, CountSame DEF LinkFilter, hub, session
<1>10. ASSUME NEW c \in Clients, CountSubscription(c) PROVE SubscriptionsCountConnections'
  <2>1. cur[c] \in Topics /\ cur[c] \notin subscribed[c]
    BY <1>10 DEF CountSubscription, TypeInv, CurInv, HoldInv
  <2> QED BY <1>10, <2>1, CountUp DEF CountSubscription, TypeInv
<1>11. ASSUME NEW c \in Clients, TakeOffline(c) PROVE SubscriptionsCountConnections'
  BY <1>11, CountSame DEF TakeOffline, hub, session
<1>12. ASSUME NEW c \in Clients, Replay(c) PROVE SubscriptionsCountConnections'
  BY <1>12, CountSame DEF Replay, hub, session
<1>13. ASSUME NEW c \in Clients, EndFilter(c) PROVE SubscriptionsCountConnections'
  BY <1>13, CountSame DEF EndFilter, hub, session
<1>14. ASSUME NEW c \in Clients, Unlink(c) PROVE SubscriptionsCountConnections'
  BY <1>14, CountSame DEF Unlink, hub, session
<1>15. ASSUME NEW c \in Clients, Uncount(c) PROVE SubscriptionsCountConnections'
  <2>1. cur[c] \in Topics /\ cur[c] \in subscribed[c]
    BY <1>15 DEF Uncount, TypeInv, CurInv, HoldInv
  <2> QED BY <1>15, <2>1, CountDown DEF Uncount, TypeInv
<1>16. ASSUME NEW c \in Clients, Cleanup(c) PROVE SubscriptionsCountConnections'
  <2>1. PICK t \in subscribed[c] :
          /\ Decrement(t)
          /\ subscribed' = [subscribed EXCEPT ![c] = @ \ {t}]
    BY <1>16 DEF Cleanup
  <2>2. t \in Topics
    BY DEF TypeInv, TypeOK
  <2> QED BY <2>1, <2>2, CountDown DEF TypeInv
<1>17. ASSUME NEW c \in Clients, FinishSession(c) PROVE SubscriptionsCountConnections'
  BY <1>17, CountSame DEF FinishSession, hub, session
<1>18. ASSUME NEW c \in Clients, Forward(c) PROVE SubscriptionsCountConnections'
  BY <1>18, CountSame DEF Forward, hub, session
<1>19. ASSUME NEW p \in Publishers, ReadFlags(p) PROVE SubscriptionsCountConnections'
  BY <1>19, CountSame DEF ReadFlags, hub, session
<1>20. ASSUME NEW p \in Publishers, ReadOnline(p) PROVE SubscriptionsCountConnections'
  BY <1>20, CountSame DEF ReadOnline, hub, session
<1>21. ASSUME NEW p \in Publishers, Store(p) PROVE SubscriptionsCountConnections'
  BY <1>21, CountSame DEF Store, hub, session
<1>22. ASSUME NEW p \in Publishers, Route(p) PROVE SubscriptionsCountConnections'
  BY <1>22, CountSame DEF Route, hub, session
<1>23. ASSUME NEW p \in Publishers, RouteFails(p) PROVE SubscriptionsCountConnections'
  BY <1>23, CountSame DEF RouteFails, hub, session
<1>24. ASSUME NEW p \in Publishers, NEW ks \in SUBSET Topics, StartPush(p, ks) PROVE SubscriptionsCountConnections'
  BY <1>24, CountSame DEF StartPush, hub, session
<1>25. ASSUME NEW p \in Publishers, NEW k \in Topics, StartTest(p, k) PROVE SubscriptionsCountConnections'
  BY <1>25, CountSame DEF StartTest, hub, session
<1>26. ASSUME NEW e \in BOOLEAN, NEW l \in Limits, SetOffline(e, l) PROVE SubscriptionsCountConnections'
  BY <1>26, CountSame DEF SetOffline, hub, session
<1>27. ASSUME NEW k \in Topics, AddKey(k) PROVE SubscriptionsCountConnections'
  BY <1>27, CountSame DEF AddKey, hub, session
<1>28. ASSUME NEW k \in Topics, DeleteKey(k) PROVE SubscriptionsCountConnections'
  BY <1>28, CountSame DEF DeleteKey, hub, session
<1>29. CASE UNCHANGED vars
  BY <1>29, CountSame DEF vars, hub, session
<1> QED
  BY <1>1, <1>2, <1>3, <1>4, <1>5, <1>6, <1>7, <1>8, <1>9, <1>10, <1>11, <1>12, <1>13, <1>14, <1>15, <1>16, <1>17, <1>18, <1>19, <1>20, <1>21, <1>22, <1>23, <1>24, <1>25, <1>26, <1>27, <1>28, <1>29
  DEF Next, SessionStep, PeerStep, PublishStep, Request, PanelStep

\* The counts mean what mqtt.rs:111 says: with well-behaved TCP clients each topic's
\* count is the number of sessions that hold it, whatever publishers and the panel
\* do and wherever a session ends (the cleanup of mqtt.rs:236-242).
THEOREM CountsAreExact == ASSUME WellBehaved PROVE Spec => []SubscriptionsCountConnections
<1>1. Init => TypeInv /\ HoldInv
  BY InitTypeInv DEF Init, HoldInv
<1>2. Init => SubscriptionsCountConnections
  <2> SUFFICES ASSUME Init, NEW t \in Topics PROVE subscriptions[t] = Cardinality(Holders(t))
    BY DEF SubscriptionsCountConnections, Holders
  <2>1. Holders(t) = {}
    BY DEF Init, Holders
  <2> QED BY <2>1, FS_EmptySet DEF Init
<1>3. TypeInv /\ [Next]_vars => TypeInv'
  BY StepTypeInv
<1>4. TypeInv /\ HoldInv /\ [Next]_vars => HoldInv'
  BY StepHoldInv
<1>5. TypeInv /\ HoldInv /\ SubscriptionsCountConnections /\ [Next]_vars
        => SubscriptionsCountConnections'
  BY StepCounts
<1> QED
  BY <1>1, <1>2, <1>3, <1>4, <1>5, PTL DEF Spec

----------------------------------------------------------------------------
(* Links and counts *)

\* A session that holds a topic is linked to it, or is on its way out: the router
\* link is made before the count and cut before it is taken back.
LinkInv ==
    \A c \in Clients :
        /\ pc[c] = "closed" => subscribed[c] = {}
        /\ pc[c] = "count" => cur[c] \in links[c]
        /\ \A t \in subscribed[c] : t \in links[c] \/ Leaving(c, t)

LEMMA StepLinkInv ==
  ASSUME TypeInv, LinkInv, [Next]_vars
  PROVE  LinkInv'
<1> USE DEF TypeInv, TypeOK, CurInv, LinkInv, Leaving, config, hub, session, router,
        publishing, history
<1>1. ASSUME NEW c \in Clients, Accept(c) PROVE LinkInv'
  BY <1>1 DEF Accept
<1>2. ASSUME NEW c \in Clients, Handshake(c) PROVE LinkInv'
  BY <1>2 DEF Handshake
<1>3. ASSUME NEW c \in Clients, LeaveLoop(c) PROVE LinkInv'
  BY <1>3 DEF LeaveLoop, EndLoop
<1>4. ASSUME NEW c \in Clients, WsAbort(c) PROVE LinkInv'
  BY <1>4 DEF WsAbort
<1>5. ASSUME NEW c \in Clients, NEW ts \in SUBSET Topics, ReceiveSubscribe(c, ts) PROVE LinkInv'
  BY <1>5 DEF ReceiveSubscribe
<1>6. ASSUME NEW c \in Clients, NEW ts \in SUBSET Topics, ReceiveUnsubscribe(c, ts) PROVE LinkInv'
  BY <1>6 DEF ReceiveUnsubscribe
<1>7. ASSUME NEW c \in Clients, NEW t \in Topics, ClientPublish(c, t) PROVE LinkInv'
  BY <1>7 DEF ClientPublish
<1>8. ASSUME NEW c \in Clients, NEW t \in Topics, ClientPublishRefused(c, t) PROVE LinkInv'
  BY <1>8 DEF ClientPublishRefused, EndLoop
<1>9. ASSUME NEW c \in Clients, LinkFilter(c) PROVE LinkInv'
  BY <1>9 DEF LinkFilter
<1>10. ASSUME NEW c \in Clients, CountSubscription(c) PROVE LinkInv'
  BY <1>10 DEF CountSubscription
<1>11. ASSUME NEW c \in Clients, TakeOffline(c) PROVE LinkInv'
  BY <1>11 DEF TakeOffline
<1>12. ASSUME NEW c \in Clients, Replay(c) PROVE LinkInv'
  BY <1>12 DEF Replay
<1>13. ASSUME NEW c \in Clients, EndFilter(c) PROVE LinkInv'
  BY <1>13 DEF EndFilter
<1>14. ASSUME NEW c \in Clients, Unlink(c) PROVE LinkInv'
  BY <1>14 DEF Unlink
<1>15. ASSUME NEW c \in Clients, Uncount(c) PROVE LinkInv'
  BY <1>15 DEF Uncount
<1>16. ASSUME NEW c \in Clients, Cleanup(c) PROVE LinkInv'
  BY <1>16 DEF Cleanup
<1>17. ASSUME NEW c \in Clients, FinishSession(c) PROVE LinkInv'
  BY <1>17 DEF FinishSession
<1>18. ASSUME NEW c \in Clients, Forward(c) PROVE LinkInv'
  BY <1>18 DEF Forward
<1>19. ASSUME NEW p \in Publishers, ReadFlags(p) PROVE LinkInv'
  BY <1>19 DEF ReadFlags
<1>20. ASSUME NEW p \in Publishers, ReadOnline(p) PROVE LinkInv'
  BY <1>20 DEF ReadOnline
<1>21. ASSUME NEW p \in Publishers, Store(p) PROVE LinkInv'
  BY <1>21 DEF Store
<1>22. ASSUME NEW p \in Publishers, Route(p) PROVE LinkInv'
  BY <1>22 DEF Route
<1>23. ASSUME NEW p \in Publishers, RouteFails(p) PROVE LinkInv'
  BY <1>23 DEF RouteFails
<1>24. ASSUME NEW p \in Publishers, NEW ks \in SUBSET Topics, StartPush(p, ks) PROVE LinkInv'
  BY <1>24 DEF StartPush
<1>25. ASSUME NEW p \in Publishers, NEW k \in Topics, StartTest(p, k) PROVE LinkInv'
  BY <1>25 DEF StartTest
<1>26. ASSUME NEW e \in BOOLEAN, NEW l \in Limits, SetOffline(e, l) PROVE LinkInv'
  BY <1>26 DEF SetOffline
<1>27. ASSUME NEW k \in Topics, AddKey(k) PROVE LinkInv'
  BY <1>27 DEF AddKey
<1>28. ASSUME NEW k \in Topics, DeleteKey(k) PROVE LinkInv'
  BY <1>28 DEF DeleteKey
<1>29. CASE UNCHANGED vars
  BY <1>29 DEF vars
<1> QED
  BY <1>1, <1>2, <1>3, <1>4, <1>5, <1>6, <1>7, <1>8, <1>9, <1>10, <1>11, <1>12, <1>13, <1>14, <1>15, <1>16, <1>17, <1>18, <1>19, <1>20, <1>21, <1>22, <1>23, <1>24, <1>25, <1>26, <1>27, <1>28, <1>29
  DEF Next, SessionStep, PeerStep, PublishStep, Request, PanelStep

\* The promise publish relies on when it does not queue (mqtt.rs:170-175): with
\* well-behaved TCP clients a topic whose count is not 0 has a linked session, or
\* one about to uncount itself.
THEOREM OnlineReachable == ASSUME WellBehaved PROVE Spec => []OnlineIsReachable
<1>1. Init => TypeInv /\ LinkInv
  BY InitTypeInv DEF Init, LinkInv
<1>2. TypeInv /\ [Next]_vars => TypeInv'
  BY StepTypeInv
<1>3. TypeInv /\ LinkInv /\ [Next]_vars => LinkInv'
  BY StepLinkInv
<1>4. SubscriptionsCountConnections /\ LinkInv => OnlineIsReachable
  <2> SUFFICES ASSUME SubscriptionsCountConnections, LinkInv,
                      NEW t \in Topics, subscriptions[t] > 0
               PROVE  \E c \in Clients : t \in links[c] \/ Leaving(c, t)
    BY DEF OnlineIsReachable
  <2>1. Holders(t) # {}
    BY FS_EmptySet DEF SubscriptionsCountConnections, Holders
  <2>2. PICK c \in Clients : t \in subscribed[c]
    BY <2>1 DEF Holders
  <2> QED BY <2>2 DEF LinkInv
<1> QED
  BY <1>1, <1>2, <1>3, <1>4, CountsAreExact, PTL DEF Spec

----------------------------------------------------------------------------
(* The connection counter *)

Live == {c \in Clients : pc[c] # "closed"}

\* Who moves the counter or opens and closes a session: the rest leaves both alone.
LEMMA StepLive ==
  ASSUME WsClients = {}, TypeInv, [Next]_vars
  PROVE  \/ connections' = connections /\ Live' = Live
         \/ \E c \in Clients : Accept(c) \/ FinishSession(c)
<1> DEFINE Same == connections' = connections /\ Live' = Live
<1> USE DEF TypeInv, TypeOK, Live, config, hub, session, router, publishing, history
<1>1. ASSUME NEW c \in Clients, Handshake(c) PROVE Same
  BY <1>1 DEF Handshake
<1>2. ASSUME NEW c \in Clients, LeaveLoop(c) PROVE Same
  BY <1>2 DEF LeaveLoop, EndLoop
<1>3. ASSUME NEW c \in Clients, NEW ts \in SUBSET Topics, ReceiveSubscribe(c, ts) PROVE Same
  BY <1>3 DEF ReceiveSubscribe
<1>4. ASSUME NEW c \in Clients, NEW ts \in SUBSET Topics, ReceiveUnsubscribe(c, ts) PROVE Same
  BY <1>4 DEF ReceiveUnsubscribe
<1>5. ASSUME NEW c \in Clients, NEW t \in Topics, ClientPublish(c, t) PROVE Same
  BY <1>5 DEF ClientPublish
<1>6. ASSUME NEW c \in Clients, NEW t \in Topics, ClientPublishRefused(c, t) PROVE Same
  BY <1>6 DEF ClientPublishRefused, EndLoop
<1>7. ASSUME NEW c \in Clients, LinkFilter(c) PROVE Same
  BY <1>7 DEF LinkFilter
<1>8. ASSUME NEW c \in Clients, CountSubscription(c) PROVE Same
  BY <1>8 DEF CountSubscription
<1>9. ASSUME NEW c \in Clients, TakeOffline(c) PROVE Same
  BY <1>9 DEF TakeOffline
<1>10. ASSUME NEW c \in Clients, Replay(c) PROVE Same
  BY <1>10 DEF Replay
<1>11. ASSUME NEW c \in Clients, EndFilter(c) PROVE Same
  BY <1>11 DEF EndFilter
<1>12. ASSUME NEW c \in Clients, Unlink(c) PROVE Same
  BY <1>12 DEF Unlink
<1>13. ASSUME NEW c \in Clients, Uncount(c) PROVE Same
  BY <1>13 DEF Uncount
<1>14. ASSUME NEW c \in Clients, Cleanup(c) PROVE Same
  BY <1>14 DEF Cleanup
<1>15. ASSUME NEW c \in Clients, Forward(c) PROVE Same
  BY <1>15 DEF Forward
<1>16. ASSUME NEW p \in Publishers, ReadFlags(p) PROVE Same
  BY <1>16 DEF ReadFlags
<1>17. ASSUME NEW p \in Publishers, ReadOnline(p) PROVE Same
  BY <1>17 DEF ReadOnline
<1>18. ASSUME NEW p \in Publishers, Store(p) PROVE Same
  BY <1>18 DEF Store
<1>19. ASSUME NEW p \in Publishers, Route(p) PROVE Same
  BY <1>19 DEF Route
<1>20. ASSUME NEW p \in Publishers, RouteFails(p) PROVE Same
  BY <1>20 DEF RouteFails
<1>21. ASSUME NEW p \in Publishers, NEW ks \in SUBSET Topics, StartPush(p, ks) PROVE Same
  BY <1>21 DEF StartPush
<1>22. ASSUME NEW p \in Publishers, NEW k \in Topics, StartTest(p, k) PROVE Same
  BY <1>22 DEF StartTest
<1>23. ASSUME NEW e \in BOOLEAN, NEW l \in Limits, SetOffline(e, l) PROVE Same
  BY <1>23 DEF SetOffline
<1>24. ASSUME NEW k \in Topics, AddKey(k) PROVE Same
  BY <1>24 DEF AddKey
<1>25. ASSUME NEW k \in Topics, DeleteKey(k) PROVE Same
  BY <1>25 DEF DeleteKey
<1>26. ASSUME NEW c \in Clients, WsAbort(c) PROVE Same
  BY <1>26 DEF WsAbort
<1>27. CASE UNCHANGED vars
  BY <1>27 DEF vars
<1> QED
  BY <1>1, <1>2, <1>3, <1>4, <1>5, <1>6, <1>7, <1>8, <1>9, <1>10, <1>11, <1>12, <1>13, <1>14, <1>15, <1>16, <1>17, <1>18, <1>19, <1>20, <1>21, <1>22, <1>23, <1>24, <1>25, <1>26, <1>27
  DEF Next, SessionStep, PeerStep, PublishStep, Request, PanelStep

LEMMA StepConnections ==
  ASSUME WsClients = {}, TypeInv, ConnectionsCountSessions, [Next]_vars
  PROVE  ConnectionsCountSessions'
<1> USE DEF ConnectionsCountSessions, Live
<1>1. connections = Cardinality(Live) /\ IsFiniteSet(Live)
  BY ConstantsAssumption, FS_Subset
<1>2. ASSUME NEW c \in Clients, Accept(c) PROVE ConnectionsCountSessions'
  <2>1. Live' = Live \cup {c} /\ c \notin Live
    BY <1>2 DEF Accept, TypeInv, TypeOK
  <2>2. Cardinality(Live') = Cardinality(Live) + 1
    BY <1>1, <2>1, FS_AddElement
  <2> QED BY <1>1, <1>2, <2>2 DEF Accept
<1>3. ASSUME NEW c \in Clients, FinishSession(c) PROVE ConnectionsCountSessions'
  <2>1. Live' = Live \ {c} /\ c \in Live
    BY <1>3 DEF FinishSession, TypeInv, TypeOK
  <2>2. Cardinality(Live') = Cardinality(Live) - 1
    BY <1>1, <2>1, FS_RemoveElement
  <2> QED BY <1>1, <1>3, <2>2 DEF FinishSession
<1>4. CASE connections' = connections /\ Live' = Live
  BY <1>1, <1>4
<1> QED
  BY <1>2, <1>3, <1>4, StepLive

\* The counter the panel shows (mqtt.rs:218-226) is the number of sessions there
\* are: each adds one on its way in and takes it off on its one way out.
THEOREM ConnectionsExact == ASSUME WsClients = {} PROVE Spec => []ConnectionsCountSessions
<1>1. Init => TypeInv /\ ConnectionsCountSessions
  <2> SUFFICES ASSUME Init PROVE ConnectionsCountSessions
    BY InitTypeInv
  <2>1. Live = {}
    BY DEF Init, Live
  <2> QED BY <2>1, FS_EmptySet DEF Init, ConnectionsCountSessions, Live
<1>2. TypeInv /\ [Next]_vars => TypeInv'
  BY StepTypeInv
<1>3. TypeInv /\ ConnectionsCountSessions /\ [Next]_vars => ConnectionsCountSessions'
  BY StepConnections
<1> QED
  BY <1>1, <1>2, <1>3, PTL DEF Spec

----------------------------------------------------------------------------
(* The messages: lemmas about queues *)

LEMMA ElementsAppend ==
  ASSUME NEW T, NEW q \in Seq(T), NEW x \in T
  PROVE  Elements(Append(q, x)) = Elements(q) \cup {x}
<1>1. /\ Len(Append(q, x)) = Len(q) + 1
      /\ \A i \in 1..Len(q) : Append(q, x)[i] = q[i]
      /\ Append(q, x)[Len(q) + 1] = x
      /\ DOMAIN q = 1..Len(q) /\ DOMAIN Append(q, x) = 1..Len(Append(q, x))
  OBVIOUS
<1>2. Elements(q) \cup {x} \subseteq Elements(Append(q, x))
  BY <1>1 DEF Elements
<1>3. Elements(Append(q, x)) \subseteq Elements(q) \cup {x}
  BY <1>1 DEF Elements
<1> QED
  BY <1>2, <1>3

\* What is left of a queue once its head is gone.
LEMMA ElementsTail ==
  ASSUME NEW T, NEW q \in Seq(T), q # <<>>
  PROVE  /\ Elements(q) = Elements(Tail(q)) \cup {Head(q)}
         /\ \A i \in DOMAIN Tail(q) : i + 1 \in DOMAIN q /\ Tail(q)[i] = q[i + 1]
<1>1. /\ Len(q) \in Nat /\ Len(q) > 0
      /\ Len(Tail(q)) = Len(q) - 1
      /\ DOMAIN q = 1..Len(q) /\ DOMAIN Tail(q) = 1..Len(Tail(q))
      /\ \A i \in 1..(Len(q) - 1) : Tail(q)[i] = q[i + 1]
      /\ Head(q) = q[1]
  OBVIOUS
<1>2. \A i \in DOMAIN Tail(q) : i + 1 \in DOMAIN q /\ Tail(q)[i] = q[i + 1]
  BY <1>1
<1>3. \A i \in DOMAIN q : i = 1 \/ (i - 1 \in DOMAIN Tail(q) /\ Tail(q)[i - 1] = q[i])
  BY <1>1
<1>4. Elements(Tail(q)) \cup {Head(q)} \subseteq Elements(q)
  BY <1>1, <1>2 DEF Elements
<1>5. Elements(q) \subseteq Elements(Tail(q)) \cup {Head(q)}
  <2> SUFFICES ASSUME NEW i \in DOMAIN q PROVE q[i] \in Elements(Tail(q)) \cup {Head(q)}
    BY DEF Elements
  <2>1. CASE i = 1
    BY <1>1, <2>1
  <2>2. CASE i # 1
    <3>1. i - 1 \in DOMAIN Tail(q) /\ Tail(q)[i - 1] = q[i]
      BY <1>3, <2>2
    <3> QED BY <3>1 DEF Elements
  <2> QED BY <2>1, <2>2
<1> QED
  BY <1>2, <1>4, <1>5

LEMMA ElementsEmpty == Elements(<<>>) = {}
  BY DEF Elements

LEMMA ElementsType == ASSUME NEW T, NEW q \in Seq(T) PROVE Elements(q) \subseteq T
  BY DEF Elements

\* The messages of each source stand in the order they were issued.
Ascends(q) == \A i, j \in DOMAIN q : i < j /\ q[i].by = q[j].by => q[i].n < q[j].n

\* m comes after every message of its source in q.
After(m, q) == \A e \in Elements(q) : e.by = m.by => e.n < m.n

LEMMA AscendsTail ==
  ASSUME NEW q \in Seq(Msg), q # <<>>, Ascends(q)
  PROVE  /\ Ascends(Tail(q))
         /\ \A e \in Elements(Tail(q)) : e.by = Head(q).by => Head(q).n < e.n
<1>1. /\ \A i \in DOMAIN Tail(q) : i + 1 \in DOMAIN q /\ Tail(q)[i] = q[i + 1]
      /\ DOMAIN Tail(q) \subseteq Nat \ {0}
      /\ Head(q) = q[1] /\ 1 \in DOMAIN q
  <2>1. \A i \in DOMAIN Tail(q) : i + 1 \in DOMAIN q /\ Tail(q)[i] = q[i + 1]
    BY ElementsTail
  <2> QED BY <2>1
<1>2. Ascends(Tail(q))
  BY <1>1 DEF Ascends
<1>3. \A e \in Elements(Tail(q)) : e.by = Head(q).by => Head(q).n < e.n
  BY <1>1 DEF Elements, Ascends
<1> QED
  BY <1>2, <1>3

LEMMA AscendsAppend ==
  ASSUME NEW q \in Seq(Msg), NEW m \in Msg, Ascends(q), After(m, q)
  PROVE  Ascends(Append(q, m))
<1>1. /\ Len(q) \in Nat
      /\ \A i \in 1..Len(q) : Append(q, m)[i] = q[i] /\ q[i] \in Elements(q)
      /\ Append(q, m)[Len(q) + 1] = m
      /\ DOMAIN q = 1..Len(q) /\ DOMAIN Append(q, m) = 1..(Len(q) + 1)
  BY DEF Elements
<1> SUFFICES ASSUME NEW i \in 1..(Len(q) + 1), NEW j \in 1..(Len(q) + 1), i < j,
                    Append(q, m)[i].by = Append(q, m)[j].by
             PROVE  Append(q, m)[i].n < Append(q, m)[j].n
  BY <1>1 DEF Ascends
<1>2. i \in 1..Len(q)
  BY <1>1
<1>3. CASE j = Len(q) + 1
  BY <1>1, <1>2, <1>3 DEF After
<1>4. CASE j \in 1..Len(q)
  BY <1>1, <1>2, <1>4 DEF Ascends
<1> QED
  BY <1>1, <1>3, <1>4

\* Enqueue adds the message at the end and loses at most the head.
LEMMA EnqueueElements ==
  ASSUME NEW q \in Seq(Msg), NEW m \in Msg, NEW limit \in Nat
  PROVE  /\ Elements(Enqueue(q, m, limit)) \subseteq Elements(q) \cup {m}
         /\ (Ascends(q) /\ After(m, q)) => Ascends(Enqueue(q, m, limit))
<1>1. CASE Len(q) >= limit /\ q # <<>>
  <2>1. Enqueue(q, m, limit) = Append(Tail(q), m) /\ Tail(q) \in Seq(Msg)
    BY <1>1 DEF Enqueue
  <2>2. Elements(Tail(q)) \subseteq Elements(q)
    BY <1>1, ElementsTail
  <2>3. Elements(Append(Tail(q), m)) = Elements(Tail(q)) \cup {m}
    <3>1. \A s \in Seq(Msg) : Elements(Append(s, m)) = Elements(s) \cup {m}
      BY ElementsAppend
    <3> QED BY <2>1, <3>1, Zenon
  <2>4. (Ascends(q) /\ After(m, q)) => Ascends(Append(Tail(q), m))
    BY <1>1, <2>1, <2>2, AscendsTail, AscendsAppend DEF After
  <2> QED BY <2>1, <2>2, <2>3, <2>4
<1>2. CASE ~(Len(q) >= limit /\ q # <<>>)
  <2>1. Enqueue(q, m, limit) = Append(q, m)
    BY <1>2 DEF Enqueue
  <2>2. Elements(Append(q, m)) = Elements(q) \cup {m}
    BY ElementsAppend
  <2> QED BY <2>1, <2>2, AscendsAppend
<1> QED
  BY <1>1, <1>2

----------------------------------------------------------------------------
(* Who moves a message *)

\* Outside a replay a session has nothing left to replay, and a session that has
\* left its loop has neither link nor routed messages.
EmptyInv ==
    \A c \in Clients :
        /\ pc[c] # "replay" => pending[c] = <<>>
        /\ pc[c] \in {"closed", "cleanup"} => links[c] = {} /\ inbox[c] = <<>>

LEMMA StepEmptyInv ==
  ASSUME TypeInv, EmptyInv, [Next]_vars
  PROVE  EmptyInv'
<1> USE DEF TypeInv, TypeOK, CurInv, EmptyInv, config, hub, session, router,
        publishing, history
<1>1. ASSUME NEW c \in Clients, Accept(c) PROVE EmptyInv'
  BY <1>1 DEF Accept
<1>2. ASSUME NEW c \in Clients, Handshake(c) PROVE EmptyInv'
  BY <1>2 DEF Handshake
<1>3. ASSUME NEW c \in Clients, LeaveLoop(c) PROVE EmptyInv'
  BY <1>3 DEF LeaveLoop, EndLoop
<1>4. ASSUME NEW c \in Clients, WsAbort(c) PROVE EmptyInv'
  BY <1>4 DEF WsAbort
<1>5. ASSUME NEW c \in Clients, NEW ts \in SUBSET Topics, ReceiveSubscribe(c, ts) PROVE EmptyInv'
  BY <1>5 DEF ReceiveSubscribe
<1>6. ASSUME NEW c \in Clients, NEW ts \in SUBSET Topics, ReceiveUnsubscribe(c, ts) PROVE EmptyInv'
  BY <1>6 DEF ReceiveUnsubscribe
<1>7. ASSUME NEW c \in Clients, NEW t \in Topics, ClientPublish(c, t) PROVE EmptyInv'
  BY <1>7 DEF ClientPublish, Deliver
<1>8. ASSUME NEW c \in Clients, NEW t \in Topics, ClientPublishRefused(c, t) PROVE EmptyInv'
  BY <1>8 DEF ClientPublishRefused, EndLoop
<1>9. ASSUME NEW c \in Clients, LinkFilter(c) PROVE EmptyInv'
  BY <1>9 DEF LinkFilter
<1>10. ASSUME NEW c \in Clients, CountSubscription(c) PROVE EmptyInv'
  BY <1>10 DEF CountSubscription
<1>11. ASSUME NEW c \in Clients, TakeOffline(c) PROVE EmptyInv'
  BY <1>11 DEF TakeOffline
<1>12. ASSUME NEW c \in Clients, Replay(c) PROVE EmptyInv'
  BY <1>12 DEF Replay
<1>13. ASSUME NEW c \in Clients, EndFilter(c) PROVE EmptyInv'
  BY <1>13 DEF EndFilter
<1>14. ASSUME NEW c \in Clients, Unlink(c) PROVE EmptyInv'
  BY <1>14 DEF Unlink
<1>15. ASSUME NEW c \in Clients, Uncount(c) PROVE EmptyInv'
  BY <1>15 DEF Uncount
<1>16. ASSUME NEW c \in Clients, Cleanup(c) PROVE EmptyInv'
  BY <1>16 DEF Cleanup
<1>17. ASSUME NEW c \in Clients, FinishSession(c) PROVE EmptyInv'
  BY <1>17 DEF FinishSession
<1>18. ASSUME NEW c \in Clients, Forward(c) PROVE EmptyInv'
  BY <1>18 DEF Forward
<1>19. ASSUME NEW p \in Publishers, ReadFlags(p) PROVE EmptyInv'
  BY <1>19 DEF ReadFlags
<1>20. ASSUME NEW p \in Publishers, ReadOnline(p) PROVE EmptyInv'
  BY <1>20 DEF ReadOnline
<1>21. ASSUME NEW p \in Publishers, Store(p) PROVE EmptyInv'
  BY <1>21 DEF Store
<1>22. ASSUME NEW p \in Publishers, Route(p) PROVE EmptyInv'
  BY <1>22 DEF Route, Deliver
<1>23. ASSUME NEW p \in Publishers, RouteFails(p) PROVE EmptyInv'
  BY <1>23 DEF RouteFails
<1>24. ASSUME NEW p \in Publishers, NEW ks \in SUBSET Topics, StartPush(p, ks) PROVE EmptyInv'
  BY <1>24 DEF StartPush
<1>25. ASSUME NEW p \in Publishers, NEW k \in Topics, StartTest(p, k) PROVE EmptyInv'
  BY <1>25 DEF StartTest
<1>26. ASSUME NEW e \in BOOLEAN, NEW l \in Limits, SetOffline(e, l) PROVE EmptyInv'
  BY <1>26 DEF SetOffline
<1>27. ASSUME NEW k \in Topics, AddKey(k) PROVE EmptyInv'
  BY <1>27 DEF AddKey
<1>28. ASSUME NEW k \in Topics, DeleteKey(k) PROVE EmptyInv'
  BY <1>28 DEF DeleteKey
<1>29. CASE UNCHANGED vars
  BY <1>29 DEF vars
<1> QED
  BY <1>1, <1>2, <1>3, <1>4, <1>5, <1>6, <1>7, <1>8, <1>9, <1>10, <1>11,
     <1>12, <1>13, <1>14, <1>15, <1>16, <1>17, <1>18, <1>19, <1>20, <1>21,
     <1>22, <1>23, <1>24, <1>25, <1>26, <1>27, <1>28, <1>29
  DEF Next, SessionStep, PeerStep, PublishStep, Request, PanelStep

\* A step that moves no message and no job, and leaves alone the handlers that do.
Quiet ==
    /\ UNCHANGED <<offline, cur, pending, router, publishing, history>>
    /\ offline_limit' \in Limits \cup {offline_limit}
    /\ \A c \in Clients :
         pc'[c] # pc[c] => {pc[c], pc'[c]} \cap {"count", "take", "replay", "uncount"} = {}
    /\ \A c \in Clients : pc[c] = "count" => subscribed'[c] = subscribed[c]

\* The ends of a session: what its loop held is dropped.
Ends(c) ==
    /\ \E to \in {"cleanup", "closed"} : pc' = [pc EXCEPT ![c] = to]
    /\ \A d \in Clients \ {c} : cur'[d] = cur[d] /\ subscribed'[d] = subscribed[d]
    /\ pending' = [pending EXCEPT ![c] = <<>>]
    /\ links' = [links EXCEPT ![c] = {}]
    /\ inbox' = [inbox EXCEPT ![c] = <<>>]
    /\ wrote' \in {wrote, [wrote EXCEPT ![c] = {}]}
    /\ UNCHANGED <<offline_limit, offline, publishing, unrouted>>

SessionMove(c) ==
    \/ Ends(c)
    \/ LinkFilter(c)
    \/ CountSubscription(c)
    \/ TakeOffline(c)
    \/ Replay(c)
    \/ EndFilter(c)
    \/ Unlink(c)
    \/ Uncount(c)
    \/ Forward(c)
    \/ \E t \in Topics : ClientPublish(c, t)

Move ==
    \/ \E c \in Clients : SessionMove(c)
    \/ \E p \in Publishers : PublishStep(p) \/ Request(p)

\* Every other step of the server is quiet.
LEMMA StepMoves ==
  ASSUME TypeInv, EmptyInv, [Next]_vars
  PROVE  Quiet \/ Move
<1> USE DEF TypeInv, TypeOK, EmptyInv, config, hub, session, router, publishing, history
<1>1. ASSUME NEW c \in Clients, Accept(c) PROVE Quiet
  BY <1>1 DEF Accept, Quiet
<1>2. ASSUME NEW c \in Clients, Handshake(c) PROVE Quiet
  BY <1>2 DEF Handshake, Quiet
<1>3. ASSUME NEW c \in Clients, LeaveLoop(c) PROVE Ends(c)
  BY <1>3 DEF LeaveLoop, EndLoop, Ends
<1>4. ASSUME NEW c \in Clients, WsAbort(c) PROVE Ends(c)
  BY <1>4 DEF WsAbort, Ends
<1>5. ASSUME NEW c \in Clients, NEW ts \in SUBSET Topics, ReceiveSubscribe(c, ts) PROVE Quiet
  BY <1>5 DEF ReceiveSubscribe, Quiet
<1>6. ASSUME NEW c \in Clients, NEW ts \in SUBSET Topics, ReceiveUnsubscribe(c, ts) PROVE Quiet
  BY <1>6 DEF ReceiveUnsubscribe, Quiet
<1>7. ASSUME NEW c \in Clients, NEW t \in Topics, ClientPublishRefused(c, t) PROVE Ends(c)
  BY <1>7 DEF ClientPublishRefused, EndLoop, Ends
<1>8. ASSUME NEW c \in Clients, Cleanup(c) PROVE Quiet
  BY <1>8 DEF Cleanup, Quiet
<1>9. ASSUME NEW c \in Clients, FinishSession(c) PROVE Ends(c)
  BY <1>9 DEF FinishSession, Ends
<1>10. ASSUME NEW e \in BOOLEAN, NEW l \in Limits, SetOffline(e, l) PROVE Quiet
  BY <1>10 DEF SetOffline, Quiet
<1>11. ASSUME NEW k \in Topics, AddKey(k) PROVE Quiet
  BY <1>11 DEF AddKey, Quiet
<1>12. ASSUME NEW k \in Topics, DeleteKey(k) PROVE Quiet
  BY <1>12 DEF DeleteKey, Quiet
<1>13. CASE UNCHANGED vars
  BY <1>13 DEF vars, Quiet
<1> HIDE DEF TypeInv, TypeOK, EmptyInv, config, hub, session, router, publishing, history
<1> QED
  BY <1>1, <1>2, <1>3, <1>4, <1>5, <1>6, <1>7, <1>8, <1>9, <1>10, <1>11,
     <1>12, <1>13
  DEF Next, SessionStep, PeerStep, PanelStep, Move, SessionMove

----------------------------------------------------------------------------
(* What the steps of a publisher do to its job *)

\* The topics the message of a publish call has still to reach: those whose queue
\* it may yet join, and those it has only to be routed to.
Waiting(p) ==
    CASE job[p].pc = "idle"  -> {}
      [] job[p].pc = "route" -> job[p].todo
      [] OTHER               -> job[p].todo \cup {job[p].key}

\* A request names each key once.
OnceInv == \A p \in Publishers : job[p].pc # "idle" => job[p].key \notin job[p].todo

\* Only p's job changes.
Only(p) == \A q \in Publishers \ {p} : job'[q] = job[q]

LEMMA NextKeyMoves ==
  ASSUME TypeInv, OnceInv, NEW p \in Publishers, job[p].pc = "route", NextKey(p)
  PROVE  /\ Only(p)
         /\ Waiting(p)' = Waiting(p)
         /\ job'[p].pc \in {"idle", "online"}
         /\ job'[p].pc = "online" => job'[p].limit = job[p].limit
         /\ job'[p].pc # "idle" => job'[p].key \notin job'[p].todo
<1> USE DEF TypeInv, TypeOK, OnceInv
<1>1. CASE job[p].todo = {}
  <2>1. job' = [job EXCEPT ![p] = Idle]
    BY <1>1 DEF NextKey
  <2>2. Idle.pc = "idle"
    BY DEF Idle
  <2> QED BY <1>1, <2>1, <2>2 DEF Only, Waiting
<1>2. CASE job[p].todo # {}
  <2>1. PICK k \in job[p].todo :
          job' = [job EXCEPT ![p].pc = "online", ![p].key = k, ![p].todo = @ \ {k}]
    BY <1>2 DEF NextKey
  <2>2. /\ job'[p].pc = "online" /\ job'[p].key = k /\ job'[p].todo = job[p].todo \ {k}
        /\ job'[p].limit = job[p].limit
    BY <2>1 DEF Job
  <2>3. Only(p)
    BY <2>1 DEF Only
  <2>4. Waiting(p)' = job[p].todo
    BY <2>1, <2>2 DEF Waiting
  <2> QED BY <2>2, <2>3, <2>4 DEF Waiting
<1> QED
  BY <1>1, <1>2

LEMMA StoreMoves ==
  ASSUME TypeInv, OnceInv, NEW p \in Publishers, Store(p)
  PROVE  /\ Only(p)
         /\ job'[p].pc = "route" /\ job'[p].key = job[p].key /\ job'[p].todo = job[p].todo
         /\ job'[p].limit = job[p].limit
         /\ Waiting(p) = Waiting(p)' \cup {job[p].key}
         /\ job[p].key \notin Waiting(p)'
         /\ job[p].key \in Topics /\ job[p].limit \in Nat
<1> USE DEF TypeInv, TypeOK, CurInv, OnceInv
<1>1. job[p] \in Job /\ job[p].pc = "store" /\ job' = [job EXCEPT ![p].pc = "route"]
  BY DEF Store
<1>2. /\ job'[p].pc = "route" /\ job'[p].key = job[p].key /\ job'[p].todo = job[p].todo
      /\ job'[p].limit = job[p].limit
  BY <1>1 DEF Job
<1>3. Only(p)
  BY <1>1 DEF Only
<1>4. job[p].limit \in Nat /\ job[p].key \in Topics
  BY <1>1 DEF Job
<1> QED
  BY <1>1, <1>2, <1>3, <1>4 DEF Waiting

\* The two reads before the store: of the flags, of the online count.
LEMMA ReadMoves ==
  ASSUME TypeInv, NEW p \in Publishers, ReadFlags(p) \/ ReadOnline(p)
  PROVE  /\ Only(p)
         /\ job[p].pc \in {"flags", "online"} /\ job'[p].pc \in {"online", "store", "route"}
         /\ job'[p].key = job[p].key /\ job'[p].todo = job[p].todo
         /\ Waiting(p)' \subseteq Waiting(p)
         /\ job[p].pc = "flags" => job'[p].limit = offline_limit /\ job'[p].pc = "online"
         /\ job[p].pc = "online" => job'[p].limit = job[p].limit
         /\ job'[p].pc = "store" => job'[p].limit > 0
<1> USE DEF TypeInv, TypeOK
<1>0. job[p] \in Job
  OBVIOUS
<1>1. CASE ReadFlags(p)
  <2>1. /\ Only(p) /\ job[p].pc = "flags" /\ job'[p].pc = "online"
        /\ job'[p].key = job[p].key /\ job'[p].todo = job[p].todo
        /\ job'[p].limit = offline_limit
    BY <1>0, <1>1 DEF ReadFlags, Only, Job
  <2> QED BY <2>1 DEF Waiting
<1>2. CASE ReadOnline(p)
  <2>1. PICK to \in {"store", "route"} :
          /\ job' = [job EXCEPT ![p].pc = to]
          /\ to = "store" => job[p].limit > 0
    BY <1>2 DEF ReadOnline
  <2>2. /\ Only(p) /\ job[p].pc = "online" /\ job'[p].pc = to
        /\ job'[p].key = job[p].key /\ job'[p].todo = job[p].todo
        /\ job'[p].limit = job[p].limit
    BY <1>0, <1>2, <2>1 DEF ReadOnline, Only, Job
  <2> QED BY <2>1, <2>2 DEF Waiting
<1> QED
  BY <1>1, <1>2

\* A request starts with a message no one has seen.
LEMMA RequestMoves ==
  ASSUME TypeInv, NEW p \in Publishers, Request(p)
  PROVE  /\ Only(p)
         /\ job[p].pc = "idle" /\ job'[p].pc \in {"flags", "online"}
         /\ job'[p].key \notin job'[p].todo
         /\ job'[p].pc = "online" => job'[p].limit = offline_limit
         /\ issued' = [issued EXCEPT ![p] = @ + 1]
         /\ UNCHANGED <<config, hub, session, router, history>>
<1> USE DEF TypeInv, TypeOK
<1>1. ASSUME NEW ks \in SUBSET Topics, StartPush(p, ks)
      PROVE  /\ Only(p) /\ job[p].pc = "idle" /\ job'[p].pc = "online"
             /\ job'[p].key \notin job'[p].todo /\ job'[p].limit = offline_limit
             /\ issued' = [issued EXCEPT ![p] = @ + 1]
             /\ UNCHANGED <<config, hub, session, router, history>>
  BY <1>1 DEF StartPush, Only
<1>2. ASSUME NEW k \in Topics, StartTest(p, k)
      PROVE  /\ Only(p) /\ job[p].pc = "idle" /\ job'[p].pc = "flags"
             /\ job'[p].key \notin job'[p].todo
             /\ issued' = [issued EXCEPT ![p] = @ + 1]
             /\ UNCHANGED <<config, hub, session, router, history>>
  <2>1. /\ [Idle EXCEPT !.pc = "flags", !.key = k].pc = "flags"
        /\ [Idle EXCEPT !.pc = "flags", !.key = k].todo = {}
    BY DEF Idle
  <2> QED BY <1>2, <2>1 DEF StartTest, Only
<1> QED
  BY <1>1, <1>2 DEF Request

LEMMA SessionKeepsJobs ==
  ASSUME NEW c \in Clients, SessionMove(c)
  PROVE  job' = job /\ offline_limit' = offline_limit
  BY DEF SessionMove, Ends, LinkFilter, CountSubscription, TakeOffline, Replay, EndFilter,
         Unlink, Uncount, Forward, ClientPublish, config, publishing

LEMMA StepOnceInv ==
  ASSUME TypeInv, EmptyInv, OnceInv, [Next]_vars
  PROVE  OnceInv'
<1> USE DEF OnceInv, Only
<1>1. CASE Quiet
  BY <1>1 DEF Quiet, publishing
<1>2. ASSUME NEW c \in Clients, SessionMove(c) PROVE OnceInv'
  BY <1>2, SessionKeepsJobs
<1>3. ASSUME NEW p \in Publishers, ReadFlags(p) \/ ReadOnline(p) PROVE OnceInv'
  BY <1>3, ReadMoves
<1>4. ASSUME NEW p \in Publishers, Store(p) PROVE OnceInv'
  BY <1>4, StoreMoves DEF Store
<1>5. ASSUME NEW p \in Publishers, Route(p) \/ RouteFails(p) PROVE OnceInv'
  BY <1>5, NextKeyMoves DEF Route, RouteFails
<1>6. ASSUME NEW p \in Publishers, Request(p) PROVE OnceInv'
  BY <1>6, RequestMoves
<1> QED
  BY <1>1, <1>2, <1>3, <1>4, <1>5, <1>6, StepMoves DEF Move, PublishStep

----------------------------------------------------------------------------
(* The limits in use *)

\* Every limit in use is one the panel set, and only a positive one queues.
LimitInv ==
    /\ offline_limit \in Limits
    /\ \A p \in Publishers :
         /\ job[p].pc \in {"online", "store", "route"} => job[p].limit \in Limits
         /\ job[p].pc = "store" => job[p].limit > 0

LEMMA StepLimitInv ==
  ASSUME TypeInv, EmptyInv, OnceInv, LimitInv, [Next]_vars
  PROVE  LimitInv'
<1> USE DEF LimitInv, Only
<1>1. CASE Quiet
  BY <1>1 DEF Quiet, publishing
<1>2. ASSUME NEW c \in Clients, SessionMove(c) PROVE LimitInv'
  BY <1>2, SessionKeepsJobs
<1>3. ASSUME NEW p \in Publishers, ReadFlags(p) \/ ReadOnline(p) PROVE LimitInv'
  <2>1. offline_limit' = offline_limit
    BY <1>3 DEF ReadFlags, ReadOnline, config
  <2> QED BY <1>3, <2>1, ReadMoves
<1>4. ASSUME NEW p \in Publishers, Store(p) PROVE LimitInv'
  <2>1. offline_limit' = offline_limit /\ job[p].pc = "store"
    BY <1>4 DEF Store, config
  <2> QED BY <1>4, <2>1, StoreMoves
<1>5. ASSUME NEW p \in Publishers, Route(p) \/ RouteFails(p) PROVE LimitInv'
  <2>1. offline_limit' = offline_limit /\ job[p].pc = "route" /\ NextKey(p)
    BY <1>5 DEF Route, RouteFails, config
  <2> QED BY <2>1, NextKeyMoves
<1>6. ASSUME NEW p \in Publishers, Request(p) PROVE LimitInv'
  BY <1>6, RequestMoves DEF config
<1> QED
  BY <1>1, <1>2, <1>3, <1>4, <1>5, <1>6, StepMoves DEF Move, PublishStep

\* The part of the invariant that speaks of sessions and jobs by themselves.
JobInv == TypeInv /\ EmptyInv /\ OnceInv /\ LimitInv

LEMMA InitJobInv == Init => JobInv
<1>1. Init => EmptyInv
  BY DEF Init, EmptyInv
<1>2. Init => \A p \in Publishers : job[p].pc = "idle"
  BY DEF Init, Idle
<1>3. Init => offline_limit \in Limits
  BY DEF Init
<1> QED
  BY <1>1, <1>2, <1>3, InitTypeInv DEF JobInv, OnceInv, LimitInv

LEMMA StepJobInv == JobInv /\ [Next]_vars => JobInv'
  BY StepTypeInv, StepEmptyInv, StepOnceInv, StepLimitInv DEF JobInv

----------------------------------------------------------------------------
(* Where a message can be *)

\* What has reached a session live or by replay.
Known(c) == Elements(inbox[c]) \cup wrote[c]

\* Queues and replays hold only messages of publishers, and nothing anywhere has a
\* number its source has not issued.
SourceInv ==
    /\ \A t \in Topics : \A m \in Elements(offline[t]) :
         m.by \in Publishers /\ m.n <= issued[m.by]
    /\ \A c \in Clients : \A m \in Elements(pending[c]) :
         m.by \in Publishers /\ m.n <= issued[m.by]
    /\ \A c \in Clients : \A d \in Known(c) : d[2].n <= issued[d[2].by]

\* A message is nowhere on a topic it has not reached yet: in no queue it may still
\* join, in no session's hand and on no session's socket.
FreshInv ==
    \A p \in Publishers : \A t \in Waiting(p) :
        /\ Current(p) \notin Elements(offline[t])
        /\ \A c \in Clients :
             /\ <<t, Current(p)>> \notin Known(c)
             /\ cur[c] = t => Current(p) \notin Elements(pending[c])

\* The elements of the queues and of the sessions' hands are what TypeOK says.
LEMMA ElementTypes ==
  ASSUME TypeInv
  PROVE  /\ \A t \in Topics : Elements(offline[t]) \subseteq Msg
         /\ \A c \in Clients : Elements(pending[c]) \subseteq Msg
         /\ \A c \in Clients : Known(c) \subseteq Delivery
         /\ \A p \in Publishers : Waiting(p) \subseteq Topics
         /\ \A p \in Publishers : Current(p) \in Msg
<1> USE DEF TypeInv, TypeOK, CurInv
<1>1. \A t \in Topics : Elements(offline[t]) \subseteq Msg
  BY ElementsType
<1>2. \A c \in Clients : Elements(pending[c]) \subseteq Msg
  BY ElementsType
<1>3. \A c \in Clients : Known(c) \subseteq Delivery
  <2>1. \A c \in Clients : Elements(inbox[c]) \subseteq Delivery
    BY ElementsType
  <2> QED BY <2>1 DEF Known
<1>4. \A p \in Publishers : Waiting(p) \subseteq Topics
  BY DEF Waiting, Job
<1> QED
  BY <1>1, <1>2, <1>3, <1>4, CurrentType

\* The routed messages of the sessions, after a delivery.
LEMMA DeliverInbox ==
  ASSUME TypeInv, NEW t \in Topics, NEW m \in Msg, Deliver(t, m)
  PROVE  \A c \in Clients :
           /\ t \in links[c] => inbox'[c] = Append(inbox[c], <<t, m>>)
           /\ t \notin links[c] => inbox'[c] = inbox[c]
           /\ Elements(inbox'[c]) =
                Elements(inbox[c]) \cup (IF t \in links[c] THEN {<<t, m>>} ELSE {})
<1> SUFFICES ASSUME NEW c \in Clients
             PROVE  /\ t \in links[c] => inbox'[c] = Append(inbox[c], <<t, m>>)
                    /\ t \notin links[c] => inbox'[c] = inbox[c]
                    /\ Elements(inbox'[c]) =
                         Elements(inbox[c]) \cup (IF t \in links[c] THEN {<<t, m>>} ELSE {})
  OBVIOUS
<1>1. inbox'[c] = IF t \in links[c] THEN Append(inbox[c], <<t, m>>) ELSE inbox[c]
  BY DEF Deliver
<1>2. \A q \in Seq(Delivery), d \in Delivery : Elements(Append(q, d)) = Elements(q) \cup {d}
  BY ElementsAppend
<1>3. inbox[c] \in Seq(Delivery) /\ <<t, m>> \in Delivery
  BY DEF TypeInv, TypeOK, Delivery
<1> QED
  BY <1>1, <1>2, <1>3

LEMMA TakeElements ==
  ASSUME TypeInv, NEW c \in Clients, TakeOffline(c)
  PROVE  /\ cur[c] \in Topics /\ pc'[c] = "replay"
         /\ offline' = [offline EXCEPT ![cur[c]] = <<>>] /\ Elements(offline'[cur[c]]) = {}
         /\ pending' = [pending EXCEPT ![c] = offline[cur[c]]]
         /\ \A d \in Clients \ {c} : pc'[d] = pc[d]
         /\ UNCHANGED <<cur, subscribed, router, publishing, history>>
         /\ pending'[c] = offline[cur[c]] /\ \A d \in Clients \ {c} : pending'[d] = pending[d]
         /\ \A t \in Topics \ {cur[c]} : offline'[t] = offline[t]
         /\ \A t \in Topics : Elements(offline'[t]) \subseteq Elements(offline[t])
         /\ \A d \in Clients : Known(d)' = Known(d)
<1>1. /\ pending \in [Clients -> Seq(Msg)] /\ offline \in [Topics -> Seq(Msg)]
      /\ DOMAIN pc = Clients /\ cur[c] \in Topics
  BY DEF TypeInv, TypeOK, CurInv, TakeOffline
<1>2. /\ pc' = [pc EXCEPT ![c] = "replay"]
      /\ offline' = [offline EXCEPT ![cur[c]] = <<>>] /\ pending' = [pending EXCEPT ![c] = offline[cur[c]]]
      /\ UNCHANGED <<cur, subscribed, router, publishing, history>>
  BY DEF TakeOffline
<1>3. /\ Elements(offline'[cur[c]]) = {}
      /\ \A t \in Topics \ {cur[c]} : offline'[t] = offline[t]
  BY <1>1, <1>2, ElementsEmpty
<1>4. \A t \in Topics : Elements(offline'[t]) \subseteq Elements(offline[t])
  BY <1>3
<1>5. \A d \in Clients : Known(d)' = Known(d)
  BY <1>2 DEF Known, router, history
<1> QED
  BY <1>1, <1>2, <1>3, <1>4, <1>5

LEMMA ReplayElements ==
  ASSUME TypeInv, NEW c \in Clients, Replay(c)
  PROVE  /\ cur[c] \in Topics /\ pc[c] = "replay"
         /\ Elements(pending[c]) = Elements(pending'[c]) \cup {Head(pending[c])}
         /\ pending' = [pending EXCEPT ![c] = Tail(pending[c])]
         /\ wrote' = [wrote EXCEPT ![c] = wrote[c] \cup {<<cur[c], Head(pending[c])>>}]
         /\ Known(c)' = Known(c) \cup {<<cur[c], Head(pending[c])>>}
         /\ \A d \in Clients \ {c} : Known(d)' = Known(d)
         /\ UNCHANGED <<offline, pc, cur, subscribed, router, publishing, unrouted>>
<1> USE DEF TypeInv, TypeOK, CurInv
<1>1. Elements(pending[c]) = Elements(Tail(pending[c])) \cup {Head(pending[c])}
  BY ElementsTail DEF Replay
<1> QED
  BY <1>1 DEF Replay, Known, hub, router

LEMMA ForwardElements ==
  ASSUME TypeInv, NEW c \in Clients, Forward(c)
  PROVE  /\ pc[c] = "loop"
         /\ \A d \in Clients : Known(d)' = Known(d)
         /\ inbox' = [inbox EXCEPT ![c] = Tail(inbox[c])]
         /\ wrote' = [wrote EXCEPT ![c] = wrote[c] \cup {Head(inbox[c])}]
         /\ UNCHANGED <<offline, session, links, publishing, unrouted>>
<1> USE DEF TypeInv, TypeOK
<1>1. Elements(inbox[c]) = Elements(Tail(inbox[c])) \cup {Head(inbox[c])}
  BY ElementsTail DEF Forward
<1> QED
  BY <1>1 DEF Forward, Known, hub

LEMMA StoreElements ==
  ASSUME TypeInv, NEW p \in Publishers, Store(p)
  PROVE  /\ job[p].key \in Topics
         /\ Elements(offline'[job[p].key]) \subseteq Elements(offline[job[p].key]) \cup {Current(p)}
         /\ \A t \in Topics \ {job[p].key} : offline'[t] = offline[t]
         /\ (Ascends(offline[job[p].key]) /\ After(Current(p), offline[job[p].key]))
              => Ascends(offline'[job[p].key])
         /\ UNCHANGED <<session, router, issued, history>>
<1>1. job[p].key \in Topics /\ job[p].limit \in Nat
  BY DEF TypeInv, TypeOK, CurInv, Store, Job
<1>2. offline[job[p].key] \in Seq(Msg) /\ Current(p) \in Msg
  BY <1>1, CurrentType DEF TypeInv, TypeOK
<1>3. offline' = [offline EXCEPT ![job[p].key] =
                    Enqueue(offline[job[p].key], Current(p), job[p].limit)]
  BY <1>1 DEF Store, TypeInv, TypeOK
<1>4. offline'[job[p].key] = Enqueue(offline[job[p].key], Current(p), job[p].limit)
  BY <1>1, <1>3 DEF TypeInv, TypeOK
<1>5. \A t \in Topics \ {job[p].key} : offline'[t] = offline[t]
  BY <1>3 DEF TypeInv, TypeOK
<1> QED
  BY <1>1, <1>2, <1>4, <1>5, EnqueueElements DEF Store

LEMMA RouteElements ==
  ASSUME TypeInv, NEW p \in Publishers, Route(p)
  PROVE  /\ job[p].key \in Topics /\ job[p].pc = "route"
         /\ \A c \in Clients :
              /\ job[p].key \in links[c] =>
                   /\ inbox'[c] = Append(inbox[c], <<job[p].key, Current(p)>>)
                   /\ Known(c)' = Known(c) \cup {<<job[p].key, Current(p)>>}
              /\ job[p].key \notin links[c] => inbox'[c] = inbox[c] /\ Known(c)' = Known(c)
         /\ NextKey(p)
         /\ UNCHANGED <<hub, session, links, issued, history>>
<1>1. job[p].key \in Topics /\ job[p].pc = "route"
  BY DEF TypeInv, CurInv, Route
<1> QED
  BY <1>1, CurrentType, DeliverInbox DEF Route, Known, TypeInv, history

LEMMA ClientPublishElements ==
  ASSUME TypeInv, NEW s \in Clients, NEW t \in Topics, ClientPublish(s, t)
  PROVE  /\ \A c \in Clients :
              \/ /\ inbox'[c] = Append(inbox[c], <<t, [by |-> s, n |-> issued[s] + 1]>>)
                 /\ Known(c)' = Known(c) \cup {<<t, [by |-> s, n |-> issued[s] + 1]>>}
              \/ inbox'[c] = inbox[c] /\ Known(c)' = Known(c)
         /\ issued' = [issued EXCEPT ![s] = @ + 1]
         /\ UNCHANGED <<hub, session, links, job, history>>
<1>1. [by |-> s, n |-> issued[s] + 1] \in Msg
  BY DEF TypeInv, TypeOK, Msg, Sources
<1> QED
  BY <1>1, DeliverInbox DEF ClientPublish, Known, TypeInv, history

\* The end of a session, and the steps that only move its cursor.
LEMMA EndsElements ==
  ASSUME TypeInv, NEW c \in Clients, Ends(c)
  PROVE  /\ Elements(pending'[c]) = {} /\ Elements(inbox'[c]) = {} /\ links'[c] = {}
         /\ \A d \in Clients \ {c} :
              /\ pending'[d] = pending[d] /\ inbox'[d] = inbox[d] /\ links'[d] = links[d]
              /\ wrote'[d] = wrote[d] /\ cur'[d] = cur[d] /\ pc'[d] = pc[d]
              /\ subscribed'[d] = subscribed[d] /\ Known(d)' = Known(d)
         /\ pc'[c] \in {"cleanup", "closed"}
         /\ wrote'[c] \in {wrote[c], {}}
         /\ \A d \in Clients : Known(d)' \subseteq Known(d)
         /\ UNCHANGED <<offline, publishing, unrouted>>
<1> USE DEF TypeInv, TypeOK
<1>1. /\ pending'[c] = <<>> /\ inbox'[c] = <<>> /\ links'[c] = {}
      /\ \A d \in Clients \ {c} :
              /\ pending'[d] = pending[d] /\ inbox'[d] = inbox[d] /\ links'[d] = links[d]
              /\ wrote'[d] = wrote[d] /\ cur'[d] = cur[d] /\ pc'[d] = pc[d]
              /\ subscribed'[d] = subscribed[d]
  BY DEF Ends
<1>2. pc'[c] \in {"cleanup", "closed"} /\ wrote'[c] \in {wrote[c], {}}
  BY DEF Ends
<1> QED
  BY <1>1, <1>2, ElementsEmpty DEF Ends, Known

CursorStep(c) ==
    LinkFilter(c) \/ CountSubscription(c) \/ EndFilter(c) \/ Unlink(c) \/ Uncount(c)

LEMMA CursorElements ==
  ASSUME TypeInv, EmptyInv, NEW c \in Clients, CursorStep(c)
  PROVE  /\ pending[c] = <<>> /\ Elements(pending[c]) = {}
         /\ \A d \in Clients \ {c} :
              cur'[d] = cur[d] /\ pc'[d] = pc[d] /\ subscribed'[d] = subscribed[d]
              /\ links'[d] = links[d]
         /\ \A d \in Clients : Known(d)' = Known(d)
         /\ UNCHANGED <<offline, pending, inbox, publishing, history>>
<1> USE DEF TypeInv, TypeOK, EmptyInv, CursorStep, hub, session, router
<1>1. pending[c] = <<>>
  BY DEF LinkFilter, CountSubscription, EndFilter, Unlink, Uncount
<1>2. UNCHANGED <<offline, pending, inbox, publishing, history>>
  BY DEF LinkFilter, CountSubscription, EndFilter, Unlink, Uncount
<1>3. \A d \in Clients \ {c} :
        cur'[d] = cur[d] /\ pc'[d] = pc[d] /\ subscribed'[d] = subscribed[d]
        /\ links'[d] = links[d]
  BY DEF LinkFilter, CountSubscription, EndFilter, Unlink, Uncount
<1> QED
  BY <1>1, <1>2, <1>3, ElementsEmpty DEF Known, history

\* A message that is not new where it is now, or whose number is issued by now.
LEMMA SourceFrame ==
  ASSUME TypeInv, SourceInv,
         \A s \in Sources : issued'[s] \in Nat /\ issued[s] <= issued'[s],
         \A t \in Topics : \A m \in Elements(offline'[t]) :
           m \in Elements(offline[t]) \/ (m.by \in Publishers /\ m.n <= issued'[m.by]),
         \A c \in Clients : \A m \in Elements(pending'[c]) :
           m \in Elements(pending[c]) \/ (m.by \in Publishers /\ m.n <= issued'[m.by]),
         \A c \in Clients : \A d \in Known(c)' :
           d \in Known(c) \/ d[2].n <= issued'[d[2].by]
  PROVE  SourceInv'
<1>0. /\ \A c \in Clients : Known(c) \subseteq Delivery
      /\ \A d \in Delivery : d[2].by \in Sources /\ d[2].n \in Nat
      /\ \A t \in Topics : \A m \in Elements(offline[t]) : m.n \in Nat
      /\ \A c \in Clients : \A m \in Elements(pending[c]) : m.n \in Nat
      /\ issued \in [Sources -> Nat] /\ Publishers \subseteq Sources
  BY ElementTypes DEF TypeInv, TypeOK, Delivery, Sources, Msg
<1>1. \A s \in Sources, n \in Nat : n <= issued[s] => n <= issued'[s]
  BY <1>0
<1>2. \A t \in Topics : \A m \in Elements(offline'[t]) :
        m.by \in Publishers /\ m.n <= issued'[m.by]
  BY <1>0, <1>1 DEF SourceInv
<1>3. \A c \in Clients : \A m \in Elements(pending'[c]) :
        m.by \in Publishers /\ m.n <= issued'[m.by]
  BY <1>0, <1>1 DEF SourceInv
<1>4. \A c \in Clients : \A d \in Known(c)' : d[2].n <= issued'[d[2].by]
  BY <1>0, <1>1 DEF SourceInv
<1> QED
  BY <1>2, <1>3, <1>4 DEF SourceInv

LEMMA StepSourceInv ==
  ASSUME TypeInv, EmptyInv, OnceInv, SourceInv, [Next]_vars
  PROVE  SourceInv'
<1>0. /\ issued \in [Sources -> Nat] /\ Publishers \cup Clients \subseteq Sources
      /\ \A p \in Publishers : Current(p).by = p /\ Current(p).n = issued[p]
      /\ \A s \in Sources : issued[s] \in Nat /\ issued[s] <= issued[s]
      /\ pending \in [Clients -> Seq(Msg)] /\ offline \in [Topics -> Seq(Msg)]
  BY DEF TypeInv, TypeOK, Current, Sources
<1>1. CASE Quiet
  BY <1>0, <1>1, SourceFrame DEF Quiet, Known, router, publishing, history
<1>2. ASSUME NEW c \in Clients, Ends(c) PROVE SourceInv'
  <2>1. /\ \A d \in Clients : Elements(pending'[d]) \subseteq Elements(pending[d])
        /\ \A d \in Clients : Known(d)' \subseteq Known(d)
        /\ UNCHANGED <<offline, issued>>
    BY <1>2, EndsElements DEF publishing
  <2> QED BY <1>0, <2>1, SourceFrame
<1>3. ASSUME NEW c \in Clients, CursorStep(c) PROVE SourceInv'
  BY <1>0, <1>3, CursorElements, SourceFrame DEF publishing
<1>4. ASSUME NEW c \in Clients, TakeOffline(c) PROVE SourceInv'
  <2>1. /\ \A t \in Topics : Elements(offline'[t]) \subseteq Elements(offline[t])
        /\ \A d \in Clients \ {c} : pending'[d] = pending[d]
        /\ pending'[c] = offline[cur[c]] /\ cur[c] \in Topics
        /\ \A d \in Clients : Known(d)' = Known(d)
        /\ UNCHANGED issued
    BY <1>4, TakeElements DEF publishing
  <2>2. \A d \in Clients : \A m \in Elements(pending'[d]) :
          m \in Elements(pending[d]) \/ (m.by \in Publishers /\ m.n <= issued'[m.by])
    BY <2>1 DEF SourceInv
  <2> QED BY <1>0, <2>1, <2>2, SourceFrame
<1>5. ASSUME NEW c \in Clients, Replay(c) PROVE SourceInv'
  <2>1. /\ \A d \in Clients : Elements(pending'[d]) \subseteq Elements(pending[d])
        /\ Head(pending[c]) \in Elements(pending[c])
        /\ Known(c)' = Known(c) \cup {<<cur[c], Head(pending[c])>>}
        /\ \A d \in Clients \ {c} : Known(d)' = Known(d)
        /\ UNCHANGED <<offline, issued>>
    BY <1>0, <1>5, ReplayElements DEF publishing
  <2>2. Head(pending[c]).n <= issued[Head(pending[c]).by]
    BY <2>1 DEF SourceInv
  <2>3. \A d \in Clients : \A e \in Known(d)' : e \in Known(d) \/ e[2].n <= issued'[e[2].by]
    BY <2>1, <2>2
  <2>4. /\ \A s \in Sources : issued'[s] \in Nat /\ issued[s] <= issued'[s]
        /\ \A t \in Topics : \A m \in Elements(offline'[t]) : m \in Elements(offline[t])
        /\ \A d \in Clients : \A m \in Elements(pending'[d]) : m \in Elements(pending[d])
    BY <1>0, <2>1
  <2> QED BY <2>3, <2>4, SourceFrame
<1>6. ASSUME NEW c \in Clients, Forward(c) PROVE SourceInv'
  BY <1>0, <1>6, ForwardElements, SourceFrame DEF session, publishing
<1>7. ASSUME NEW s \in Clients, NEW u \in Topics, ClientPublish(s, u) PROVE SourceInv'
  <2>1. /\ issued'[s] = issued[s] + 1 /\ \A q \in Sources \ {s} : issued'[q] = issued[q]
        /\ \A c \in Clients :
             Known(c)' \subseteq Known(c) \cup {<<u, [by |-> s, n |-> issued[s] + 1]>>}
        /\ UNCHANGED <<offline, pending>>
    BY <1>0, <1>7, ClientPublishElements DEF hub, session
  <2>2. \A q \in Sources : issued'[q] \in Nat /\ issued[q] <= issued'[q]
    BY <1>0, <2>1
  <2> QED BY <1>0, <2>1, <2>2, SourceFrame
<1>8. ASSUME NEW p \in Publishers, ReadFlags(p) \/ ReadOnline(p) PROVE SourceInv'
  BY <1>0, <1>8, SourceFrame DEF ReadFlags, ReadOnline, hub, session, router, history, Known
<1>9. ASSUME NEW p \in Publishers, Store(p) PROVE SourceInv'
  <2>1. /\ \A t \in Topics : Elements(offline'[t]) \subseteq Elements(offline[t]) \cup {Current(p)}
        /\ \A d \in Clients : Known(d)' = Known(d)
        /\ UNCHANGED <<pending, issued>>
    BY <1>9, StoreElements DEF session, router, history, Known
  <2> QED BY <1>0, <2>1, SourceFrame
<1>10. ASSUME NEW p \in Publishers, Route(p) PROVE SourceInv'
  <2>1. /\ \A c \in Clients : Known(c)' \subseteq Known(c) \cup {<<job[p].key, Current(p)>>}
        /\ UNCHANGED <<offline, pending, issued>>
    BY <1>10, RouteElements DEF hub, session
  <2> QED BY <1>0, <2>1, SourceFrame
<1>11. ASSUME NEW p \in Publishers, RouteFails(p) PROVE SourceInv'
  BY <1>0, <1>11, SourceFrame DEF RouteFails, hub, session, router, Known
<1>12. ASSUME NEW p \in Publishers, Request(p) PROVE SourceInv'
  <2>1. /\ issued'[p] = issued[p] + 1 /\ \A q \in Sources \ {p} : issued'[q] = issued[q]
        /\ \A c \in Clients : Known(c)' = Known(c)
        /\ UNCHANGED <<offline, pending>>
    BY <1>0, <1>12, RequestMoves DEF hub, session, router, history, Known
  <2>2. \A q \in Sources : issued'[q] \in Nat /\ issued[q] <= issued'[q]
    BY <1>0, <2>1
  <2> QED BY <1>0, <2>1, <2>2, SourceFrame
<1> QED
  BY <1>1, <1>2, <1>3, <1>4, <1>5, <1>6, <1>7, <1>8, <1>9, <1>10, <1>11, <1>12,
     StepMoves DEF Move, SessionMove, CursorStep, PublishStep

\* No call gains a topic to reach, and what is new in a queue or with a session is
\* no message that has still to reach that topic.
LEMMA FreshFrame ==
  ASSUME TypeInv, FreshInv,
         \A p \in Publishers : Waiting(p)' \subseteq Waiting(p) /\ Current(p)' = Current(p),
         \A t \in Topics : \A m \in Elements(offline'[t]) :
           \/ m \in Elements(offline[t])
           \/ \A p \in Publishers : t \in Waiting(p)' => m # Current(p),
         \A c \in Clients : \A d \in Known(c)' :
           \/ d \in Known(c)
           \/ \A p \in Publishers : d[1] \in Waiting(p)' => d[2] # Current(p),
         \A c \in Clients : cur'[c] \in Topics => \A m \in Elements(pending'[c]) :
           \/ cur[c] = cur'[c] /\ m \in Elements(pending[c])
           \/ m \in Elements(offline[cur'[c]])
  PROVE  FreshInv'
<1> SUFFICES ASSUME NEW p \in Publishers, NEW t \in Waiting(p)'
             PROVE  /\ Current(p) \notin Elements(offline'[t])
                    /\ \A c \in Clients :
                         /\ <<t, Current(p)>> \notin Known(c)'
                         /\ cur'[c] = t => Current(p) \notin Elements(pending'[c])
  BY DEF FreshInv
<1>1. t \in Waiting(p) /\ t \in Topics
  BY ElementTypes
<1>2. /\ Current(p) \notin Elements(offline[t])
      /\ \A c \in Clients :
           /\ <<t, Current(p)>> \notin Known(c)
           /\ cur[c] = t => Current(p) \notin Elements(pending[c])
  BY <1>1 DEF FreshInv
<1>3. Current(p) \notin Elements(offline'[t])
  BY <1>1, <1>2
<1>4. ASSUME NEW c \in Clients PROVE <<t, Current(p)>> \notin Known(c)'
  BY <1>2
<1>5. ASSUME NEW c \in Clients, cur'[c] = t PROVE Current(p) \notin Elements(pending'[c])
  BY <1>1, <1>2, <1>5
<1> QED
  BY <1>3, <1>4, <1>5

\* A call other than p keeps its message and its topics.
LEMMA OthersWait ==
  ASSUME NEW p \in Publishers, Only(p), \A q \in Publishers \ {p} : issued'[q] = issued[q]
  PROVE  \A q \in Publishers \ {p} : Waiting(q)' = Waiting(q) /\ Current(q)' = Current(q)
  BY DEF Only, Waiting, Current

LEMMA StepFreshInv ==
  ASSUME TypeInv, EmptyInv, OnceInv, SourceInv, FreshInv, [Next]_vars
  PROVE  FreshInv'
<1>0. /\ issued \in [Sources -> Nat] /\ Publishers \cup Clients \subseteq Sources
      /\ \A p \in Publishers : Current(p).by = p /\ Current(p).n = issued[p]
      /\ pending \in [Clients -> Seq(Msg)] /\ offline \in [Topics -> Seq(Msg)]
  BY DEF TypeInv, TypeOK, Current, Sources
<1>k. UNCHANGED publishing => \A p \in Publishers : Waiting(p)' = Waiting(p) /\ Current(p)' = Current(p)
  BY DEF publishing, Waiting, Current
<1>1. CASE Quiet
  <2>1. \A d \in Clients : Known(d)' = Known(d)
    BY <1>1 DEF Quiet, Known, router, history
  <2> QED BY <1>k, <1>1, <2>1, FreshFrame DEF Quiet
<1>2. ASSUME NEW c \in Clients, Ends(c) PROVE FreshInv'
  <2>1. /\ \A d \in Clients : Elements(pending'[d]) # {} => pending'[d] = pending[d] /\ cur'[d] = cur[d]
        /\ \A d \in Clients : Known(d)' \subseteq Known(d)
        /\ UNCHANGED <<offline, publishing>>
    BY <1>2, EndsElements
  <2> QED BY <1>k, <2>1, FreshFrame
<1>3. ASSUME NEW c \in Clients, CursorStep(c) PROVE FreshInv'
  <2>1. /\ \A d \in Clients : Elements(pending'[d]) # {} => pending'[d] = pending[d] /\ cur'[d] = cur[d]
        /\ \A d \in Clients : Known(d)' = Known(d)
        /\ UNCHANGED <<offline, publishing>>
    BY <1>3, CursorElements
  <2> QED BY <1>k, <2>1, FreshFrame
<1>4. ASSUME NEW c \in Clients, TakeOffline(c) PROVE FreshInv'
  <2>1. /\ \A t \in Topics : Elements(offline'[t]) \subseteq Elements(offline[t])
        /\ \A d \in Clients \ {c} : pending'[d] = pending[d]
        /\ pending'[c] = offline[cur[c]] /\ cur[c] \in Topics
        /\ \A d \in Clients : Known(d)' = Known(d)
        /\ UNCHANGED <<publishing, cur>>
    BY <1>4, TakeElements
  <2> QED BY <1>k, <2>1, FreshFrame
<1>5. ASSUME NEW c \in Clients, Replay(c) PROVE FreshInv'
  <2>1. /\ \A d \in Clients : Elements(pending'[d]) \subseteq Elements(pending[d])
        /\ Head(pending[c]) \in Elements(pending[c])
        /\ Known(c)' = Known(c) \cup {<<cur[c], Head(pending[c])>>}
        /\ \A d \in Clients \ {c} : Known(d)' = Known(d)
        /\ UNCHANGED <<offline, publishing, cur>>
    BY <1>0, <1>5, ReplayElements
  <2>2. \A p \in Publishers : cur[c] \in Waiting(p) => Head(pending[c]) # Current(p)
    BY <2>1 DEF FreshInv
  <2>3. \A d \in Clients : \A e \in Known(d)' :
          \/ e \in Known(d)
          \/ \A p \in Publishers : e[1] \in Waiting(p)' => e[2] # Current(p)
    BY <1>k, <2>1, <2>2
  <2> QED BY <1>k, <2>1, <2>3, FreshFrame
<1>6. ASSUME NEW c \in Clients, Forward(c) PROVE FreshInv'
  BY <1>k, <1>6, ForwardElements, FreshFrame DEF session
<1>7. ASSUME NEW s \in Clients, NEW u \in Topics, ClientPublish(s, u) PROVE FreshInv'
  <2>1. /\ \A q \in Sources \ {s} : issued'[q] = issued[q]
        /\ \A c \in Clients :
             Known(c)' \subseteq Known(c) \cup {<<u, [by |-> s, n |-> issued[s] + 1]>>}
        /\ UNCHANGED <<offline, pending, cur, job>>
    BY <1>0, <1>7, ClientPublishElements DEF hub, session
  <2>2. \A p \in Publishers : p # s /\ [by |-> s, n |-> issued[s] + 1] # Current(p)
    BY <1>0, ConstantsAssumption
  <2>3. \A p \in Publishers : Waiting(p)' = Waiting(p) /\ Current(p)' = Current(p)
    BY <1>0, <2>1, <2>2 DEF Waiting, Current
  <2> QED BY <2>1, <2>2, <2>3, FreshFrame
<1>8. ASSUME NEW p \in Publishers, ReadFlags(p) \/ ReadOnline(p) PROVE FreshInv'
  <2>1. UNCHANGED <<offline, pending, cur, issued, router, history>>
    BY <1>8 DEF ReadFlags, ReadOnline, hub, session
  <2>2. \A q \in Publishers : Waiting(q)' \subseteq Waiting(q) /\ Current(q)' = Current(q)
    BY <1>8, <2>1, ReadMoves, OthersWait DEF Current
  <2>3. \A d \in Clients : Known(d)' = Known(d)
    BY <2>1 DEF Known, router, history
  <2> QED BY <2>1, <2>2, <2>3, FreshFrame
<1>9. ASSUME NEW p \in Publishers, Store(p) PROVE FreshInv'
  <2>1. /\ \A t \in Topics : Elements(offline'[t]) \subseteq
             Elements(offline[t]) \cup (IF t = job[p].key THEN {Current(p)} ELSE {})
        /\ UNCHANGED <<pending, cur, issued, router, history>>
    BY <1>9, StoreElements DEF session
  <2>2. /\ \A q \in Publishers : Waiting(q)' \subseteq Waiting(q) /\ Current(q)' = Current(q)
        /\ job[p].key \notin Waiting(p)'
    BY <1>9, <2>1, StoreMoves, OthersWait DEF Current
  <2>3. \A d \in Clients : Known(d)' = Known(d)
    BY <2>1 DEF Known, router, history
  <2>4. \A q \in Publishers \ {p} : Current(q) # Current(p)
    BY <1>0
  <2>5. \A t \in Topics : \A m \in Elements(offline'[t]) :
          \/ m \in Elements(offline[t])
          \/ \A q \in Publishers : t \in Waiting(q)' => m # Current(q)
    BY <2>1, <2>2, <2>4
  <2> QED BY <2>1, <2>2, <2>3, <2>5, FreshFrame
<1>10. ASSUME NEW p \in Publishers, Route(p) PROVE FreshInv'
  <2>1. /\ \A c \in Clients : Known(c)' \subseteq Known(c) \cup {<<job[p].key, Current(p)>>}
        /\ UNCHANGED <<offline, pending, cur, issued>>
        /\ job[p].pc = "route" /\ NextKey(p)
    BY <1>10, RouteElements DEF hub, session
  <2>2. /\ \A q \in Publishers : Waiting(q)' = Waiting(q) /\ Current(q)' = Current(q)
        /\ job[p].key \notin Waiting(p)
    BY <2>1, NextKeyMoves, OthersWait DEF Current, OnceInv, Waiting
  <2>3. \A q \in Publishers \ {p} : Current(q) # Current(p)
    BY <1>0
  <2>4. \A c \in Clients : \A d \in Known(c)' :
          \/ d \in Known(c)
          \/ \A q \in Publishers : d[1] \in Waiting(q)' => d[2] # Current(q)
    BY <2>1, <2>2, <2>3
  <2> QED BY <2>1, <2>2, <2>4, FreshFrame
<1>11. ASSUME NEW p \in Publishers, RouteFails(p) PROVE FreshInv'
  <2>1. UNCHANGED <<offline, pending, cur, issued, router, wrote>> /\ job[p].pc = "route" /\ NextKey(p)
    BY <1>11 DEF RouteFails, hub, session
  <2>2. \A q \in Publishers : Waiting(q)' = Waiting(q) /\ Current(q)' = Current(q)
    BY <2>1, NextKeyMoves, OthersWait DEF Current
  <2>3. \A d \in Clients : Known(d)' = Known(d)
    BY <2>1 DEF Known, router
  <2> QED BY <2>1, <2>2, <2>3, FreshFrame
<1>12. ASSUME NEW p \in Publishers, Request(p) PROVE FreshInv'
  <2>1. /\ issued'[p] = issued[p] + 1 /\ \A q \in Sources \ {p} : issued'[q] = issued[q]
        /\ \A c \in Clients : Known(c)' = Known(c)
        /\ UNCHANGED <<offline, pending, cur>> /\ Only(p)
    BY <1>0, <1>12, RequestMoves DEF hub, session, router, history, Known
  <2>2. \A q \in Publishers \ {p} : Waiting(q)' = Waiting(q) /\ Current(q)' = Current(q)
    BY <1>0, <2>1, OthersWait
  <2>3. Current(p)' = [by |-> p, n |-> issued[p] + 1] /\ issued[p] \in Nat
    BY <1>0, <2>1 DEF Current
  <2>4. ASSUME NEW t \in Waiting(p)', t \in Topics
        PROVE  /\ Current(p)' \notin Elements(offline[t])
               /\ \A c \in Clients : <<t, Current(p)'>> \notin Known(c)
                                   /\ Current(p)' \notin Elements(pending[c])
    BY <2>3, <2>4 DEF SourceInv
  <2>5. TypeInv'
    BY StepTypeInv
  <2>6. Waiting(p)' \subseteq Topics
    BY <2>5 DEF TypeInv, TypeOK, CurInv, Waiting, Job
  <2>7. ASSUME NEW q \in Publishers, NEW t \in Waiting(q)'
        PROVE  /\ Current(q)' \notin Elements(offline'[t])
               /\ \A c \in Clients :
                     /\ <<t, Current(q)'>> \notin Known(c)'
                     /\ cur'[c] = t => Current(q)' \notin Elements(pending'[c])
    <3>1. CASE q = p
      BY <2>1, <2>4, <2>6, <3>1
    <3>2. CASE q # p
      BY <2>1, <2>2, <3>2 DEF FreshInv
    <3> QED BY <3>1, <3>2
  <2> QED BY <2>7 DEF FreshInv
<1> QED
  BY <1>1, <1>2, <1>3, <1>4, <1>5, <1>6, <1>7, <1>8, <1>9, <1>10, <1>11, <1>12,
     StepMoves DEF Move, SessionMove, CursorStep, PublishStep

----------------------------------------------------------------------------
(* The bound of the queues *)

\* The queues and what sessions replay of them stay, but for the loss of a replay.
Kept ==
    /\ offline' = offline
    /\ \A c \in Clients :
         pending'[c] = <<>> \/ (pending'[c] = pending[c] /\ cur'[c] = cur[c])

LEMMA StepQueues ==
  ASSUME TypeInv, EmptyInv, [Next]_vars
  PROVE  \/ Kept
         \/ \E c \in Clients : TakeOffline(c) \/ Replay(c)
         \/ \E p \in Publishers : Store(p)
<1> USE DEF Kept, hub, session
<1>1. ASSUME Quiet PROVE Kept
  BY <1>1 DEF Quiet
<1>2. ASSUME NEW c \in Clients, Ends(c) PROVE Kept
  <2>1. pending' = [pending EXCEPT ![c] = <<>>] /\ offline' = offline
    BY <1>2 DEF Ends
  <2> QED BY <1>2, <2>1, EndsElements DEF TypeInv, TypeOK
<1>3. ASSUME NEW c \in Clients, CursorStep(c) PROVE Kept
  BY <1>3, CursorElements
<1>4. ASSUME NEW c \in Clients, Forward(c) PROVE Kept
  BY <1>4 DEF Forward
<1>5. ASSUME NEW s \in Clients, NEW u \in Topics, ClientPublish(s, u) PROVE Kept
  BY <1>5 DEF ClientPublish
<1>6. ASSUME NEW p \in Publishers, ReadFlags(p) \/ ReadOnline(p) PROVE Kept
  BY <1>6 DEF ReadFlags, ReadOnline
<1>7. ASSUME NEW p \in Publishers, Route(p) PROVE Kept
  BY <1>7 DEF Route
<1>8. ASSUME NEW p \in Publishers, RouteFails(p) PROVE Kept
  BY <1>8 DEF RouteFails
<1>9. ASSUME NEW p \in Publishers, Request(p) PROVE Kept
  BY <1>9, RequestMoves
<1> QED
  BY <1>1, <1>2, <1>3, <1>4, <1>5, <1>6, <1>7, <1>8, <1>9,
     StepMoves DEF Move, SessionMove, CursorStep, PublishStep

LEMMA StepQueueBounded ==
  ASSUME TypeInv, EmptyInv, OnceInv, LimitInv, QueueBounded, [Next]_vars
  PROVE  QueueBounded'
<1> USE DEF QueueBounded, TypeInv, TypeOK
<1>1. CASE Kept
  BY <1>1 DEF Kept
<1>2. ASSUME NEW c \in Clients, TakeOffline(c) PROVE QueueBounded'
  BY <1>2 DEF TakeOffline
<1>3. ASSUME NEW c \in Clients, Replay(c) PROVE QueueBounded'
  BY <1>3, ReplayElements
<1>4. ASSUME NEW p \in Publishers, Store(p) PROVE QueueBounded'
  <2> DEFINE t == job[p].key
             limit == job[p].limit
             q == offline[t]
  <2>1. t \in Topics /\ limit \in Limits /\ limit > 0 /\ limit \in Nat
    BY <1>4, StoreMoves DEF Store, LimitInv
  <2>2. q \in Seq(Msg) /\ Current(p) \in Msg
    BY <2>1, CurrentType
  <2>3. offline' = [offline EXCEPT ![t] = Enqueue(q, Current(p), limit)]
    BY <1>4, <2>1 DEF Store
  <2>4. CASE Len(q) >= limit /\ q # <<>>
    <3>1. Len(Enqueue(q, Current(p), limit)) = Len(q)
      BY <2>2, <2>4 DEF Enqueue
    <3> QED BY <2>1, <2>3, <2>4, <3>1
  <2>5. CASE ~(Len(q) >= limit /\ q # <<>>)
    <3>1. Len(Enqueue(q, Current(p), limit)) = Len(q) + 1
      BY <2>2, <2>5 DEF Enqueue
    <3>2. Len(q) + 1 <= limit
      BY <2>1, <2>2, <2>5
    <3> QED BY <2>1, <2>3, <3>1, <3>2
  <2> QED BY <2>4, <2>5
<1> QED
  BY <1>1, <1>2, <1>3, <1>4, StepQueues

\* No queue outgrows the largest limit the panel can set (mqtt.rs:177-187): each
\* publisher evicts before it appends, by the limit of its own snapshot, which may
\* be older than the one in force and older than another publisher's.
THEOREM QueuesBounded == Spec => []QueueBounded
<1>1. Init => QueueBounded
  BY DEF Init, QueueBounded
<1>2. JobInv /\ QueueBounded /\ [Next]_vars => QueueBounded'
  BY StepQueueBounded DEF JobInv
<1> QED
  BY <1>1, <1>2, InitJobInv, StepJobInv, PTL DEF Spec

----------------------------------------------------------------------------
(* A queued message is replayed to one session, in order *)

\* A session takes the queue away from every other one, and a message enters a queue
\* only while no session replays it.
LEMMA StepReplayedOnce ==
  ASSUME TypeInv, EmptyInv, FreshInv, ReplayedOnce, [Next]_vars
  PROVE  ReplayedOnce'
<1>0. /\ pending \in [Clients -> Seq(Msg)] /\ offline \in [Topics -> Seq(Msg)]
      /\ cur \in [Clients -> Topics \cup {None}]
  BY DEF TypeInv, TypeOK
<1>1. CASE Kept
  BY <1>1, ElementsEmpty DEF Kept, ReplayedOnce
<1>2. ASSUME NEW c \in Clients, TakeOffline(c) PROVE ReplayedOnce'
  <2>1. /\ cur[c] \in Topics /\ Elements(offline'[cur[c]]) = {} /\ cur' = cur
        /\ pending'[c] = offline[cur[c]]
        /\ \A d \in Clients \ {c} : pending'[d] = pending[d]
        /\ \A t \in Topics \ {cur[c]} : offline'[t] = offline[t]
    BY <1>2, TakeElements
  <2>2. \A d \in Clients \ {c} :
          cur[d] = cur[c] => Elements(pending'[c]) \cap Elements(pending'[d]) = {}
    BY <2>1 DEF ReplayedOnce
  <2>3. \A d \in Clients :
          cur[d] \in Topics => Elements(pending'[d]) \cap Elements(offline'[cur[d]]) = {}
    BY <2>1 DEF ReplayedOnce
  <2>4. \A d, e \in Clients \ {c} :
          (cur[d] \in Topics /\ d # e /\ cur[d] = cur[e])
             => Elements(pending'[d]) \cap Elements(pending'[e]) = {}
    BY <2>1 DEF ReplayedOnce
  <2> QED BY <2>1, <2>2, <2>3, <2>4 DEF ReplayedOnce
<1>3. ASSUME NEW c \in Clients, Replay(c) PROVE ReplayedOnce'
  <2>1. /\ \A d \in Clients : Elements(pending'[d]) \subseteq Elements(pending[d])
        /\ offline' = offline /\ cur' = cur
    BY <1>0, <1>3, ReplayElements
  <2> QED BY <2>1 DEF ReplayedOnce
<1>4. ASSUME NEW p \in Publishers, Store(p) PROVE ReplayedOnce'
  <2>1. /\ \A t \in Topics : Elements(offline'[t]) \subseteq
             Elements(offline[t]) \cup (IF t = job[p].key THEN {Current(p)} ELSE {})
        /\ UNCHANGED <<pending, cur>>
    BY <1>4, StoreElements DEF session
  <2>2. job[p].key \in Waiting(p)
    BY <1>4 DEF Store, Waiting
  <2>3. \A c \in Clients : cur[c] = job[p].key => Current(p) \notin Elements(pending[c])
    BY <2>2 DEF FreshInv
  <2> QED BY <2>1, <2>3 DEF ReplayedOnce
<1> QED
  BY <1>1, <1>2, <1>3, <1>4, StepQueues

\* Queues and replays are in the order of issue, and what a session replays came
\* before what is queued.
QueueInv ==
    /\ \A t \in Topics : Ascends(offline[t])
    /\ \A c \in Clients : Ascends(pending[c])
    /\ \A c \in Clients : cur[c] \in Topics =>
         \A m \in Elements(pending[c]) : \A q \in Elements(offline[cur[c]]) :
           m.by = q.by => m.n < q.n

\* The message a call is about to queue is later than all its publisher has there.
LEMMA CurrentIsLater ==
  ASSUME TypeInv, SourceInv, FreshInv, NEW p \in Publishers, NEW t \in Waiting(p)
  PROVE  /\ After(Current(p), offline[t])
         /\ \A c \in Clients : cur[c] = t => After(Current(p), pending[c])
         /\ \A c \in Clients : \A d \in Known(c) :
              d[1] = t /\ d[2].by = p => d[2].n < Current(p).n
<1>0. /\ Current(p).by = p /\ Current(p).n = issued[p] /\ issued[p] \in Nat
      /\ t \in Topics
      /\ Elements(offline[t]) \subseteq Msg
      /\ \A c \in Clients : Elements(pending[c]) \subseteq Msg /\ Known(c) \subseteq Delivery
  BY ElementTypes DEF TypeInv, TypeOK, Current, Sources
<1>1. \A m \in Msg : m.by = p /\ m.n <= issued[p] /\ m # Current(p) => m.n < Current(p).n
  BY <1>0 DEF Msg, Current
<1>2. After(Current(p), offline[t])
  BY <1>0, <1>1 DEF After, SourceInv, FreshInv
<1>3. ASSUME NEW c \in Clients, cur[c] = t PROVE After(Current(p), pending[c])
  BY <1>0, <1>1, <1>3 DEF After, SourceInv, FreshInv
<1>4. ASSUME NEW c \in Clients, NEW d \in Known(c), d[1] = t, d[2].by = p
      PROVE  d[2].n < Current(p).n
  <2>1. d \in Delivery /\ d = <<t, d[2]>> /\ d[2] \in Msg
    BY <1>0, <1>4 DEF Delivery
  <2>2. d[2] # Current(p)
    BY <2>1 DEF FreshInv
  <2>3. d[2].n <= issued[p]
    BY <1>4 DEF SourceInv
  <2> QED BY <1>1, <1>4, <2>1, <2>2, <2>3
<1> QED
  BY <1>2, <1>3, <1>4

LEMMA StepQueueInv ==
  ASSUME TypeInv, EmptyInv, SourceInv, FreshInv, QueueInv, [Next]_vars
  PROVE  QueueInv'
<1>0. /\ pending \in [Clients -> Seq(Msg)] /\ offline \in [Topics -> Seq(Msg)]
      /\ cur \in [Clients -> Topics \cup {None}]
      /\ Ascends(<<>>) /\ Elements(<<>>) = {}
  BY ElementsEmpty DEF TypeInv, TypeOK, Ascends
<1>1. CASE Kept
  BY <1>0, <1>1 DEF Kept, QueueInv
<1>2. ASSUME NEW c \in Clients, TakeOffline(c) PROVE QueueInv'
  <2>1. /\ cur[c] \in Topics /\ offline'[cur[c]] = <<>> /\ cur' = cur
        /\ pending'[c] = offline[cur[c]]
        /\ \A d \in Clients \ {c} : pending'[d] = pending[d]
        /\ \A t \in Topics \ {cur[c]} : offline'[t] = offline[t]
    BY <1>0, <1>2, TakeElements
  <2>2. \A t \in Topics : Ascends(offline'[t])
    BY <1>0, <2>1 DEF QueueInv
  <2>3. \A d \in Clients : Ascends(pending'[d])
    BY <2>1 DEF QueueInv
  <2>4. ASSUME NEW d \in Clients, cur'[d] \in Topics,
               NEW m \in Elements(pending'[d]), NEW q \in Elements(offline'[cur'[d]]), m.by = q.by
        PROVE  m.n < q.n
    BY <1>0, <2>1, <2>4 DEF QueueInv
  <2> QED BY <2>2, <2>3, <2>4 DEF QueueInv
<1>3. ASSUME NEW c \in Clients, Replay(c) PROVE QueueInv'
  <2>1. /\ \A d \in Clients : Elements(pending'[d]) \subseteq Elements(pending[d])
        /\ \A d \in Clients \ {c} : pending'[d] = pending[d]
        /\ pending'[c] = Tail(pending[c]) /\ pending[c] # <<>> /\ pending[c] \in Seq(Msg)
        /\ offline' = offline /\ cur' = cur
    BY <1>0, <1>3, ReplayElements DEF Replay
  <2>2. Ascends(pending'[c])
    BY <2>1, AscendsTail DEF QueueInv
  <2> QED BY <2>1, <2>2 DEF QueueInv
<1>4. ASSUME NEW p \in Publishers, Store(p) PROVE QueueInv'
  <2>1. /\ job[p].key \in Topics /\ job[p].key \in Waiting(p)
        /\ Elements(offline'[job[p].key]) \subseteq Elements(offline[job[p].key]) \cup {Current(p)}
        /\ \A t \in Topics \ {job[p].key} : offline'[t] = offline[t]
        /\ (Ascends(offline[job[p].key]) /\ After(Current(p), offline[job[p].key]))
              => Ascends(offline'[job[p].key])
        /\ UNCHANGED <<pending, cur>>
    BY <1>4, StoreElements DEF session, Store, Waiting
  <2>2. /\ After(Current(p), offline[job[p].key])
        /\ \A c \in Clients : cur[c] = job[p].key => After(Current(p), pending[c])
    BY <2>1, CurrentIsLater
  <2>3. \A t \in Topics : Ascends(offline'[t])
    BY <2>1, <2>2 DEF QueueInv
  <2>4. ASSUME NEW d \in Clients, cur[d] \in Topics,
               NEW m \in Elements(pending[d]), NEW q \in Elements(offline'[cur[d]]), m.by = q.by
        PROVE  m.n < q.n
    <3>1. CASE q \in Elements(offline[cur[d]])
      BY <2>4, <3>1 DEF QueueInv
    <3>2. CASE q \notin Elements(offline[cur[d]])
      <4>1. cur[d] = job[p].key /\ q = Current(p)
        BY <2>1, <2>4, <3>2
      <4> QED BY <2>2, <2>4, <4>1 DEF After
    <3> QED BY <3>1, <3>2
  <2> QED BY <2>1, <2>3, <2>4 DEF QueueInv
<1> QED
  BY <1>1, <1>2, <1>3, <1>4, StepQueues

----------------------------------------------------------------------------
(* The handover from queue to live delivery *)

\* The session is linked to t, and has taken its queue or never needs to: its link
\* is not older than its count.
Synced(c, t) ==
    /\ t \in links[c]
    /\ cur[c] = t => pc[c] # "take" /\ (pc[c] = "count" => t \in subscribed[c])

\* The message is on its way from the queue to the links.
InRoute(t, m) ==
    /\ m.by \in Publishers
    /\ job[m.by].pc = "route"
    /\ job[m.by].key = t
    /\ m = Current(m.by)

\* What is queued while a session is in step with the topic has reached it, or will.
SyncInv ==
    \A c \in Clients, t \in Topics : Synced(c, t) =>
        \A m \in Elements(offline[t]) :
            <<t, m>> \in Known(c) \cup unrouted \/ InRoute(t, m)

\* No session gets in step, no queue grows, and what has reached a session or was
\* refused stays so.
LEMMA SyncFrame ==
  ASSUME TypeInv, SyncInv,
         \A c \in Clients, t \in Topics : Synced(c, t)' =>
           /\ Synced(c, t) \/ offline'[t] = <<>>
           /\ Known(c) \subseteq Known(c)',
         \A t \in Topics : Elements(offline'[t]) \subseteq Elements(offline[t]),
         unrouted \subseteq unrouted',
         \A t \in Topics, m \in Msg : InRoute(t, m) =>
           \/ InRoute(t, m)'
           \/ <<t, m>> \in unrouted'
           \/ \A c \in Clients : t \in links'[c] => <<t, m>> \in Known(c)'
  PROVE  SyncInv'
<1> SUFFICES ASSUME NEW c \in Clients, NEW t \in Topics, Synced(c, t)',
                    NEW m \in Elements(offline'[t])
             PROVE  <<t, m>> \in Known(c)' \cup unrouted' \/ InRoute(t, m)'
  BY DEF SyncInv
<1>1. Synced(c, t) /\ m \in Elements(offline[t]) /\ Known(c) \subseteq Known(c)'
  BY ElementsEmpty
<1>2. m \in Msg
  BY <1>1, ElementTypes
<1>3. t \in links'[c]
  BY DEF Synced
<1> QED
  BY <1>1, <1>2, <1>3 DEF SyncInv

LEMMA StepSyncInv ==
  ASSUME TypeInv, EmptyInv, OnceInv, LinkInv, SyncInv, [Next]_vars
  PROVE  SyncInv'
<1>0. /\ \A p \in Publishers : Current(p).by = p
      /\ Publishers \cap Clients = {} /\ Publishers \subseteq Sources
      /\ issued \in [Sources -> Nat]
      /\ cur \in [Clients -> Topics \cup {None}]
      /\ links \in [Clients -> SUBSET Topics] /\ pc \in [Clients -> SessionPC]
      /\ subscribed \in [Clients -> SUBSET Topics]
      /\ offline \in [Topics -> Seq(Msg)]
  BY ConstantsAssumption DEF TypeInv, TypeOK, Current, Sources
\* A step of p other than the end of its routing leaves the rest of the routes.
<1>r. ASSUME NEW p \in Publishers, Only(p), job[p].pc # "route",
             \A q \in Publishers \ {p} : issued'[q] = issued[q]
      PROVE  \A t \in Topics, m \in Msg : InRoute(t, m) => InRoute(t, m)'
  BY <1>r DEF InRoute, Only, Current
<1>k. UNCHANGED publishing => \A t \in Topics, m \in Msg : InRoute(t, m) => InRoute(t, m)'
  BY DEF publishing, InRoute, Current
<1>1. CASE Quiet
  <2>1. /\ UNCHANGED <<offline, cur, links, unrouted>>
        /\ \A d \in Clients : Known(d)' = Known(d)
    BY <1>1 DEF Quiet, Known, router, history
  <2>2. \A d \in Clients, t \in Topics : Synced(d, t)' => Synced(d, t)
    BY <2>1, <1>1 DEF Quiet, Synced
  <2> QED BY <1>k, <1>1, <2>1, <2>2, SyncFrame DEF Quiet
<1>2. ASSUME NEW c \in Clients, Ends(c) PROVE SyncInv'
  <2>1. \A d \in Clients, t \in Topics : Synced(d, t)' =>
            Synced(d, t) /\ Known(d)' = Known(d)
    BY <1>2, EndsElements DEF Synced
  <2> QED BY <1>k, <1>2, <2>1, EndsElements, SyncFrame
<1>3. ASSUME NEW c \in Clients, CursorStep(c) PROVE SyncInv'
  <2>1. \A d \in Clients \ {c} :
          cur'[d] = cur[d] /\ pc'[d] = pc[d] /\ subscribed'[d] = subscribed[d]
          /\ links'[d] = links[d]
    BY <1>3, CursorElements
  <2>2. \A t \in Topics : Synced(c, t)' => Synced(c, t)
    <3>1. CASE LinkFilter(c)
      <4>1. PICK u \in todo[c] :
              cur'[c] = u /\ links'[c] = links[c] \cup {u} /\ pc[c] = "filter" /\ pc'[c] = "count"
        BY <1>0, <3>1 DEF LinkFilter
      <4>2. UNCHANGED subscribed
        BY <3>1 DEF LinkFilter
      <4> QED BY <4>1, <4>2 DEF Synced, LinkInv, Leaving
    <3>2. CASE CountSubscription(c)
      BY <1>0, <3>2 DEF CountSubscription, Synced, router
    <3>3. CASE EndFilter(c)
      BY <1>0, <3>3 DEF EndFilter, Synced, router
    <3>4. CASE Unlink(c)
      <4>1. PICK u \in todo[c] :
              cur'[c] = u /\ links'[c] = links[c] \ {u} /\ pc[c] = "unlink" /\ pc'[c] = "uncount"
        BY <1>0, <3>4 DEF Unlink
      <4> QED BY <4>1 DEF Synced
    <3>5. CASE Uncount(c)
      BY <1>0, <3>5 DEF Uncount, Synced, router
    <3> QED BY <1>3, <3>1, <3>2, <3>3, <3>4, <3>5 DEF CursorStep
  <2>3. \A d \in Clients, t \in Topics : Synced(d, t)' => Synced(d, t)
    BY <2>1, <2>2 DEF Synced
  <2> QED BY <1>k, <1>3, <2>3, CursorElements, SyncFrame DEF history
<1>4. ASSUME NEW c \in Clients, TakeOffline(c) PROVE SyncInv'
  <2>1. /\ cur[c] \in Topics /\ offline'[cur[c]] = <<>> /\ Elements(offline'[cur[c]]) = {}
        /\ \A t \in Topics \ {cur[c]} : offline'[t] = offline[t]
        /\ \A d \in Clients \ {c} : pc'[d] = pc[d]
        /\ \A d \in Clients : Known(d)' = Known(d)
        /\ UNCHANGED <<cur, links, subscribed, publishing, unrouted>>
    <3>1. /\ cur[c] \in Topics /\ offline' = [offline EXCEPT ![cur[c]] = <<>>]
          /\ Elements(offline'[cur[c]]) = {}
      BY <1>4, TakeElements
    <3>2. /\ \A d \in Clients \ {c} : pc'[d] = pc[d]
          /\ \A d \in Clients : Known(d)' = Known(d)
          /\ UNCHANGED <<cur, links, subscribed, publishing, unrouted>>
      BY <1>4, TakeElements DEF router, history, Known
    <3> QED BY <1>0, <3>1, <3>2
  <2>2. \A d \in Clients, t \in Topics : Synced(d, t)' => Synced(d, t) \/ offline'[t] = <<>>
    BY <2>1 DEF Synced
  <2> QED BY <1>k, <2>1, <2>2, SyncFrame
<1>5. ASSUME NEW c \in Clients, Replay(c) PROVE SyncInv'
  <2>1. /\ \A d \in Clients : Known(d) \subseteq Known(d)'
        /\ UNCHANGED <<offline, pc, cur, subscribed, links, publishing, unrouted>>
    BY <1>5, ReplayElements DEF router
  <2>2. \A d \in Clients, t \in Topics : Synced(d, t)' => Synced(d, t)
    BY <2>1 DEF Synced
  <2> QED BY <1>k, <2>1, <2>2, SyncFrame
<1>6. ASSUME NEW c \in Clients, Forward(c) PROVE SyncInv'
  <2>1. \A d \in Clients, t \in Topics : Synced(d, t)' => Synced(d, t)
    BY <1>6, ForwardElements DEF Synced, session
  <2> QED BY <1>k, <1>6, <2>1, ForwardElements, SyncFrame
<1>7. ASSUME NEW s \in Clients, NEW u \in Topics, ClientPublish(s, u) PROVE SyncInv'
  <2>1. /\ \A q \in Publishers : issued'[q] = issued[q]
        /\ \A c \in Clients : Known(c) \subseteq Known(c)'
        /\ UNCHANGED <<offline, pc, cur, subscribed, links, job, unrouted>>
    <3>1. /\ issued' = [issued EXCEPT ![s] = @ + 1]
          /\ \A c \in Clients : Known(c) \subseteq Known(c)'
          /\ UNCHANGED <<hub, session, links, job, history>>
      BY <1>7, ClientPublishElements
    <3>2. s \notin Publishers /\ issued \in [Sources -> Nat]
      BY <1>0 DEF TypeInv, TypeOK
    <3> QED BY <3>1, <3>2 DEF hub, session, history
  <2>2. \A d \in Clients, t \in Topics : Synced(d, t)' => Synced(d, t)
    BY <2>1 DEF Synced
  <2>3. \A t \in Topics, m \in Msg : InRoute(t, m) => InRoute(t, m)'
    BY <2>1 DEF InRoute, Current
  <2> QED BY <2>1, <2>2, <2>3, SyncFrame
<1>8. ASSUME NEW p \in Publishers, ReadFlags(p) \/ ReadOnline(p) PROVE SyncInv'
  <2>1. UNCHANGED <<offline, pc, cur, subscribed, links, issued, router, history, unrouted>>
    BY <1>8 DEF ReadFlags, ReadOnline, hub, session, router, history
  <2>2. \A d \in Clients : Known(d)' = Known(d)
    BY <2>1 DEF Known, router, history
  <2>3. \A d \in Clients, t \in Topics : Synced(d, t)' => Synced(d, t)
    BY <2>1 DEF Synced
  <2>4. \A t \in Topics, m \in Msg : InRoute(t, m) => InRoute(t, m)'
    BY <1>8, <1>r, <2>1, ReadMoves
  <2> QED BY <2>1, <2>2, <2>3, <2>4, SyncFrame
<1>9. ASSUME NEW p \in Publishers, Store(p) PROVE SyncInv'
  <2>1. /\ \A t \in Topics : Elements(offline'[t]) \subseteq
             Elements(offline[t]) \cup (IF t = job[p].key THEN {Current(p)} ELSE {})
        /\ UNCHANGED <<pc, cur, subscribed, links, issued, router, history, unrouted>>
    BY <1>9, StoreElements DEF session, router, history
  <2>2. \A d \in Clients : Known(d)' = Known(d)
    BY <2>1 DEF Known, router, history
  <2>3. \A d \in Clients, t \in Topics : Synced(d, t)' => Synced(d, t)
    BY <2>1 DEF Synced
  <2>4. \A t \in Topics, m \in Msg : InRoute(t, m) => InRoute(t, m)'
    BY <1>9, <1>r, <2>1, StoreMoves DEF Store
  <2>5. ASSUME NEW t, NEW m, t = job[p].key, m = Current(p) PROVE InRoute(t, m)'
    BY <1>0, <1>9, <2>1, <2>5, StoreMoves DEF InRoute, Current
  <2>6. ASSUME NEW d \in Clients, NEW t \in Topics, Synced(d, t)', NEW m \in Elements(offline'[t])
        PROVE  <<t, m>> \in Known(d)' \cup unrouted' \/ InRoute(t, m)'
    <3>1. CASE m \in Elements(offline[t])
      BY <2>1, <2>2, <2>3, <2>4, <2>6, <3>1, ElementTypes DEF SyncInv
    <3>2. CASE m \notin Elements(offline[t])
      <4>1. t = job[p].key /\ m = Current(p)
        BY <2>1, <2>6, <3>2
      <4> QED BY <2>5, <4>1
    <3> QED BY <3>1, <3>2
  <2> QED BY <2>6 DEF SyncInv
<1>10. ASSUME NEW p \in Publishers, Route(p) PROVE SyncInv'
  <2>1. /\ \A c \in Clients : Known(c) \subseteq Known(c)'
        /\ \A c \in Clients : job[p].key \in links[c] => <<job[p].key, Current(p)>> \in Known(c)'
        /\ UNCHANGED <<offline, pc, cur, subscribed, links, issued, unrouted>>
        /\ job[p].pc = "route" /\ NextKey(p)
    BY <1>10, RouteElements DEF hub, session, history
  <2>2. Only(p)
    BY <2>1, NextKeyMoves
  <2>3. \A d \in Clients, t \in Topics : Synced(d, t)' => Synced(d, t)
    BY <2>1 DEF Synced
  <2>4. ASSUME NEW t \in Topics, NEW m \in Msg, InRoute(t, m)
        PROVE  InRoute(t, m)' \/ \A c \in Clients : t \in links'[c] => <<t, m>> \in Known(c)'
    BY <2>1, <2>2, <2>4 DEF InRoute, Only, Current
  <2> QED BY <2>1, <2>3, <2>4, SyncFrame
<1>11. ASSUME NEW p \in Publishers, RouteFails(p) PROVE SyncInv'
  <2>1. /\ UNCHANGED <<offline, pc, cur, subscribed, links, issued, inbox, wrote>>
        /\ unrouted' = unrouted \cup {<<job[p].key, Current(p)>>}
        /\ job[p].pc = "route" /\ NextKey(p)
    BY <1>11 DEF RouteFails, hub, session, router
  <2>2. Only(p)
    BY <2>1, NextKeyMoves
  <2>3. \A d \in Clients, t \in Topics : Synced(d, t)' => Synced(d, t)
    BY <2>1 DEF Synced
  <2>4. ASSUME NEW t \in Topics, NEW m \in Msg, InRoute(t, m)
        PROVE  InRoute(t, m)' \/ <<t, m>> \in unrouted'
    BY <2>1, <2>2, <2>4 DEF InRoute, Only, Current
  <2>5. \A d \in Clients : Known(d)' = Known(d)
    BY <2>1 DEF Known
  <2> QED BY <2>1, <2>3, <2>4, <2>5, SyncFrame
<1>12. ASSUME NEW p \in Publishers, Request(p) PROVE SyncInv'
  <2>1. /\ Only(p) /\ \A q \in Publishers \ {p} : issued'[q] = issued[q]
        /\ UNCHANGED <<offline, pc, cur, subscribed, links, unrouted>> /\ job[p].pc = "idle"
        /\ \A d \in Clients : Known(d)' = Known(d)
    BY <1>0, <1>12, RequestMoves DEF hub, session, router, history, Known
  <2>2. \A d \in Clients, t \in Topics : Synced(d, t)' => Synced(d, t)
    BY <2>1 DEF Synced
  <2> QED BY <1>r, <2>1, <2>2, SyncFrame
<1> QED
  BY <1>1, <1>2, <1>3, <1>4, <1>5, <1>6, <1>7, <1>8, <1>9, <1>10, <1>11, <1>12,
     StepMoves DEF Move, SessionMove, CursorStep, PublishStep

----------------------------------------------------------------------------
(* Replay and live delivery of one publisher's messages *)

\* m is no later than e, of the same source.
Behind(m, e) == m.by = e.by /\ m.n <= e.n

\* What a session may still be replayed of t: what it has taken and what is queued.
Ahead(c, t) == Elements(offline[t]) \cup (IF cur[c] = t THEN Elements(pending[c]) ELSE {})

\* A message a session may be replayed after a later one of its publisher was
\* written to it has been written too.
WroteInv ==
    \A c \in Clients, t \in Topics : \A m \in Ahead(c, t) : \A e \in wrote[c] :
        (e[1] = t /\ Behind(m, e[2])) => <<t, m>> \in wrote[c] \cup unrouted

\* Between its link and its taking of the queue a session may be routed a message
\* whose predecessors it has still to be replayed; outside that window it is not.
Taking(c, t) == cur[c] = t /\ pc[c] \in {"count", "take"}

\* The i-th message routed to c is of topic t and no earlier than m.
Passed(c, t, m, i) == inbox[c][i][1] = t /\ Behind(m, inbox[c][i][2])

\* m is written to c, or refused, or routed to c before the i-th message or as it.
Covered(c, t, m, i) ==
    <<t, m>> \in wrote[c] \cup unrouted \/ \E j \in 1..i : inbox[c][j] = <<t, m>>

InboxInv ==
    \A c \in Clients, t \in Topics : ~Taking(c, t) =>
        \A m \in Elements(offline[t]) : \A i \in DOMAIN inbox[c] :
            Passed(c, t, m, i) => Covered(c, t, m, i)

\* Only a replay and a forward write to a socket.
LEMMA StepWrote ==
  ASSUME TypeInv, EmptyInv, [Next]_vars
  PROVE  /\ unrouted \subseteq unrouted'
         /\ \/ \A c \in Clients : wrote'[c] \in {wrote[c], {}}
            \/ \E c \in Clients : Replay(c) \/ Forward(c)
<1> DEFINE Still == unrouted \subseteq unrouted' /\ \A c \in Clients : wrote'[c] \in {wrote[c], {}}
<1> USE DEF history
<1>1. ASSUME Quiet PROVE Still
  BY <1>1 DEF Quiet
<1>2. ASSUME NEW c \in Clients, Ends(c) PROVE Still
  BY <1>2, EndsElements
<1>3. ASSUME NEW c \in Clients, CursorStep(c) PROVE Still
  BY <1>3, CursorElements
<1>4. ASSUME NEW c \in Clients, TakeOffline(c) PROVE Still
  BY <1>4, TakeElements
<1>5. ASSUME NEW c \in Clients, Replay(c) \/ Forward(c) PROVE unrouted \subseteq unrouted'
  BY <1>5 DEF Replay, Forward
<1>6. ASSUME NEW s \in Clients, NEW u \in Topics, ClientPublish(s, u) PROVE Still
  BY <1>6, ClientPublishElements
<1>7. ASSUME NEW p \in Publishers, PublishStep(p) PROVE Still
  BY <1>7 DEF PublishStep, ReadFlags, ReadOnline, Store, Route, RouteFails
<1>8. ASSUME NEW p \in Publishers, Request(p) PROVE Still
  BY <1>8, RequestMoves
<1> QED
  BY <1>1, <1>2, <1>3, <1>4, <1>5, <1>6, <1>7, <1>8, StepMoves DEF Move, SessionMove, CursorStep

LEMMA StepWroteInv ==
  ASSUME TypeInv, EmptyInv, SourceInv, FreshInv, QueueInv, InboxInv, WroteInv, [Next]_vars
  PROVE  WroteInv'
<1>0. /\ pending \in [Clients -> Seq(Msg)] /\ offline \in [Topics -> Seq(Msg)]
      /\ cur \in [Clients -> Topics \cup {None}] /\ wrote \in [Clients -> SUBSET Delivery]
      /\ \A t \in Topics, c \in Clients : Ahead(c, t) \subseteq Msg
      /\ \A d \in Delivery : d[2] \in Msg
      /\ unrouted \subseteq unrouted'
  BY ElementTypes, StepWrote DEF TypeInv, TypeOK, Ahead, Delivery
<1>1. ASSUME \A c \in Clients : wrote'[c] \in {wrote[c], {}},
             \A c \in Clients, t \in Topics : Ahead(c, t)' \subseteq Ahead(c, t)
      PROVE  WroteInv'
  BY <1>0, <1>1 DEF WroteInv
<1>2. ASSUME Kept PROVE \A c \in Clients, t \in Topics : Ahead(c, t)' \subseteq Ahead(c, t)
  BY <1>2, ElementsEmpty DEF Kept, Ahead
<1>3. ASSUME NEW c \in Clients, Forward(c) PROVE WroteInv'
  <2> DEFINE d == Head(inbox[c])
  <2>1. /\ pc[c] = "loop" /\ offline' = offline /\ cur' = cur /\ pending' = pending
        /\ wrote' = [wrote EXCEPT ![c] = wrote[c] \cup {d}] /\ unrouted' = unrouted
    BY <1>3, ForwardElements DEF session
  <2>2. 1 \in DOMAIN inbox[c] /\ inbox[c][1] = d
    BY <1>3 DEF Forward, TypeInv, TypeOK
  <2>3. pending[c] = <<>> /\ \A t \in Topics : ~Taking(c, t) /\ Ahead(c, t) = Elements(offline[t])
    BY <1>3, <2>1, ElementsEmpty DEF EmptyInv, Taking, Ahead
  <2>4. ASSUME NEW t \in Topics, NEW m \in Elements(offline[t]), d[1] = t, Behind(m, d[2])
        PROVE  <<t, m>> \in wrote'[c] \cup unrouted
    <3>1. ~Taking(c, t) /\ Passed(c, t, m, 1)
      BY <2>2, <2>3, <2>4 DEF Passed
    <3>2. Covered(c, t, m, 1)
      BY <2>2, <3>1 DEF InboxInv
    <3> QED BY <1>0, <2>1, <2>2, <3>2 DEF Covered
  <2>5. \A b \in Clients, t \in Topics : Ahead(b, t)' = Ahead(b, t)
    BY <2>1 DEF Ahead
  <2>6. wrote'[c] = wrote[c] \cup {d} /\ \A b \in Clients \ {c} : wrote'[b] = wrote[b]
    BY <1>0, <2>1
  <2>7. ASSUME NEW b \in Clients, NEW t \in Topics, NEW m \in Ahead(b, t), NEW e \in wrote'[b],
               e[1] = t, Behind(m, e[2])
        PROVE  <<t, m>> \in wrote'[b] \cup unrouted
    <3>1. CASE e \in wrote[b]
      BY <2>6, <2>7, <3>1 DEF WroteInv
    <3>2. CASE e \notin wrote[b]
      <4>1. b = c /\ e = d
        BY <2>6, <2>7, <3>2
      <4> QED BY <2>3, <2>4, <2>7, <4>1
    <3> QED BY <3>1, <3>2
  <2> QED BY <2>1, <2>5, <2>7 DEF WroteInv
<1>4. ASSUME NEW c \in Clients, Replay(c) PROVE WroteInv'
  <2> DEFINE h == Head(pending[c])
  <2>1. /\ cur[c] \in Topics /\ pending[c] # <<>>
        /\ Elements(pending[c]) = Elements(pending'[c]) \cup {h}
        /\ pending' = [pending EXCEPT ![c] = Tail(pending[c])]
        /\ wrote' = [wrote EXCEPT ![c] = wrote[c] \cup {<<cur[c], h>>}]
        /\ UNCHANGED <<offline, cur, unrouted>>
    BY <1>4, ReplayElements DEF Replay
  <2>2. /\ pending'[c] = Tail(pending[c])
        /\ \A b \in Clients \ {c} : pending'[b] = pending[b] /\ wrote'[b] = wrote[b]
        /\ wrote'[c] = wrote[c] \cup {<<cur[c], h>>}
    BY <1>0, <2>1
  <2>3. \A b \in Clients, t \in Topics : Ahead(b, t)' \subseteq Ahead(b, t)
    BY <2>1, <2>2 DEF Ahead
  \* The queue of the topic and the rest of the replay come after the head.
  <2>4. ASSUME NEW t \in Topics, t = cur[c], NEW m \in Ahead(c, t)' PROVE ~Behind(m, h)
    <3>1. pending[c] \in Seq(Msg) /\ Ascends(pending[c])
      BY <1>0 DEF QueueInv
    <3>2. \A x \in Elements(Tail(pending[c])) : x.by = h.by => h.n < x.n
      BY <2>1, <3>1, AscendsTail
    <3>3. \A x \in Elements(offline[t]) : h.by = x.by => h.n < x.n
      BY <2>1, <2>4 DEF QueueInv
    <3>4. m.by = h.by => h.n < m.n
      BY <2>1, <2>2, <2>4, <3>2, <3>3 DEF Ahead
    <3>5. h \in Msg /\ m \in Msg
      BY <1>0, <2>1, <2>3, ElementTypes
    <3> QED BY <3>4, <3>5 DEF Behind, Msg
  <2>5. ASSUME NEW b \in Clients, NEW t \in Topics, NEW m \in Ahead(b, t)', NEW e \in wrote'[b],
               e[1] = t, Behind(m, e[2])
        PROVE  <<t, m>> \in wrote'[b] \cup unrouted
    <3>1. CASE e \in wrote[b]
      BY <2>2, <2>3, <2>5, <3>1 DEF WroteInv
    <3>2. CASE e \notin wrote[b]
      <4>1. b = c /\ e = <<cur[c], h>> /\ t = cur[c]
        BY <2>2, <2>5, <3>2
      <4> QED BY <2>4, <2>5, <4>1
    <3> QED BY <3>1, <3>2
  <2> QED BY <2>1, <2>5 DEF WroteInv
<1>5. ASSUME NEW c \in Clients, TakeOffline(c) PROVE WroteInv'
  <2>1. /\ cur[c] \in Topics /\ Elements(offline'[cur[c]]) = {} /\ cur' = cur /\ wrote' = wrote
        /\ pending'[c] = offline[cur[c]]
        /\ \A d \in Clients \ {c} : pending'[d] = pending[d]
        /\ \A t \in Topics \ {cur[c]} : offline'[t] = offline[t]
    BY <1>5, TakeElements DEF history
  <2>2. \A d \in Clients, t \in Topics : Ahead(d, t)' \subseteq Ahead(d, t)
    BY <2>1 DEF Ahead
  <2> QED BY <1>1, <2>1, <2>2
<1>6. ASSUME NEW p \in Publishers, Store(p) PROVE WroteInv'
  <2>1. /\ job[p].key \in Topics /\ job[p].key \in Waiting(p)
        /\ \A t \in Topics : Elements(offline'[t]) \subseteq
             Elements(offline[t]) \cup (IF t = job[p].key THEN {Current(p)} ELSE {})
        /\ UNCHANGED <<pending, cur, wrote, unrouted>>
    BY <1>6, StoreElements DEF session, history, Store, Waiting
  <2>2. \A c \in Clients : \A e \in wrote[c] : e[1] = job[p].key => ~Behind(Current(p), e[2])
    <3>1. \A c \in Clients : \A e \in wrote[c] :
            e \in Known(c) /\ e \in Delivery /\ e[2] \in Msg
      BY <1>0 DEF Known
    <3>2. \A c \in Clients : \A e \in wrote[c] :
            e[1] = job[p].key /\ e[2].by = p => e[2].n < Current(p).n
      BY <2>1, <3>1, CurrentIsLater
    <3>3. Current(p).by = p /\ Current(p) \in Msg
      BY ElementTypes DEF Current
    <3> QED BY <3>1, <3>2, <3>3 DEF Behind, Msg
  <2>3. \A c \in Clients, t \in Topics : \A m \in Ahead(c, t)' :
          m \in Ahead(c, t) \/ (t = job[p].key /\ m = Current(p))
    BY <2>1 DEF Ahead
  <2> QED BY <2>1, <2>2, <2>3 DEF WroteInv
<1>7. CASE Kept
  BY <1>1, <1>2, <1>3, <1>4, <1>7, StepWrote
<1> QED
  BY <1>4, <1>5, <1>6, <1>7, StepQueues

\* Nothing is routed to a session, no queue grows, and no session leaves its window.
LEMMA InboxFrame ==
  ASSUME TypeInv, InboxInv,
         \A c \in Clients :
           inbox'[c] = <<>> \/ (inbox'[c] = inbox[c] /\ wrote[c] \subseteq wrote'[c]),
         unrouted \subseteq unrouted',
         \A t \in Topics :
           \/ offline'[t] = <<>>
           \/ /\ offline'[t] = offline[t]
              /\ \A c \in Clients : Taking(c, t) => Taking(c, t)' \/ inbox'[c] = <<>>
  PROVE  InboxInv'
<1> SUFFICES ASSUME NEW c \in Clients, NEW t \in Topics, ~Taking(c, t)',
                    NEW m \in Elements(offline'[t]), NEW i \in DOMAIN inbox'[c],
                    Passed(c, t, m, i)'
             PROVE  Covered(c, t, m, i)'
  BY DEF InboxInv
<1>1. inbox'[c] = inbox[c] /\ wrote[c] \subseteq wrote'[c] /\ inbox'[c] # <<>>
  OBVIOUS
<1>2. offline'[t] = offline[t]
  BY ElementsEmpty
<1>3. ~Taking(c, t)
  BY <1>1, <1>2, ElementsEmpty
<1>4. Passed(c, t, m, i) /\ (Covered(c, t, m, i) => Covered(c, t, m, i)')
  BY <1>1 DEF Passed, Covered
<1> QED
  BY <1>1, <1>2, <1>3, <1>4 DEF InboxInv

LEMMA StepInboxInv ==
  ASSUME TypeInv, EmptyInv, OnceInv, SourceInv, FreshInv, SyncInv, InboxInv, [Next]_vars
  PROVE  InboxInv'
<1>0. /\ inbox \in [Clients -> Seq(Delivery)] /\ offline \in [Topics -> Seq(Msg)]
      /\ cur \in [Clients -> Topics \cup {None}] /\ pc \in [Clients -> SessionPC]
      /\ wrote \in [Clients -> SUBSET Delivery]
      /\ \A p \in Publishers : Current(p).by = p /\ Current(p) \in Msg
      /\ Publishers \cap Clients = {}
  BY ConstantsAssumption, ElementTypes DEF TypeInv, TypeOK, Current
<1>1. CASE Quiet
  <2>1. \A c \in Clients, t \in Topics : Taking(c, t) => Taking(c, t)'
    BY <1>1 DEF Quiet, Taking
  <2> QED BY <1>1, <2>1, InboxFrame DEF Quiet, router, history
<1>2. ASSUME NEW c \in Clients, Ends(c) PROVE InboxInv'
  <2>1. /\ inbox'[c] = <<>> /\ UNCHANGED <<offline, unrouted>>
        /\ \A d \in Clients \ {c} : cur'[d] = cur[d] /\ pc'[d] = pc[d]
             /\ inbox'[d] = inbox[d] /\ wrote'[d] = wrote[d]
    BY <1>0, <1>2, EndsElements DEF Ends
  <2>2. \A d \in Clients \ {c}, t \in Topics : Taking(d, t) => Taking(d, t)'
    BY <2>1 DEF Taking
  <2> QED BY <2>1, <2>2, InboxFrame
<1>3. ASSUME NEW c \in Clients, CursorStep(c) PROVE InboxInv'
  <2>1. /\ UNCHANGED <<offline, inbox, wrote, unrouted>>
        /\ \A d \in Clients \ {c} : cur'[d] = cur[d] /\ pc'[d] = pc[d]
    BY <1>3, CursorElements DEF history
  <2>2. \A t \in Topics : Taking(c, t) => Taking(c, t)'
    BY <1>0, <1>3 DEF CursorStep, LinkFilter, CountSubscription, EndFilter, Unlink, Uncount, Taking
  <2>3. \A d \in Clients, t \in Topics : Taking(d, t) => Taking(d, t)'
    BY <2>1, <2>2 DEF Taking
  <2> QED BY <2>1, <2>3, InboxFrame
<1>4. ASSUME NEW c \in Clients, TakeOffline(c) PROVE InboxInv'
  <2>1. /\ cur[c] \in Topics /\ offline'[cur[c]] = <<>>
        /\ \A t \in Topics \ {cur[c]} : offline'[t] = offline[t]
    BY <1>0, <1>4, TakeElements
  <2>2. /\ \A d \in Clients \ {c} : pc'[d] = pc[d]
        /\ UNCHANGED <<cur, inbox, wrote, unrouted>>
    BY <1>4, TakeElements DEF router, history
  <2>3. \A t \in Topics \ {cur[c]}, d \in Clients : Taking(d, t) => Taking(d, t)'
    BY <2>2 DEF Taking
  <2> QED BY <2>1, <2>2, <2>3, InboxFrame
<1>5. ASSUME NEW c \in Clients, Replay(c) PROVE InboxInv'
  <2>1. /\ UNCHANGED <<offline, pc, cur, inbox, unrouted>>
        /\ \A d \in Clients : wrote[d] \subseteq wrote'[d]
    <3>1. wrote' = [wrote EXCEPT ![c] = wrote[c] \cup {<<cur[c], Head(pending[c])>>}]
      BY <1>5, ReplayElements
    <3>2. UNCHANGED <<offline, pc, cur, inbox, unrouted>>
      BY <1>5, ReplayElements DEF router
    <3> QED BY <1>0, <3>1, <3>2
  <2>2. \A d \in Clients, t \in Topics : Taking(d, t) => Taking(d, t)'
    BY <2>1 DEF Taking
  <2> QED BY <2>1, <2>2, InboxFrame
<1>6. ASSUME NEW c \in Clients, Forward(c) PROVE InboxInv'
  <2>1. /\ offline' = offline /\ UNCHANGED <<cur, pc, unrouted>>
        /\ inbox' = [inbox EXCEPT ![c] = Tail(inbox[c])] /\ inbox[c] # <<>>
        /\ wrote' = [wrote EXCEPT ![c] = wrote[c] \cup {Head(inbox[c])}]
    BY <1>6, ForwardElements DEF session, Forward
  <2>2. /\ inbox'[c] = Tail(inbox[c]) /\ wrote'[c] = wrote[c] \cup {inbox[c][1]}
        /\ \A d \in Clients \ {c} : inbox'[d] = inbox[d] /\ wrote'[d] = wrote[d]
        /\ \A i \in DOMAIN Tail(inbox[c]) :
             i \in Nat /\ i + 1 \in DOMAIN inbox[c] /\ Tail(inbox[c])[i] = inbox[c][i + 1]
        /\ DOMAIN Tail(inbox[c]) = 1..(Len(inbox[c]) - 1)
    BY <1>0, <2>1, ElementsTail
  <2>3. ASSUME NEW d \in Clients, NEW t \in Topics, ~Taking(d, t)',
               NEW m \in Elements(offline'[t]), NEW i \in DOMAIN inbox'[d],
               Passed(d, t, m, i)'
        PROVE  Covered(d, t, m, i)'
    <3>1. ~Taking(d, t) /\ m \in Elements(offline[t])
      BY <2>1, <2>3 DEF Taking
    <3>2. CASE d # c
      <4>1. i \in DOMAIN inbox[d] /\ Passed(d, t, m, i)
        BY <2>2, <2>3, <3>2 DEF Passed
      <4>2. Covered(d, t, m, i)
        BY <2>3, <3>1, <4>1 DEF InboxInv
      <4> QED BY <2>1, <2>2, <3>2, <4>2 DEF Covered
    <3>3. CASE d = c
      <4>1. /\ i \in 1..(Len(inbox[c]) - 1) /\ i + 1 \in DOMAIN inbox[c]
            /\ Passed(c, t, m, i + 1)
        BY <2>2, <2>3, <3>3 DEF Passed
      <4>2. CASE <<t, m>> \in wrote[c] \cup unrouted
        BY <2>1, <2>2, <3>3, <4>2 DEF Covered
      <4>3. CASE <<t, m>> \notin wrote[c] \cup unrouted
        <5>0. Covered(c, t, m, i + 1)
          <6>1. ~Taking(c, t) /\ m \in Elements(offline[t])
            BY <3>1, <3>3
          <6> QED BY <4>1, <6>1 DEF InboxInv
        <5>1. PICK j \in 1..(i + 1) : inbox[c][j] = <<t, m>>
          BY <4>3, <5>0 DEF Covered
        <5>2. CASE j = 1
          BY <2>1, <2>2, <3>3, <5>1, <5>2 DEF Covered
        <5>3. CASE j # 1
          <6>1. j - 1 \in 1..i /\ j - 1 \in DOMAIN Tail(inbox[c]) /\ (j - 1) + 1 = j
            BY <2>2, <4>1, <5>3
          <6>2. inbox'[c][j - 1] = <<t, m>>
            BY <2>2, <5>1, <6>1
          <6> QED BY <3>3, <6>1, <6>2 DEF Covered
        <5> QED BY <5>2, <5>3
      <4> QED BY <4>2, <4>3
    <3> QED BY <3>2, <3>3
  <2> QED BY <2>1, <2>3 DEF InboxInv
<1>7. ASSUME NEW s \in Clients, NEW u \in Topics, ClientPublish(s, u) PROVE InboxInv'
  <2>1. /\ \A c \in Clients : inbox'[c] = inbox[c]
             \/ inbox'[c] = Append(inbox[c], <<u, [by |-> s, n |-> issued[s] + 1]>>)
        /\ UNCHANGED <<offline, cur, pc, wrote, unrouted>>
    BY <1>7, ClientPublishElements DEF hub, session, history
  <2>2. \A t \in Topics : \A m \in Elements(offline[t]) : m.by # s
    BY <1>0 DEF SourceInv
  <2>3. ASSUME NEW c \in Clients, NEW t \in Topics, ~Taking(c, t)',
               NEW m \in Elements(offline'[t]), NEW i \in DOMAIN inbox'[c],
               Passed(c, t, m, i)'
        PROVE  Covered(c, t, m, i)'
    <3>1. ~Taking(c, t) /\ m \in Elements(offline[t])
      BY <2>1, <2>3 DEF Taking
    <3>2. CASE inbox'[c] = inbox[c]
      <4>1. i \in DOMAIN inbox[c] /\ Passed(c, t, m, i)
        BY <2>3, <3>2 DEF Passed
      <4>2. Covered(c, t, m, i)
        BY <3>1, <4>1 DEF InboxInv
      <4> QED BY <2>1, <3>2, <4>2 DEF Covered
    <3>3. CASE inbox'[c] = Append(inbox[c], <<u, [by |-> s, n |-> issued[s] + 1]>>)
      <4>1. i \in DOMAIN inbox[c] /\ \A j \in 1..i : inbox'[c][j] = inbox[c][j]
        <5>1. inbox'[c][Len(inbox[c]) + 1][2].by = s
          BY <1>0, <3>3
        <5>2. i # Len(inbox[c]) + 1
          BY <2>2, <2>3, <3>1, <5>1 DEF Passed, Behind
        <5> QED BY <1>0, <2>3, <3>3, <5>2
      <4>2. i \in 1..i
        BY <1>0, <4>1
      <4>3. Passed(c, t, m, i)
        BY <2>3, <4>1, <4>2 DEF Passed
      <4>4. Covered(c, t, m, i)
        BY <3>1, <4>1, <4>3 DEF InboxInv
      <4> QED BY <2>1, <4>1, <4>4 DEF Covered
    <3> QED BY <2>1, <3>2, <3>3
  <2> QED BY <2>1, <2>3 DEF InboxInv
<1>8. ASSUME NEW p \in Publishers, ReadFlags(p) \/ ReadOnline(p) PROVE InboxInv'
  <2>1. UNCHANGED <<offline, cur, pc, inbox, wrote, unrouted>>
    BY <1>8 DEF ReadFlags, ReadOnline, hub, session, router, history
  <2>2. \A d \in Clients, t \in Topics : Taking(d, t) => Taking(d, t)'
    BY <2>1 DEF Taking
  <2> QED BY <2>1, <2>2, InboxFrame
<1>9. ASSUME NEW p \in Publishers, Store(p) PROVE InboxInv'
  <2>1. /\ job[p].key \in Topics /\ job[p].key \in Waiting(p)
        /\ \A t \in Topics : Elements(offline'[t]) \subseteq
             Elements(offline[t]) \cup (IF t = job[p].key THEN {Current(p)} ELSE {})
        /\ UNCHANGED <<inbox, cur, pc, wrote, unrouted>>
    BY <1>9, StoreElements DEF session, router, history, Store, Waiting
  <2>2. ASSUME NEW c \in Clients, NEW i \in DOMAIN inbox[c], inbox[c][i][1] = job[p].key
        PROVE  ~Behind(Current(p), inbox[c][i][2])
    <3>1. inbox[c][i] \in Known(c) /\ inbox[c][i][2] \in Msg
      BY <1>0 DEF Known, Elements, Delivery
    <3>2. inbox[c][i][2].by = p => inbox[c][i][2].n < Current(p).n
      BY <2>1, <2>2, <3>1, CurrentIsLater
    <3> QED BY <1>0, <3>1, <3>2 DEF Behind, Msg
  <2>3. ASSUME NEW c \in Clients, NEW t \in Topics, ~Taking(c, t)',
               NEW m \in Elements(offline'[t]), NEW i \in DOMAIN inbox'[c],
               Passed(c, t, m, i)'
        PROVE  Covered(c, t, m, i)'
    <3>1. ~Taking(c, t)
      BY <2>1, <2>3 DEF Taking
    <3>2. i \in DOMAIN inbox[c] /\ Passed(c, t, m, i)
      BY <2>1, <2>3 DEF Passed
    <3>3. m \in Elements(offline[t])
      BY <2>1, <2>2, <2>3, <3>2 DEF Passed
    <3>4. Covered(c, t, m, i)
      BY <3>1, <3>2, <3>3 DEF InboxInv
    <3> QED BY <2>1, <3>4 DEF Covered
  <2> QED BY <2>1, <2>3 DEF InboxInv
<1>10. ASSUME NEW p \in Publishers, Route(p) PROVE InboxInv'
  <2>1. /\ job[p].key \in Topics /\ job[p].pc = "route"
        /\ \A c \in Clients :
             /\ job[p].key \in links[c] =>
                  inbox'[c] = Append(inbox[c], <<job[p].key, Current(p)>>)
             /\ job[p].key \notin links[c] => inbox'[c] = inbox[c]
        /\ UNCHANGED <<offline, cur, pc, wrote, unrouted>>
    BY <1>10, RouteElements DEF hub, session, history
  <2>2. ASSUME NEW c \in Clients, NEW t \in Topics, ~Taking(c, t)',
               NEW m \in Elements(offline'[t]), NEW i \in DOMAIN inbox'[c],
               Passed(c, t, m, i)'
        PROVE  Covered(c, t, m, i)'
    <3>1. ~Taking(c, t) /\ m \in Elements(offline[t])
      BY <2>1, <2>2 DEF Taking
    <3>2. CASE inbox'[c] = inbox[c]
      <4>1. i \in DOMAIN inbox[c] /\ Passed(c, t, m, i)
        BY <2>2, <3>2 DEF Passed
      <4>2. Covered(c, t, m, i)
        BY <3>1, <4>1 DEF InboxInv
      <4> QED BY <2>1, <3>2, <4>2 DEF Covered
    <3>3. CASE inbox'[c] = Append(inbox[c], <<job[p].key, Current(p)>>)
               /\ job[p].key \in links[c]
      <4>1. /\ \A j \in DOMAIN inbox[c] : inbox'[c][j] = inbox[c][j]
            /\ inbox'[c][Len(inbox[c]) + 1] = <<job[p].key, Current(p)>>
            /\ DOMAIN inbox[c] = 1..Len(inbox[c]) /\ Len(inbox[c]) \in Nat
            /\ DOMAIN inbox'[c] = 1..(Len(inbox[c]) + 1)
        BY <1>0, <3>3
      <4>2. CASE i \in DOMAIN inbox[c]
        <5>1. \A j \in 1..i : inbox'[c][j] = inbox[c][j]
          BY <4>1, <4>2
        <5>2. i \in 1..i
          BY <4>1, <4>2
        <5>3. Passed(c, t, m, i)
          BY <2>2, <5>1, <5>2 DEF Passed
        <5>4. Covered(c, t, m, i)
          BY <3>1, <4>2, <5>3 DEF InboxInv
        <5> QED BY <2>1, <5>1, <5>4 DEF Covered
      \* The message just routed: what is queued ahead of it has reached c before.
      <4>3. CASE i = Len(inbox[c]) + 1
        <5>1. t = job[p].key /\ m.by = p
          BY <1>0, <2>2, <4>1, <4>3 DEF Passed, Behind
        <5>2. Synced(c, t)
          BY <3>1, <3>3, <5>1 DEF Synced, Taking
        <5>3. <<t, m>> \in Known(c) \cup unrouted \/ m = Current(p)
          BY <3>1, <5>1, <5>2 DEF SyncInv, InRoute
        <5>4. CASE m = Current(p)
          BY <4>1, <4>3, <5>1, <5>4 DEF Covered
        <5>5. CASE <<t, m>> \in Elements(inbox[c])
          <6>1. PICK j \in DOMAIN inbox[c] : inbox[c][j] = <<t, m>>
            BY <5>5 DEF Elements
          <6> QED BY <4>1, <4>3, <6>1 DEF Covered
        <5>6. CASE <<t, m>> \in wrote[c] \cup unrouted
          BY <2>1, <5>6 DEF Covered
        <5> QED BY <5>3, <5>4, <5>5, <5>6 DEF Known
      <4> QED BY <2>2, <4>1, <4>2, <4>3
    <3> QED BY <2>1, <3>2, <3>3
  <2> QED BY <2>1, <2>2 DEF InboxInv
<1>11. ASSUME NEW p \in Publishers, RouteFails(p) PROVE InboxInv'
  <2>1. /\ UNCHANGED <<offline, cur, pc, inbox, wrote>>
        /\ unrouted \subseteq unrouted'
    BY <1>11 DEF RouteFails, hub, session, router
  <2>2. \A d \in Clients, t \in Topics : Taking(d, t) => Taking(d, t)'
    BY <2>1 DEF Taking
  <2> QED BY <2>1, <2>2, InboxFrame
<1>12. ASSUME NEW p \in Publishers, Request(p) PROVE InboxInv'
  <2>1. UNCHANGED <<offline, cur, pc, inbox, wrote, unrouted>>
    BY <1>12, RequestMoves DEF hub, session, router, history
  <2>2. \A d \in Clients, t \in Topics : Taking(d, t) => Taking(d, t)'
    BY <2>1 DEF Taking
  <2> QED BY <2>1, <2>2, InboxFrame
<1> QED
  BY <1>1, <1>2, <1>3, <1>4, <1>5, <1>6, <1>7, <1>8, <1>9, <1>10, <1>11, <1>12,
     StepMoves DEF Move, SessionMove, CursorStep, PublishStep

----------------------------------------------------------------------------
(* The messages: the theorems *)

\* The inductive invariant about messages, and what each part is for: SourceInv and
\* FreshInv say where a message cannot be yet, QueueInv orders queues and replays,
\* SyncInv is the handover, InboxInv and WroteInv carry the order to the socket.
MessageInv ==
    /\ JobInv /\ LinkInv
    /\ SourceInv /\ FreshInv /\ ReplayedOnce
    /\ QueueInv /\ SyncInv /\ InboxInv /\ WroteInv

LEMMA InitMessageInv == Init => MessageInv
<1> SUFFICES ASSUME Init PROVE MessageInv
  OBVIOUS
<1>1. JobInv /\ LinkInv
  BY InitJobInv DEF Init, LinkInv
<1>2. /\ \A t \in Topics : offline[t] = <<>> /\ Elements(offline[t]) = {}
      /\ \A c \in Clients : /\ pending[c] = <<>> /\ Elements(pending[c]) = {}
                            /\ inbox[c] = <<>> /\ DOMAIN inbox[c] = {}
                            /\ wrote[c] = {} /\ Known(c) = {} /\ cur[c] = None
      /\ \A p \in Publishers : Waiting(p) = {}
  BY ElementsEmpty DEF Init, Idle, Waiting, Known
<1>3. Ascends(<<>>)
  BY DEF Ascends
<1> QED
  BY <1>1, <1>2, <1>3 DEF MessageInv, SourceInv, FreshInv, ReplayedOnce, QueueInv, SyncInv,
                          InboxInv, WroteInv

LEMMA StepMessageInv == MessageInv /\ [Next]_vars => MessageInv'
  BY StepJobInv, StepLinkInv, StepSourceInv, StepFreshInv, StepReplayedOnce, StepQueueInv,
     StepSyncInv, StepInboxInv, StepWroteInv
  DEF MessageInv, JobInv

LEMMA MessagesKept == Spec => []MessageInv
  BY InitMessageInv, StepMessageInv, PTL DEF Spec

\* take_offline hands a queue to one session (mqtt.rs:191-194, 396-411): no two
\* sessions replay the same message of a topic and none replays one that is still
\* queued, whatever other sessions, publishers and resubscriptions do meanwhile.
THEOREM EachReplayedOnce == Spec => []ReplayedOnce
<1>1. MessageInv => ReplayedOnce
  BY DEF MessageInv
<1> QED
  BY <1>1, MessagesKept, PTL

\* The two orders of mqtt.rs, link, count, take in SUBSCRIBE (:386-398) and store,
\* route in publish (:176-189), lose no message between them: what is queued while a
\* session has taken the queue and holds the topic has reached it or is being routed.
THEOREM HandoverIsSafe == Spec => []HandoverLosesNothing
<1>1. MessageInv => HandoverLosesNothing
  <2> SUFFICES ASSUME MessageInv, NEW t \in Topics, NEW c \in Clients,
                      t \in subscribed[c], ~Leaving(c, t), ~(pc[c] = "take" /\ cur[c] = t),
                      NEW m \in Elements(offline[t])
               PROVE  <<t, m>> \in Known(c) \cup unrouted \/ InRoute(t, m)
    BY DEF HandoverLosesNothing, Known, InRoute
  <2>1. Synced(c, t)
    BY DEF MessageInv, LinkInv, Synced
  <2> QED BY <2>1 DEF MessageInv, SyncInv
<1> QED
  BY <1>1, MessagesKept, PTL

\* Replay never runs backwards (mqtt.rs:396-411 before :427-431): a message written
\* by replay for the first time comes before every message of its publisher that the
\* session was written earlier, unless the router refused it.
THEOREM ReplayKeepsOrder == Spec => ReplayNotOvertaken
<1> DEFINE Order == \A c \in Clients :
                      \A d \in (wrote'[c] \ wrote[c]) \ unrouted :
                        \A e \in wrote[c] :
                          (pending'[c] # pending[c] /\ e[1] = d[1] /\ e[2].by = d[2].by)
                             => e[2].n < d[2].n
<1>1. ASSUME MessageInv, [Next]_vars PROVE Order
  <2> SUFFICES ASSUME NEW c \in Clients, NEW d \in (wrote'[c] \ wrote[c]) \ unrouted,
                      NEW e \in wrote[c],
                      pending'[c] # pending[c], e[1] = d[1], e[2].by = d[2].by
               PROVE  e[2].n < d[2].n
    OBVIOUS
  <2>0. TypeInv /\ EmptyInv /\ WroteInv
    BY <1>1 DEF MessageInv, JobInv
  <2>1. PICK b \in Clients : Replay(b) \/ Forward(b)
    BY <1>1, <2>0, StepWrote
  <2>2. Replay(b) /\ b = c
    <3>1. CASE Forward(b)
      BY <2>0, <3>1, ForwardElements DEF session
    <3>2. CASE Replay(b)
      BY <2>0, <3>2, ReplayElements DEF TypeInv, TypeOK
    <3> QED BY <2>1, <3>1, <3>2
  <2>3. /\ cur[c] \in Topics /\ d = <<cur[c], Head(pending[c])>>
        /\ Head(pending[c]) \in Ahead(c, cur[c])
    BY <2>0, <2>2, ReplayElements DEF TypeInv, TypeOK, Ahead
  <2>4. ~Behind(d[2], e[2])
    BY <2>0, <2>3 DEF WroteInv
  <2>5. d[2].n \in Nat /\ e[2].n \in Nat
    <3>1. d[2] \in Msg
      BY <2>0, <2>2, <2>3, ReplayElements, ElementTypes
    <3>2. e[2] \in Msg
      BY <2>0 DEF TypeInv, TypeOK, Delivery
    <3> QED BY <3>1, <3>2 DEF Msg
  <2> QED BY <2>4, <2>5 DEF Behind
<1>2. [][Order]_vars <=> ReplayNotOvertaken
  BY PTL DEF ReplayNotOvertaken
<1> QED
  BY <1>1, <1>2, MessagesKept, PTL DEF Spec

=============================================================================
