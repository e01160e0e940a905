-------------------------- MODULE Transport_proofs --------------------------
(* Proofs about Transport, for any lengths and bounds: type correctness, the  *)
(* protocol found whatever the cuts, and the two streams of bytes, which stay *)
(* whole, empty frames included.                                              *)
EXTENDS Transport, SequenceTheorems, WellFoundedInduction, TLAPS

----------------------------------------------------------------------------
(* The helpers on sequences of bytes *)

LEMMA Lengths ==
  /\ SniffLen \in Nat /\ SniffLen > 0
  /\ ReadMax \in Nat /\ ReadMax > 0
  /\ FrameMax \in Nat /\ FrameMax > 0
  /\ PacketLen \in Nat /\ PacketLen > 0
  /\ MaxPackets \in Nat /\ MaxReplies \in Nat
BY TransportAssumption

LEMMA FirstType ==
  ASSUME NEW S, NEW s \in Seq(S), NEW n \in 0..Len(s)
  PROVE  First(s, n) \in Seq(S) /\ Len(First(s, n)) = n
BY DEF First

LEMMA RestType ==
  ASSUME NEW S, NEW s \in Seq(S), NEW n \in 0..Len(s)
  PROVE  Rest(s, n) \in Seq(S) /\ Len(Rest(s, n)) = Len(s) - n
BY DEF Rest

LEMMA SegmentType ==
  ASSUME NEW s \in Seq(Nat), NEW p \in 0..Len(s), NEW n \in 0..(Len(s) - p)
  PROVE  SubSeq(s, p + 1, p + n) \in Seq(Nat) /\ p + n \in 0..Len(s)
OBVIOUS

LEMMA BytesType ==
  ASSUME NEW m \in Nat, NEW n \in Int, m - 1 <= n
  PROVE  Bytes(m, n) \in Seq(Nat) /\ Len(Bytes(m, n)) = n - m + 1
<1>1. n - m + 1 \in Nat
  OBVIOUS
<1>2. \A i \in 1..(n - m + 1) : m + i - 1 \in Nat
  OBVIOUS
<1>3. QED
  BY <1>1, <1>2 DEF Bytes

LEMMA ConcatType ==
  ASSUME NEW S, NEW s \in Seq(S), NEW t \in Seq(S)
  PROVE  s \o t \in Seq(S) /\ Len(s \o t) = Len(s) + Len(t)
OBVIOUS

LEMMA UpToType ==
  ASSUME NEW m \in Nat, NEW n \in Nat
  PROVE  UpTo(m, n) \in 0..m /\ UpTo(m, n) \in 0..n /\ UpTo(m, n) \in {m, n}
BY DEF UpTo

\* write_packet's frames are sequences of bytes.
LEMMA WrittenType ==
  ASSUME NEW m \in Nat, NEW n \in Nat, m <= n
  PROVE  Written(m, n) \in Seq(Seq(Nat))
<1> DEFINE count == (n - m + FrameMax) \div FrameMax
<1> DEFINE frame(i) == Bytes(m + (i - 1) * FrameMax, UpTo(m + i * FrameMax - 1, n))
<1>1. FrameMax \in Nat /\ FrameMax > 0
  BY Lengths
<1>2. count \in Nat
  BY <1>1
<1>3. ASSUME NEW i \in 1..count PROVE frame(i) \in Seq(Nat)
  <2> DEFINE k == (i - 1) * FrameMax
  <2>1. k \in Nat /\ i * FrameMax = k + FrameMax
    BY <1>1, <1>2
  <2>2. k <= n - m
    <3>1. count * FrameMax <= n - m + FrameMax
      BY <1>1
    <3>2. i * FrameMax <= count * FrameMax
      BY <1>1, <1>2
    <3>3. QED
      BY <3>1, <3>2, <2>1, <1>1, <1>2
  <2> HIDE DEF k
  <2>3. m + k - 1 <= UpTo(m + k + FrameMax - 1, n) /\ UpTo(m + k + FrameMax - 1, n) \in Int
    BY <2>1, <2>2, <1>1 DEF UpTo
  <2>4. Bytes(m + k, UpTo(m + k + FrameMax - 1, n)) \in Seq(Nat)
    <3> DEFINE a == m + k
               b == UpTo(m + k + FrameMax - 1, n)
    <3>1. a \in Nat /\ b \in Int /\ a - 1 <= b
      BY <2>1, <2>3
    <3> HIDE DEF a, b
    <3>2. Bytes(a, b) \in Seq(Nat)
      BY <3>1, BytesType
    <3>3. QED
      BY <3>2 DEF a, b
  <2>5. m + i * FrameMax - 1 = m + k + FrameMax - 1
    BY <2>1, <1>1
  <2>6. QED
    BY <2>4, <2>5 DEF k
<1> HIDE DEF count, frame
<1>4. [i \in 1..count |-> frame(i)] \in Seq(Seq(Nat))
  BY <1>2, <1>3
<1>5. QED
  BY <1>4 DEF Written, count, frame

----------------------------------------------------------------------------
(* Types *)

LEMMA InitTypeOK == Init => TypeOK
<1> SUFFICES ASSUME Init PROVE TypeOK
  OBVIOUS
<1>1. \A S : <<>> \in Seq(S)
  OBVIOUS
<1>2. {net, prefix, pending, readBuf, received} \subseteq Seq(Nat)
  BY <1>1 DEF Init
<1>3. {frames, inCh, outCh} \subseteq Seq(Seq(Nat)) /\ packets \in Seq([1..PacketLen -> Nat])
  BY <1>1 DEF Init
<1>4. pos \in 0..Len(prefix) /\ pendingPos \in 0..Len(pending)
  BY DEF Init
<1>5. QED
  BY <1>2, <1>3, <1>4 DEF Init, TypeOK, Phases

LEMMA StepTypeOK == TypeOK /\ [Next]_vars => TypeOK'
<1> SUFFICES ASSUME TypeOK, [Next]_vars PROVE TypeOK'
  OBVIOUS
<1> USE DEF TypeOK, client, wires, sniffed, wsIn, reader, replies
<1> USE Lengths
<1>1. ASSUME NEW n \in 1..PacketLen, ClientSends(n) PROVE TypeOK'
  <2>1. Bytes(sent + 1, sent + n) \in Seq(Nat)
    BY BytesType
  <2>2. net' \in Seq(Nat) /\ sent' \in Nat
    BY <1>1, <2>1, ConcatType DEF ClientSends
  <2>3. QED
    BY <1>1, <2>2 DEF ClientSends
<1>2. ASSUME NEW n \in 0..PacketLen, ClientSendsFrame(n) PROVE TypeOK'
  <2>1. Bytes(sent + 1, sent + n) \in Seq(Nat)
    BY BytesType
  <2>2. frames' \in Seq(Seq(Nat)) /\ sent' \in Nat
    BY <1>2, <2>1 DEF ClientSendsFrame
  <2>3. QED
    BY <1>2, <2>2 DEF ClientSendsFrame
<1>3. CASE ClientCloses
  BY <1>3 DEF ClientCloses
<1>4. ASSUME NEW n \in 1..ReadMax, SniffRead(n) PROVE TypeOK'
  <2>1. n \in 0..Len(net)
    BY <1>4 DEF SniffRead
  <2>2. net' \in Seq(Nat) /\ First(net, n) \in Seq(Nat)
    BY <1>4, <2>1, RestType, FirstType DEF SniffRead
  <2>3. prefix' \in Seq(Nat) /\ Len(prefix') >= Len(prefix)
    BY <1>4, <2>2, ConcatType DEF SniffRead
  <2>4. pos' \in 0..Len(prefix')
    BY <1>4, <2>3 DEF SniffRead
  <2>5. phase' \in Phases /\ session' \in {"none", "running", "ended"}
    BY <1>4 DEF SniffRead, Phases
  <2>6. QED
    BY <1>4, <2>2, <2>3, <2>4, <2>5 DEF SniffRead
<1>5. CASE SniffEnds
  BY <1>5 DEF SniffEnds, Phases
<1>6. CASE Upgrade
  BY <1>6 DEF Upgrade, Phases
<1>7. ASSUME NEW room \in 1..ReadMax, TcpRead(room) PROVE TypeOK'
  <2>1. CASE pos < Len(prefix)
    <3> DEFINE n == UpTo(Len(prefix) - pos, room)
    <3>1. Len(prefix) - pos \in Nat /\ room \in Nat
      BY <2>1
    <3>2. n \in 0..(Len(prefix) - pos)
      BY <3>1, UpToType
    <3> HIDE DEF n
    <3>3. SubSeq(prefix, pos + 1, pos + n) \in Seq(Nat) /\ pos + n \in 0..Len(prefix)
      BY <3>2, SegmentType
    <3>4. /\ readBuf' = readBuf \o SubSeq(prefix, pos + 1, pos + n)
          /\ pos' = pos + n
          /\ UNCHANGED <<client, wires, phase, prefix, wsIn, session, eof, packets, replies>>
      BY <1>7, <2>1 DEF TcpRead, n
    <3>5. readBuf' \in Seq(Nat)
      BY <3>3, <3>4, ConcatType
    <3>6. QED
      BY <3>3, <3>4, <3>5
  <2>2. CASE ~(pos < Len(prefix))
    <3> DEFINE n == UpTo(Len(net), room)
    <3>1. n \in 0..Len(net)
      <4>1. Len(net) \in Nat /\ room \in Nat
        OBVIOUS
      <4>2. QED
        BY <4>1, UpToType
    <3> HIDE DEF n
    <3>2. First(net, n) \in Seq(Nat) /\ Rest(net, n) \in Seq(Nat)
      BY <3>1, FirstType, RestType
    <3>3. /\ readBuf' = readBuf \o First(net, n)
          /\ net' = Rest(net, n)
          /\ UNCHANGED <<client, frames, phase, sniffed, wsIn, session, eof, packets, replies>>
      BY <1>7, <2>2 DEF TcpRead, n
    <3>4. readBuf' \in Seq(Nat)
      BY <3>2, <3>3, ConcatType
    <3>5. QED
      BY <3>2, <3>3, <3>4
  <2>3. QED
    BY <2>1, <2>2
<1>8. ASSUME NEW room \in 1..ReadMax, WsReadPending(room) PROVE TypeOK'
  <2> DEFINE n == UpTo(Len(pending) - pendingPos, room)
  <2>1. Len(pending) - pendingPos \in Nat /\ room \in Nat
    OBVIOUS
  <2>2. n \in 0..(Len(pending) - pendingPos)
    BY <2>1, UpToType
  <2> HIDE DEF n
  <2>3. /\ SubSeq(pending, pendingPos + 1, pendingPos + n) \in Seq(Nat)
        /\ pendingPos + n \in 0..Len(pending)
    BY <2>2, SegmentType
  <2>4. /\ readBuf' = readBuf \o SubSeq(pending, pendingPos + 1, pendingPos + n)
        /\ pendingPos' = pendingPos + n
        /\ UNCHANGED <<client, wires, phase, sniffed, inCh, pending, session, eof, packets, replies>>
    BY <1>8 DEF WsReadPending, n
  <2>5. readBuf' \in Seq(Nat)
    BY <2>3, <2>4, ConcatType
  <2>6. QED
    BY <2>3, <2>4, <2>5
<1>9. ASSUME NEW room \in 1..ReadMax, WsReadFrame(room) PROVE TypeOK'
  <2> DEFINE chunk == Head(inCh)
             n == UpTo(Len(chunk), room)
  <2>1. chunk \in Seq(Nat) /\ Tail(inCh) \in Seq(Seq(Nat))
    BY <1>9 DEF WsReadFrame
  <2> HIDE DEF chunk
  <2>2. n \in 0..Len(chunk)
    <3>1. Len(chunk) \in Nat /\ room \in Nat
      BY <2>1
    <3>2. QED
      BY <3>1, UpToType
  <2> HIDE DEF n
  <2>3. readBuf' \in Seq(Nat)
    BY <1>9, <2>1, <2>2, FirstType, ConcatType DEF WsReadFrame, chunk, n
  <2>4. pending' \in Seq(Nat) /\ pendingPos' \in 0..Len(pending')
    BY <1>9, <2>1, <2>2 DEF WsReadFrame, chunk, n
  <2>5. eof' \in BOOLEAN /\ session' \in {"none", "running", "ended"}
    BY <1>9 DEF WsReadFrame
  <2>6. UNCHANGED <<client, wires, phase, sniffed, packets, replies>> /\ inCh' = Tail(inCh)
    BY <1>9 DEF WsReadFrame
  <2>7. QED
    BY <2>1, <2>3, <2>4, <2>5, <2>6
<1>10. CASE TcpEof
  BY <1>10 DEF TcpEof
<1>11. CASE ReadPacket
  <2>1. PacketLen \in 0..Len(readBuf)
    BY <1>11 DEF ReadPacket
  <2>2. Rest(readBuf, PacketLen) \in Seq(Nat)
    BY <2>1, RestType
  <2>3. First(readBuf, PacketLen) \in [1..PacketLen -> Nat]
    <3>1. First(readBuf, PacketLen) \in Seq(Nat) /\ Len(First(readBuf, PacketLen)) = PacketLen
      BY <2>1, FirstType
    <3>2. \A f \in Seq(Nat) : f \in [1..Len(f) -> Nat]
      BY SMTT(30)
    <3>3. QED
      BY <3>1, <3>2, Zenon
  <2>4. packets' \in Seq([1..PacketLen -> Nat])
    BY <1>11, <2>3, SMTT(30) DEF ReadPacket
  <2>5. QED
    BY <1>11, <2>2, <2>4 DEF ReadPacket
<1>12. CASE Reply
  <2>1. written + PacketLen \in Nat /\ written + 1 <= written + PacketLen
    OBVIOUS
  <2>2. Bytes(written + 1, written + PacketLen) \in Seq(Nat)
    BY <2>1, BytesType
  <2>3. Written(written + 1, written + PacketLen) \in Seq(Seq(Nat))
    BY <2>1, WrittenType
  <2>4. received' \in Seq(Nat) /\ outCh' \in Seq(Seq(Nat))
    <3> DEFINE b == Bytes(written + 1, written + PacketLen)
               w == Written(written + 1, written + PacketLen)
    <3>1. outCh \o w \in Seq(Seq(Nat)) /\ received \o b \in Seq(Nat)
      BY <2>2, <2>3, ConcatType
    <3>2. received' \in {received, received \o b} /\ outCh' \in {outCh, outCh \o w}
      BY <1>12 DEF Reply
    <3> HIDE DEF b, w
    <3>3. QED
      BY <3>1, <3>2
  <2>5. QED
    BY <1>12, <2>1, <2>4 DEF Reply
<1>13. CASE SessionEnds
  BY <1>13 DEF SessionEnds
<1>14. CASE BridgeIn
  <2>1. frames # <<>> => Head(frames) \in Seq(Nat) /\ Tail(frames) \in Seq(Seq(Nat))
    OBVIOUS
  <2>2. inCh' \in Seq(Seq(Nat)) /\ frames' \in Seq(Seq(Nat))
    <3>1. CASE session = "running"
      <4>1. frames # <<>> /\ inCh' = Append(inCh, Head(frames)) /\ frames' = Tail(frames)
        BY <1>14, <3>1 DEF BridgeIn
      <4>2. QED
        BY <2>1, <4>1
    <3>2. CASE session # "running"
      BY <1>14, <3>2 DEF BridgeIn
    <3>3. QED
      BY <3>1, <3>2
  <2>3. phase' \in Phases
    BY <1>14 DEF BridgeIn, Phases
  <2>4. QED
    BY <1>14, <2>2, <2>3 DEF BridgeIn
<1>15. CASE BridgeOut
  <2>1. Head(outCh) \in Seq(Nat) /\ Tail(outCh) \in Seq(Seq(Nat))
    BY <1>15 DEF BridgeOut
  <2>2. received' \in Seq(Nat) /\ outCh' \in Seq(Seq(Nat))
    BY <1>15, <2>1, ConcatType DEF BridgeOut
  <2>3. QED
    BY <1>15, <2>2 DEF BridgeOut
<1>16. CASE BridgeEnds
  BY <1>16 DEF BridgeEnds, Phases
<1>17. CASE UNCHANGED vars
  BY <1>17 DEF vars
<1>18. QED
  BY <1>1, <1>2, <1>3, <1>4, <1>5, <1>6, <1>7, <1>8, <1>9, <1>10, <1>11, <1>12, <1>13, <1>14,
     <1>15, <1>16, <1>17
  DEF Next, ReadStep

\* Every buffer and channel holds sequences of bytes, and every packet has its length.
THEOREM TypeCorrect == Spec => []TypeOK
BY InitTypeOK, StepTypeOK, PTL DEF Spec

----------------------------------------------------------------------------
(* The protocol *)

LEMMA StepProtocol == TypeOK /\ ProtocolFound /\ [Next]_vars => ProtocolFound'
<1> SUFFICES ASSUME TypeOK, ProtocolFound, [Next]_vars PROVE ProtocolFound'
  OBVIOUS
<1>1. opening' = opening
  BY DEF Next, ReadStep, vars, client, ClientSends, ClientSendsFrame, ClientCloses, SniffRead,
         SniffEnds, Upgrade, TcpRead, WsReadPending, WsReadFrame, TcpEof, ReadPacket, Reply,
         SessionEnds, BridgeIn, BridgeOut, BridgeEnds
<1>2. ASSUME NEW n \in 1..ReadMax, SniffRead(n) PROVE ProtocolFound'
  <2> DEFINE b == prefix \o First(net, n)
  <2>1. Len(b) \in Nat
    <3>1. n \in 0..Len(net)
      BY <1>2, TransportAssumption DEF SniffRead, TypeOK
    <3>2. First(net, n) \in Seq(Nat)
      BY <3>1, FirstType DEF TypeOK
    <3>3. QED
      BY <3>2, ConcatType DEF TypeOK
  <2> HIDE DEF b
  <2>2. phase' = IF Len(b) < SniffLen THEN "sniff"
                 ELSE IF IsMqtt(b) THEN "tcp"
                 ELSE IF IsHttp THEN "http"
                 ELSE "dropped"
    BY <1>2 DEF SniffRead, b
  <2>3. phase' = "tcp" => opening = "connect"
    BY <2>2 DEF IsMqtt
  <2>4. phase' = "dropped" => opening # "connect" /\ opening # "request"
    BY <2>1, <2>2, TransportAssumption DEF IsMqtt, IsHttp
  <2>5. QED
    BY <1>1, <2>3, <2>4 DEF ProtocolFound, TypeOK, Openings
<1>3. CASE UNCHANGED phase
  BY <1>1, <1>3 DEF ProtocolFound
<1>4. CASE phase' \in {"closed", "ws"}
  BY <1>4 DEF ProtocolFound
<1>5. QED
  BY <1>2, <1>3, <1>4
  DEF Next, ReadStep, vars, client, ClientSends, ClientSendsFrame, ClientCloses, SniffEnds, Upgrade,
      TcpRead, WsReadPending, WsReadFrame, TcpEof, ReadPacket, Reply, SessionEnds, BridgeIn,
      BridgeOut, BridgeEnds

\* Whatever the lengths of the reads, only what is neither HTTP nor a CONNECT with a
\* short length is dropped, and only the latter becomes a session.
THEOREM ProtocolIsFound == Spec => []ProtocolFound
<1>1. Init => ProtocolFound
  BY DEF Init, ProtocolFound
<1>2. QED
  BY <1>1, StepProtocol, TypeCorrect, PTL DEF Spec

----------------------------------------------------------------------------
(* Induction *)

\* Numbers below each other, as the pairs that WellFoundedInduction wants.
Less == {ss \in Nat \X Nat : ss[1] < ss[2]}

LEMMA LeastNumber ==
  ASSUME NEW T \in SUBSET Nat, T # {}
  PROVE  \E x \in T : \A y \in T : x <= y
<1>1. IsWellFoundedOn(Less, Nat)
  BY NatLessThanWellFounded DEF OpToRel, Less
<1>2. PICK x \in T : \A y \in T : ~(<<y, x>> \in Less)
  BY <1>1, WFMin
<1>3. \A y \in T : ~(y < x)
  BY <1>2 DEF Less
<1>4. QED
  BY <1>3

\* Induction, for a set of numbers.
LEMMA AllNumbers ==
  ASSUME NEW T \in SUBSET Nat, 0 \in T, \A n \in Nat : n \in T => n + 1 \in T
  PROVE  T = Nat
<1>1. SUFFICES ASSUME Nat \ T # {} PROVE FALSE
  OBVIOUS
<1>2. PICK x \in Nat \ T : \A y \in Nat \ T : x <= y
  BY <1>1, LeastNumber
<1>3. x - 1 \in Nat
  BY <1>2
<1>4. QED
  BY <1>2, <1>3

----------------------------------------------------------------------------
(* Pieces of a stream *)

Str == Seq(Nat)

LEMMA StrIs ==
  /\ <<>> \in Str
  /\ \A s, t \in Str : s \o t \in Str
  /\ \A s \in Str : <<>> \o s = s /\ s \o <<>> = s
  /\ \A s, t, u \in Str : (s \o t) \o u = s \o (t \o u)
<1>1. ASSUME NEW s \in Seq(Nat), NEW t \in Seq(Nat), NEW u \in Seq(Nat)
      PROVE  (s \o t) \o u = s \o (t \o u)
  <2> DEFINE l == (s \o t) \o u
             r == s \o (t \o u)
  <2>1. s \o t \in Seq(Nat) /\ t \o u \in Seq(Nat) /\ Len(s \o t) = Len(s) + Len(t)
        /\ Len(t \o u) = Len(t) + Len(u)
    OBVIOUS
  <2>2. l \in Seq(Nat) /\ r \in Seq(Nat) /\ Len(l) = Len(s) + Len(t) + Len(u) /\ Len(r) = Len(l)
    BY <2>1
  <2>3. ASSUME NEW i \in 1..Len(l) PROVE l[i] = r[i]
    <3>1. CASE i <= Len(s)
      BY <2>1, <2>2, <3>1
    <3>2. CASE i > Len(s) /\ i <= Len(s) + Len(t)
      BY <2>1, <2>2, <3>2
    <3>3. CASE i > Len(s) + Len(t)
      BY <2>1, <2>2, <3>3
    <3>4. QED
      BY <2>2, <3>1, <3>2, <3>3
  <2> HIDE DEF l, r
  <2>4. l = r
    BY <2>2, <2>3, SeqEqual
  <2>5. QED
    BY <2>4 DEF l, r
<1>2. \A s \in Seq(Nat) : <<>> \o s = s /\ s \o <<>> = s
  BY ConcatEmptySeq
<1>3. \A s, t \in Seq(Nat) : s \o t \in Seq(Nat)
  BY ConcatProperties
<1>4. <<>> \in Seq(Nat)
  OBVIOUS
<1>5. QED
  BY <1>1, <1>2, <1>3, <1>4, Zenon DEF Str

\* The same under a name of its own, which the provers take for any function: a piece that
\* goes to the end of what is before it.
Cat(s, t) == s \o t

LEMMA Joined ==
  /\ \A s, t \in Str : Cat(s, t) \in Str
  /\ \A s, t, u \in Str : Cat(Cat(s, t), u) = Cat(s, Cat(t, u))
BY StrIs DEF Cat

LEMMA Moved == \A a, b, x, y \in Str : Cat(Cat(a, Cat(b, x)), y) = Cat(Cat(a, b), Cat(x, y))
<1> TAKE a, b, x, y \in Str
<1>1. Cat(a, Cat(b, x)) = Cat(Cat(a, b), x) /\ Cat(a, b) \in Str
  BY Joined
<1>2. Cat(Cat(Cat(a, b), x), y) = Cat(Cat(a, b), Cat(x, y))
  BY <1>1, Joined
<1>3. QED
  BY <1>1, <1>2

\* The equations of FlattenSeq, which its definition by recursion has to be shown to meet.
LEMMA FlattenIs ==
  ASSUME NEW q \in Seq(Str), q # <<>>
  PROVE  \E f \in [1..Len(q) -> Str] :
           /\ FlattenSeq(q) = f[Len(q)]
           /\ \A i \in 1..Len(q) : f[i] = IF i = 1 THEN q[i] ELSE f[i - 1] \o q[i]
<1> DEFINE Eq(g, m) == \A i \in 1..m : g[i] = IF i = 1 THEN q[i] ELSE g[i - 1] \o q[i]
           T == {m \in Nat : m \in 1..Len(q) => \E g \in [1..m -> Str] : Eq(g, m)}
<1>0. Len(q) \in Nat /\ Len(q) > 0 /\ \A i \in 1..Len(q) : q[i] \in Str
  OBVIOUS
<1>1. 0 \in T
  OBVIOUS
<1>2. ASSUME NEW m \in Nat, m \in T PROVE m + 1 \in T
  <2> SUFFICES ASSUME m + 1 \in 1..Len(q) PROVE \E g \in [1..m + 1 -> Str] : Eq(g, m + 1)
    OBVIOUS
  <2>0. q[m + 1] \in Str
    BY <1>0
  <2>1. CASE m = 0
    <3> DEFINE g == [i \in 1..m + 1 |-> q[m + 1]]
    <3>1. g \in [1..m + 1 -> Str]
      BY <2>0
    <3>2. Eq(g, m + 1)
      BY <2>1
    <3>3. QED
      BY <3>1, <3>2
  <2>2. CASE m # 0
    <3>1. m \in 1..Len(q)
      BY <1>0, <2>2
    <3>2. PICK g \in [1..m -> Str] : Eq(g, m)
      BY <1>2, <3>1
    <3> DEFINE last == g[m] \o q[m + 1]
               h == [i \in 1..m + 1 |-> IF i = m + 1 THEN last ELSE g[i]]
    <3>3. last \in Str
      <4>1. g[m] \in Str
        BY <2>2, <3>2
      <4>2. QED
        BY <2>0, <4>1, StrIs
    <3>4. h \in [1..m + 1 -> Str]
      <4> HIDE DEF last
      <4>1. \A i \in 1..m + 1 : i = m + 1 \/ i \in 1..m
        OBVIOUS
      <4>2. QED
        BY <3>2, <3>3, <4>1
    <3>5. ASSUME NEW i \in 1..m + 1 PROVE h[i] = IF i = 1 THEN q[i] ELSE h[i - 1] \o q[i]
      <4> HIDE DEF last
      <4>0. \A j \in 1..m + 1 : h[j] = IF j = m + 1 THEN last ELSE g[j]
        OBVIOUS
      <4> HIDE DEF h
      <4>1. CASE i = m + 1
        <5>1. i - 1 = m /\ i # 1 /\ m \in 1..m + 1 /\ m + 1 \in 1..m + 1 /\ m # m + 1
          BY <2>2, <4>1
        <5>2. h[i - 1] = g[m] /\ h[i] = last
          BY <4>0, <4>1, <5>1
        <5>3. QED
          BY <4>1, <5>1, <5>2 DEF last
      <4>2. CASE i \in 1..m
        <5>1. i # m + 1 /\ (i # 1 => i - 1 \in 1..m + 1 /\ i - 1 # m + 1)
          BY <4>2
        <5>2. h[i] = g[i] /\ (i # 1 => h[i - 1] = g[i - 1])
          BY <4>0, <5>1
        <5>3. QED
          BY <3>2, <4>2, <5>2
      <4>3. QED
        BY <4>1, <4>2
    <3>6. QED
      BY <3>4, <3>5
  <2>3. QED
    BY <2>1, <2>2
<1>3. T = Nat
  <2> HIDE DEF T
  <2>1. QED
    BY <1>1, <1>2, AllNumbers DEF T
<1>4. PICK g \in [1..Len(q) -> Str] : Eq(g, Len(q))
  <2>1. Len(q) \in T
    BY <1>0, <1>3, Zenon
  <2>2. Len(q) \in 1..Len(q)
    BY <1>0
  <2>3. QED
    BY <2>1, <2>2
<1>5. g = [i \in 1..Len(q) |-> IF i = 1 THEN q[i] ELSE g[i - 1] \o q[i]]
  BY <1>4
<1> DEFINE f == CHOOSE f : f = [i \in 1..Len(q) |-> IF i = 1 THEN q[i] ELSE f[i - 1] \o q[i]]
<1>6. f = [i \in 1..Len(q) |-> IF i = 1 THEN q[i] ELSE f[i - 1] \o q[i]]
  BY <1>5
<1>7. FlattenSeq(q) = f[Len(q)]
  BY <1>0 DEF FlattenSeq
<1> HIDE DEF f
<1>8. \A i \in 1..Len(q) : f[i] = IF i = 1 THEN q[i] ELSE f[i - 1] \o q[i]
  BY <1>6
<1> DEFINE U == {m \in Nat : m \in 1..Len(q) => f[m] \in Str}
<1>9. U = Nat
  <2>1. 0 \in U
    OBVIOUS
  <2>2. ASSUME NEW m \in Nat, m \in U PROVE m + 1 \in U
    <3> SUFFICES ASSUME m + 1 \in 1..Len(q) PROVE f[m + 1] \in Str
      OBVIOUS
    <3>1. q[m + 1] \in Str
      BY <1>0
    <3>2. f[m + 1] = IF m + 1 = 1 THEN q[m + 1] ELSE f[m + 1 - 1] \o q[m + 1]
      BY <1>8
    <3>3. CASE m = 0
      BY <3>1, <3>2, <3>3
    <3>4. CASE m # 0
      <4>1. f[m] \in Str
        BY <1>0, <2>2, <3>4
      <4>2. f[m + 1] = f[m] \o q[m + 1]
        <5>1. m + 1 # 1 /\ m + 1 - 1 = m
          BY <3>4
        <5>2. QED
          BY <3>2, <5>1
      <4>3. QED
        BY <3>1, <4>1, <4>2, StrIs
    <3>5. QED
      BY <3>3, <3>4
  <2> HIDE DEF U
  <2>3. QED
    BY <2>1, <2>2, AllNumbers DEF U
<1>10. \A i \in 1..Len(q) : f[i] \in Str
  BY <1>9
<1>11. f \in [1..Len(q) -> Str]
  BY <1>6, <1>10
<1>12. QED
  BY <1>7, <1>8, <1>11

LEMMA FlattenEmpty == FlattenSeq(<<>>) = <<>>
BY DEF FlattenSeq

LEMMA FlattenType == ASSUME NEW q \in Seq(Str) PROVE FlattenSeq(q) \in Str
<1>1. CASE q = <<>>
  BY <1>1, FlattenEmpty, StrIs
<1>2. CASE q # <<>>
  <2>1. Len(q) \in 1..Len(q)
    BY <1>2
  <2>2. QED
    BY <1>2, <2>1, FlattenIs
<1>3. QED
  BY <1>1, <1>2

LEMMA FlattenAppend ==
  ASSUME NEW q \in Seq(Str), NEW s \in Str
  PROVE  FlattenSeq(Append(q, s)) = FlattenSeq(q) \o s
<1> DEFINE r == Append(q, s)
           n == Len(q)
<1>1. /\ r \in Seq(Str) /\ r # <<>> /\ Len(r) = n + 1 /\ n \in Nat /\ r[n + 1] = s
      /\ \A i \in 1..n : r[i] = q[i]
  OBVIOUS
<1> HIDE DEF r
<1>2. PICK g \in [1..n + 1 -> Str] :
        /\ FlattenSeq(r) = g[n + 1]
        /\ \A i \in 1..n + 1 : g[i] = IF i = 1 THEN r[i] ELSE g[i - 1] \o r[i]
  BY <1>1, FlattenIs
<1>3. CASE q = <<>>
  <2>1. n = 0
    BY <1>3
  <2>2. g[n + 1] = s
    BY <1>1, <1>2, <2>1
  <2>3. FlattenSeq(q) \o s = s
    BY <1>3, FlattenEmpty, StrIs
  <2>4. QED
    BY <1>2, <2>2, <2>3 DEF r
<1>4. CASE q # <<>>
  <2>0. n > 0 /\ n \in 1..n
    BY <1>1, <1>4
  <2>1. PICK f \in [1..n -> Str] :
          /\ FlattenSeq(q) = f[n]
          /\ \A i \in 1..n : f[i] = IF i = 1 THEN q[i] ELSE f[i - 1] \o q[i]
    BY <1>4, FlattenIs
  <2> DEFINE T == {m \in Nat : m \in 1..n => g[m] = f[m]}
  <2> HIDE DEF n
  <2>2. T = Nat
    <3>1. 0 \in T
      OBVIOUS
    <3>2. ASSUME NEW m \in Nat, m \in T PROVE m + 1 \in T
      <4> SUFFICES ASSUME m + 1 \in 1..n PROVE g[m + 1] = f[m + 1]
        OBVIOUS
      <4>1. /\ m + 1 \in 1..n + 1 /\ r[m + 1] = q[m + 1] /\ m + 1 - 1 = m
            /\ m + 1 # 1 => m \in 1..n
        BY <1>1
      <4>2. m + 1 # 1 => g[m] = f[m]
        BY <3>2, <4>1
      <4>3. g[m + 1] = IF m + 1 = 1 THEN q[m + 1] ELSE g[m] \o q[m + 1]
        <5>1. PICK j \in 1..n + 1 : j = m + 1
          BY <4>1
        <5>2. g[j] = IF j = 1 THEN r[j] ELSE g[j - 1] \o r[j]
          BY <1>2
        <5>3. QED
          BY <4>1, <5>1, <5>2
      <4>4. f[m + 1] = IF m + 1 = 1 THEN q[m + 1] ELSE f[m] \o q[m + 1]
        <5>1. PICK j \in 1..n : j = m + 1
          OBVIOUS
        <5>2. f[j] = IF j = 1 THEN q[j] ELSE f[j - 1] \o q[j]
          BY <2>1
        <5>3. QED
          BY <4>1, <5>1, <5>2
      <4>5. QED
        BY <4>2, <4>3, <4>4
    <3> HIDE DEF T
    <3>3. QED
      BY <3>1, <3>2, AllNumbers DEF T
  <2>3. g[n] = f[n]
    BY <1>1, <2>0, <2>2
  <2>4. g[n + 1] = g[n] \o s
    <3>1. n + 1 \in 1..n + 1 /\ n + 1 # 1 /\ n + 1 - 1 = n
      BY <1>1, <2>0
    <3>2. PICK j \in 1..n + 1 : j = n + 1
      BY <3>1
    <3>3. g[j] = IF j = 1 THEN r[j] ELSE g[j - 1] \o r[j]
      BY <1>2
    <3>4. QED
      BY <1>1, <3>1, <3>2, <3>3
  <2>5. QED
    BY <1>2, <2>1, <2>3, <2>4 DEF r
<1>5. QED
  BY <1>3, <1>4

LEMMA FlattenConcat ==
  ASSUME NEW q \in Seq(Str), NEW r \in Seq(Str)
  PROVE  FlattenSeq(q \o r) = FlattenSeq(q) \o FlattenSeq(r)
<1> DEFINE T == {n \in Nat : \A t \in Seq(Str) : Len(t) = n => FlattenSeq(q \o t) = FlattenSeq(q) \o FlattenSeq(t)}
<1>1. 0 \in T
  <2> SUFFICES ASSUME NEW t \in Seq(Str), Len(t) = 0 PROVE FlattenSeq(q \o t) = FlattenSeq(q) \o FlattenSeq(t)
    OBVIOUS
  <2>1. t = <<>> /\ q \o t = q
    OBVIOUS
  <2>2. QED
    BY <2>1, FlattenEmpty, FlattenType, StrIs
<1>2. ASSUME NEW n \in Nat, n \in T PROVE n + 1 \in T
  <2> SUFFICES ASSUME NEW t \in Seq(Str), Len(t) = n + 1
               PROVE  FlattenSeq(q \o t) = FlattenSeq(q) \o FlattenSeq(t)
    OBVIOUS
  <2>1. PICK u \in Seq(Str), e \in Str : t = Append(u, e)
    <3>1. t # <<>>
      OBVIOUS
    <3>2. QED
      BY <3>1, SequenceEmptyOrAppend
  <2>2. Len(u) = n
    BY <2>1
  <2>3. FlattenSeq(q \o u) = FlattenSeq(q) \o FlattenSeq(u)
    BY <1>2, <2>2
  <2>4. q \o t = Append(q \o u, e) /\ q \o u \in Seq(Str)
    BY <2>1
  <2>5. FlattenSeq(q \o t) = (FlattenSeq(q) \o FlattenSeq(u)) \o e
    BY <2>3, <2>4, FlattenAppend
  <2>6. FlattenSeq(t) = FlattenSeq(u) \o e
    BY <2>1, FlattenAppend
  <2>7. FlattenSeq(q) \in Str /\ FlattenSeq(u) \in Str
    BY FlattenType
  <2>8. (FlattenSeq(q) \o FlattenSeq(u)) \o e = FlattenSeq(q) \o (FlattenSeq(u) \o e)
    <3>1. Cat(Cat(FlattenSeq(q), FlattenSeq(u)), e) = Cat(FlattenSeq(q), Cat(FlattenSeq(u), e))
      BY <2>7, Joined
    <3>2. QED
      BY <3>1 DEF Cat
  <2>9. QED
    BY <2>5, <2>6, <2>8
<1> HIDE DEF T
<1>3. T = Nat
  BY <1>1, <1>2, AllNumbers DEF T
<1>4. Len(r) \in Nat
  OBVIOUS
<1>5. QED
  BY <1>3, <1>4 DEF T

LEMMA FlattenHead ==
  ASSUME NEW q \in Seq(Str), q # <<>>
  PROVE  FlattenSeq(q) = Head(q) \o FlattenSeq(Tail(q)) /\ Head(q) \in Str /\ Tail(q) \in Seq(Str)
<1>1. Head(q) \in Str /\ Tail(q) \in Seq(Str) /\ <<Head(q)>> \in Seq(Str) /\ <<>> \in Seq(Str)
  OBVIOUS
<1>2. q = <<Head(q)>> \o Tail(q)
  OBVIOUS
<1>3. <<Head(q)>> = Append(<<>>, Head(q))
  OBVIOUS
<1>4. FlattenSeq(<<Head(q)>>) = Head(q)
  <2>1. FlattenSeq(Append(<<>>, Head(q))) = <<>> \o Head(q)
    BY <1>1, FlattenAppend, FlattenEmpty
  <2>2. QED
    BY <1>1, <1>3, <2>1, StrIs
<1>5. FlattenSeq(<<Head(q)>> \o Tail(q)) = FlattenSeq(<<Head(q)>>) \o FlattenSeq(Tail(q))
  BY <1>1, FlattenConcat
<1>6. QED
  BY <1>1, <1>2, <1>4, <1>5

LEMMA SplitIs ==
  ASSUME NEW s \in Str, NEW n \in 0..Len(s)
  PROVE  First(s, n) \o Rest(s, n) = s /\ First(s, n) \in Str /\ Rest(s, n) \in Str
<1>1. s \in Seq(Nat) /\ 1 \in 1..Len(s) + 1 /\ n \in 1 - 1..Len(s) /\ Len(s) \in n..Len(s)
  BY DEF Str
<1>2. SubSeq(s, 1, n) \o SubSeq(s, n + 1, Len(s)) = SubSeq(s, 1, Len(s))
  BY <1>1, ConcatAdjacentSubSeq
<1>3. SubSeq(s, 1, Len(s)) = s
  BY <1>1, SubSeqFull
<1>4. QED
  BY <1>1, <1>2, <1>3, FirstType, RestType DEF First, Rest, Str

LEMMA RestSplit ==
  ASSUME NEW s \in Str, NEW p \in 0..Len(s), NEW n \in 0..(Len(s) - p)
  PROVE  /\ SubSeq(s, p + 1, p + n) \o Rest(s, p + n) = Rest(s, p)
         /\ SubSeq(s, p + 1, p + n) \in Str /\ Rest(s, p + n) \in Str /\ Rest(s, p) \in Str
         /\ p + n \in 0..Len(s)
<1>1. s \in Seq(Nat) /\ p + 1 \in 1..Len(s) + 1 /\ p + n \in p + 1 - 1..Len(s) /\ Len(s) \in p + n..Len(s)
      /\ p + n \in 0..Len(s)
  BY DEF Str
<1>2. SubSeq(s, p + 1, p + n) \o SubSeq(s, p + n + 1, Len(s)) = SubSeq(s, p + 1, Len(s))
  <2> DEFINE a == p + 1
             b == p + n
  <2>1. a \in 1..Len(s) + 1 /\ b \in a - 1..Len(s) /\ Len(s) \in b..Len(s)
    BY <1>1
  <2> HIDE DEF a, b
  <2>2. SubSeq(s, a, b) \o SubSeq(s, b + 1, Len(s)) = SubSeq(s, a, Len(s))
    BY <1>1, <2>1, ConcatAdjacentSubSeq
  <2>3. QED
    BY <2>2 DEF a, b
<1>3. SubSeq(s, p + 1, p + n) \in Str
  BY <1>1, SegmentType DEF Str
<1>4. Rest(s, p + n) \in Str /\ Rest(s, p) \in Str
  BY <1>1, SplitIs
<1>5. QED
  BY <1>1, <1>2, <1>3, <1>4 DEF Rest

LEMMA RestEnds == ASSUME NEW s \in Str PROVE Rest(s, Len(s)) = <<>> /\ Rest(s, 0) = s
<1>1. s \in Seq(Nat) /\ Len(s) \in Nat
  BY DEF Str
<1>2. SubSeq(s, Len(s) + 1, Len(s)) = <<>>
  BY <1>1
<1>3. SubSeq(s, 1, Len(s)) = s
  BY <1>1, SubSeqFull
<1>4. QED
  BY <1>2, <1>3 DEF Rest

LEMMA BytesIs ==
  ASSUME NEW m \in Nat, NEW n \in Int, m - 1 <= n
  PROVE  Bytes(m, n) \in Str
BY BytesType DEF Str

LEMMA NoBytes == ASSUME NEW m \in Nat PROVE Bytes(m, m - 1) = <<>>
<1>1. 1..m - 1 - m + 1 = {}
  OBVIOUS
<1>2. Bytes(m, m - 1) = [i \in {} |-> m + i - 1]
  BY <1>1 DEF Bytes
<1>3. QED
  BY <1>2

LEMMA BytesJoin ==
  ASSUME NEW m \in Nat, NEW k \in Int, NEW n \in Int, m - 1 <= k, k <= n
  PROVE  Bytes(m, k) \o Bytes(k + 1, n) = Bytes(m, n)
<1> DEFINE a == Bytes(m, k)
           b == Bytes(k + 1, n)
           c == Bytes(m, n)
<1>0. k + 1 \in Nat /\ k + 1 - 1 <= n /\ m - 1 <= n
  OBVIOUS
<1>1. /\ a \in Seq(Nat) /\ Len(a) = k - m + 1
      /\ b \in Seq(Nat) /\ Len(b) = n - k
      /\ c \in Seq(Nat) /\ Len(c) = n - m + 1
  <2>1. a \in Seq(Nat) /\ Len(a) = k - m + 1
    BY BytesType
  <2>2. b \in Seq(Nat) /\ Len(b) = n - (k + 1) + 1
    <3> DEFINE l == k + 1
    <3>1. l \in Nat /\ l - 1 <= n
      BY <1>0
    <3> HIDE DEF l
    <3>2. Bytes(l, n) \in Seq(Nat) /\ Len(Bytes(l, n)) = n - l + 1
      BY <3>1, BytesType
    <3>3. QED
      BY <3>2 DEF l
  <2>3. c \in Seq(Nat) /\ Len(c) = n - m + 1
    BY <1>0, BytesType
  <2> HIDE DEF a, b, c
  <2>4. QED
    BY <2>1, <2>2, <2>3
<1>2. /\ \A i \in 1..k - m + 1 : a[i] = m + i - 1
      /\ \A i \in 1..n - k : b[i] = k + i
      /\ \A i \in 1..n - m + 1 : c[i] = m + i - 1
  <2>1. \A i \in 1..n - (k + 1) + 1 : b[i] = k + 1 + i - 1
    BY DEF Bytes
  <2>2. n - (k + 1) + 1 = n - k /\ \A i \in Int : k + 1 + i - 1 = k + i
    OBVIOUS
  <2>3. QED
    BY <2>1, <2>2 DEF Bytes
<1> HIDE DEF a, b, c
<1>3. /\ a \o b \in Seq(Nat) /\ Len(a \o b) = n - m + 1
      /\ \A i \in 1..n - m + 1 : (a \o b)[i] = IF i <= k - m + 1 THEN a[i] ELSE b[i - (k - m + 1)]
  <2>1. Len(a \o b) = Len(a) + Len(b) /\ a \o b \in Seq(Nat)
    BY <1>1, ConcatProperties, Zenon
  <2>2. \A i \in 1..Len(a) + Len(b) : (a \o b)[i] = IF i <= Len(a) THEN a[i] ELSE b[i - Len(a)]
    BY <1>1, ConcatProperties, Zenon
  <2>3. Len(a) + Len(b) = n - m + 1
    BY <1>1
  <2>4. QED
    BY <1>1, <2>1, <2>2, <2>3
<1>4. ASSUME NEW i \in 1..n - m + 1 PROVE (a \o b)[i] = c[i]
  <2>1. CASE i <= k - m + 1
    BY <1>2, <1>3, <2>1
  <2>2. CASE ~(i <= k - m + 1)
    <3>1. i - (k - m + 1) \in 1..n - k /\ k + (i - (k - m + 1)) = m + i - 1
      BY <2>2
    <3>2. QED
      BY <1>2, <1>3, <2>2, <3>1
  <2>3. QED
    BY <2>1, <2>2
<1>5. a \o b = c
  BY <1>1, <1>3, <1>4, SeqEqual
<1>6. QED
  BY <1>5 DEF a, b, c

LEMMA BytesMore ==
  ASSUME NEW s \in Nat, NEW n \in Nat
  PROVE  Bytes(1, s) \o Bytes(s + 1, s + n) = Bytes(1, s + n)
<1> DEFINE l == s + n
<1> DEFINE m == 1
<1>1. m \in Nat /\ s \in Int /\ l \in Int /\ m - 1 <= s /\ s <= l
  OBVIOUS
<1> HIDE DEF l, m
<1>2. Bytes(m, s) \o Bytes(s + 1, l) = Bytes(m, l)
  BY <1>1, BytesJoin
<1>3. QED
  BY <1>2 DEF l, m

\* The frames of a packet are its bytes.
LEMMA WrittenIs ==
  ASSUME NEW m \in Nat, NEW n \in Nat, m <= n
  PROVE  FlattenSeq(Written(m, n)) = Bytes(m, n) /\ Written(m, n) \in Seq(Str)
<1> DEFINE count == (n - m + FrameMax) \div FrameMax
           w == Written(m, n)
           T == {k \in Nat : k <= count => FlattenSeq(SubSeq(w, 1, k)) = Bytes(m, UpTo(m + k * FrameMax - 1, n))}
<1>1. FrameMax \in Nat /\ FrameMax > 0 /\ count \in Nat
  BY Lengths
<1>2. w \in Seq(Str) /\ Len(w) = count
      /\ \A i \in 1..count : w[i] = Bytes(m + (i - 1) * FrameMax, UpTo(m + i * FrameMax - 1, n))
  <2>1. w \in Seq(Str)
    BY WrittenType DEF Str
  <2>2. DOMAIN w = 1..count
    BY DEF Written
  <2>3. Len(w) = count
    <3> HIDE DEF w, count
    <3>1. QED
      BY <1>1, <2>1, <2>2
  <2>4. QED
    BY <2>1, <2>3 DEF Written
<1>3. /\ count * FrameMax <= n - m + FrameMax
      /\ n - m + 1 <= count * FrameMax
  BY <1>1
<1> HIDE DEF w, count
<1>4. 0 \in T
  <2>1. SubSeq(w, 1, 0) = <<>>
    BY <1>2
  <2>2. 0 * FrameMax = 0
    BY <1>1
  <2>3. UpTo(m + 0 * FrameMax - 1, n) = m - 1
    BY <2>2 DEF UpTo
  <2>4. QED
    BY <2>1, <2>3, FlattenEmpty, NoBytes
<1>5. ASSUME NEW k \in Nat, k \in T PROVE k + 1 \in T
  <2> SUFFICES ASSUME k + 1 <= count
               PROVE  FlattenSeq(SubSeq(w, 1, k + 1)) = Bytes(m, UpTo(m + (k + 1) * FrameMax - 1, n))
    OBVIOUS
  <2> DEFINE p == k * FrameMax
             l == UpTo(m + (k + 1) * FrameMax - 1, n)
  <2>1. /\ p \in Nat /\ (k + 1) * FrameMax = p + FrameMax /\ (k + 1 - 1) * FrameMax = p
        /\ (k + 1) * FrameMax <= count * FrameMax
    BY <1>1
  <2>2. p <= n - m
    <3> HIDE DEF p
    <3>1. QED
      BY <1>1, <1>3, <2>1
  <2>3. UpTo(m + p - 1, n) = m + p - 1
    BY <2>1, <2>2 DEF UpTo
  <2>4. l \in Int /\ m + p - 1 <= l
    <3>1. l = UpTo(m + p + FrameMax - 1, n)
      BY <1>1, <2>1
    <3> HIDE DEF p, l
    <3>2. QED
      BY <1>1, <2>1, <2>2, <3>1 DEF UpTo
  <2>5. FlattenSeq(SubSeq(w, 1, k)) = Bytes(m, m + p - 1)
    BY <1>1, <1>5, <2>3
  <2>6. w[k + 1] = Bytes(m + p, l)
    <3>1. k + 1 \in 1..count
      BY <1>1
    <3>2. w[k + 1] = Bytes(m + (k + 1 - 1) * FrameMax, l)
      BY <1>2, <3>1
    <3>3. QED
      BY <2>1, <3>2
  <2> HIDE DEF p, l
  <2>7. SubSeq(w, 1, k + 1) = Append(SubSeq(w, 1, k), w[k + 1]) /\ SubSeq(w, 1, k) \in Seq(Str) /\ w[k + 1] \in Str
    BY <1>1, <1>2
  <2>8. FlattenSeq(SubSeq(w, 1, k + 1)) = Bytes(m, m + p - 1) \o Bytes(m + p, l)
    BY <2>5, <2>6, <2>7, FlattenAppend
  <2>9. Bytes(m, m + p - 1) \o Bytes(m + p, l) = Bytes(m, l)
    <3>1. m + p - 1 \in Int /\ m - 1 <= m + p - 1 /\ m + p - 1 + 1 = m + p
      BY <2>1
    <3>2. Bytes(m, m + p - 1) \o Bytes(m + p - 1 + 1, l) = Bytes(m, l)
      BY <2>4, <3>1, BytesJoin
    <3>3. QED
      BY <3>1, <3>2
  <2>10. QED
    BY <2>8, <2>9 DEF l
<1>6. T = Nat
  <2> HIDE DEF T
  <2>1. QED
    BY <1>4, <1>5, AllNumbers DEF T
<1>7. FlattenSeq(SubSeq(w, 1, count)) = Bytes(m, UpTo(m + count * FrameMax - 1, n))
  BY <1>1, <1>6
<1>8. UpTo(m + count * FrameMax - 1, n) = n
  BY <1>1, <1>3 DEF UpTo
<1>9. SubSeq(w, 1, count) = w
  BY <1>2, SubSeqFull
<1>10. QED
  BY <1>2, <1>7, <1>8, <1>9 DEF w

----------------------------------------------------------------------------
(* The stream *)

\* What can be where: before the upgrade nothing is a frame, after it nothing is TCP's, and
\* a session runs on one of the two.
PlaceInv ==
  /\ phase \in {"sniff", "tcp", "http"} =>
       frames = <<>> /\ inCh = <<>> /\ pending = <<>> /\ pendingPos = 0 /\ outCh = <<>>
  /\ phase \in {"sniff", "http"} => session = "none" /\ packets = <<>> /\ readBuf = <<>> /\ pos = 0
  /\ phase = "ws" => net = <<>> /\ pos = Len(prefix)
  /\ session = "running" => phase \in {"tcp", "ws"}

LEMMA StepPlace == TypeOK /\ PlaceInv /\ [Next]_vars => PlaceInv'
<1> SUFFICES ASSUME TypeOK, PlaceInv, [Next]_vars PROVE PlaceInv'
  OBVIOUS
<1> USE DEF PlaceInv, client, wires, sniffed, wsIn, reader, replies
<1>1. ASSUME NEW n \in 1..PacketLen, ClientSends(n) PROVE PlaceInv'
  BY <1>1 DEF ClientSends
<1>2. ASSUME NEW n \in 0..PacketLen, ClientSendsFrame(n) PROVE PlaceInv'
  BY <1>2 DEF ClientSendsFrame
<1>3. CASE ClientCloses
  BY <1>3 DEF ClientCloses
<1>4. ASSUME NEW n \in 1..ReadMax, SniffRead(n) PROVE PlaceInv'
  BY <1>4 DEF SniffRead
<1>5. CASE SniffEnds
  BY <1>5 DEF SniffEnds
<1>6. CASE Upgrade
  BY <1>6 DEF Upgrade
<1>7. ASSUME NEW room \in 1..ReadMax, TcpRead(room) PROVE PlaceInv'
  BY <1>7 DEF TcpRead
<1>8. ASSUME NEW room \in 1..ReadMax, WsReadPending(room) PROVE PlaceInv'
  BY <1>8 DEF WsReadPending
<1>9. ASSUME NEW room \in 1..ReadMax, WsReadFrame(room) PROVE PlaceInv'
  BY <1>9 DEF WsReadFrame
<1>10. CASE TcpEof
  BY <1>10 DEF TcpEof
<1>11. CASE ReadPacket
  BY <1>11 DEF ReadPacket
<1>12. CASE Reply
  BY <1>12 DEF Reply
<1>13. CASE SessionEnds
  BY <1>13 DEF SessionEnds
<1>14. CASE BridgeIn
  BY <1>14 DEF BridgeIn
<1>15. CASE BridgeOut
  BY <1>15 DEF BridgeOut
<1>16. CASE BridgeEnds
  BY <1>16 DEF BridgeEnds
<1>17. CASE UNCHANGED vars
  BY <1>17 DEF vars
<1>18. QED
  BY <1>1, <1>2, <1>3, <1>4, <1>5, <1>6, <1>7, <1>8, <1>9, <1>10, <1>11, <1>12, <1>13, <1>14, <1>15,
     <1>16, <1>17 DEF Next, ReadStep

LEMMA InitPlace == Init => PlaceInv
BY DEF Init, PlaceInv

LEMMA Places == Spec => []PlaceInv
BY InitPlace, StepPlace, TypeCorrect, PTL DEF Spec

\* The parts of the stream, from the packets read to the frames on their way.
Stream(a, b, c, d, e, f, g) == a \o b \o c \o d \o e \o f \o g

Whole == Stream(FlattenSeq(packets), readBuf, Rest(prefix, pos), Rest(pending, pendingPos), FlattenSeq(inCh), net,
                FlattenSeq(frames))

Live == session # "ended" /\ phase \notin {"dropped", "closed"}

\* The parts are pieces.
Pieces ==
  /\ packets \in Seq(Str) /\ readBuf \in Str /\ prefix \in Str /\ pos \in 0..Len(prefix)
  /\ pending \in Str /\ pendingPos \in 0..Len(pending) /\ inCh \in Seq(Str) /\ net \in Str /\ frames \in Seq(Str)
  /\ FlattenSeq(packets) \in Str /\ Rest(prefix, pos) \in Str /\ Rest(pending, pendingPos) \in Str
  /\ FlattenSeq(inCh) \in Str /\ FlattenSeq(frames) \in Str
  /\ outCh \in Seq(Str) /\ received \in Str

LEMMA PiecesAre ==
  ASSUME NEW q \in Seq([1..PacketLen -> Nat]), NEW s \in Str, NEW i \in 0..Len(s)
  PROVE  q \in Seq(Str) /\ Rest(s, i) \in Str
<1>1. PacketLen \in Nat
  BY Lengths
<1>2. [1..PacketLen -> Nat] \subseteq Str
  BY <1>1 DEF Str
<1>3. q \in Seq(Str)
  BY <1>2, SeqMonotonic
<1>4. QED
  BY <1>3, SplitIs

LEMMA TypeIsPieces == TypeOK => Pieces
<1> SUFFICES ASSUME TypeOK PROVE Pieces
  OBVIOUS
<1>1. /\ packets \in Seq([1..PacketLen -> Nat]) /\ readBuf \in Str /\ prefix \in Str /\ pos \in 0..Len(prefix)
      /\ pending \in Str /\ pendingPos \in 0..Len(pending) /\ inCh \in Seq(Str) /\ net \in Str /\ frames \in Seq(Str)
      /\ outCh \in Seq(Str) /\ received \in Str
  BY DEF TypeOK, Str
<1>2. packets \in Seq(Str) /\ Rest(prefix, pos) \in Str /\ Rest(pending, pendingPos) \in Str
  BY <1>1, PiecesAre
<1>3. FlattenSeq(packets) \in Str /\ FlattenSeq(inCh) \in Str /\ FlattenSeq(frames) \in Str
  BY <1>1, <1>2, FlattenType
<1>4. QED
  BY <1>1, <1>2, <1>3 DEF Pieces

\* Before the upgrade the stream is what TCP has, after it what the WebSocket has.
TcpParts == FlattenSeq(packets) \o readBuf \o Rest(prefix, pos) \o net
WsParts  == FlattenSeq(packets) \o readBuf \o Rest(pending, pendingPos) \o FlattenSeq(inCh) \o FlattenSeq(frames)

LEMMA TcpStream ==
  (Pieces /\ PlaceInv /\ phase \in {"sniff", "tcp", "http"}) =>
     Whole = TcpParts
<1> SUFFICES ASSUME Pieces, PlaceInv, phase \in {"sniff", "tcp", "http"}
             PROVE  Whole = TcpParts
  OBVIOUS
<1>1. FlattenSeq(inCh) = <<>> /\ FlattenSeq(frames) = <<>>
  BY FlattenEmpty DEF PlaceInv
<1>2. Rest(pending, pendingPos) = <<>>
  <2>1. pending = <<>> /\ pendingPos = 0 /\ <<>> \in Str
    BY StrIs DEF PlaceInv
  <2>2. QED
    BY <2>1, RestEnds
<1>3. Stream(FlattenSeq(packets), readBuf, Rest(prefix, pos), <<>>, <<>>, net, <<>>)
        = FlattenSeq(packets) \o readBuf \o Rest(prefix, pos) \o net
  <2> DEFINE a == FlattenSeq(packets)
             b == readBuf
             c == Rest(prefix, pos)
             d == net
  <2>1. a \in Str /\ b \in Str /\ c \in Str /\ d \in Str
    BY DEF Pieces
  <2> HIDE DEF a, b, c, d
  <2>2. a \o b \in Str /\ a \o b \o c \in Str /\ a \o b \o c \o d \in Str
    BY <2>1, StrIs
  <2>3. Stream(a, b, c, <<>>, <<>>, d, <<>>) = a \o b \o c \o d
    BY <2>2, StrIs DEF Stream
  <2>4. QED
    BY <2>3 DEF a, b, c, d
<1>4. QED
  BY <1>1, <1>2, <1>3 DEF Whole, TcpParts

LEMMA WsStream ==
  (Pieces /\ PlaceInv /\ phase = "ws") =>
     Whole = WsParts
<1> SUFFICES ASSUME Pieces, PlaceInv, phase = "ws"
             PROVE  Whole = WsParts
  OBVIOUS
<1>1. net = <<>> /\ pos = Len(prefix)
  BY DEF PlaceInv
<1>2. Rest(prefix, pos) = <<>>
  BY <1>1, RestEnds DEF Pieces
<1>3. Stream(FlattenSeq(packets), readBuf, <<>>, Rest(pending, pendingPos), FlattenSeq(inCh), <<>>, FlattenSeq(frames))
        = FlattenSeq(packets) \o readBuf \o Rest(pending, pendingPos) \o FlattenSeq(inCh) \o FlattenSeq(frames)
  <2> DEFINE a == FlattenSeq(packets)
             b == readBuf
             c == Rest(pending, pendingPos)
             d == FlattenSeq(inCh)
             e == FlattenSeq(frames)
  <2>1. a \in Str /\ b \in Str /\ c \in Str /\ d \in Str /\ e \in Str
    BY DEF Pieces
  <2> HIDE DEF a, b, c, d, e
  <2>2. a \o b \in Str /\ a \o b \o c \o d \in Str
    BY <2>1, StrIs
  <2>3. Stream(a, b, <<>>, c, d, <<>>, e) = a \o b \o c \o d \o e
    BY <2>2, StrIs DEF Stream
  <2>4. QED
    BY <2>3 DEF a, b, c, d, e
<1>4. QED
  BY <1>1, <1>2, <1>3 DEF Whole, WsParts

Intact == Live => Whole = Bytes(1, sent)

OverTcp == {"sniff", "tcp", "http"}

LEMMA Before ==
  ASSUME TypeOK, PlaceInv, Intact, Live
  PROVE  /\ Pieces
         /\ \/ phase \in OverTcp /\ TcpParts = Bytes(1, sent)
            \/ phase = "ws" /\ WsParts = Bytes(1, sent)
<1>1. Pieces
  BY TypeIsPieces
<1>2. phase \in OverTcp \/ phase = "ws"
  BY DEF Live, TypeOK, Phases, OverTcp
<1>3. QED
  BY <1>1, <1>2, TcpStream, WsStream DEF Intact, OverTcp

\* What a step has to show.
LEMMA After ==
  ASSUME TypeOK, PlaceInv, [Next]_vars,
         Live' => \/ phase' \in OverTcp /\ TcpParts' = Bytes(1, sent')
                  \/ phase' = "ws" /\ WsParts' = Bytes(1, sent')
  PROVE  Intact'
<1>1. PlaceInv' /\ TypeOK'
  BY StepPlace, StepTypeOK
<1>2. Pieces'
  BY <1>1, TypeIsPieces, PTL
<1>3. (Pieces /\ PlaceInv /\ phase \in {"sniff", "tcp", "http"} => Whole = TcpParts)'
  BY TcpStream, PTL
<1>4. (Pieces /\ PlaceInv /\ phase = "ws" => Whole = WsParts)'
  BY WsStream, PTL
<1>5. QED
  BY <1>1, <1>2, <1>3, <1>4 DEF Intact, OverTcp

LEMMA Same ==
  ASSUME TypeOK, PlaceInv, Intact, [Next]_vars,
         UNCHANGED <<packets, readBuf, prefix, pos, pending, pendingPos, inCh, net, frames, sent, phase>>,
         session' # "ended" => session # "ended"
  PROVE  Intact'
<1>1. Live' => Live
  BY DEF Live
<1>2. TcpParts' = TcpParts /\ WsParts' = WsParts
  BY DEF TcpParts, WsParts
<1>3. QED
  BY <1>1, <1>2, Before, After

LEMMA SendsIntact ==
  ASSUME TypeOK, PlaceInv, Intact, [Next]_vars, NEW n \in 1..PacketLen, ClientSends(n)
  PROVE  Intact'
<1> SUFFICES ASSUME Live' PROVE phase' \in OverTcp /\ TcpParts' = Bytes(1, sent')
  BY After
<1>1. /\ UNCHANGED <<packets, readBuf, prefix, pos, phase>> /\ net' = net \o Bytes(sent + 1, sent + n)
      /\ sent' = sent + n /\ Live /\ phase # "ws" /\ sent \in Nat /\ n \in Nat
  BY Lengths DEF ClientSends, Live, reader, sniffed, TypeOK
<1>2. phase \in OverTcp /\ TcpParts = Bytes(1, sent) /\ Pieces
  BY <1>1, Before
<1> DEFINE pre == FlattenSeq(packets) \o readBuf \o Rest(prefix, pos)
           x == Bytes(sent + 1, sent + n)
<1>3. pre \in Str /\ net \in Str
  BY <1>2, StrIs DEF Pieces
<1>4. x \in Str
  BY <1>1, BytesIs
<1>5. TcpParts' = pre \o (net \o x) /\ TcpParts = pre \o net
  BY <1>1 DEF TcpParts
<1>6. Bytes(1, sent) \o x = Bytes(1, sent + n)
  BY <1>1, BytesMore
<1> HIDE DEF pre, x
<1>7. pre \o (net \o x) = (pre \o net) \o x
  <2>1. Cat(pre, Cat(net, x)) = Cat(Cat(pre, net), x)
    BY <1>3, <1>4, Joined
  <2>2. QED
    BY <2>1 DEF Cat
<1>8. QED
  BY <1>1, <1>2, <1>5, <1>6, <1>7

LEMMA SendsFrameIntact ==
  ASSUME TypeOK, PlaceInv, Intact, [Next]_vars, NEW n \in 0..PacketLen, ClientSendsFrame(n)
  PROVE  Intact'
<1> SUFFICES ASSUME Live' PROVE phase' = "ws" /\ WsParts' = Bytes(1, sent')
  BY After
<1> DEFINE pre == FlattenSeq(packets) \o readBuf \o Rest(pending, pendingPos) \o FlattenSeq(inCh)
           x == Bytes(sent + 1, sent + n)
<1>1. /\ UNCHANGED <<packets, readBuf, pending, pendingPos, inCh, phase>> /\ frames' = Append(frames, x)
      /\ sent' = sent + n /\ Live /\ phase = "ws" /\ sent \in Nat /\ n \in Nat
  BY Lengths DEF ClientSendsFrame, Live, reader, wsIn, TypeOK
<1>2. WsParts = Bytes(1, sent) /\ Pieces
  BY <1>1, Before DEF OverTcp
<1>3. pre \in Str /\ FlattenSeq(frames) \in Str /\ frames \in Seq(Str)
  BY <1>2, StrIs DEF Pieces
<1>4. x \in Str
  BY <1>1, BytesIs
<1>5. FlattenSeq(frames') = FlattenSeq(frames) \o x
  <2> HIDE DEF x
  <2>1. QED
    BY <1>1, <1>3, <1>4, FlattenAppend
<1>6. WsParts' = pre \o (FlattenSeq(frames) \o x) /\ WsParts = pre \o FlattenSeq(frames)
  <2>1. WsParts' = pre \o FlattenSeq(frames')
    BY <1>1 DEF WsParts
  <2>2. QED
    BY <1>5, <2>1 DEF WsParts
<1>7. Bytes(1, sent) \o x = Bytes(1, sent + n)
  BY <1>1, BytesMore
<1> HIDE DEF pre, x
<1>8. pre \o (FlattenSeq(frames) \o x) = (pre \o FlattenSeq(frames)) \o x
  <2>1. Cat(pre, Cat(FlattenSeq(frames), x)) = Cat(Cat(pre, FlattenSeq(frames)), x)
    BY <1>3, <1>4, Joined
  <2>2. QED
    BY <2>1 DEF Cat
<1>9. QED
  BY <1>1, <1>2, <1>6, <1>7, <1>8

LEMMA SniffIntact ==
  ASSUME TypeOK, PlaceInv, Intact, [Next]_vars, NEW n \in 1..ReadMax, SniffRead(n)
  PROVE  Intact'
<1> SUFFICES ASSUME Live' PROVE phase' \in OverTcp /\ TcpParts' = Bytes(1, sent')
  BY After
<1> DEFINE a == FlattenSeq(packets) \o readBuf
           x == First(net, n)
           y == Rest(net, n)
<1>1. /\ UNCHANGED <<packets, readBuf, pos, sent>> /\ prefix' = prefix \o x /\ net' = y
      /\ Live /\ phase = "sniff" /\ pos = 0 /\ n \in 0..Len(net) /\ phase' \in OverTcp
  BY Lengths DEF SniffRead, Live, client, PlaceInv, OverTcp, TypeOK
<1>2. TcpParts = Bytes(1, sent) /\ Pieces
  BY <1>1, Before
<1>3. a \in Str /\ net \in Str /\ prefix \in Str
  BY <1>2, StrIs DEF Pieces
<1>4. x \o y = net /\ x \in Str /\ y \in Str
  BY <1>1, <1>3, SplitIs
<1>5. Rest(prefix, pos) = prefix /\ Rest(prefix', pos') = prefix \o x
  <2>1. prefix \o x \in Str
    BY <1>3, <1>4, StrIs
  <2> HIDE DEF x
  <2>2. Rest(prefix, 0) = prefix /\ Rest(prefix \o x, 0) = prefix \o x
    BY <1>3, <2>1, RestEnds
  <2>3. QED
    BY <1>1, <2>2
<1>6. TcpParts = a \o prefix \o (x \o y)
  BY <1>4, <1>5 DEF TcpParts
<1>7. TcpParts' = a \o (prefix \o x) \o y
  <2> HIDE DEF x, y
  <2>1. TcpParts' = FlattenSeq(packets') \o readBuf' \o Rest(prefix', pos') \o net'
    BY DEF TcpParts
  <2>2. QED
    BY <1>1, <1>5, <2>1
<1> HIDE DEF a, x, y
<1>8. a \o (prefix \o x) \o y = a \o prefix \o (x \o y)
  <2>1. Cat(Cat(a, Cat(prefix, x)), y) = Cat(Cat(a, prefix), Cat(x, y))
    BY <1>3, <1>4, Moved
  <2>2. QED
    BY <2>1 DEF Cat
<1>9. QED
  BY <1>1, <1>2, <1>6, <1>7, <1>8

LEMMA UpgradeIntact ==
  ASSUME TypeOK, PlaceInv, Intact, [Next]_vars, Upgrade
  PROVE  Intact'
<1> SUFFICES ASSUME Live' PROVE phase' = "ws" /\ WsParts' = Bytes(1, sent')
  BY After
<1>1. /\ phase' = "ws" /\ sent' = 0
      /\ UNCHANGED <<packets, readBuf, pending, pendingPos, inCh, frames>>
      /\ packets = <<>> /\ readBuf = <<>> /\ pending = <<>> /\ pendingPos = 0 /\ inCh = <<>> /\ frames = <<>>
  BY DEF Upgrade, PlaceInv, wsIn
<1>2. WsParts' = WsParts
  BY <1>1 DEF WsParts
<1>3. FlattenSeq(packets) = <<>> /\ FlattenSeq(inCh) = <<>> /\ FlattenSeq(frames) = <<>>
  BY <1>1, FlattenEmpty
<1>4. Rest(pending, pendingPos) = <<>>
  <2>1. Rest(<<>>, 0) = <<>>
    BY StrIs, RestEnds
  <2>2. QED
    BY <1>1, <2>1
<1>5. WsParts = <<>>
  BY <1>1, <1>3, <1>4, StrIs DEF WsParts
<1>6. Bytes(1, 0) = <<>>
  <2>1. Bytes(1, 1 - 1) = <<>>
    BY NoBytes
  <2>2. QED
    BY <2>1
<1>7. QED
  BY <1>1, <1>2, <1>5, <1>6

LEMMA TcpReadIntact ==
  ASSUME TypeOK, PlaceInv, Intact, [Next]_vars, NEW room \in 1..ReadMax, TcpRead(room)
  PROVE  Intact'
<1> SUFFICES ASSUME Live' PROVE phase' \in OverTcp /\ TcpParts' = Bytes(1, sent')
  BY After
<1>0. /\ UNCHANGED <<packets, prefix, sent, phase>> /\ Live /\ phase \in OverTcp /\ room \in Nat
  BY Lengths DEF TcpRead, Live, client, OverTcp
<1>1. TcpParts = Bytes(1, sent) /\ Pieces
  BY <1>0, Before DEF OverTcp
<1> DEFINE a == FlattenSeq(packets)
<1>2. a \in Str /\ readBuf \in Str /\ Rest(prefix, pos) \in Str /\ net \in Str /\ prefix \in Str /\ pos \in 0..Len(prefix)
  BY <1>1 DEF Pieces
<1>3. CASE pos < Len(prefix)
  <2> DEFINE n == UpTo(Len(prefix) - pos, room)
             x == SubSeq(prefix, pos + 1, pos + n)
             y == Rest(prefix, pos + n)
  <2>1. readBuf' = readBuf \o x /\ pos' = pos + n /\ net' = net
    BY <1>3 DEF TcpRead
  <2>2. n \in 0..(Len(prefix) - pos)
    <3>1. Len(prefix) - pos \in Nat
      BY <1>2
    <3>2. QED
      BY <1>0, <3>1, UpToType
  <2>3. x \o y = Rest(prefix, pos) /\ x \in Str /\ y \in Str
    <3> HIDE DEF n
    <3>1. QED
      BY <1>2, <2>2, RestSplit
  <2> HIDE DEF n
  <2>4. TcpParts = a \o readBuf \o (x \o y) \o net
    BY <2>3 DEF TcpParts
  <2>5. TcpParts' = a \o (readBuf \o x) \o y \o net
    BY <1>0, <2>1 DEF TcpParts
  <2> HIDE DEF a, x, y
  <2>6. a \o (readBuf \o x) \o y = a \o readBuf \o (x \o y)
    <3>1. Cat(Cat(a, Cat(readBuf, x)), y) = Cat(Cat(a, readBuf), Cat(x, y))
      BY <1>2, <2>3, Moved
    <3>2. QED
      BY <3>1 DEF Cat
  <2>7. QED
    BY <1>0, <1>1, <2>4, <2>5, <2>6
<1>4. CASE ~(pos < Len(prefix))
  <2> DEFINE n == UpTo(Len(net), room)
             x == First(net, n)
             y == Rest(net, n)
  <2>1. readBuf' = readBuf \o x /\ net' = y /\ pos' = pos
    BY <1>4 DEF TcpRead
  <2>2. n \in 0..Len(net)
    <3>1. Len(net) \in Nat
      BY <1>2 DEF Str
    <3>2. QED
      BY <1>0, <3>1, UpToType
  <2>3. x \o y = net /\ x \in Str /\ y \in Str
    <3> HIDE DEF n
    <3>1. QED
      BY <1>2, <2>2, SplitIs
  <2>4. Rest(prefix, pos) = <<>>
    <3>1. pos = Len(prefix)
      BY <1>2, <1>4
    <3>2. QED
      BY <1>2, <3>1, RestEnds
  <2> HIDE DEF n
  <2>5. TcpParts = a \o readBuf \o <<>> \o (x \o y)
    BY <2>3, <2>4 DEF TcpParts
  <2>6. TcpParts' = a \o (readBuf \o x) \o <<>> \o y
    BY <1>0, <2>1, <2>4 DEF TcpParts
  <2> HIDE DEF a, x, y
  <2>7. a \o readBuf \o <<>> = a \o readBuf /\ a \o (readBuf \o x) \o <<>> = a \o (readBuf \o x)
    <3>1. a \o readBuf \in Str /\ a \o (readBuf \o x) \in Str
      BY <1>2, <2>3, StrIs
    <3>2. QED
      BY <3>1, StrIs
  <2>8. a \o (readBuf \o x) \o y = a \o readBuf \o (x \o y)
    <3>1. Cat(Cat(a, Cat(readBuf, x)), y) = Cat(Cat(a, readBuf), Cat(x, y))
      BY <1>2, <2>3, Moved
    <3>2. QED
      BY <3>1 DEF Cat
  <2>9. QED
    BY <1>0, <1>1, <2>5, <2>6, <2>7, <2>8
<1>5. QED
  BY <1>3, <1>4

LEMMA WsReadPendingIntact ==
  ASSUME TypeOK, PlaceInv, Intact, [Next]_vars, NEW room \in 1..ReadMax, WsReadPending(room)
  PROVE  Intact'
<1> SUFFICES ASSUME Live' PROVE phase' = "ws" /\ WsParts' = Bytes(1, sent')
  BY After
<1> DEFINE a == FlattenSeq(packets)
           n == UpTo(Len(pending) - pendingPos, room)
           x == SubSeq(pending, pendingPos + 1, pendingPos + n)
           y == Rest(pending, pendingPos + n)
<1>1. /\ UNCHANGED <<packets, pending, inCh, frames, sent, phase>> /\ Live /\ phase = "ws" /\ room \in Nat
      /\ readBuf' = readBuf \o x /\ pendingPos' = pendingPos + n
  BY Lengths DEF WsReadPending, Live, client, wires
<1>2. WsParts = Bytes(1, sent) /\ Pieces
  BY <1>1, Before DEF OverTcp
<1>3. a \in Str /\ readBuf \in Str /\ pending \in Str /\ pendingPos \in 0..Len(pending)
  BY <1>2 DEF Pieces
<1>4. n \in 0..(Len(pending) - pendingPos)
  BY <1>1, <1>3, UpToType
<1>5. x \o y = Rest(pending, pendingPos) /\ x \in Str /\ y \in Str
  <2> HIDE DEF n
  <2>1. QED
    BY <1>3, <1>4, RestSplit
<1> HIDE DEF n
<1>6. WsParts = a \o readBuf \o (x \o y) \o FlattenSeq(inCh) \o FlattenSeq(frames)
  BY <1>5 DEF WsParts
<1>7. WsParts' = a \o (readBuf \o x) \o y \o FlattenSeq(inCh) \o FlattenSeq(frames)
  BY <1>1 DEF WsParts
<1> HIDE DEF a, x, y
<1>8. a \o (readBuf \o x) \o y = a \o readBuf \o (x \o y)
  <2>1. Cat(Cat(a, Cat(readBuf, x)), y) = Cat(Cat(a, readBuf), Cat(x, y))
    BY <1>3, <1>5, Moved
  <2>2. QED
    BY <2>1 DEF Cat
<1>9. QED
  BY <1>1, <1>2, <1>6, <1>7, <1>8

LEMMA WsReadFrameIntact ==
  ASSUME TypeOK, PlaceInv, Intact, [Next]_vars, NEW room \in 1..ReadMax, WsReadFrame(room)
  PROVE  Intact'
<1> SUFFICES ASSUME Live' PROVE phase' = "ws" /\ WsParts' = Bytes(1, sent')
  BY After
<1> DEFINE a == FlattenSeq(packets)
           chunk == Head(inCh)
           n == UpTo(Len(chunk), room)
           x == First(chunk, n)
           y == Rest(chunk, n)
           i == FlattenSeq(Tail(inCh))
<1>1. /\ UNCHANGED <<packets, frames, sent, phase>> /\ Live /\ phase = "ws" /\ room \in Nat
      /\ inCh # <<>> /\ inCh' = Tail(inCh) /\ readBuf' = readBuf \o x /\ pendingPos = Len(pending)
  BY Lengths DEF WsReadFrame, Live, client, wires, Reading
<1>2. WsParts = Bytes(1, sent) /\ Pieces
  BY <1>1, Before DEF OverTcp
<1>3. /\ a \in Str /\ readBuf \in Str /\ pending \in Str /\ inCh \in Seq(Str)
  BY <1>2 DEF Pieces
<1>4. FlattenSeq(inCh) = chunk \o i /\ chunk \in Str /\ i \in Str
  BY <1>1, <1>3, FlattenHead, FlattenType
<1>5. n \in 0..Len(chunk)
  <2>1. Len(chunk) \in Nat
    BY <1>4 DEF Str
  <2>2. QED
    BY <1>1, <2>1, UpToType
<1>6. x \o y = chunk /\ x \in Str /\ y \in Str
  <2> HIDE DEF n
  <2>1. QED
    BY <1>4, <1>5, SplitIs
<1>7. Rest(pending, pendingPos) = <<>>
  BY <1>1, <1>3, RestEnds
<1>8. Rest(pending', pendingPos') = y
  <2>1. CASE n < Len(chunk)
    BY <2>1 DEF WsReadFrame
  <2>2. CASE ~(n < Len(chunk))
    <3>1. pending' = pending /\ pendingPos' = pendingPos
      BY <2>2 DEF WsReadFrame
    <3>2. n = Len(chunk)
      BY <1>5, <2>2
    <3>3. y = <<>>
      BY <1>4, <3>2, RestEnds
    <3>4. QED
      BY <1>7, <3>1, <3>3
  <2>3. QED
    BY <2>1, <2>2
<1> HIDE DEF chunk, n
<1>9. WsParts = a \o readBuf \o <<>> \o (chunk \o i) \o FlattenSeq(frames)
  BY <1>4, <1>7 DEF WsParts
<1>10. WsParts' = a \o (readBuf \o x) \o y \o i \o FlattenSeq(frames)
  <2>1. WsParts' = FlattenSeq(packets') \o readBuf' \o Rest(pending', pendingPos') \o FlattenSeq(inCh')
                     \o FlattenSeq(frames')
    BY DEF WsParts
  <2> HIDE DEF x, y
  <2>2. QED
    BY <1>1, <1>8, <2>1
<1> HIDE DEF a, x, y, i
<1>11. a \o readBuf \o <<>> = a \o readBuf /\ a \o readBuf \in Str
  BY <1>3, StrIs
<1>12. a \o (readBuf \o x) \o y = a \o readBuf \o chunk
  <2>1. a \o (readBuf \o x) \o y = a \o readBuf \o (x \o y)
    <3>1. Cat(Cat(a, Cat(readBuf, x)), y) = Cat(Cat(a, readBuf), Cat(x, y))
      BY <1>3, <1>6, Moved
    <3>2. QED
      BY <3>1 DEF Cat
  <2>2. QED
    BY <1>6, <2>1
<1>13. (a \o readBuf \o chunk) \o i = (a \o readBuf) \o (chunk \o i)
  <2>1. Cat(Cat(a \o readBuf, chunk), i) = Cat(a \o readBuf, Cat(chunk, i))
    BY <1>4, <1>11, Joined
  <2>2. QED
    BY <2>1 DEF Cat
<1>14. QED
  BY <1>1, <1>2, <1>9, <1>10, <1>11, <1>12, <1>13

LEMMA ReadPacketIntact ==
  ASSUME TypeOK, PlaceInv, Intact, [Next]_vars, ReadPacket
  PROVE  Intact'
<1> DEFINE a == FlattenSeq(packets)
           x == First(readBuf, PacketLen)
           y == Rest(readBuf, PacketLen)
<1> SUFFICES TcpParts' = TcpParts /\ WsParts' = WsParts
  <2>1. UNCHANGED <<phase, sent>> /\ (Live' => Live)
    BY DEF ReadPacket, Live, client
  <2>2. QED
    BY <2>1, Before, After
<1>1. /\ packets' = Append(packets, x) /\ readBuf' = y
      /\ UNCHANGED <<prefix, pos, pending, pendingPos, inCh, net, frames>>
  BY DEF ReadPacket, wires, sniffed, wsIn
<1>2. packets \in Seq(Str) /\ a \in Str /\ readBuf \in Str
  BY TypeIsPieces DEF Pieces
<1>3. PacketLen \in 0..Len(readBuf)
  <2>1. Len(readBuf) \in Nat
    BY <1>2 DEF Str
  <2>2. QED
    BY <2>1, Lengths DEF ReadPacket
<1>4. x \o y = readBuf /\ x \in Str /\ y \in Str
  BY <1>2, <1>3, SplitIs
<1> HIDE DEF x, y
<1>5. FlattenSeq(packets') = a \o x
  BY <1>1, <1>2, <1>4, FlattenAppend
<1>6. FlattenSeq(packets') \o readBuf' = FlattenSeq(packets) \o readBuf
  <2> HIDE DEF a
  <2>1. (a \o x) \o y = a \o (x \o y)
    <3>1. Cat(Cat(a, x), y) = Cat(a, Cat(x, y))
      BY <1>2, <1>4, Joined
    <3>2. QED
      BY <3>1 DEF Cat
  <2>2. FlattenSeq(packets') \o readBuf' = a \o readBuf
    BY <1>1, <1>4, <1>5, <2>1
  <2>3. QED
    BY <2>2 DEF a
<1>7. QED
  BY <1>1, <1>6 DEF TcpParts, WsParts

LEMMA BridgeInIntact ==
  ASSUME TypeOK, PlaceInv, Intact, [Next]_vars, BridgeIn
  PROVE  Intact'
<1> SUFFICES ASSUME Live' PROVE phase' = "ws" /\ WsParts' = Bytes(1, sent')
  BY After
<1> DEFINE a == FlattenSeq(packets) \o readBuf \o Rest(pending, pendingPos)
           b == FlattenSeq(inCh)
           x == Head(frames)
           y == FlattenSeq(Tail(frames))
<1>1. /\ UNCHANGED <<packets, readBuf, pending, pendingPos, sent, phase>> /\ Live /\ phase = "ws"
      /\ frames # <<>> /\ inCh' = Append(inCh, x) /\ frames' = Tail(frames)
  BY DEF BridgeIn, Live, client, reader
<1>2. WsParts = Bytes(1, sent) /\ Pieces
  BY <1>1, Before DEF OverTcp
<1>3. a \in Str /\ b \in Str /\ inCh \in Seq(Str) /\ frames \in Seq(Str)
  BY <1>2, StrIs DEF Pieces
<1>4. FlattenSeq(frames) = x \o y /\ x \in Str /\ y \in Str
  BY <1>1, <1>3, FlattenHead, FlattenType
<1>5. FlattenSeq(inCh') = b \o x
  <2> HIDE DEF x
  <2>1. QED
    BY <1>1, <1>3, <1>4, FlattenAppend
<1>6. WsParts = a \o b \o (x \o y)
  BY <1>4 DEF WsParts
<1>7. WsParts' = a \o (b \o x) \o y
  <2>1. WsParts' = a \o FlattenSeq(inCh') \o FlattenSeq(frames')
    BY <1>1 DEF WsParts
  <2>2. QED
    BY <1>1, <1>5, <2>1
<1> HIDE DEF a, b, x, y
<1>8. a \o (b \o x) \o y = a \o b \o (x \o y)
  <2>1. Cat(Cat(a, Cat(b, x)), y) = Cat(Cat(a, b), Cat(x, y))
    BY <1>3, <1>4, Moved
  <2>2. QED
    BY <2>1 DEF Cat
<1>9. QED
  BY <1>1, <1>2, <1>6, <1>7, <1>8

\* The rest leaves the stream alone or ends it.
LEMMA StepIntact == TypeOK /\ PlaceInv /\ Intact /\ [Next]_vars => Intact'
<1> SUFFICES ASSUME TypeOK, PlaceInv, Intact, [Next]_vars PROVE Intact'
  OBVIOUS
<1> USE DEF client, wires, sniffed, wsIn, reader, replies
<1>1. CASE \E n \in 1..PacketLen : ClientSends(n)
  BY <1>1, SendsIntact
<1>2. CASE \E n \in 0..PacketLen : ClientSendsFrame(n)
  BY <1>2, SendsFrameIntact
<1>3. CASE ClientCloses
  BY <1>3, Same DEF ClientCloses
<1>4. CASE \E n \in 1..ReadMax : SniffRead(n)
  BY <1>4, SniffIntact
<1>5. CASE SniffEnds
  BY <1>5 DEF SniffEnds, Intact, Live
<1>6. CASE Upgrade
  BY <1>6, UpgradeIntact
<1>7. CASE \E room \in 1..ReadMax : TcpRead(room)
  BY <1>7, TcpReadIntact
<1>8. CASE \E room \in 1..ReadMax : WsReadPending(room)
  BY <1>8, WsReadPendingIntact
<1>9. CASE \E room \in 1..ReadMax : WsReadFrame(room)
  BY <1>9, WsReadFrameIntact
<1>10. CASE TcpEof
  BY <1>10 DEF TcpEof, Intact, Live
<1>11. CASE ReadPacket
  BY <1>11, ReadPacketIntact
<1>12. CASE Reply
  BY <1>12, Same DEF Reply
<1>13. CASE SessionEnds
  BY <1>13 DEF SessionEnds, Intact, Live
<1>14. CASE BridgeIn
  BY <1>14, BridgeInIntact
<1>15. CASE BridgeOut
  BY <1>15, Same DEF BridgeOut
<1>16. CASE BridgeEnds
  BY <1>16 DEF BridgeEnds, Intact, Live
<1>17. CASE UNCHANGED vars
  BY <1>17, Same DEF vars
<1>18. QED
  BY <1>1, <1>2, <1>3, <1>4, <1>5, <1>6, <1>7, <1>8, <1>9, <1>10, <1>11, <1>12, <1>13, <1>14, <1>15,
     <1>16, <1>17 DEF Next, ReadStep

LEMMA InitIntact == Init => Intact
<1> SUFFICES ASSUME Init PROVE Intact
  OBVIOUS
<1>1. Pieces /\ PlaceInv /\ phase \in {"sniff", "tcp", "http"}
  BY InitTypeOK, InitPlace, TypeIsPieces DEF Init
<1>2. FlattenSeq(packets) = <<>> /\ readBuf = <<>> /\ Rest(prefix, pos) = <<>> /\ net = <<>>
  BY FlattenEmpty, RestEnds, StrIs DEF Init
<1>3. TcpParts = <<>>
  BY <1>2, StrIs DEF TcpParts
<1>4. Bytes(1, sent) = <<>>
  <2>1. Bytes(1, 1 - 1) = <<>>
    BY NoBytes
  <2>2. QED
    BY <2>1 DEF Init
<1>5. QED
  BY <1>1, <1>3, <1>4, TcpStream DEF Intact

\* SniffedStream and WsIo lose, repeat and displace nothing (main.rs:128-150, mqtt.rs:54-80), however
\* the bytes were cut into reads, frames and packets: an invariant because each
\* step moves a piece from the front of one place to the end of the place before it.
THEOREM StreamIsIntact == Spec => []StreamIntact
<1>1. Intact => StreamIntact
  BY DEF Intact, StreamIntact, Live, Whole, Stream
<1>2. Spec => [](TypeOK /\ PlaceInv /\ Intact)
  <2>1. Init => TypeOK /\ PlaceInv /\ Intact
    BY InitTypeOK, InitPlace, InitIntact
  <2>2. TypeOK /\ PlaceInv /\ Intact /\ [Next]_vars => (TypeOK /\ PlaceInv /\ Intact)'
    BY StepTypeOK, StepPlace, StepIntact
  <2>3. QED
    BY <2>1, <2>2, PTL DEF Spec
<1>3. QED
  BY <1>1, <1>2, PTL

----------------------------------------------------------------------------
(* The replies *)

LEMMA StepReplies == TypeOK /\ PlaceInv /\ RepliesIntact /\ [Next]_vars => RepliesIntact'
<1> SUFFICES ASSUME TypeOK, PlaceInv, RepliesIntact, [Next]_vars PROVE RepliesIntact'
  OBVIOUS
<1>0. /\ outCh \in Seq(Str) /\ received \in Str /\ FlattenSeq(outCh) \in Str /\ written \in Nat
      /\ received \o FlattenSeq(outCh) = Bytes(1, written)
  <2>1. outCh \in Seq(Str) /\ received \in Str
    BY TypeIsPieces DEF Pieces
  <2>2. QED
    BY <2>1, FlattenType DEF TypeOK, RepliesIntact
<1>1. CASE Reply
  <2> DEFINE x == Bytes(written + 1, written + PacketLen)
             w == Written(written + 1, written + PacketLen)
  <2>1. PacketLen \in Nat /\ written + 1 <= written + PacketLen /\ written' = written + PacketLen
    BY <1>0, <1>1, Lengths DEF Reply
  <2>2. x \in Str /\ FlattenSeq(w) = x /\ w \in Seq(Str)
    <3> DEFINE m == written + 1
               n == written + PacketLen
    <3>1. m \in Nat /\ n \in Nat /\ m <= n /\ n \in Int /\ m - 1 <= n
      BY <1>0, <2>1
    <3> HIDE DEF m, n
    <3>2. Bytes(m, n) \in Str /\ FlattenSeq(Written(m, n)) = Bytes(m, n) /\ Written(m, n) \in Seq(Str)
      BY <3>1, BytesIs, WrittenIs
    <3>3. QED
      BY <3>2 DEF m, n
  <2>3. Bytes(1, written) \o x = Bytes(1, written + PacketLen)
    BY <1>0, <2>1, BytesMore
  <2>4. CASE phase = "ws"
    <3>1. outCh' = outCh \o w /\ received' = received
      BY <1>1, <2>4 DEF Reply
    <3> HIDE DEF x, w
    <3>2. FlattenSeq(outCh') = FlattenSeq(outCh) \o x
      BY <1>0, <2>2, <3>1, FlattenConcat
    <3>3. received \o (FlattenSeq(outCh) \o x) = (received \o FlattenSeq(outCh)) \o x
      <4>1. Cat(received, Cat(FlattenSeq(outCh), x)) = Cat(Cat(received, FlattenSeq(outCh)), x)
        BY <1>0, <2>2, Joined
      <4>2. QED
        BY <4>1 DEF Cat
    <3>4. QED
      BY <1>0, <2>1, <2>3, <3>1, <3>2, <3>3 DEF RepliesIntact
  <2>5. CASE phase # "ws"
    <3>1. outCh' = outCh /\ received' = received \o x /\ outCh = <<>>
      BY <1>1, <2>5 DEF Reply, PlaceInv
    <3> HIDE DEF x, w
    <3>2. FlattenSeq(outCh') = <<>> /\ FlattenSeq(outCh) = <<>>
      BY <3>1, FlattenEmpty
    <3>3. received \o <<>> = received /\ (received \o x) \o <<>> = received \o x
      <4>1. received \o x \in Str
        BY <1>0, <2>2, StrIs
      <4>2. QED
        BY <1>0, <4>1, StrIs
    <3>4. QED
      BY <1>0, <2>1, <2>3, <3>1, <3>2, <3>3 DEF RepliesIntact
  <2>6. QED
    BY <2>4, <2>5
<1>2. CASE BridgeOut
  <2> DEFINE x == Head(outCh)
             y == FlattenSeq(Tail(outCh))
  <2>1. received' = received \o x /\ outCh' = Tail(outCh) /\ outCh # <<>> /\ written' = written
    BY <1>2 DEF BridgeOut
  <2>2. FlattenSeq(outCh) = x \o y /\ x \in Str /\ y \in Str
    BY <1>0, <2>1, FlattenHead, FlattenType
  <2>3. FlattenSeq(outCh') = y
    BY <2>1
  <2> HIDE DEF x, y
  <2>4. (received \o x) \o y = received \o (x \o y)
    <3>1. Cat(Cat(received, x), y) = Cat(received, Cat(x, y))
      BY <1>0, <2>2, Joined
    <3>2. QED
      BY <3>1 DEF Cat
  <2>5. QED
    BY <1>0, <2>1, <2>2, <2>3, <2>4 DEF RepliesIntact
<1>3. CASE UNCHANGED replies
  BY <1>3 DEF replies, RepliesIntact
<1>4. Reply \/ BridgeOut \/ UNCHANGED replies
  BY DEF Next, ReadStep, ClientSends, ClientSendsFrame, ClientCloses, SniffRead, SniffEnds, Upgrade, TcpRead,
         WsReadPending, WsReadFrame, TcpEof, ReadPacket, SessionEnds, BridgeIn, BridgeEnds, vars
<1>5. QED
  BY <1>1, <1>2, <1>3, <1>4

\* What WsIo cuts into frames (mqtt.rs:82-97) and the bridge sends (push_api.rs:200-215) is what the
\* session wrote, in order and without a gap, at any moment.
THEOREM RepliesAreIntact == Spec => []RepliesIntact
<1>1. Init => RepliesIntact
  <2> SUFFICES ASSUME Init PROVE RepliesIntact
    OBVIOUS
  <2>1. received = <<>> /\ FlattenSeq(outCh) = <<>> /\ written = 1 - 1
    BY FlattenEmpty DEF Init
  <2>2. Bytes(1, 1 - 1) = <<>>
    BY NoBytes
  <2>3. <<>> \o <<>> = <<>>
    BY StrIs
  <2>4. QED
    BY <2>1, <2>2, <2>3 DEF RepliesIntact
<1>2. Spec => [](TypeOK /\ PlaceInv /\ RepliesIntact)
  <2>1. TypeOK /\ PlaceInv /\ RepliesIntact /\ [Next]_vars => (TypeOK /\ PlaceInv /\ RepliesIntact)'
    BY StepTypeOK, StepPlace, StepReplies
  <2>2. QED
    BY <1>1, <2>1, InitTypeOK, InitPlace, PTL DEF Spec
<1>3. QED
  BY <1>2, PTL
=============================================================================
