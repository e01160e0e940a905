----------------------------- MODULE Transport -----------------------------
(***************************************************************************)
(* From a connection on the public port to the packets of an MQTT session: *)
(* the protocol is recognised by the first bytes (src/src/main.rs), which  *)
(* SniffedStream gives back to the reader; a WebSocket client's frames go  *)
(* through handle_ws (src/src/push_api.rs) and the two channels of WsIo    *)
(* (src/src/mqtt.rs); read_packet cuts the bytes into packets.             *)
(*                                                                         *)
(* A byte is its number in what the client has sent, so that a lost, a     *)
(* repeated and a displaced byte are all seen.  One connection; TLS and    *)
(* the HTTP library are transparent.                                       *)
(***************************************************************************)
EXTENDS Integers, Sequences, SequencesExt

CONSTANTS
    SniffLen,      \* 8 in the code
    ReadMax,       \* the largest room a reader offers, 512 and more in the code
    FrameMax,      \* the largest frame WsIo writes, 16 KB in the code
    PacketLen,     \* the length of an MQTT packet, and of an HTTP request
    MaxPackets,    \* bound: packets sent by the client
    MaxReplies     \* bound: packets written by the session

ASSUME TransportAssumption ==
    /\ {SniffLen, ReadMax, FrameMax, PacketLen, MaxPackets} \subseteq Nat \ {0}
    /\ MaxReplies \in Nat
    /\ SniffLen <= PacketLen

VARIABLES
    opening,   \* what the client's first bytes are
    sent,      \* how many bytes the client has sent, from the upgrade on if there was one
    open,      \* the client has not closed
    net,       \* bytes on their way over TCP
    frames,    \* frames on their way over the WebSocket
    phase,     \* where the connection is
    prefix,    \* SniffedStream: what sniffing has read, and how much is given back
    pos,
    inCh,      \* the channel from handle_ws to WsIo
    pending,   \* WsIo: the rest of a frame
    pendingPos,
    session,   \* the session task
    eof,       \* it has read the end of the stream
    readBuf,   \* its read_buf
    packets,   \* history: the packets it has read
    written,   \* history: how many bytes it has written
    outCh,     \* the channel from WsIo to handle_ws
    received   \* history: the bytes of the frames sent to the client

client  == <<opening, sent, open>>
wires   == <<net, frames>>
sniffed == <<prefix, pos>>
wsIn    == <<inCh, pending, pendingPos>>
reader  == <<session, eof, readBuf, packets>>
replies == <<written, outCh, received>>
vars    == <<client, wires, phase, sniffed, wsIn, reader, replies>>

----------------------------------------------------------------------------
(* Helpers *)

\* longConnect: a CONNECT whose remaining length takes two bytes.
Openings == {"connect", "longConnect", "request", "other"}
Phases   == {"sniff", "tcp", "http", "ws", "dropped", "closed"}

UpTo(m, n) == IF m < n THEN m ELSE n
First(s, n) == SubSeq(s, 1, n)
Rest(s, n)  == SubSeq(s, n + 1, Len(s))
Bytes(m, n) == [i \in 1..(n - m + 1) |-> m + i - 1]

\* "MQTT" is looked for at a fixed place, two bytes after a length of one byte.
IsMqtt(b) == Len(b) >= SniffLen /\ opening = "connect"
IsHttp    == opening = "request"

\* Whether read_packet asks for more bytes.
Reading == session = "running" /\ Len(readBuf) < PacketLen

Init ==
    /\ opening \in Openings
    /\ sent = 0
    /\ open = TRUE
    /\ net = <<>> /\ frames = <<>>
    /\ phase = "sniff"
    /\ prefix = <<>> /\ pos = 0
    /\ inCh = <<>> /\ pending = <<>> /\ pendingPos = 0
    /\ session = "none"
    /\ eof = FALSE
    /\ readBuf = <<>> /\ packets = <<>>
    /\ written = 0 /\ outCh = <<>> /\ received = <<>>

----------------------------------------------------------------------------
(* The client *)

\* A client that opens with an HTTP request waits for the upgrade.
ClientSends(n) ==
    /\ open
    /\ phase # "ws"
    /\ sent + n <= PacketLen * (IF opening = "request" THEN 1 ELSE MaxPackets)
    /\ sent' = sent + n
    /\ net' = net \o Bytes(sent + 1, sent + n)
    /\ UNCHANGED <<opening, open, frames, phase, sniffed, wsIn, reader, replies>>

\* A frame holds a part of a packet, or parts of several, or no byte at all; over
\* MQTT-WebSocket frames and packets need not agree.  Bound: one empty frame is on its
\* way at a time.
ClientSendsFrame(n) ==
    /\ open
    /\ phase = "ws"
    /\ n = 0 => <<>> \notin ToSet(frames \o inCh)
    /\ sent + n <= PacketLen * MaxPackets
    /\ sent' = sent + n
    /\ frames' = Append(frames, Bytes(sent + 1, sent + n))
    /\ UNCHANGED <<opening, open, net, phase, sniffed, wsIn, reader, replies>>

ClientCloses ==
    /\ open
    /\ open' = FALSE
    /\ UNCHANGED <<opening, sent, wires, phase, sniffed, wsIn, reader, replies>>

----------------------------------------------------------------------------
(* handle_public_conn *)

\* Mutant: half the bytes are taken for enough.
SniffRead_Early(n) ==
    LET b == prefix \o First(net, n)
    IN /\ phase = "sniff"
       /\ n <= Len(net)
       /\ prefix' = b
       /\ net' = Rest(net, n)
       /\ phase' = IF 2 * Len(b) < SniffLen THEN "sniff"
                   ELSE IF IsMqtt(b) THEN "tcp"
                   ELSE IF IsHttp THEN "http"
                   ELSE "dropped"
       /\ session' = IF phase' = "tcp" THEN "running" ELSE session
       /\ UNCHANGED <<client, frames, pos, wsIn, eof, readBuf, packets, replies>>

\* One read, and the decision once there are enough bytes.
SniffRead(n) ==
    LET b == prefix \o First(net, n)
    IN /\ phase = "sniff"
       /\ n <= Len(net)
       /\ prefix' = b
       /\ net' = Rest(net, n)
       /\ phase' = IF Len(b) < SniffLen THEN "sniff"
                   ELSE IF IsMqtt(b) THEN "tcp"
                   ELSE IF IsHttp THEN "http"
                   ELSE "dropped"
       /\ session' = IF phase' = "tcp" THEN "running" ELSE session
       /\ UNCHANGED <<client, frames, pos, wsIn, eof, readBuf, packets, replies>>

\* Five seconds without a byte, an error, or the end of the stream.
SniffEnds ==
    /\ phase = "sniff"
    /\ phase' = "closed"
    /\ UNCHANGED <<client, wires, sniffed, wsIn, reader, replies>>

\* The HTTP library has read the whole request through SniffedStream; push_entry or
\* ws_or_404 upgrades it and handle_ws spawns the session.
Upgrade ==
    /\ phase = "http"
    /\ Len(Rest(prefix, pos) \o net) = PacketLen
    /\ phase' = "ws"
    /\ session' = "running"
    /\ sent' = 0
    /\ net' = <<>>
    /\ pos' = Len(prefix)
    /\ UNCHANGED <<opening, open, frames, prefix, wsIn, eof, readBuf, packets, replies>>

----------------------------------------------------------------------------
(* The session's reads; room is what the buffer offers *)

\* SniffedStream::poll_read: first what sniffing has read, then the socket.
TcpRead(room) ==
    /\ phase = "tcp"
    /\ Reading
    /\ IF pos < Len(prefix)
       THEN LET n == UpTo(Len(prefix) - pos, room)
            IN /\ readBuf' = readBuf \o SubSeq(prefix, pos + 1, pos + n)
               /\ pos' = pos + n
               /\ UNCHANGED net
       ELSE /\ net # <<>>
            /\ readBuf' = readBuf \o First(net, UpTo(Len(net), room))
            /\ net' = Rest(net, UpTo(Len(net), room))
            /\ UNCHANGED pos
    /\ UNCHANGED <<client, frames, phase, prefix, wsIn, session, eof, packets, replies>>

TcpEof ==
    /\ phase = "tcp"
    /\ Reading
    /\ pos = Len(prefix)
    /\ net = <<>> /\ ~open
    /\ session' = "ended"
    /\ eof' = TRUE
    /\ UNCHANGED <<client, wires, phase, sniffed, wsIn, readBuf, packets, replies>>

\* WsIo::poll_read, the rest of a frame first.
WsReadPending(room) ==
    LET n == UpTo(Len(pending) - pendingPos, room)
    IN /\ phase = "ws"
       /\ Reading
       /\ pendingPos < Len(pending)
       /\ readBuf' = readBuf \o SubSeq(pending, pendingPos + 1, pendingPos + n)
       /\ pendingPos' = pendingPos + n
       /\ UNCHANGED <<client, wires, phase, sniffed, inCh, pending, session, eof, packets, replies>>

\* Mutant: the rest of a frame is not kept.
WsReadFrame_DropsRest(room) ==
    LET chunk == Head(inCh)
        n == UpTo(Len(chunk), room)
    IN /\ phase = "ws"
       /\ Reading
       /\ pendingPos = Len(pending)
       /\ inCh # <<>>
       /\ inCh' = Tail(inCh)
       /\ readBuf' = readBuf \o First(chunk, n)
       /\ eof' = (n = 0)
       /\ session' = IF n = 0 THEN "ended" ELSE session
       /\ UNCHANGED <<client, wires, phase, sniffed, pending, pendingPos, packets, replies>>

\* The next frame.  An empty one gives the reader no byte, which read_packet takes
\* for the end of the stream.
WsReadFrame(room) ==
    LET chunk == Head(inCh)
        n == UpTo(Len(chunk), room)
    IN /\ phase = "ws"
       /\ Reading
       /\ pendingPos = Len(pending)
       /\ inCh # <<>>
       /\ inCh' = Tail(inCh)
       /\ readBuf' = readBuf \o First(chunk, n)
       /\ IF n < Len(chunk)
          THEN pending' = chunk /\ pendingPos' = n
          ELSE UNCHANGED <<pending, pendingPos>>
       /\ eof' = (n = 0)
       /\ session' = IF n = 0 THEN "ended" ELSE session
       /\ UNCHANGED <<client, wires, phase, sniffed, packets, replies>>

\* Mutant: a packet is taken for incomplete until more has come.
ReadPacket_WantsMore ==
    /\ session = "running"
    /\ Len(readBuf) > PacketLen
    /\ packets' = Append(packets, First(readBuf, PacketLen))
    /\ readBuf' = Rest(readBuf, PacketLen)
    /\ UNCHANGED <<client, wires, phase, sniffed, wsIn, session, eof, replies>>

\* read_packet returns a packet.
ReadPacket ==
    /\ session = "running"
    /\ Len(readBuf) >= PacketLen
    /\ packets' = Append(packets, First(readBuf, PacketLen))
    /\ readBuf' = Rest(readBuf, PacketLen)
    /\ UNCHANGED <<client, wires, phase, sniffed, wsIn, session, eof, replies>>

----------------------------------------------------------------------------
(* The session's writes and its end *)

\* Mutant: poll_write claims the whole packet for its first frame.
Written_FirstOnly(m, n) == << Bytes(m, UpTo(m + FrameMax - 1, n)) >>

\* The frames write_packet makes of the bytes m..n: WsIo::poll_write takes FrameMax at most.
Written(m, n) ==
    LET count == (n - m + FrameMax) \div FrameMax
    IN [i \in 1..count |-> Bytes(m + (i - 1) * FrameMax, UpTo(m + i * FrameMax - 1, n))]

\* write_packet; over TCP the bytes are the socket's at once.
Reply ==
    /\ session = "running"
    /\ written < PacketLen * MaxReplies
    /\ written' = written + PacketLen
    /\ IF phase = "ws"
       THEN /\ outCh' = outCh \o Written(written + 1, written + PacketLen)
            /\ UNCHANGED received
       ELSE /\ received' = received \o Bytes(written + 1, written + PacketLen)
            /\ UNCHANGED outCh
    /\ UNCHANGED <<client, wires, phase, sniffed, wsIn, reader>>

\* DISCONNECT, a refused packet, an error or the idle timeout.
SessionEnds ==
    /\ session = "running"
    /\ session' = "ended"
    /\ UNCHANGED <<client, wires, phase, sniffed, wsIn, eof, readBuf, packets, replies>>

----------------------------------------------------------------------------
(* handle_ws *)

\* A frame for the session; if the session has gone, the bridge ends.
BridgeIn ==
    /\ phase = "ws"
    /\ frames # <<>>
    /\ IF session = "running"
       THEN /\ inCh' = Append(inCh, Head(frames))
            /\ frames' = Tail(frames)
            /\ UNCHANGED phase
       ELSE /\ phase' = "closed"
            /\ UNCHANGED <<inCh, frames>>
    /\ UNCHANGED <<client, net, sniffed, pending, pendingPos, reader, replies>>

BridgeOut ==
    /\ phase = "ws"
    /\ outCh # <<>>
    /\ received' = received \o Head(outCh)
    /\ outCh' = Tail(outCh)
    /\ UNCHANGED <<client, wires, phase, sniffed, wsIn, reader, written>>

\* A Close frame or an error, at any time, whatever is still in the channels; or the
\* session has gone and its last frame is out.
BridgeEnds ==
    /\ phase = "ws"
    /\ phase' = "closed"
    /\ session' = "ended"
    /\ UNCHANGED <<client, wires, sniffed, wsIn, eof, readBuf, packets, replies>>

----------------------------------------------------------------------------
(* Specification *)

ReadStep ==
    \/ \E room \in 1..ReadMax : TcpRead(room) \/ WsReadPending(room) \/ WsReadFrame(room)
    \/ TcpEof \/ ReadPacket

Next ==
    \/ \E n \in 1..PacketLen : ClientSends(n)
    \/ \E n \in 0..PacketLen : ClientSendsFrame(n)
    \/ ClientCloses
    \/ \E n \in 1..ReadMax : SniffRead(n)
    \/ SniffEnds \/ Upgrade
    \/ ReadStep
    \/ Reply \/ SessionEnds
    \/ BridgeIn \/ BridgeOut \/ BridgeEnds

Spec == Init /\ [][Next]_vars

\* Ready tasks are polled; select! in handle_ws picks at random among its branches.
FairSpec == Spec /\ WF_vars(ReadStep) /\ WF_vars(BridgeIn) /\ WF_vars(BridgeOut)

----------------------------------------------------------------------------
(* Properties *)

\* The type invariant; a packet has its length.
TypeOK ==
    /\ opening \in Openings
    /\ sent \in Nat /\ written \in Nat
    /\ open \in BOOLEAN /\ eof \in BOOLEAN
    /\ phase \in Phases
    /\ session \in {"none", "running", "ended"}
    /\ {net, prefix, pending, readBuf, received} \subseteq Seq(Nat)
    /\ {frames, inCh, outCh} \subseteq Seq(Seq(Nat))
    /\ pos \in 0..Len(prefix)
    /\ pendingPos \in 0..Len(pending)
    /\ packets \in Seq([1..PacketLen -> Nat])

\* However the bytes were cut into reads and frames, and whatever sniffing has read
\* ahead: while the connection lives every byte the client has sent is in exactly
\* one place, in order.
StreamIntact ==
    session # "ended" /\ phase \notin {"dropped", "closed"} =>
        FlattenSeq(packets) \o readBuf \o Rest(prefix, pos) \o Rest(pending, pendingPos)
            \o FlattenSeq(inCh) \o net \o FlattenSeq(frames) = Bytes(1, sent)

\* What is written reaches the client in order; what the bridge has not sent waits
\* in its channel.
RepliesIntact ==
    received \o FlattenSeq(outCh) = Bytes(1, written)

\* A connection is dropped as unknown only if it is; the decision does not depend
\* on how the first bytes were cut.
ProtocolFound ==
    /\ phase = "dropped" => opening \in {"longConnect", "other"}
    /\ phase = "tcp" => opening = "connect"

\* "The peer has closed = EOF" (mqtt.rs:70): the session reads the end of the stream
\* only from a client that has closed.  An empty frame refutes it.
EofMeansClosed == eof => ~open

\* A packet that has been sent whole is read, unless the session or the connection ends.
PacketsAreRead ==
    \A k \in 1..MaxPackets :
        (session = "running" /\ sent >= k * PacketLen) ~>
            (session = "ended" \/ Len(packets) >= k)

=============================================================================
