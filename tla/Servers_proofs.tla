---------------------------- MODULE Servers_proofs ----------------------------
(***************************************************************************)
(* Proofs of the safety invariants of the programs in Go: of a connection  *)
(* of the Wisp server (WispServer), for any streams, credits and bounds,   *)
(* and of the manager of Hydrui's own servers (HydruiServer), for any      *)
(* number of commands and requests.                                        *)
(***************************************************************************)
EXTENDS WispServer, HydruiServer, FiniteSetTheorems, TLAPS

(* Nothing has happened to stream s yet. *)
Untouched(s) ==
  /\ \A l \in Loop : loop[s][l] = "none"
  /\ stream[s].conn = "none"
  /\ ~stream[s].closed /\ ~stream[s].queueClosed
  /\ s \notin streams

Connecting(s) == \E i \in 1 .. Len(up) : up[i].type = "connect" /\ up[i].id = s

(* An ID is used once: a stream that is still to be connected is untouched. *)
UsedOnce ==
  /\ \A i, j \in 1 .. Len(up) :
       up[i].type = "connect" /\ up[j].type = "connect" /\ up[i].id = up[j].id => i = j
  /\ \A s \in Stream :
       /\ Connecting(s) => s \in client.known
       /\ Connecting(s) \/ s \notin client.known => Untouched(s)

(* Frames for the server name streams; those of the others do not matter. *)
NamesStreams ==
  \A i \in 1 .. Len(up) : up[i].type \in {"connect", "data", "close"} => up[i].id \in Stream

(* The handler holds a packet of a stream, and one that is in its map to push. *)
HandlerHolds ==
  /\ handler \in {"shut", "sweepShut"} => packet.id \in Stream
  /\ handler = "push" => packet.id \in streams

(* What closing a stream has done so far. *)
ClosingSoFar(s) ==
  /\ s \in streams => ~stream[s].queueClosed
  /\ \A a, b \in Closers(s) : a = b
  /\ Closers(s) # {} => stream[s].closed
  /\ stream[s].conn = "open" =>
       IF stream[s].closed THEN Closers(s) # {} ELSE s \in streams
  /\ \A l \in Loop : loop[s][l] = "pend" => stream[s].conn # "open"

IInv ==
  /\ TypeOK
  /\ UsedOnce
  /\ NamesStreams
  /\ HandlerHolds
  /\ NeverSendsOnClosed
  /\ \A s \in Stream : ClosingSoFar(s)
-----------------------------------------------------------------------------
(* A new serverStream has its type. *)
LEMMA NewStreamType == NewStream \in ServerStream
BY DEF NewStream, ServerStream

(* What the steps change in a stream keeps its type. *)
LEMMA FieldTypes ==
  ASSUME NEW t \in ServerStream
  PROVE  /\ [t EXCEPT !.closed = TRUE] \in ServerStream
         /\ \A c \in {"open", "closed"} : [t EXCEPT !.conn = c] \in ServerStream
         /\ \A q \in Seq(Nat) : [t EXCEPT !.queue = q] \in ServerStream
         /\ \A b \in BOOLEAN : [t EXCEPT !.queueClosed = b] \in ServerStream
BY DEF ServerStream

(* A stream replaced by one of the right type. *)
LEMMA StreamTypes ==
  ASSUME TypeOK, NEW s \in Stream, NEW t \in ServerStream, Len(t.queue) <= 1,
         stream' = [stream EXCEPT ![s] = t]
  PROVE  /\ stream' \in [Stream -> ServerStream]
         /\ \A r \in Stream : Len(stream'[r].queue) <= 1
BY DEF TypeOK

(* A stream of which one field is changed. *)
LEMMA FieldUpdateTypes ==
  ASSUME TypeOK, NEW s \in Stream,
         \/ \E c \in {"open", "closed"} : stream' = [stream EXCEPT ![s].conn = c]
         \/ stream' = [stream EXCEPT ![s].closed = TRUE]
         \/ \E b \in BOOLEAN : stream' = [stream EXCEPT ![s].queueClosed = b]
         \/ \E q \in Seq(Nat) : Len(q) <= 1 /\ stream' = [stream EXCEPT ![s].queue = q]
  PROVE  /\ stream' \in [Stream -> ServerStream]
         /\ \A r \in Stream : Len(stream'[r].queue) <= 1
<1>1. stream[s] \in ServerStream /\ Len(stream[s].queue) <= 1
  BY DEF TypeOK
<1>2. PICK t \in ServerStream : Len(t.queue) <= 1 /\ stream' = [stream EXCEPT ![s] = t]
  <2>1. ASSUME NEW c \in {"open", "closed"}, stream' = [stream EXCEPT ![s].conn = c]
        PROVE  \E t \in ServerStream : Len(t.queue) <= 1 /\ stream' = [stream EXCEPT ![s] = t]
    <3>1. [stream[s] EXCEPT !.conn = c].queue = stream[s].queue
      BY <1>1 DEF ServerStream
    <3> QED
      BY <1>1, <2>1, <3>1, FieldTypes
  <2>2. ASSUME stream' = [stream EXCEPT ![s].closed = TRUE]
        PROVE  \E t \in ServerStream : Len(t.queue) <= 1 /\ stream' = [stream EXCEPT ![s] = t]
    <3>1. [stream[s] EXCEPT !.closed = TRUE].queue = stream[s].queue
      BY <1>1 DEF ServerStream
    <3> QED
      BY <1>1, <2>2, <3>1, FieldTypes
  <2>3. ASSUME NEW b \in BOOLEAN, stream' = [stream EXCEPT ![s].queueClosed = b]
        PROVE  \E t \in ServerStream : Len(t.queue) <= 1 /\ stream' = [stream EXCEPT ![s] = t]
    <3>1. [stream[s] EXCEPT !.queueClosed = b].queue = stream[s].queue
      BY <1>1 DEF ServerStream
    <3> QED
      BY <1>1, <2>3, <3>1, FieldTypes
  <2>4. ASSUME NEW q \in Seq(Nat), Len(q) <= 1, stream' = [stream EXCEPT ![s].queue = q]
        PROVE  \E t \in ServerStream : Len(t.queue) <= 1 /\ stream' = [stream EXCEPT ![s] = t]
    <3>1. [stream[s] EXCEPT !.queue = q].queue = q
      BY <1>1 DEF ServerStream
    <3> QED
      BY <1>1, <2>4, <3>1, FieldTypes
  <2> QED
    BY <2>1, <2>2, <2>3, <2>4
<1> QED
  BY <1>2, StreamTypes

(* A write leaves the queue of the other direction alone. *)
LEMMA WritePacketType ==
  ASSUME TypeOK, NEW f \in Packet, NEW ok, WritePacket(f, ok)
  PROVE  /\ up' = up /\ down' \in Seq(Packet) /\ Len(down') <= WireCap
         /\ ws' \in {"open", "broken", "failed"}
<1>1. CASE down' = Append(down, f) /\ Len(down) < WireCap /\ ws' = ws
  BY <1>1, WispAssumption DEF TypeOK, WritePacket
<1>2. CASE down' = down
  BY <1>2 DEF TypeOK, WritePacket
<1> QED
  BY <1>1, <1>2 DEF WritePacket

(* Frames are packets. *)
LEMMA FrameType ==
  ASSUME NEW s \in Stream \cup {Everyone}, NEW n \in Nat,
         NEW type \in {"none", "connect", "data", "continue", "close", "other"}
  PROVE  Frame(type, s, n) \in Packet
BY DEF Frame, Packet

(* A step within one stream keeps the types if the new stream has them. *)
LEMMA LocalTypes ==
  ASSUME TypeOK, NEW s \in Stream, NEW l \in Loop, NEW at \in At,
         NEW t \in ServerStream, Len(t.queue) <= 1, Local(s, l, at, t)
  PROVE  TypeOK'
BY DEF TypeOK, Local, wire, run

(* The loops. *)
LEMMA LoopTypes ==
  ASSUME TypeOK, NEW s \in Stream,
         ClientReadLoop(s) \/ PeerReadLoop(s) \/ PeerWriteLoop(s)
  PROVE  TypeOK'
<1> DEFINE t == stream[s]
<1>1. t \in ServerStream /\ Len(t.queue) <= 1
  BY DEF TypeOK
<1>2. ASSUME NEW l \in Loop, CloseStep(s, l) PROVE TypeOK'
  <2>1. AfterClose(l) \in At /\ {"frame", "pend", "shut"} \subseteq At
    BY DEF AfterClose, At
  <2>2. CASE Swap(s, l)
    <3>1. [t EXCEPT !.closed = TRUE] \in ServerStream
          /\ [t EXCEPT !.closed = TRUE].queue = t.queue
      BY <1>1 DEF ServerStream
    <3> QED
      BY <1>1, <2>1, <2>2, <3>1, LocalTypes DEF Swap
  <2>3. CASE CloseFrame(s, l)
    <3>1. Frame("close", s, 0) \in Packet
      BY FrameType
    <3>2. loop' \in [Stream -> [Loop -> At]]
      BY <2>1, <2>3 DEF CloseFrame, TypeOK
    <3> QED
      BY <2>3, <3>1, <3>2, WritePacketType DEF CloseFrame, TypeOK, run
  <2>4. CASE Shut(s, l)
    <3>1. [t EXCEPT !.conn = "closed"] \in ServerStream
          /\ [t EXCEPT !.conn = "closed"].queue = t.queue
      BY <1>1 DEF ServerStream
    <3> QED
      BY <1>1, <2>1, <2>4, <3>1, LocalTypes DEF Shut
  <2> QED
    BY <1>2, <2>2, <2>3, <2>4 DEF CloseStep
<1>3. CASE Lend(s)
  <2> DEFINE u == [t EXCEPT !.lent = t.filling, !.filling = 3 - t.filling]
             v == [t EXCEPT !.lent = t.filling]
  <2>1. u \in ServerStream /\ u.queue = t.queue
    <3>1. t.filling \in {1, 2}
      BY <1>1 DEF ServerStream
    <3>2. 3 - t.filling \in {1, 2}
      BY <3>1
    <3>3. v \in ServerStream /\ v.queue = t.queue
      BY <1>1, <3>1 DEF ServerStream
    <3>4. u = [v EXCEPT !.filling = 3 - t.filling]
      OBVIOUS
    <3> HIDE DEF u, v
    <3> QED
      BY <3>2, <3>3, <3>4 DEF ServerStream
  <2>2. /\ stream' = [stream EXCEPT ![s] = u]
        /\ loop' = [loop EXCEPT ![s]["peerRead"] = "read", ![s]["clientRead"] = "copy"]
        /\ UNCHANGED <<wire, run, client>>
    BY <1>3 DEF Lend, HandOver
  <2> HIDE DEF u
  <2>3. loop' \in [Stream -> [Loop -> At]]
    BY <2>2 DEF TypeOK, Loop, At
  <2>4. /\ stream' \in [Stream -> ServerStream]
        /\ \A r \in Stream : Len(stream'[r].queue) <= 1
    BY <1>1, <2>1, <2>2, StreamTypes
  <2> QED
    BY <2>2, <2>3, <2>4 DEF TypeOK, wire, run
<1>4. CASE CopyData(s)
  <2>1. [t EXCEPT !.hand = t.buf[t.lent]] \in ServerStream
        /\ [t EXCEPT !.hand = t.buf[t.lent]].queue = t.queue
    BY <1>1 DEF ServerStream
  <2> QED
    BY <1>1, <1>4, <2>1, LocalTypes DEF CopyData, Loop, At
<1>5. CASE WriteToClient(s)
  <2>1. Frame("data", s, t.hand) \in Packet
    BY <1>1, FrameType DEF ServerStream
  <2>2. PICK ok \in BOOLEAN :
          /\ WritePacket(Frame("data", s, t.hand), ok)
          /\ stream' = [stream EXCEPT ![s].delivered = IF ok THEN @ + 1 ELSE @]
          /\ loop' = [loop EXCEPT ![s]["clientRead"] = IF ok THEN "recv" ELSE "swap"]
    BY <1>5 DEF WriteToClient
  <2> DEFINE d == IF ok THEN t.delivered + 1 ELSE t.delivered
             u == [t EXCEPT !.delivered = d]
  <2>3. d \in Nat
    BY <1>1 DEF ServerStream
  <2>4. u \in ServerStream /\ u.queue = t.queue
    BY <1>1, <2>3 DEF ServerStream
  <2>5. stream' = [stream EXCEPT ![s] = u]
    BY <2>2
  <2> HIDE DEF u, d
  <2>6. loop' \in [Stream -> [Loop -> At]]
    BY <2>2 DEF TypeOK, Loop, At
  <2>7. /\ stream' \in [Stream -> ServerStream]
        /\ \A r \in Stream : Len(stream'[r].queue) <= 1
    BY <1>1, <2>4, <2>5, StreamTypes
  <2> QED
    BY <1>5, <2>1, <2>2, <2>6, <2>7, WritePacketType DEF WriteToClient, TypeOK, run
<1>6. CASE ReadQueueEnds(s)
  BY <1>1, <1>6, LocalTypes DEF ReadQueueEnds, Loop, At
<1>7. CASE TakeData(s)
  <2> DEFINE u == [t EXCEPT !.queue = <<>>, !.taken = Head(t.queue)]
  <2>1. Head(t.queue) \in Nat
    BY <1>1, <1>7 DEF TakeData, ServerStream
  <2>2. u \in ServerStream /\ u.queue = <<>>
    <3> DEFINE v == [t EXCEPT !.queue = <<>>]
    <3>1. v \in ServerStream /\ v.queue = <<>>
      <4>1. <<>> \in Seq(Nat)
        OBVIOUS
      <4>2. v.queue = <<>>
        BY <1>1 DEF ServerStream
      <4> QED
        BY <1>1, <4>1, <4>2, FieldTypes
    <3>2. u = [v EXCEPT !.taken = Head(t.queue)]
      OBVIOUS
    <3> HIDE DEF u, v
    <3> QED
      BY <2>1, <3>1, <3>2 DEF ServerStream
  <2>3. Local(s, "peerWrite", "write", u)
    BY <1>7 DEF TakeData
  <2> HIDE DEF u
  <2> QED
    BY <2>2, <2>3, LocalTypes DEF Loop, At
<1>8. CASE WriteQueueEnds(s)
  BY <1>1, <1>8, LocalTypes DEF WriteQueueEnds, Loop, At
<1>9. CASE PeerTakes(s)
  <2> DEFINE n == t.counter + 1
             u == [t EXCEPT !.written = @ + 1, !.counter = n]
             at == IF n > WriteQueueLen \div 2 THEN "credit" ELSE "recv"
  <2>1. u \in ServerStream /\ u.queue = t.queue
    <3> DEFINE w == t.written + 1
               v == [t EXCEPT !.written = w]
    <3>1. v \in ServerStream /\ v.queue = t.queue
      <4>1. w \in Nat
        BY <1>1 DEF ServerStream
      <4> HIDE DEF w
      <4> QED
        BY <1>1, <4>1 DEF ServerStream
    <3>2. n \in Nat
      BY <1>1 DEF ServerStream
    <3>3. u = [v EXCEPT !.counter = n]
      OBVIOUS
    <3> HIDE DEF u, v, n
    <3> QED
      BY <3>1, <3>2, <3>3 DEF ServerStream
  <2>2. Local(s, "peerWrite", at, u)
    BY <1>9 DEF PeerTakes
  <2>3. at \in At
    BY DEF At
  <2> HIDE DEF u, at
  <2> QED
    BY <1>1, <2>1, <2>2, <2>3, LocalTypes DEF Loop
<1>10. CASE PeerRefuses(s)
  BY <1>1, <1>10, LocalTypes DEF PeerRefuses, Loop, At
<1>11. CASE GiveCredit(s)
  <2>1. Frame("continue", s, WriteQueueLen) \in Packet
    BY FrameType, WispAssumption
  <2> DEFINE u == [t EXCEPT !.counter = 0]
  <2>2. u \in ServerStream /\ u.queue = t.queue
    BY <1>1 DEF ServerStream
  <2>3. stream' = [stream EXCEPT ![s] = u]
    BY <1>11 DEF GiveCredit
  <2> HIDE DEF u
  <2>4. loop' \in [Stream -> [Loop -> At]]
    BY <1>11 DEF GiveCredit, TypeOK, Loop, At
  <2>5. /\ stream' \in [Stream -> ServerStream]
        /\ \A r \in Stream : Len(stream'[r].queue) <= 1
    BY <1>1, <2>2, <2>3, StreamTypes
  <2> QED
    BY <1>11, <2>1, <2>4, <2>5, WritePacketType DEF GiveCredit, TypeOK, run
<1> QED
  BY <1>2, <1>3, <1>4, <1>5, <1>6, <1>7, <1>8, <1>9, <1>10, <1>11
  DEF ClientReadLoop, PeerReadLoop, PeerWriteLoop, Loop

(* The client and the network. *)
LEMMA NetworkTypes ==
  ASSUME TypeOK, Network
  PROVE  TypeOK'
<1>1. ASSUME NEW f \in Packet, ClientSends(f),
             f.type \in {"connect", "data"} => f.id \in Stream
      PROVE  TypeOK'
  <2>1. up' \in Seq(Packet) /\ Len(up') <= WireCap
    BY <1>1, WispAssumption DEF ClientSends, TypeOK
  <2>2. f.n \in Nat
    BY DEF Packet
  <2>3. client' \in [frames : Nat, data : [Stream -> Nat], known : SUBSET Stream]
    BY <1>1, <2>2 DEF ClientSends, TypeOK
  <2> QED
    BY <1>1, <2>1, <2>3 DEF ClientSends, TypeOK, run
<1>2. ASSUME NEW s \in Stream, ClientConnects(s) \/ ClientWrites(s) \/ ClientCloses(s)
      PROVE  TypeOK'
  <2>1. /\ Frame("connect", s, 0) \in Packet /\ Frame("close", s, 0) \in Packet
        /\ Frame("data", s, client.data[s] + 1) \in Packet
    BY FrameType DEF TypeOK
  <2> QED
    BY <1>1, <1>2, <2>1 DEF ClientConnects, ClientWrites, ClientCloses, Frame
<1>3. CASE ClientSendsOther
  <2>1. Frame("other", Everyone, 0) \in Packet
    BY FrameType
  <2> QED
    BY <1>1, <1>3, <2>1 DEF ClientSendsOther, Frame
<1>4. CASE ClientReceives
  BY <1>4, WispAssumption DEF ClientReceives, TypeOK, run
<1>5. CASE Cut
  BY <1>5 DEF Cut, TypeOK, run
<1> QED
  BY <1>2, <1>3, <1>4, <1>5 DEF Network

(* The types hold in the beginning. *)
LEMMA TypeInit == Init => TypeOK
BY WispAssumption, NewStreamType, FrameType DEF Init, TypeOK, NewStream, At

(* Every step keeps the types. *)
LEMMA TypeStep == TypeOK /\ NamesStreams /\ HandlerHolds /\ [Next]_vars => TypeOK'
<1> SUFFICES ASSUME TypeOK, NamesStreams, HandlerHolds, [Next]_vars PROVE TypeOK'
  OBVIOUS
<1>1. CASE UNCHANGED vars
  BY <1>1 DEF TypeOK, vars, wire, run
<1>2. CASE SendInitialContinue
  <2>1. NoPacket \in Packet
    BY FrameType, WispAssumption DEF NoPacket
  <2>2. packet \in Packet
    BY DEF TypeOK
  <2> QED
    BY <1>2, <2>1, <2>2, WritePacketType DEF SendInitialContinue, TypeOK
<1>3. ASSUME NEW s \in Stream, NEW l \in Loop, ClosePending(s, l) PROVE TypeOK'
  <2> DEFINE b == stream[s].queueClosed \/ s \in streams
  <2>1. b \in BOOLEAN /\ stream' = [stream EXCEPT ![s].queueClosed = b]
    BY <1>3 DEF ClosePending, TypeOK, ServerStream
  <2> HIDE DEF b
  <2>2. /\ stream' \in [Stream -> ServerStream]
        /\ \A r \in Stream : Len(stream'[r].queue) <= 1
    BY <2>1, FieldUpdateTypes
  <2> QED
    BY <1>3, <2>2 DEF ClosePending, TypeOK, wire, AfterClose, At
<1>4. CASE NothingPending
  BY <1>4 DEF NothingPending, TypeOK, wire
<1>5. CASE ReadMessage
  <2>1. PICK f \in Packet : /\ f = Head(up)
                            /\ f.type \in {"connect", "data", "close"} => f.id \in Stream
    BY <1>5 DEF ReadMessage, TypeOK, NamesStreams
  <2>2. /\ up' \in Seq(Packet) /\ Len(up') <= WireCap
        /\ UNCHANGED <<down, ws, client>>
    BY <1>5, WispAssumption DEF ReadMessage, TypeOK
  <2>3. CASE f.type = "connect" /\ HandleConnect(f.id)
    <3>1. Frame("close", f.id, 0) \in Packet
      BY <2>1, <2>3, FrameType
    <3>2. CASE handler' = "reply"
      BY <2>1, <2>2, <2>3, <3>1, <3>2 DEF HandleConnect, TypeOK
    <3>3. CASE handler' = "poll"
      <4>1. f.id \in Stream /\ stream' = [stream EXCEPT ![f.id].conn = "open"]
        BY <2>1, <2>3, <3>3 DEF HandleConnect
      <4>2. /\ stream' \in [Stream -> ServerStream]
            /\ \A r \in Stream : Len(stream'[r].queue) <= 1
        BY <4>1, FieldUpdateTypes
      <4>3. [l \in Loop |-> IF l = "peerRead" THEN "read" ELSE "recv"] \in [Loop -> At]
        BY DEF At
      <4>4. loop' \in [Stream -> [Loop -> At]]
        BY <2>3, <3>3, <4>1, <4>3 DEF HandleConnect, TypeOK
      <4>5. streams' \subseteq Stream /\ packet' = packet
        BY <2>3, <3>3, <4>1 DEF HandleConnect, TypeOK
      <4> QED
        BY <2>2, <3>3, <4>2, <4>4, <4>5 DEF TypeOK
    <3> QED
      BY <2>3, <3>2, <3>3 DEF HandleConnect
  <2>4. CASE f.type = "data" /\ HandleData(f)
    BY <2>1, <2>2, <2>4 DEF HandleData, TypeOK
  <2>5. CASE f.type = "close" /\ HandleClose(f)
    <3>1. CASE handler' = "shut"
      <4>1. /\ stream' \in [Stream -> ServerStream]
            /\ \A r \in Stream : Len(stream'[r].queue) <= 1
        BY <2>1, <2>5, <3>1, FieldUpdateTypes DEF HandleClose
      <4> QED
        BY <2>1, <2>2, <2>5, <3>1, <4>1 DEF HandleClose, TypeOK
    <3>2. CASE handler' = "poll"
      BY <2>1, <2>2, <2>5, <3>2 DEF HandleClose, TypeOK
    <3> QED
      BY <2>5, <3>1, <3>2 DEF HandleClose
  <2>6. CASE f.type = "other" /\ HandleOther
    <3>1. Frame("close", Everyone, 0) \in Packet
      BY FrameType
    <3> QED
      BY <2>1, <2>2, <2>6, <3>1 DEF HandleOther, TypeOK
  <2> QED
    BY <1>5, <2>1, <2>3, <2>4, <2>5, <2>6 DEF ReadMessage
<1>6. CASE ReadError
  BY <1>6 DEF ReadError, TypeOK, wire
<1>7. CASE Reply
  <2>1. NoPacket \in Packet /\ packet \in Packet
    BY FrameType DEF NoPacket, TypeOK
  <2> QED
    BY <1>7, <2>1, WritePacketType DEF Reply, TypeOK
<1>8. CASE PushData
  <2>1. NoPacket \in Packet /\ packet.n \in Nat
    BY FrameType DEF NoPacket, TypeOK, Packet
  <2>2. packet.id \in Stream
    BY <1>8 DEF PushData, HandlerHolds, TypeOK
  <2>3. CASE handler' = "poll"
    <3>1. <<packet.n>> \in Seq(Nat) /\ Len(<<packet.n>>) <= 1
      BY <2>1
    <3>2. /\ stream' \in [Stream -> ServerStream]
          /\ \A r \in Stream : Len(stream'[r].queue) <= 1
      BY <1>8, <2>2, <2>3, <3>1, FieldUpdateTypes DEF PushData
    <3> QED
      BY <1>8, <2>1, <2>3, <3>2 DEF PushData, TypeOK, wire
  <2>4. CASE handler' = "panic"
    BY <1>8, <2>1, <2>4 DEF PushData, TypeOK, wire
  <2> QED
    BY <1>8, <2>3, <2>4 DEF PushData
<1>9. ASSUME NEW s \in Stream, Sweep(s) PROVE TypeOK'
  <2>1. Frame("close", s, 0) \in Packet
    BY FrameType
  <2>2. /\ stream' \in [Stream -> ServerStream]
        /\ \A r \in Stream : Len(stream'[r].queue) <= 1
    BY <1>9, FieldUpdateTypes DEF Sweep
  <2> QED
    BY <1>9, <2>1, <2>2 DEF Sweep, TypeOK, wire
<1>10. CASE ShutByHandler
  <2>1. NoPacket \in Packet
    BY FrameType DEF NoPacket
  <2>2. packet.id \in Stream
    BY <1>10 DEF ShutByHandler, HandlerHolds
  <2>3. /\ stream' \in [Stream -> ServerStream]
        /\ \A r \in Stream : Len(stream'[r].queue) <= 1
    BY <1>10, <2>2, FieldUpdateTypes DEF ShutByHandler
  <2> QED
    BY <1>10, <2>1, <2>3 DEF ShutByHandler, TypeOK, wire
<1>11. CASE Exit
  BY <1>11 DEF Exit, TypeOK
<1>12. ASSUME NEW s \in Stream, PeerSends(s) \/ PeerEnds(s) PROVE TypeOK'
  <2>1. stream[s] \in ServerStream /\ Len(stream[s].queue) <= 1
    BY DEF TypeOK
  <2>2. CASE PeerSends(s)
    <3> DEFINE n == stream[s].received + 1
               t == [stream[s] EXCEPT !.received = n, !.buf[stream[s].filling] = n]
               v == [stream[s] EXCEPT !.received = n]
               b == [v.buf EXCEPT ![stream[s].filling] = n]
    <3>1. t \in ServerStream /\ t.queue = stream[s].queue
      <4>1. n \in Nat
        BY <2>1 DEF ServerStream
      <4>2. v \in ServerStream /\ v.queue = stream[s].queue
        BY <2>1, <4>1 DEF ServerStream
      <4>3. b \in [{1, 2} -> Nat]
        BY <4>1, <4>2 DEF ServerStream
      <4>4. t = [v EXCEPT !.buf = b]
        OBVIOUS
      <4> HIDE DEF t, v, b
      <4> QED
        BY <4>2, <4>3, <4>4 DEF ServerStream
    <3>2. Local(s, "peerRead", "send", t)
      BY <2>2 DEF PeerSends
    <3> HIDE DEF t
    <3> QED
      BY <2>1, <3>1, <3>2, LocalTypes DEF Loop, At
  <2>3. CASE PeerEnds(s)
    BY <2>1, <2>3, LocalTypes DEF PeerEnds, Loop, At
  <2> QED
    BY <1>12, <2>2, <2>3
<1>13. ASSUME NEW s \in Stream, ClientReadLoop(s) \/ PeerReadLoop(s) \/ PeerWriteLoop(s)
       PROVE  TypeOK'
  BY <1>13, LoopTypes
<1>14. CASE Network
  BY <1>14, NetworkTypes
<1> QED
  BY <1>1, <1>2, <1>3, <1>4, <1>5, <1>6, <1>7, <1>8, <1>9, <1>10, <1>11, <1>12, <1>13, <1>14
  DEF Next, Handler
-----------------------------------------------------------------------------
(* A step that opens and closes nothing of a stream: all that the invariant
   on closing looks at stays as it is.                                     *)
Quiet(s) ==
  /\ s \in streams' <=> s \in streams
  /\ stream'[s].closed = stream[s].closed
  /\ stream'[s].conn = stream[s].conn
  /\ stream'[s].queueClosed = stream[s].queueClosed
  /\ Closers(s)' = Closers(s)
  /\ \A l \in Loop : loop'[s][l] = "pend" => loop[s][l] = "pend"
  /\ \A l \in Loop : loop'[s][l] = "none" <=> loop[s][l] = "none"

(* A quiet step keeps what the invariant says of the stream. *)
LEMMA QuietKeeps ==
  ASSUME NEW s \in Stream, ClosingSoFar(s), Quiet(s)
  PROVE  ClosingSoFar(s)'
BY DEF ClosingSoFar, Quiet

(* A quiet step leaves an untouched stream untouched. *)
LEMMA QuietUntouched ==
  ASSUME NEW s \in Stream, Quiet(s), Untouched(s)
  PROVE  Untouched(s)'
BY DEF Quiet, Untouched

(* A step within stream s leaves the others alone. *)
LEMMA OthersQuiet ==
  ASSUME NEW s, NEW r \in Stream, r # s,
         stream'[r] = stream[r], loop'[r] = loop[r], r \in streams' <=> r \in streams,
         handler' \in {"shut", "sweepShut"} /\ packet'.id = r
           <=> handler \in {"shut", "sweepShut"} /\ packet.id = r
  PROVE  Quiet(r)
BY DEF Quiet, Closers

(* The frames that are left name streams, and new ones only. *)
LEMMA FewerFrames ==
  ASSUME TypeOK, NamesStreams, UsedOnce, up # <<>>, up' = Tail(up), client' = client,
         \A s \in Stream : Untouched(s) /\ ~(Head(up).type = "connect" /\ s = Head(up).id)
                             => Untouched(s)'
  PROVE  NamesStreams' /\ UsedOnce'
<1>1. /\ up \in Seq(Packet) /\ Len(up) \in Nat /\ Len(up) > 0
      /\ Len(up') = Len(up) - 1
      /\ \A i \in 1 .. Len(up') : up'[i] = up[i + 1] /\ i + 1 \in 1 .. Len(up)
  BY DEF TypeOK
<1>2. Head(up) = up[1] /\ 1 \in 1 .. Len(up)
  BY <1>1
<1>3. NamesStreams'
  BY <1>1 DEF NamesStreams
<1>4. ASSUME NEW i \in 1 .. Len(up'), NEW j \in 1 .. Len(up'),
             up'[i].type = "connect", up'[j].type = "connect", up'[i].id = up'[j].id
      PROVE  i = j
  <2>1. i + 1 = j + 1
    BY <1>1, <1>4 DEF UsedOnce
  <2> QED
    BY <2>1
<1>5. ASSUME NEW s \in Stream, Connecting(s)'
      PROVE  Connecting(s) /\ ~(Head(up).type = "connect" /\ s = Head(up).id)
  <2>1. PICK i \in 1 .. Len(up') : up'[i].type = "connect" /\ up'[i].id = s
    BY <1>5 DEF Connecting
  <2>2. up[i + 1].type = "connect" /\ up[i + 1].id = s /\ i + 1 \in 1 .. Len(up) /\ i + 1 # 1
    BY <1>1, <2>1
  <2> QED
    BY <1>2, <2>2 DEF Connecting, UsedOnce
<1>6. ASSUME NEW s \in Stream
      PROVE  /\ Connecting(s)' => s \in client'.known
             /\ Connecting(s)' \/ s \notin client'.known => Untouched(s)'
  <2>1. CASE Connecting(s)'
    BY <1>5, <2>1 DEF UsedOnce
  <2>2. CASE s \notin client.known
    <3>1. ~Connecting(s) /\ Untouched(s)
      BY <2>2 DEF UsedOnce
    <3>2. ~(Head(up).type = "connect" /\ s = Head(up).id)
      BY <1>2, <3>1 DEF Connecting
    <3> QED
      BY <1>5, <2>2, <3>1, <3>2
  <2> QED
    BY <2>1, <2>2
<1> QED
  BY <1>3, <1>4, <1>6 DEF UsedOnce

(* Where no frame comes or goes, IDs are used once as before. *)
LEMMA SameFrames ==
  ASSUME NamesStreams, UsedOnce, up' = up, client' = client,
         \A s \in Stream : Untouched(s) => Untouched(s)'
  PROVE  NamesStreams' /\ UsedOnce'
<1>1. NamesStreams'
  BY DEF NamesStreams
<1>2. \A s \in Stream : Connecting(s)' = Connecting(s)
  BY DEF Connecting
<1> QED
  BY <1>1, <1>2 DEF UsedOnce
-----------------------------------------------------------------------------
(* What a step shows for the rest of the invariant to hold after it. *)
Kept ==
  /\ HandlerHolds' /\ NeverSendsOnClosed'
  /\ \A s \in Stream : ClosingSoFar(s)'
  /\ \A s \in Stream : Untouched(s) => Untouched(s)'

(* A step that is quiet for all streams. *)
LEMMA QuietStep ==
  ASSUME IInv, \A s \in Stream : Quiet(s)
  PROVE  /\ \A s \in Stream : ClosingSoFar(s)'
         /\ \A s \in Stream : Untouched(s) => Untouched(s)'
BY QuietKeeps, QuietUntouched DEF IInv

(* The steps of the handler that are quiet. *)
LEMMA QuietHandler ==
  ASSUME IInv,
         SendInitialContinue \/ NothingPending \/ ReadError \/ Reply \/ PushData \/ Exit
  PROVE  Kept /\ up' = up /\ client' = client
<1>1. /\ loop' = loop /\ streams' = streams /\ up' = up /\ client' = client
      /\ handler \notin {"shut", "sweepShut"} /\ handler' \notin {"shut", "sweepShut"}
      /\ handler' # "push"
  BY DEF SendInitialContinue, NothingPending, ReadError, Reply, PushData, Exit,
         WritePacket, wire
<1>2. \A s \in Stream : Closers(s)' = Closers(s)
  BY <1>1 DEF Closers
<1>3. handler' # "panic" /\ \A s \in Stream : Quiet(s)
  <2>1. CASE PushData
    <3>1. packet.id \in Stream /\ ~stream[packet.id].queueClosed
      BY <2>1 DEF PushData, HandlerHolds, ClosingSoFar, TypeOK, IInv
    <3>2. handler' = "poll" /\ stream' = [stream EXCEPT ![packet.id].queue = <<packet.n>>]
      BY <2>1, <3>1 DEF PushData
    <3>3. ASSUME NEW s \in Stream PROVE Quiet(s)
      <4>1. stream \in [Stream -> ServerStream]
        BY DEF TypeOK, IInv
      <4>2. CASE s = packet.id
        <5>1. stream'[s] = [stream[s] EXCEPT !.queue = <<packet.n>>]
          BY <3>2, <4>1, <4>2
        <5>2. /\ stream'[s].closed = stream[s].closed
              /\ stream'[s].conn = stream[s].conn
              /\ stream'[s].queueClosed = stream[s].queueClosed
          BY <4>1, <5>1 DEF ServerStream
        <5> QED
          BY <1>1, <1>2, <5>2 DEF Quiet
      <4>3. CASE s # packet.id
        <5>1. stream'[s] = stream[s]
          BY <3>2, <4>1, <4>3
        <5> QED
          BY <1>1, <1>2, <5>1 DEF Quiet
      <4> QED
        BY <4>2, <4>3
    <3> QED
      BY <3>2, <3>3
  <2>2. CASE ~PushData
    <3>1. stream' = stream /\ handler' # "panic"
      BY <2>2 DEF SendInitialContinue, NothingPending, ReadError, Reply, Exit
    <3> QED
      BY <1>1, <1>2, <3>1 DEF Quiet
  <2> QED
    BY <2>1, <2>2
<1> QED
  BY <1>1, <1>3, QuietStep DEF Kept, HandlerHolds, NeverSendsOnClosed

(* A quiet step of a loop: its stream becomes t, and its loops go on. *)
LEMMA QuietWithin ==
  ASSUME IInv, NEW s \in Stream, NEW t, run' = run,
         stream' = [stream EXCEPT ![s] = t],
         t.closed = stream[s].closed, t.conn = stream[s].conn,
         t.queueClosed = stream[s].queueClosed,
         \A r \in Stream : r # s => loop'[r] = loop[r],
         \A l \in Loop : loop'[s][l] \in {"none", "frame", "shut", "pend"}
                          \/ loop[s][l] \in {"none", "frame", "shut", "pend"}
                        => loop'[s][l] = loop[s][l]
                           \/ (loop[s][l] = "frame" /\ loop'[s][l] = "shut")
  PROVE  Kept
<1>1. stream \in [Stream -> ServerStream]
  BY DEF IInv, TypeOK
<1>2. handler' = handler /\ packet' = packet /\ streams' = streams
  BY DEF run
<1>3. \A r \in Stream \ {s} : Quiet(r)
  BY <1>1, <1>2, OthersQuiet
<1>4. Quiet(s)
  <2>1. stream'[s] = t
    BY <1>1
  <2>2. ASSUME NEW l \in Loop
        PROVE  /\ loop'[s][l] = "pend" => loop[s][l] = "pend"
               /\ loop'[s][l] = "none" <=> loop[s][l] = "none"
               /\ loop'[s][l] \in {"frame", "shut", "pend"}
                    <=> loop[s][l] \in {"frame", "shut", "pend"}
    OBVIOUS
  <2>3. Closers(s)' = Closers(s)
    BY <1>2, <2>2 DEF Closers
  <2> QED
    BY <1>2, <2>1, <2>2, <2>3 DEF Quiet
<1>5. \A r \in Stream : Quiet(r)
  BY <1>3, <1>4
<1> QED
  BY <1>2, <1>5, QuietStep DEF Kept, HandlerHolds, NeverSendsOnClosed, IInv

(* The steps of a loop that are quiet: all but a swap that wins and conn.Close. *)
LEMMA QuietLoop ==
  ASSUME IInv, NEW s \in Stream,
         \/ PeerSends(s) \/ PeerEnds(s) \/ Lend(s) \/ CopyData(s) \/ WriteToClient(s)
         \/ ReadQueueEnds(s) \/ TakeData(s) \/ WriteQueueEnds(s)
         \/ PeerTakes(s) \/ PeerRefuses(s) \/ GiveCredit(s)
         \/ \E l \in Loop : CloseFrame(s, l) \/ (Swap(s, l) /\ stream[s].closed)
  PROVE  Kept /\ up' = up /\ client' = client /\ ~Untouched(s)
<1>1. /\ stream \in [Stream -> ServerStream] /\ stream[s] \in ServerStream
      /\ loop \in [Stream -> [Loop -> At]]
  BY DEF IInv, TypeOK
<1>2. /\ run' = run /\ up' = up /\ client' = client
      /\ \A r \in Stream : r # s => loop'[r] = loop[r]
  BY <1>1 DEF PeerSends, PeerEnds, Lend, HandOver, CopyData, WriteToClient, ReadQueueEnds,
     TakeData, WriteQueueEnds, PeerTakes, PeerRefuses, GiveCredit, CloseFrame, Swap, Local,
     WritePacket, wire
<1>3. CASE PeerSends(s)
  <2> DEFINE t == [stream[s] EXCEPT !.received = stream[s].received + 1,
                                    !.buf[stream[s].filling] = stream[s].received + 1]
  <2>1. /\ t.closed = stream[s].closed /\ t.conn = stream[s].conn
        /\ t.queueClosed = stream[s].queueClosed
    BY <1>1 DEF ServerStream
  <2>2. loop[s]["peerRead"] = "read" /\ Local(s, "peerRead", "send", t)
    BY <1>3 DEF PeerSends
  <2> HIDE DEF t
  <2>3. /\ loop[s]["peerRead"] = "read" /\ loop'[s]["peerRead"] = "send"
        /\ \A k \in Loop : k # "peerRead" => loop'[s][k] = loop[s][k]
        /\ "peerRead" \in Loop
    BY <1>1, <2>2 DEF Local, Loop
  <2>4. \A k \in Loop : loop'[s][k] \in {"none", "frame", "shut", "pend"}
                          \/ loop[s][k] \in {"none", "frame", "shut", "pend"}
                        => loop'[s][k] = loop[s][k]
    BY <2>3
  <2>5. ~Untouched(s) /\ stream' = [stream EXCEPT ![s] = t]
    BY <2>2, <2>3 DEF Local, Untouched
  <2> QED
    BY <1>2, <2>1, <2>4, <2>5, QuietWithin
<1>4. CASE PeerEnds(s) \/ ReadQueueEnds(s) \/ WriteQueueEnds(s) \/ PeerRefuses(s)
  <2>1. /\ stream' = [stream EXCEPT ![s] = stream[s]]
        /\ \E l \in Loop :
             /\ loop[s][l] \in {"read", "recv", "write"} /\ loop'[s][l] \in {"swap", "end"}
             /\ \A k \in Loop : k # l => loop'[s][k] = loop[s][k]
    BY <1>1, <1>4 DEF PeerEnds, ReadQueueEnds, WriteQueueEnds, PeerRefuses, Local, Loop
  <2> QED
    BY <1>2, <2>1, QuietWithin DEF Untouched
<1>5. CASE Lend(s)
  <2> DEFINE t == [stream[s] EXCEPT !.lent = stream[s].filling,
                                    !.filling = 3 - stream[s].filling]
  <2>1. /\ t.closed = stream[s].closed /\ t.conn = stream[s].conn
        /\ t.queueClosed = stream[s].queueClosed
    BY <1>1 DEF ServerStream
  <2>2. HandOver(s, t)
    BY <1>5 DEF Lend
  <2> HIDE DEF t
  <2>3. /\ loop'[s]["peerRead"] = "read" /\ loop'[s]["clientRead"] = "copy"
        /\ loop[s]["peerRead"] = "send" /\ loop[s]["clientRead"] = "recv"
        /\ loop'[s]["peerWrite"] = loop[s]["peerWrite"]
    BY <1>1, <2>2 DEF HandOver, Loop
  <2> QED
    BY <1>2, <2>1, <2>2, <2>3, QuietWithin DEF HandOver, Loop, Untouched
<1>6. CASE CopyData(s)
  <2> DEFINE t == [stream[s] EXCEPT !.hand = stream[s].buf[stream[s].lent]]
  <2>1. /\ t.closed = stream[s].closed /\ t.conn = stream[s].conn
        /\ t.queueClosed = stream[s].queueClosed
    BY <1>1 DEF ServerStream
  <2>2. loop[s]["clientRead"] = "copy" /\ Local(s, "clientRead", "write", t)
    BY <1>6 DEF CopyData
  <2> HIDE DEF t
  <2>3. /\ loop[s]["clientRead"] = "copy" /\ loop'[s]["clientRead"] = "write"
        /\ \A k \in Loop : k # "clientRead" => loop'[s][k] = loop[s][k]
        /\ "clientRead" \in Loop
    BY <1>1, <2>2 DEF Local, Loop
  <2>4. \A k \in Loop : loop'[s][k] \in {"none", "frame", "shut", "pend"}
                          \/ loop[s][k] \in {"none", "frame", "shut", "pend"}
                        => loop'[s][k] = loop[s][k]
    BY <2>3
  <2>5. ~Untouched(s) /\ stream' = [stream EXCEPT ![s] = t]
    BY <2>2, <2>3 DEF Local, Untouched
  <2> QED
    BY <1>2, <2>1, <2>4, <2>5, QuietWithin
<1>7. CASE WriteToClient(s)
  <2>1. PICK ok \in BOOLEAN :
          /\ loop[s]["clientRead"] = "write"
          /\ stream' = [stream EXCEPT ![s].delivered = IF ok THEN @ + 1 ELSE @]
          /\ loop' = [loop EXCEPT ![s]["clientRead"] = IF ok THEN "recv" ELSE "swap"]
    BY <1>7 DEF WriteToClient
  <2> DEFINE d == IF ok THEN stream[s].delivered + 1 ELSE stream[s].delivered
             t == [stream[s] EXCEPT !.delivered = d]
  <2>2. /\ t.closed = stream[s].closed /\ t.conn = stream[s].conn
        /\ t.queueClosed = stream[s].queueClosed
    BY <1>1 DEF ServerStream
  <2>3. stream' = [stream EXCEPT ![s] = t]
    BY <2>1
  <2> HIDE DEF t
  <2>4. /\ loop[s]["clientRead"] = "write" /\ loop'[s]["clientRead"] \in {"recv", "swap"}
        /\ \A k \in Loop : k # "clientRead" => loop'[s][k] = loop[s][k]
        /\ "clientRead" \in Loop
    BY <1>1, <2>1 DEF Loop
  <2>5. \A k \in Loop : loop'[s][k] \in {"none", "frame", "shut", "pend"}
                          \/ loop[s][k] \in {"none", "frame", "shut", "pend"}
                        => loop'[s][k] = loop[s][k]
    BY <2>4
  <2>6. ~Untouched(s) /\ stream' = [stream EXCEPT ![s] = t]
    BY <2>2, <2>3, <2>4 DEF Local, Untouched
  <2> QED
    BY <1>2, <2>2, <2>5, <2>6, QuietWithin
<1>8. CASE TakeData(s)
  <2> DEFINE t == [stream[s] EXCEPT !.queue = <<>>, !.taken = Head(stream[s].queue)]
  <2>1. /\ t.closed = stream[s].closed /\ t.conn = stream[s].conn
        /\ t.queueClosed = stream[s].queueClosed
    BY <1>1 DEF ServerStream
  <2>2. loop[s]["peerWrite"] = "recv" /\ Local(s, "peerWrite", "write", t)
    BY <1>8 DEF TakeData
  <2> HIDE DEF t
  <2>3. /\ loop[s]["peerWrite"] = "recv" /\ loop'[s]["peerWrite"] = "write"
        /\ \A k \in Loop : k # "peerWrite" => loop'[s][k] = loop[s][k]
        /\ "peerWrite" \in Loop
    BY <1>1, <2>2 DEF Local, Loop
  <2>4. \A k \in Loop : loop'[s][k] \in {"none", "frame", "shut", "pend"}
                          \/ loop[s][k] \in {"none", "frame", "shut", "pend"}
                        => loop'[s][k] = loop[s][k]
    BY <2>3
  <2>5. ~Untouched(s) /\ stream' = [stream EXCEPT ![s] = t]
    BY <2>2, <2>3 DEF Local, Untouched
  <2> QED
    BY <1>2, <2>1, <2>4, <2>5, QuietWithin
<1>9. CASE PeerTakes(s)
  <2> DEFINE n == stream[s].counter + 1
             t == [stream[s] EXCEPT !.written = @ + 1, !.counter = n]
             at == IF n > WriteQueueLen \div 2 THEN "credit" ELSE "recv"
  <2>1. /\ t.closed = stream[s].closed /\ t.conn = stream[s].conn
        /\ t.queueClosed = stream[s].queueClosed
    BY <1>1 DEF ServerStream
  <2>2. loop[s]["peerWrite"] = "write" /\ Local(s, "peerWrite", at, t)
    BY <1>9 DEF PeerTakes
  <2>3. at \in {"credit", "recv"}
    OBVIOUS
  <2> HIDE DEF t, at
  <2>4. /\ loop[s]["peerWrite"] = "write" /\ loop'[s]["peerWrite"] \in {"credit", "recv"}
        /\ \A k \in Loop : k # "peerWrite" => loop'[s][k] = loop[s][k]
        /\ "peerWrite" \in Loop
    BY <1>1, <2>2, <2>3 DEF Local, Loop
  <2>5. \A k \in Loop : loop'[s][k] \in {"none", "frame", "shut", "pend"}
                          \/ loop[s][k] \in {"none", "frame", "shut", "pend"}
                        => loop'[s][k] = loop[s][k]
    BY <2>4
  <2>6. ~Untouched(s) /\ stream' = [stream EXCEPT ![s] = t]
    BY <2>2, <2>4 DEF Local, Untouched
  <2> QED
    BY <1>2, <2>1, <2>5, <2>6, QuietWithin
<1>10. CASE GiveCredit(s)
  <2> DEFINE t == [stream[s] EXCEPT !.counter = 0]
  <2>1. /\ t.closed = stream[s].closed /\ t.conn = stream[s].conn
        /\ t.queueClosed = stream[s].queueClosed
    BY <1>1 DEF ServerStream
  <2>2. /\ loop[s]["peerWrite"] = "credit" /\ stream' = [stream EXCEPT ![s] = t]
        /\ loop' = [loop EXCEPT ![s]["peerWrite"] = "recv"]
    BY <1>10 DEF GiveCredit
  <2> HIDE DEF t
  <2>3. /\ loop[s]["peerWrite"] = "credit" /\ loop'[s]["peerWrite"] = "recv"
        /\ \A k \in Loop : k # "peerWrite" => loop'[s][k] = loop[s][k]
        /\ "peerWrite" \in Loop
    BY <1>1, <2>2 DEF Loop
  <2>4. \A k \in Loop : loop'[s][k] \in {"none", "frame", "shut", "pend"}
                          \/ loop[s][k] \in {"none", "frame", "shut", "pend"}
                        => loop'[s][k] = loop[s][k]
    BY <2>3
  <2>5. ~Untouched(s) /\ stream' = [stream EXCEPT ![s] = t]
    BY <2>2, <2>3 DEF Local, Untouched
  <2> QED
    BY <1>2, <2>1, <2>4, <2>5, QuietWithin
<1>11. ASSUME NEW l \in Loop, Swap(s, l), stream[s].closed PROVE Kept /\ ~Untouched(s)
  <2> DEFINE t == [stream[s] EXCEPT !.closed = TRUE]
  <2>1. /\ t.closed = stream[s].closed /\ t.conn = stream[s].conn
        /\ t.queueClosed = stream[s].queueClosed
    BY <1>1, <1>11 DEF ServerStream
  <2>2. loop[s][l] = "swap" /\ Local(s, l, AfterClose(l), t)
    BY <1>11 DEF Swap
  <2>3. AfterClose(l) \in {"recv", "end"}
    BY DEF AfterClose
  <2> HIDE DEF t
  <2>4. /\ loop[s][l] = "swap" /\ loop'[s][l] \in {"recv", "end"}
        /\ \A k \in Loop : k # l => loop'[s][k] = loop[s][k]
    BY <1>1, <2>2, <2>3 DEF Local
  <2>5. \A k \in Loop : loop'[s][k] \in {"none", "frame", "shut", "pend"}
                          \/ loop[s][k] \in {"none", "frame", "shut", "pend"}
                        => loop'[s][k] = loop[s][k]
    BY <2>4
  <2>6. ~Untouched(s) /\ stream' = [stream EXCEPT ![s] = t]
    BY <2>2, <2>4 DEF Local, Untouched
  <2> QED
    BY <1>2, <2>1, <2>5, <2>6, QuietWithin
<1>12. ASSUME NEW l \in Loop, CloseFrame(s, l) PROVE Kept /\ ~Untouched(s)
  <2>1. /\ loop'[s][l] = "shut" /\ loop[s][l] = "frame"
        /\ \A k \in Loop : k # l => loop'[s][k] = loop[s][k]
    BY <1>1, <1>12 DEF CloseFrame
  <2>2. stream' = [stream EXCEPT ![s] = stream[s]]
    BY <1>1, <1>12 DEF CloseFrame
  <2> QED
    BY <1>2, <2>1, <2>2, QuietWithin DEF Untouched
<1> QED
  BY <1>2, <1>3, <1>4, <1>5, <1>6, <1>7, <1>8, <1>9, <1>10, <1>11, <1>12

(* A step within stream s that closes or opens something. *)
LEMMA Within ==
  ASSUME IInv, NEW s \in Stream, ClosingSoFar(s)', ~Untouched(s),
         HandlerHolds', NeverSendsOnClosed',
         \A r \in Stream \ {s} :
           /\ stream'[r] = stream[r] /\ loop'[r] = loop[r]
           /\ r \in streams' <=> r \in streams
           /\ handler' \in {"shut", "sweepShut"} /\ packet'.id = r
                <=> handler \in {"shut", "sweepShut"} /\ packet.id = r
  PROVE  Kept
<1>1. \A r \in Stream \ {s} : Quiet(r)
  BY OthersQuiet
<1>2. \A r \in Stream \ {s} : ClosingSoFar(r)' /\ (Untouched(r) => Untouched(r)')
  BY <1>1, QuietKeeps, QuietUntouched DEF IInv
<1> QED
  BY <1>2 DEF Kept

(* A swap that wins: the loop is the only one to close the stream. *)
LEMMA SwapKeeps ==
  ASSUME IInv, NEW s \in Stream, NEW l \in Loop, Swap(s, l), ~stream[s].closed
  PROVE  Kept /\ ~Untouched(s)
<1> DEFINE t == [stream[s] EXCEPT !.closed = TRUE]
<1>1. /\ stream \in [Stream -> ServerStream] /\ stream[s] \in ServerStream
      /\ loop \in [Stream -> [Loop -> At]] /\ ClosingSoFar(s)
  BY DEF IInv, TypeOK
<1>2. /\ t.closed /\ t.conn = stream[s].conn /\ t.queueClosed = stream[s].queueClosed
  BY <1>1 DEF ServerStream
<1>3. loop[s][l] = "swap" /\ Local(s, l, "frame", t)
  BY DEF Swap
<1> HIDE DEF t
<1>4. /\ handler' = handler /\ packet' = packet /\ streams' = streams
      /\ stream'[s] = t /\ loop'[s][l] = "frame"
      /\ \A k \in Loop : k # l => loop'[s][k] = loop[s][k]
      /\ \A r \in Stream \ {s} : stream'[r] = stream[r] /\ loop'[r] = loop[r]
  BY <1>1, <1>3 DEF Local, run
<1>5. Closers(s) = {}
  BY <1>1 DEF ClosingSoFar
<1>6. Closers(s)' = {l}
  <2>1. \A k \in Loop : loop[s][k] \notin {"frame", "shut", "pend"}
    BY <1>5 DEF Closers
  <2>2. ~(handler \in {"shut", "sweepShut"} /\ packet.id = s)
    BY <1>5 DEF Closers
  <2> QED
    BY <1>4, <2>1, <2>2 DEF Closers
<1>7. ClosingSoFar(s)'
  <2>1. \A k \in Loop : loop'[s][k] # "pend"
    BY <1>4, <1>5 DEF Closers
  <2>2. s \in streams' => ~stream'[s].queueClosed
    BY <1>1, <1>2, <1>4 DEF ClosingSoFar
  <2> QED
    BY <1>2, <1>4, <1>6, <2>1, <2>2 DEF ClosingSoFar
<1> QED
  BY <1>3, <1>4, <1>7, Within DEF IInv, HandlerHolds, NeverSendsOnClosed, Untouched

(* conn.Close of a loop. *)
LEMMA ShutKeeps ==
  ASSUME IInv, NEW s \in Stream, NEW l \in Loop, Shut(s, l)
  PROVE  Kept /\ ~Untouched(s)
<1> DEFINE t == [stream[s] EXCEPT !.conn = "closed"]
<1>1. /\ stream \in [Stream -> ServerStream] /\ stream[s] \in ServerStream
      /\ loop \in [Stream -> [Loop -> At]] /\ ClosingSoFar(s)
  BY DEF IInv, TypeOK
<1>2. /\ t.closed = stream[s].closed /\ t.conn = "closed"
      /\ t.queueClosed = stream[s].queueClosed
  BY <1>1 DEF ServerStream
<1>3. loop[s][l] = "shut" /\ Local(s, l, "pend", t)
  BY DEF Shut
<1> HIDE DEF t
<1>4. /\ handler' = handler /\ packet' = packet /\ streams' = streams
      /\ stream'[s] = t /\ loop'[s][l] = "pend"
      /\ \A k \in Loop : k # l => loop'[s][k] = loop[s][k]
      /\ \A r \in Stream \ {s} : stream'[r] = stream[r] /\ loop'[r] = loop[r]
  BY <1>1, <1>3 DEF Local, run
<1>5. Closers(s)' = Closers(s)
  BY <1>3, <1>4 DEF Closers
<1>6. ClosingSoFar(s)'
  BY <1>1, <1>2, <1>4, <1>5 DEF ClosingSoFar
<1> QED
  BY <1>3, <1>4, <1>6, Within DEF IInv, HandlerHolds, NeverSendsOnClosed, Untouched

(* closePending: the stream is closed, nobody else is at it, and it leaves the map. *)
LEMMA ClosePendingKeeps ==
  ASSUME IInv, NEW s \in Stream, NEW l \in Loop, ClosePending(s, l)
  PROVE  Kept /\ up' = up /\ client' = client
<1> DEFINE b == stream[s].queueClosed \/ s \in streams
           t == [stream[s] EXCEPT !.queueClosed = b]
<1>1. /\ stream \in [Stream -> ServerStream] /\ stream[s] \in ServerStream
      /\ loop \in [Stream -> [Loop -> At]] /\ ClosingSoFar(s)
  BY DEF IInv, TypeOK
<1>2. t.closed = stream[s].closed /\ t.conn = stream[s].conn
  BY <1>1 DEF ServerStream
<1>3. stream' = [stream EXCEPT ![s] = t]
  BY DEF ClosePending
<1> HIDE DEF t
<1>4. /\ handler' = handler /\ packet' = packet /\ s \notin streams'
      /\ handler \in {"poll", "final"} /\ up' = up /\ client' = client
      /\ stream'[s] = t /\ loop[s][l] = "pend" /\ loop'[s][l] \in {"recv", "end"}
      /\ \A k \in Loop : k # l => loop'[s][k] = loop[s][k]
      /\ \A r \in Stream \ {s} : /\ stream'[r] = stream[r] /\ loop'[r] = loop[r]
                                 /\ r \in streams' <=> r \in streams
  BY <1>1, <1>3 DEF ClosePending, AfterClose, wire
<1>5. \A k \in Loop : k # l => loop[s][k] \notin {"frame", "shut", "pend"}
  BY <1>1, <1>4 DEF ClosingSoFar, Closers
<1>6. Closers(s)' = {}
  BY <1>4, <1>5 DEF Closers
<1>7. stream'[s].conn # "open"
  BY <1>1, <1>2, <1>4 DEF ClosingSoFar
<1>8. ClosingSoFar(s)'
  BY <1>4, <1>6, <1>7 DEF ClosingSoFar
<1>9. HandlerHolds' /\ NeverSendsOnClosed' /\ ~Untouched(s)
  BY <1>4 DEF HandlerHolds, NeverSendsOnClosed, Untouched
<1>10. \A r \in Stream \ {s} :
         /\ stream'[r] = stream[r] /\ loop'[r] = loop[r]
         /\ r \in streams' <=> r \in streams
         /\ handler' \in {"shut", "sweepShut"} /\ packet'.id = r
              <=> handler \in {"shut", "sweepShut"} /\ packet.id = r
  BY <1>4
<1> QED
  BY <1>4, <1>8, <1>9, <1>10, Within

(* cleanup by the handler, as far as its swap, and the sweep of its map. *)
LEMMA SweepKeeps ==
  ASSUME IInv, NEW s \in Stream, Sweep(s)
  PROVE  Kept /\ up' = up /\ client' = client
<1> DEFINE t == [stream[s] EXCEPT !.closed = TRUE]
<1>1. /\ stream \in [Stream -> ServerStream] /\ stream[s] \in ServerStream
      /\ ClosingSoFar(s)
  BY DEF IInv, TypeOK
<1>2. /\ t.closed /\ t.conn = stream[s].conn /\ t.queueClosed = stream[s].queueClosed
  BY <1>1 DEF ServerStream
<1>3. stream' = [stream EXCEPT ![s] = t]
  BY DEF Sweep
<1> HIDE DEF t
<1>4. /\ handler = "sweep" /\ s \in streams /\ s \notin streams' /\ loop' = loop
      /\ up' = up /\ client' = client /\ stream'[s] = t
      /\ \A r \in Stream \ {s} : stream'[r] = stream[r] /\ (r \in streams' <=> r \in streams)
  BY <1>1, <1>3 DEF Sweep, wire
<1>5. /\ IF stream[s].closed
         THEN handler' = "sweep" /\ packet' = packet
         ELSE handler' = "sweepShut" /\ packet'.id = s
  BY DEF Sweep, Frame
<1>6. /\ \A a, b \in Closers(s)' : a = b
      /\ stream[s].conn = "open" => Closers(s)' # {}
  <2>1. CASE stream[s].closed
    <3>1. Closers(s)' = Closers(s)
      BY <1>4, <1>5, <2>1 DEF Closers
    <3> QED
      BY <1>1, <2>1, <3>1 DEF ClosingSoFar
  <2>2. CASE ~stream[s].closed
    <3>1. Closers(s) = {}
      BY <1>1, <2>2 DEF ClosingSoFar
    <3>2. Closers(s)' = {"handler"}
      BY <1>4, <1>5, <2>2, <3>1 DEF Closers
    <3> QED
      BY <3>2
  <2> QED
    BY <2>1, <2>2
<1>7. ClosingSoFar(s)'
  BY <1>1, <1>2, <1>4, <1>6 DEF ClosingSoFar
<1>8. HandlerHolds' /\ NeverSendsOnClosed' /\ ~Untouched(s)
  BY <1>4, <1>5 DEF HandlerHolds, NeverSendsOnClosed, Untouched
<1> QED
  BY <1>4, <1>5, <1>7, <1>8, Within

(* conn.Close of the handler, the only one to close the stream. *)
LEMMA ShutByHandlerKeeps ==
  ASSUME IInv, ShutByHandler
  PROVE  Kept /\ up' = up /\ client' = client
<1>1. PICK s \in Stream : s = packet.id
  BY DEF ShutByHandler, HandlerHolds, IInv
<1> DEFINE t == [stream[s] EXCEPT !.conn = "closed"]
<1>2. /\ s \in Stream /\ handler \in {"shut", "sweepShut"}
      /\ stream' = [stream EXCEPT ![s] = t] /\ handler' \in {"poll", "sweep"}
      /\ loop' = loop /\ streams' = streams /\ up' = up /\ client' = client
  BY <1>1 DEF ShutByHandler, wire
<1>3. /\ stream \in [Stream -> ServerStream] /\ stream[s] \in ServerStream
      /\ ClosingSoFar(s)
  BY <1>2 DEF IInv, TypeOK
<1>4. /\ t.closed = stream[s].closed /\ t.conn = "closed"
      /\ t.queueClosed = stream[s].queueClosed
  BY <1>3 DEF ServerStream
<1> HIDE DEF t
<1>5. stream'[s] = t /\ \A r \in Stream \ {s} : stream'[r] = stream[r]
  BY <1>2, <1>3
<1>6. "handler" \in Closers(s) /\ "handler" \notin Loop
  BY <1>1, <1>2 DEF Closers, Loop
<1>7. \A l \in Loop : loop[s][l] \notin {"frame", "shut", "pend"}
  BY <1>3, <1>6 DEF ClosingSoFar, Closers
<1>8. Closers(s)' = {}
  <2>1. \A l \in Loop : loop'[s][l] \notin {"frame", "shut", "pend"}
    BY <1>2, <1>7
  <2> QED
    BY <1>2, <2>1 DEF Closers
<1>9. ClosingSoFar(s)'
  BY <1>2, <1>3, <1>4, <1>5, <1>8 DEF ClosingSoFar
<1>10. HandlerHolds' /\ NeverSendsOnClosed' /\ ~Untouched(s)
  BY <1>2, <1>3, <1>6 DEF HandlerHolds, NeverSendsOnClosed, Untouched, ClosingSoFar
<1>11. \A r \in Stream \ {s} :
         /\ stream'[r] = stream[r] /\ loop'[r] = loop[r]
         /\ r \in streams' <=> r \in streams
         /\ handler' \in {"shut", "sweepShut"} /\ packet'.id = r
              <=> handler \in {"shut", "sweepShut"} /\ packet.id = r
  BY <1>1, <1>2, <1>5
<1> QED
  BY <1>2, <1>9, <1>10, <1>11, Within

(* ReadMessage: a stream that is connected was untouched, one that is closed
   by the handler had nobody closing it.                                   *)
LEMMA ReadKeeps ==
  ASSUME IInv, ReadMessage
  PROVE  /\ HandlerHolds' /\ NeverSendsOnClosed' /\ \A s \in Stream : ClosingSoFar(s)'
         /\ NamesStreams' /\ UsedOnce'
<1>1. /\ up # <<>> /\ up' = Tail(up) /\ client' = client /\ handler = "read"
      /\ stream \in [Stream -> ServerStream] /\ loop \in [Stream -> [Loop -> At]]
      /\ \A s \in Stream : ClosingSoFar(s)
  BY DEF ReadMessage, IInv, TypeOK
<1>2. PICK f \in Packet : f = up[1]
  BY <1>1 DEF IInv, TypeOK
<1>3. Head(up) = f /\ 1 \in 1 .. Len(up)
  BY <1>1, <1>2 DEF IInv, TypeOK
<1>4. f.type \in {"connect", "data", "close"} => f.id \in Stream
  BY <1>2, <1>3 DEF NamesStreams, IInv
<1>5. ASSUME Kept PROVE NamesStreams' /\ UsedOnce'
  BY <1>1, <1>5, FewerFrames DEF Kept, IInv
<1>6. CASE stream' = stream /\ streams' = streams /\ loop' = loop
           /\ handler' \in {"poll", "reply", "reject", "push"}
           /\ (handler' = "push" => packet'.id \in streams)
  <2>1. \A s \in Stream : Closers(s)' = Closers(s)
    BY <1>1, <1>6 DEF Closers
  <2>2. \A s \in Stream : Quiet(s)
    BY <1>6, <2>1 DEF Quiet
  <2>3. Kept
    BY <1>6, <2>2, QuietStep DEF Kept, HandlerHolds, NeverSendsOnClosed
  <2> QED
    BY <1>5, <2>3 DEF Kept
<1>7. CASE f.type = "connect" /\ HandleConnect(f.id)
  <2>1. CASE handler' = "reply"
    BY <1>6, <1>7, <2>1 DEF HandleConnect
  <2>2. CASE handler' = "poll"
    <3>1. PICK s \in Stream : s = f.id
      BY <1>4, <1>7
    <3> DEFINE t == [stream[s] EXCEPT !.conn = "open"]
    <3>2. /\ streams' = streams \cup {s} /\ stream' = [stream EXCEPT ![s] = t]
          /\ \A r \in Stream \ {s} : loop'[r] = loop[r]
          /\ \A l \in Loop : loop'[s][l] \in {"read", "recv"}
      BY <1>1, <1>7, <2>2, <3>1 DEF HandleConnect
    <3>3. Untouched(s)
      <4>1. Connecting(s)
        BY <1>2, <1>3, <1>7, <3>1 DEF Connecting
      <4> QED
        BY <4>1 DEF UsedOnce, IInv
    <3>4. t.closed = stream[s].closed /\ t.queueClosed = stream[s].queueClosed
      BY <1>1 DEF ServerStream
    <3> HIDE DEF t
    <3>5. stream'[s] = t /\ \A r \in Stream \ {s} : stream'[r] = stream[r]
      BY <1>1, <3>2
    <3>6. Closers(s)' = {}
      BY <2>2, <3>2 DEF Closers
    <3>7. ClosingSoFar(s)'
      BY <3>2, <3>3, <3>4, <3>5, <3>6 DEF ClosingSoFar, Untouched
    <3>8. \A r \in Stream \ {s} : Quiet(r)
      BY <1>1, <2>2, <3>2, <3>5, OthersQuiet
    <3>9. \A r \in Stream \ {s} : ClosingSoFar(r)' /\ (Untouched(r) => Untouched(r)')
      BY <1>1, <3>8, QuietKeeps, QuietUntouched
    <3>10. NamesStreams' /\ UsedOnce'
      BY <1>1, <1>3, <1>7, <3>1, <3>9, FewerFrames DEF IInv
    <3> QED
      BY <2>2, <3>7, <3>9, <3>10 DEF HandlerHolds, NeverSendsOnClosed
  <2> QED
    BY <1>7, <2>1, <2>2 DEF HandleConnect
<1>8. CASE f.type = "data" /\ HandleData(f)
  BY <1>6, <1>8 DEF HandleData
<1>9. CASE f.type = "close" /\ HandleClose(f)
  <2>1. CASE handler' = "poll"
    BY <1>6, <1>9, <2>1 DEF HandleClose
  <2>2. CASE handler' = "shut"
    <3>1. PICK s \in Stream : s = f.id
      BY <1>4, <1>9
    <3> DEFINE t == [stream[s] EXCEPT !.closed = TRUE]
    <3>2. /\ stream' = [stream EXCEPT ![s] = t] /\ packet'.id = s
          /\ streams' = streams /\ loop' = loop /\ s \in streams /\ ~stream[s].closed
      BY <1>9, <2>2, <3>1 DEF HandleClose
    <3>3. /\ t.closed /\ t.conn = stream[s].conn /\ t.queueClosed = stream[s].queueClosed
      BY <1>1 DEF ServerStream
    <3> HIDE DEF t
    <3>4. stream'[s] = t /\ \A r \in Stream \ {s} : stream'[r] = stream[r]
      BY <1>1, <3>2
    <3>5. Closers(s) = {}
      BY <1>1, <3>2 DEF ClosingSoFar
    <3>6. Closers(s)' = {"handler"}
      BY <2>2, <3>2, <3>5 DEF Closers
    <3>7. ClosingSoFar(s)'
      <4>1. \A k \in Loop : loop'[s][k] # "pend"
        BY <3>2, <3>5 DEF Closers
      <4> QED
        BY <1>1, <3>2, <3>3, <3>4, <3>6, <4>1 DEF ClosingSoFar
    <3>8. \A r \in Stream \ {s} :
            /\ stream'[r] = stream[r] /\ loop'[r] = loop[r]
            /\ r \in streams' <=> r \in streams
            /\ handler' \in {"shut", "sweepShut"} /\ packet'.id = r
                 <=> handler \in {"shut", "sweepShut"} /\ packet.id = r
      BY <1>1, <2>2, <3>2, <3>4
    <3>9. HandlerHolds' /\ NeverSendsOnClosed' /\ ~Untouched(s)
      BY <2>2, <3>2 DEF HandlerHolds, NeverSendsOnClosed, Untouched
    <3>10. Kept
      BY <3>7, <3>8, <3>9, Within
    <3> QED
      BY <1>5, <3>10 DEF Kept
  <2> QED
    BY <1>9, <2>1, <2>2 DEF HandleClose
<1>10. CASE f.type = "other" /\ HandleOther
  BY <1>6, <1>10 DEF HandleOther
<1> QED
  BY <1>3, <1>7, <1>8, <1>9, <1>10 DEF ReadMessage

(* A client connects a stream it does not know. *)
LEMMA NewFrame ==
  ASSUME IInv, NEW f \in Packet, ClientSends(f),
         f.type \in {"connect", "data", "close"} => f.id \in Stream,
         f.type = "connect" => f.id \notin client.known
  PROVE  NamesStreams' /\ UsedOnce'
<1> DEFINE n == Len(up)
<1>1. /\ n \in Nat /\ Len(up') = n + 1 /\ up'[n + 1] = f
      /\ \A i \in 1 .. n : up'[i] = up[i]
  BY DEF ClientSends, IInv, TypeOK
<1>2. client'.known = IF f.type = "connect" THEN client.known \cup {f.id} ELSE client.known
  BY DEF ClientSends
<1>3. \A s \in Stream : Untouched(s)' = Untouched(s)
  BY DEF ClientSends, Untouched, run
<1>4. ASSUME NEW s \in Stream
      PROVE  Connecting(s)' <=> Connecting(s) \/ (f.type = "connect" /\ f.id = s)
  BY <1>1 DEF Connecting
<1>5. NamesStreams'
  BY <1>1 DEF NamesStreams, IInv
<1>6. ASSUME NEW i \in 1 .. n, up[i].type = "connect"
      PROVE  up[i].id \in client.known
  BY <1>6 DEF NamesStreams, UsedOnce, Connecting, IInv
<1>7. ASSUME NEW i \in 1 .. n + 1, NEW j \in 1 .. n + 1,
             up'[i].type = "connect", up'[j].type = "connect", up'[i].id = up'[j].id
      PROVE  i = j
  <2>1. CASE i \in 1 .. n /\ j \in 1 .. n
    BY <1>1, <1>7, <2>1 DEF UsedOnce, IInv
  <2>2. CASE i = n + 1 /\ j \in 1 .. n
    BY <1>1, <1>6, <1>7, <2>2
  <2>3. CASE j = n + 1 /\ i \in 1 .. n
    BY <1>1, <1>6, <1>7, <2>3
  <2> QED
    BY <1>1, <2>1, <2>2, <2>3
<1>8. ASSUME NEW s \in Stream
      PROVE  /\ Connecting(s)' => s \in client'.known
             /\ Connecting(s)' \/ s \notin client'.known => Untouched(s)'
  BY <1>2, <1>3, <1>4 DEF UsedOnce, IInv
<1> QED
  BY <1>1, <1>5, <1>7, <1>8 DEF UsedOnce

(* The client and the network touch no stream. *)
LEMMA NetworkKeeps ==
  ASSUME IInv, Network
  PROVE  Kept /\ NamesStreams' /\ UsedOnce'
<1>1. run' = run /\ stream' = stream /\ loop' = loop
  BY DEF Network, ClientConnects, ClientWrites, ClientCloses, ClientSendsOther, ClientSends,
         ClientReceives, Cut
<1>2. \A s \in Stream : Quiet(s)
  BY <1>1 DEF Quiet, Closers, run
<1>3. Kept
  BY <1>1, <1>2, QuietStep DEF Kept, HandlerHolds, NeverSendsOnClosed, IInv, run
<1>4. ASSUME NEW s \in Stream, ClientConnects(s) \/ ClientWrites(s) \/ ClientCloses(s)
      PROVE  NamesStreams' /\ UsedOnce'
  <2>1. /\ Frame("connect", s, 0) \in Packet /\ Frame("close", s, 0) \in Packet
        /\ Frame("data", s, client.data[s] + 1) \in Packet
    BY FrameType DEF TypeOK, IInv
  <2> QED
    BY <1>4, <2>1, NewFrame DEF ClientConnects, ClientWrites, ClientCloses, Frame
<1>5. CASE ClientSendsOther
  <2>1. Frame("other", Everyone, 0) \in Packet
    BY FrameType
  <2>2. Frame("other", Everyone, 0).type = "other"
    BY DEF Frame
  <2>3. PICK f \in Packet : f.type = "other" /\ ClientSends(f)
    BY <1>5, <2>1, <2>2 DEF ClientSendsOther
  <2>4. /\ f.type \in {"connect", "data", "close"} => f.id \in Stream
        /\ f.type = "connect" => f.id \notin client.known
    BY <2>3
  <2> QED
    BY <1>3, <2>3, <2>4, NewFrame
<1>6. CASE ClientReceives \/ Cut
  BY <1>3, <1>6, SameFrames DEF ClientReceives, Cut, Kept, IInv
<1> QED
  BY <1>3, <1>4, <1>5, <1>6 DEF Network

-----------------------------------------------------------------------------
(* The invariant holds in the beginning. *)
LEMMA IInvInit == Init => IInv
<1> SUFFICES ASSUME Init PROVE IInv
  OBVIOUS
<1>1. /\ up = <<>> /\ handler = "init" /\ streams = {} /\ client.known = {}
      /\ \A s \in Stream : /\ stream[s].closed = FALSE /\ stream[s].conn = "none"
                           /\ stream[s].queueClosed = FALSE
                           /\ \A l \in Loop : loop[s][l] = "none"
  BY DEF Init, NewStream
<1>2. TypeOK
  BY TypeInit
<1>3. \A s \in Stream : Untouched(s) /\ ~Connecting(s)
  BY <1>1 DEF Untouched, Connecting
<1>4. UsedOnce /\ NamesStreams
  BY <1>1, <1>3 DEF UsedOnce, NamesStreams
<1>5. \A s \in Stream : Closers(s) = {}
  BY <1>1 DEF Closers
<1>6. \A s \in Stream : ClosingSoFar(s)
  BY <1>1, <1>5 DEF ClosingSoFar
<1> QED
  BY <1>1, <1>2, <1>4, <1>6 DEF IInv, HandlerHolds, NeverSendsOnClosed

(* The invariant is inductive. *)
LEMMA IInvStep == IInv /\ [Next]_vars => IInv'
<1> SUFFICES ASSUME IInv, [Next]_vars PROVE IInv'
  OBVIOUS
<1>1. TypeOK'
  BY TypeStep DEF IInv
<1>2. ASSUME Kept, up' = up, client' = client PROVE IInv'
  BY <1>1, <1>2, SameFrames DEF Kept, IInv
<1>3. CASE UNCHANGED vars
  <2>1. \A s \in Stream : Quiet(s)
    BY <1>3 DEF Quiet, Closers, vars, run
  <2>2. Kept
    BY <1>3, <2>1, QuietStep DEF Kept, HandlerHolds, NeverSendsOnClosed, IInv, vars, run
  <2> QED
    BY <1>2, <1>3, <2>2 DEF vars, wire
<1>4. CASE SendInitialContinue \/ NothingPending \/ ReadError \/ Reply \/ PushData \/ Exit
  BY <1>2, <1>4, QuietHandler
<1>5. ASSUME NEW s \in Stream, NEW l \in Loop, ClosePending(s, l) PROVE IInv'
  BY <1>2, <1>5, ClosePendingKeeps
<1>6. CASE ReadMessage
  BY <1>1, <1>6, ReadKeeps DEF IInv
<1>7. ASSUME NEW s \in Stream, Sweep(s) PROVE IInv'
  BY <1>2, <1>7, SweepKeeps
<1>8. CASE ShutByHandler
  BY <1>2, <1>8, ShutByHandlerKeeps
<1>9. ASSUME NEW s \in Stream, NEW l \in Loop, CloseStep(s, l) PROVE IInv'
  <2>1. CASE Swap(s, l) /\ ~stream[s].closed
    <3>1. up' = up /\ client' = client
      BY <2>1 DEF Swap, Local, wire
    <3> QED
      BY <1>2, <2>1, <3>1, SwapKeeps
  <2>2. CASE Shut(s, l)
    <3>1. up' = up /\ client' = client
      BY <2>2 DEF Shut, Local, wire
    <3> QED
      BY <1>2, <2>2, <3>1, ShutKeeps
  <2>3. CASE CloseFrame(s, l) \/ (Swap(s, l) /\ stream[s].closed)
    BY <1>2, <2>3, QuietLoop
  <2> QED
    BY <1>9, <2>1, <2>2, <2>3 DEF CloseStep
<1>10. ASSUME NEW s \in Stream,
              PeerSends(s) \/ PeerEnds(s) \/ PeerReadLoop(s) \/ ClientReadLoop(s)
                \/ PeerWriteLoop(s)
       PROVE  IInv'
  <2>1. CASE \E l \in Loop : CloseStep(s, l)
    BY <1>9, <2>1
  <2>2. CASE \/ PeerSends(s) \/ PeerEnds(s) \/ Lend(s) \/ CopyData(s) \/ WriteToClient(s)
             \/ ReadQueueEnds(s) \/ TakeData(s) \/ WriteQueueEnds(s)
             \/ PeerTakes(s) \/ PeerRefuses(s) \/ GiveCredit(s)
    BY <1>2, <2>2, QuietLoop
  <2> QED
    BY <1>10, <2>1, <2>2 DEF PeerReadLoop, ClientReadLoop, PeerWriteLoop, Loop
<1>11. CASE Network
  BY <1>1, <1>11, NetworkKeeps DEF Kept, IInv
<1> QED
  BY <1>3, <1>4, <1>5, <1>6, <1>7, <1>8, <1>10, <1>11 DEF Next, Handler

(* The invariant holds always. *)
LEMMA IInvAlways == Spec => []IInv
BY IInvInit, IInvStep, PTL DEF Spec

(* The variables keep their types, and the channels with a capacity hold no
   more than that.                                                         *)
THEOREM TypeCorrect == Spec => []TypeOK
<1>1. IInv => TypeOK
  BY DEF IInv
<1> QED
  BY <1>1, IInvAlways, PTL

(* handleData never sends on a closed writeQueue. *)
THEOREM NeverPanics == Spec => []NeverSendsOnClosed
<1>1. IInv => NeverSendsOnClosed
  BY DEF IInv
<1> QED
  BY <1>1, IInvAlways, PTL

(* One goroutine closes a stream, however many want to. *)
THEOREM ClosedByOne == Spec => []ClosedOnce
<1>1. ASSUME IInv PROVE ClosedOnce
  <2>1. ASSUME NEW s \in Stream
        PROVE  Cardinality(Closers(s)) <= 1 /\ (Closers(s) # {} => stream[s].closed)
    <3>1. /\ \A a, b \in Closers(s) : a = b
          /\ Closers(s) # {} => stream[s].closed
      BY <1>1 DEF IInv, ClosingSoFar
    <3>2. CASE Closers(s) = {}
      BY <3>2, FS_EmptySet
    <3>3. CASE Closers(s) # {}
      <4>1. PICK a : Closers(s) = {a}
        BY <3>1, <3>3
      <4> QED
        BY <3>1, <4>1, FS_Singleton
    <3> QED
      BY <3>2, <3>3, <3>1
  <2> QED
    BY <2>1 DEF ClosedOnce
<1> QED
  BY <1>1, IInvAlways, PTL

(* Every open connection to a peer has somebody who can still close it. *)
THEOREM NoneLost == Spec => []NoOrphans
<1>1. IInv => NoOrphans
  BY DEF IInv, ClosingSoFar, NoOrphans
<1> QED
  BY <1>1, IInvAlways, PTL
-----------------------------------------------------------------------------
(* The order of the data.  What the peer has sent to the client, of stream t
   with its loops peerRead at r and clientRead at c, until a write fails: the
   data is delivered, in the hand of clientRead or in one of the two buffers,
   and the one that is lent is not the one that is filled.                 *)
OutOrder(t, r, c) ==
  /\ t.received = t.delivered + (IF c \in {"copy", "write"} THEN 1 ELSE 0)
                               + (IF r = "send" THEN 1 ELSE 0)
  /\ r = "send" => t.buf[t.filling] = t.received
  /\ c = "copy" => t.lent # t.filling /\ t.buf[t.lent] = t.delivered + 1
  /\ c = "write" => t.hand = t.delivered + 1

(* peerWrite, at w, has not come upon an error. *)
Working(w) == w \in {"none", "recv", "write", "credit"}

(* The data of the client that stream t has taken off its writeQueue, and that
   it has been given.                                                      *)
Taken(t, w) == t.written + (IF w = "write" THEN 1 ELSE 0)
Given(t, w) == Taken(t, w) + Len(t.queue)

(* What peerWrite holds, and what is queued for it, is what comes next. *)
WriteOrder(t, w) ==
  /\ w = "write" => t.taken = t.written + 1
  /\ t.queue # <<>> => Head(t.queue) = Taken(t, w) + 1

DataOf(q, s) == {i \in 1 .. Len(q) : q[i].type = "data" /\ q[i].id = s}

(* The frames q carry the data of stream s from a + 1 to b, in order. *)
Carry(q, s, a, b) ==
  /\ a <= b
  /\ \A i \in DataOf(q, s) : a < q[i].n /\ q[i].n <= b
  /\ \A i, j \in DataOf(q, s) : i < j => q[i].n < q[j].n
  /\ \A n \in (a + 1) .. b : \E i \in DataOf(q, s) : q[i].n = n

(* The handler is about to queue data of stream s. *)
Pushing(s) == handler = "push" /\ packet.id = s
Held(s) ==
  Given(stream[s], loop[s]["peerWrite"]) + (IF Pushing(s) THEN 1 ELSE 0)

(* Data of stream s that arrives is not dropped. *)
Live(s) == s \in streams \/ Connecting(s) \/ s \notin client.known

(* What the handler has and what is under way continues what was given. *)
UpOrder(s) ==
  /\ Pushing(s) => packet.n = Given(stream[s], loop[s]["peerWrite"]) + 1
  /\ Live(s) => Carry(up, s, Held(s), client.data[s])

(* A stream is connected before it has data. *)
ConnectFirst(s) ==
  /\ \A i \in 1 .. Len(up), j \in DataOf(up, s) :
       up[i].type = "connect" /\ up[i].id = s => i < j
  /\ s \notin client.known => client.data[s] = 0

(* The invariant, stream by stream. *)
OutInv(s) ==
  ws # "failed" => OutOrder(stream[s], loop[s]["peerRead"], loop[s]["clientRead"])
InInv(s) ==
  Working(loop[s]["peerWrite"]) => WriteOrder(stream[s], loop[s]["peerWrite"])
UpInv(s) == Working(loop[s]["peerWrite"]) => UpOrder(s)

OrderInv == \A s \in Stream : OutInv(s) /\ InInv(s) /\ UpInv(s) /\ ConnectFirst(s)
-----------------------------------------------------------------------------
(* A stream whose data did not move. *)
SameOut(t, u) ==
  /\ u.received = t.received /\ u.delivered = t.delivered
  /\ u.buf = t.buf /\ u.filling = t.filling /\ u.lent = t.lent /\ u.hand = t.hand
SameIn(t, u) == u.queue = t.queue /\ u.taken = t.taken /\ u.written = t.written

(* A step that moves no data of stream s to the client, and none to the peer. *)
OutQuiet(s) ==
  /\ SameOut(stream[s], stream'[s])
  /\ loop'[s]["peerRead"] = "send" <=> loop[s]["peerRead"] = "send"
  /\ loop'[s]["clientRead"] = "copy" <=> loop[s]["clientRead"] = "copy"
  /\ loop'[s]["clientRead"] = "write" <=> loop[s]["clientRead"] = "write"

InQuiet(s) ==
  /\ SameIn(stream[s], stream'[s])
  /\ Working(loop'[s]["peerWrite"]) =>
       /\ Working(loop[s]["peerWrite"])
       /\ loop'[s]["peerWrite"] = "write" <=> loop[s]["peerWrite"] = "write"

LEMMA OutKeeps ==
  ASSUME NEW s \in Stream, OutInv(s), OutQuiet(s), ws = "failed" => ws' = "failed"
  PROVE  OutInv(s)'
BY DEF OutInv, OutOrder, OutQuiet, SameOut

LEMMA InKeeps ==
  ASSUME NEW s \in Stream, InInv(s), InQuiet(s)
  PROVE  InInv(s)'
BY DEF InInv, WriteOrder, Taken, InQuiet, SameIn

(* No frame comes or goes, and the handler takes none of the stream. *)
LEMMA UpKeeps ==
  ASSUME NEW s \in Stream, UpInv(s), InQuiet(s), up' = up, client' = client,
         s \in streams' => s \in streams,
         Pushing(s)' <=> Pushing(s), Pushing(s) => packet' = packet
  PROVE  UpInv(s)'
<1> SUFFICES ASSUME Working(loop'[s]["peerWrite"]) PROVE UpOrder(s)'
  BY DEF UpInv
<1>1. UpOrder(s) /\ Held(s)' = Held(s)
      /\ Given(stream[s], loop[s]["peerWrite"])' = Given(stream[s], loop[s]["peerWrite"])
  BY DEF InQuiet, SameIn, Held, Given, Taken, UpInv
<1>2. Live(s)' => Live(s)
  BY DEF Live, Connecting
<1>3. DataOf(up, s)' = DataOf(up, s)
  BY DEF DataOf
<1>4. Carry(up, s, Held(s), client.data[s])' = Carry(up, s, Held(s), client.data[s])
  BY <1>1, <1>3 DEF Carry
<1> QED
  BY <1>1, <1>2, <1>4 DEF UpOrder

LEMMA FirstKeeps ==
  ASSUME NEW s \in Stream, ConnectFirst(s), up' = up, client' = client
  PROVE  ConnectFirst(s)'
BY DEF ConnectFirst, DataOf

(* What does not count for the order of the data. *)
LEMMA OtherFields ==
  ASSUME NEW t \in ServerStream
  PROVE  /\ \A b \in BOOLEAN : LET u == [t EXCEPT !.closed = b]
                               IN SameOut(t, u) /\ SameIn(t, u)
         /\ \A b \in BOOLEAN : LET u == [t EXCEPT !.queueClosed = b]
                               IN SameOut(t, u) /\ SameIn(t, u)
         /\ \A c \in {"open", "closed"} : LET u == [t EXCEPT !.conn = c]
                                          IN SameOut(t, u) /\ SameIn(t, u)
         /\ LET u == [t EXCEPT !.counter = 0] IN SameOut(t, u) /\ SameIn(t, u)
BY DEF ServerStream, SameOut, SameIn

(* A write that has failed is not forgotten. *)
LEMMA StaysFailed == TypeOK /\ [Next]_vars => (ws = "failed" => ws' = "failed")
<1> SUFFICES ASSUME [Next]_vars, ws = "failed" PROVE ws' = "failed"
  OBVIOUS
<1>1. ASSUME NEW f, NEW ok, WritePacket(f, ok) PROVE ws' = "failed"
  BY <1>1 DEF WritePacket
<1>2. CASE Handler
  BY <1>1, <1>2 DEF Handler, SendInitialContinue, ClosePending, NothingPending, ReadMessage,
     ReadError, Reply, PushData, Sweep, ShutByHandler, Exit, wire
<1>3. ASSUME NEW s \in Stream, NEW l \in Loop, CloseStep(s, l) PROVE ws' = "failed"
  BY <1>1, <1>3 DEF CloseStep, Swap, CloseFrame, Shut, Local, wire
<1>4. ASSUME NEW s \in Stream,
             \/ PeerSends(s) \/ PeerEnds(s) \/ PeerReadLoop(s) \/ ClientReadLoop(s)
             \/ PeerWriteLoop(s)
      PROVE  ws' = "failed"
  BY <1>1, <1>3, <1>4 DEF PeerSends, PeerEnds, PeerReadLoop, ClientReadLoop, PeerWriteLoop,
     Lend, HandOver, CopyData, WriteToClient, ReadQueueEnds, TakeData, WriteQueueEnds,
     PeerTakes, PeerRefuses, GiveCredit, Local, wire, Loop
<1>5. CASE Network
  BY <1>5 DEF Network, ClientConnects, ClientWrites, ClientCloses, ClientSendsOther,
     ClientSends, ClientReceives, Cut
<1>6. CASE UNCHANGED vars
  BY <1>6 DEF vars, wire
<1> QED
  BY <1>2, <1>4, <1>5, <1>6 DEF Next
-----------------------------------------------------------------------------
(* A step that leaves the order of the data of a stream as it is. *)
Calm(s) ==
  /\ OutQuiet(s) /\ InQuiet(s)
  /\ s \in streams' => s \in streams
  /\ Pushing(s)' <=> Pushing(s)
  /\ Pushing(s) => packet' = packet

LEMMA CalmStep ==
  ASSUME OrderInv, \A s \in Stream : Calm(s), up' = up, client' = client,
         ws = "failed" => ws' = "failed"
  PROVE  OrderInv'
BY OutKeeps, InKeeps, UpKeeps, FirstKeeps DEF OrderInv, Calm

(* One loop of a stream goes on, and neither holds data nor will. *)
LEMMA CalmWithin ==
  ASSUME TypeOK, NEW s \in Stream, NEW l \in Loop, NEW t, NEW at,
         SameOut(stream[s], t), SameIn(stream[s], t),
         stream' = [stream EXCEPT ![s] = t], loop' = [loop EXCEPT ![s][l] = at],
         handler' = handler, packet' = packet, streams' \subseteq streams,
         IF l = "peerWrite"
         THEN Working(at) => /\ Working(loop[s][l])
                             /\ at = "write" <=> loop[s][l] = "write"
         ELSE /\ loop[s][l] \notin {"send", "copy", "write"}
              /\ at \notin {"send", "copy", "write"}
  PROVE  \A r \in Stream : Calm(r)
<1>1. /\ stream'[s] = t /\ loop'[s][l] = at
      /\ \A k \in Loop : k # l => loop'[s][k] = loop[s][k]
      /\ \A r \in Stream \ {s} : stream'[r] = stream[r] /\ loop'[r] = loop[r]
  BY DEF TypeOK
<1>2. \A r \in Stream : Pushing(r)' <=> Pushing(r)
  BY DEF Pushing
<1>3. \A r \in Stream \ {s} : OutQuiet(r) /\ InQuiet(r)
  BY <1>1 DEF OutQuiet, InQuiet, SameOut, SameIn
<1>4. OutQuiet(s)
  BY <1>1 DEF OutQuiet, Loop
<1>5. InQuiet(s)
  BY <1>1 DEF InQuiet, Loop
<1> QED
  BY <1>2, <1>3, <1>4, <1>5 DEF Calm

(* The steps of the handler that queue nothing and read nothing. *)
LEMMA CalmHandler ==
  ASSUME TypeOK, HandlerHolds,
         \/ SendInitialContinue \/ NothingPending \/ ReadError \/ Reply \/ ShutByHandler \/ Exit
         \/ \E s \in Stream : Sweep(s)
         \/ \E s \in Stream, l \in Loop : ClosePending(s, l)
  PROVE  (\A s \in Stream : Calm(s)) /\ up' = up /\ client' = client
<1>1. up' = up /\ client' = client
  BY DEF SendInitialContinue, NothingPending, ReadError, Reply, ShutByHandler, Exit, Sweep,
     ClosePending, WritePacket, wire
<1>2. stream \in [Stream -> ServerStream] /\ loop \in [Stream -> [Loop -> At]]
  BY DEF TypeOK
<1>3. ASSUME loop' = loop, streams' \subseteq streams, handler # "push", handler' # "push",
             NEW s \in Stream, NEW t, stream' = [stream EXCEPT ![s] = t],
             SameOut(stream[s], t), SameIn(stream[s], t)
      PROVE  \A r \in Stream : Calm(r)
  <2>1. \A r \in Stream : SameOut(stream[r], stream'[r]) /\ SameIn(stream[r], stream'[r])
    BY <1>2, <1>3 DEF SameOut, SameIn
  <2> QED
    BY <1>3, <2>1 DEF Calm, OutQuiet, InQuiet, Pushing
<1>4. CASE SendInitialContinue \/ NothingPending \/ ReadError \/ Reply \/ Exit
  <2>1. /\ stream' = stream /\ loop' = loop /\ streams' = streams
        /\ handler # "push" /\ handler' # "push"
    BY <1>4 DEF SendInitialContinue, NothingPending, ReadError, Reply, Exit
  <2>2. \A s \in Stream : OutQuiet(s) /\ InQuiet(s)
    BY <2>1 DEF OutQuiet, InQuiet, SameOut, SameIn
  <2>3. \A s \in Stream : ~Pushing(s) /\ ~Pushing(s)'
    BY <2>1 DEF Pushing
  <2> QED
    BY <1>1, <2>1, <2>2, <2>3 DEF Calm
<1>5. CASE ShutByHandler
  <2>1. packet.id \in Stream
    BY <1>5 DEF ShutByHandler, HandlerHolds
  <2>2. PICK t : /\ stream' = [stream EXCEPT ![packet.id] = t]
                 /\ t = [stream[packet.id] EXCEPT !.conn = "closed"]
    BY <1>5 DEF ShutByHandler
  <2>3. SameOut(stream[packet.id], t) /\ SameIn(stream[packet.id], t)
    BY <1>2, <2>1, <2>2, OtherFields
  <2>4. /\ loop' = loop /\ streams' \subseteq streams /\ handler # "push" /\ handler' # "push"
    BY <1>5 DEF ShutByHandler
  <2> QED
    BY <1>1, <1>3, <2>1, <2>2, <2>3, <2>4
<1>6. ASSUME NEW s \in Stream, Sweep(s) PROVE \A r \in Stream : Calm(r)
  <2>1. PICK t : /\ stream' = [stream EXCEPT ![s] = t] /\ t = [stream[s] EXCEPT !.closed = TRUE]
    BY <1>6 DEF Sweep
  <2>2. SameOut(stream[s], t) /\ SameIn(stream[s], t)
    BY <1>2, <2>1, OtherFields
  <2>3. /\ loop' = loop /\ streams' \subseteq streams /\ handler # "push" /\ handler' # "push"
    BY <1>6 DEF Sweep
  <2> QED
    BY <1>3, <2>1, <2>2, <2>3
<1>7. ASSUME NEW s \in Stream, NEW l \in Loop, ClosePending(s, l)
      PROVE  \A r \in Stream : Calm(r)
  <2>1. PICK b \in BOOLEAN : b = (stream[s].queueClosed \/ s \in streams)
    BY <1>2 DEF ServerStream
  <2>2. PICK t : /\ stream' = [stream EXCEPT ![s] = t]
                 /\ t = [stream[s] EXCEPT !.queueClosed = b]
    BY <1>7, <2>1 DEF ClosePending
  <2>3. SameOut(stream[s], t) /\ SameIn(stream[s], t)
    BY <1>2, <2>2, OtherFields
  <2>4. IF l = "peerWrite" THEN AfterClose(l) = "end"
        ELSE loop[s][l] = "pend" /\ AfterClose(l) \in {"recv", "end"}
    BY <1>7 DEF ClosePending, AfterClose
  <2>5. /\ loop' = [loop EXCEPT ![s][l] = AfterClose(l)] /\ handler' = handler
        /\ packet' = packet /\ streams' \subseteq streams
    BY <1>7 DEF ClosePending
  <2> QED
    BY <2>2, <2>3, <2>4, <2>5, CalmWithin DEF Working
<1> QED
  BY <1>1, <1>4, <1>5, <1>6, <1>7

(* The steps of the loops that move no data. *)
LEMMA CalmLoop ==
  ASSUME TypeOK, NEW s \in Stream,
         \/ PeerEnds(s) \/ ReadQueueEnds(s) \/ WriteQueueEnds(s) \/ PeerRefuses(s)
         \/ GiveCredit(s) \/ \E l \in Loop : CloseStep(s, l)
  PROVE  (\A r \in Stream : Calm(r)) /\ up' = up /\ client' = client
<1>1. stream \in [Stream -> ServerStream] /\ stream[s] \in ServerStream
  BY DEF TypeOK
<1>2. ASSUME NEW l \in Loop, NEW t, NEW at, Local(s, l, at, t),
             SameOut(stream[s], t), SameIn(stream[s], t),
             IF l = "peerWrite" THEN ~Working(at)
             ELSE /\ loop[s][l] \notin {"send", "copy", "write"}
                  /\ at \notin {"send", "copy", "write"}
      PROVE  (\A r \in Stream : Calm(r)) /\ up' = up /\ client' = client
  <2>1. up' = up /\ client' = client
    BY <1>2 DEF Local, wire
  <2>2. \A r \in Stream : Calm(r)
    BY <1>2, CalmWithin DEF Local, run
  <2> QED
    BY <2>1, <2>2
<1>3. SameOut(stream[s], stream[s]) /\ SameIn(stream[s], stream[s])
  BY DEF SameOut, SameIn
<1>4. CASE PeerEnds(s)
  BY <1>2, <1>3, <1>4 DEF PeerEnds, Loop
<1>5. CASE ReadQueueEnds(s)
  BY <1>2, <1>3, <1>5 DEF ReadQueueEnds, Loop
<1>6. CASE WriteQueueEnds(s)
  BY <1>2, <1>3, <1>6 DEF WriteQueueEnds, Loop, Working
<1>7. CASE PeerRefuses(s)
  BY <1>2, <1>3, <1>7 DEF PeerRefuses, Loop, Working
<1>8. CASE GiveCredit(s)
  <2>1. PICK t : stream' = [stream EXCEPT ![s] = t] /\ t = [stream[s] EXCEPT !.counter = 0]
    BY <1>8 DEF GiveCredit
  <2>2. SameOut(stream[s], t) /\ SameIn(stream[s], t)
    BY <1>1, <2>1, OtherFields
  <2>3. /\ loop' = [loop EXCEPT ![s]["peerWrite"] = "recv"] /\ loop[s]["peerWrite"] = "credit"
        /\ handler' = handler /\ packet' = packet /\ streams' = streams
        /\ up' = up /\ client' = client
    BY <1>8 DEF GiveCredit, WritePacket, run
  <2> QED
    BY <2>1, <2>2, <2>3, CalmWithin DEF Loop, Working
<1>9. ASSUME NEW l \in Loop, Swap(s, l)
      PROVE  (\A r \in Stream : Calm(r)) /\ up' = up /\ client' = client
  <2>1. PICK t, at : /\ Local(s, l, at, t) /\ t = [stream[s] EXCEPT !.closed = TRUE]
                     /\ at \in {AfterClose(l), "frame"} /\ loop[s][l] = "swap"
    BY <1>9 DEF Swap
  <2>2. SameOut(stream[s], t) /\ SameIn(stream[s], t)
    BY <1>1, <2>1, OtherFields
  <2>3. IF l = "peerWrite" THEN ~Working(at) ELSE at \notin {"send", "copy", "write"}
    BY <2>1 DEF AfterClose, Working
  <2> QED
    BY <1>2, <2>1, <2>2, <2>3
<1>10. ASSUME NEW l \in Loop, CloseFrame(s, l)
       PROVE  (\A r \in Stream : Calm(r)) /\ up' = up /\ client' = client
  <2>1. /\ loop' = [loop EXCEPT ![s][l] = "shut"] /\ loop[s][l] = "frame"
        /\ handler' = handler /\ packet' = packet /\ streams' = streams
        /\ up' = up /\ client' = client /\ stream' = [stream EXCEPT ![s] = stream[s]]
    BY <1>1, <1>10 DEF CloseFrame, WritePacket, run, TypeOK
  <2> QED
    BY <1>3, <2>1, CalmWithin DEF Working
<1>11. ASSUME NEW l \in Loop, Shut(s, l)
       PROVE  (\A r \in Stream : Calm(r)) /\ up' = up /\ client' = client
  <2>1. PICK t : /\ Local(s, l, "pend", t) /\ t = [stream[s] EXCEPT !.conn = "closed"]
                 /\ loop[s][l] = "shut"
    BY <1>11 DEF Shut
  <2>2. SameOut(stream[s], t) /\ SameIn(stream[s], t)
    BY <1>1, <2>1, OtherFields
  <2> QED
    BY <1>2, <2>1, <2>2 DEF Working
<1> QED
  BY <1>4, <1>5, <1>6, <1>7, <1>8, <1>9, <1>10, <1>11 DEF CloseStep

(* A step between the peer and the client within stream s, which becomes t. *)
LEMMA OutStep ==
  ASSUME TypeOK, OrderInv, NEW s \in Stream, NEW t, run' = run, up' = up, client' = client,
         stream' = [stream EXCEPT ![s] = t], SameIn(stream[s], t),
         \A r \in Stream : loop'[r]["peerWrite"] = loop[r]["peerWrite"],
         \A r \in Stream \ {s} : loop'[r] = loop[r],
         ws = "failed" => ws' = "failed",
         OutInv(s)'
  PROVE  OrderInv'
<1>1. stream'[s] = t /\ \A r \in Stream \ {s} : stream'[r] = stream[r]
  BY DEF TypeOK
<1>2. \A r \in Stream \ {s} : OutQuiet(r)
  BY <1>1 DEF OutQuiet, SameOut
<1>3. \A r \in Stream : InQuiet(r) /\ (Pushing(r)' <=> Pushing(r)) /\ packet' = packet
                       /\ streams' = streams
  BY <1>1 DEF InQuiet, SameIn, Pushing, run
<1> QED
  BY <1>2, <1>3, OutKeeps, InKeeps, UpKeeps, FirstKeeps DEF OrderInv

(* The steps between the peer and the client. *)
LEMMA OutKept ==
  ASSUME TypeOK, OrderInv, ws = "failed" => ws' = "failed", NEW s \in Stream,
         PeerSends(s) \/ Lend(s) \/ CopyData(s) \/ WriteToClient(s)
  PROVE  OrderInv'
<1>1. stream[s] \in ServerStream /\ loop \in [Stream -> [Loop -> At]] /\ OutInv(s)
  BY DEF TypeOK, OrderInv
<1>2. /\ run' = run /\ up' = up /\ client' = client
      /\ \A r \in Stream : loop'[r]["peerWrite"] = loop[r]["peerWrite"]
      /\ \A r \in Stream \ {s} : loop'[r] = loop[r]
  BY <1>1 DEF PeerSends, Lend, HandOver, CopyData, WriteToClient, Local, WritePacket, wire, Loop
<1> DEFINE Out(t, r, c) == ws' # "failed" => OutOrder(t, r, c)
<1>3. ASSUME NEW t, stream' = [stream EXCEPT ![s] = t], SameIn(stream[s], t),
             Out(t, loop'[s]["peerRead"], loop'[s]["clientRead"])
      PROVE  OrderInv'
  <2>1. stream'[s] = t
    BY <1>3 DEF TypeOK
  <2>2. OutInv(s)'
    BY <1>3, <2>1 DEF OutInv
  <2> QED
    BY <1>2, <1>3, <2>2, OutStep
<1> DEFINE u == stream[s]
<1>4. ws' # "failed" => OutOrder(u, loop[s]["peerRead"], loop[s]["clientRead"])
  BY <1>1 DEF OutInv
<1>5. CASE PeerSends(s)
  <2> DEFINE n == u.received + 1
  <2>1. PICK t : /\ t = [u EXCEPT !.received = n, !.buf[u.filling] = n]
                 /\ loop[s]["peerRead"] = "read" /\ Local(s, "peerRead", "send", t)
    BY <1>5 DEF PeerSends
  <2>2. /\ t.received = u.received + 1 /\ t.delivered = u.delivered
        /\ t.filling = u.filling /\ t.lent = u.lent /\ t.hand = u.hand
        /\ t.buf[u.filling] = u.received + 1
        /\ t.lent # u.filling => t.buf[u.lent] = u.buf[u.lent]
        /\ SameIn(u, t)
    BY <1>1, <2>1 DEF ServerStream, SameIn
  <2>3. /\ stream' = [stream EXCEPT ![s] = t] /\ loop'[s]["peerRead"] = "send"
        /\ loop'[s]["clientRead"] = loop[s]["clientRead"]
    BY <1>1, <2>1 DEF Local, Loop
  <2>4. u.received \in Nat /\ u.delivered \in Nat
    BY <1>1 DEF ServerStream
  <2>5. Out(t, "send", loop[s]["clientRead"])
    BY <1>4, <2>1, <2>2, <2>4 DEF OutOrder
  <2> QED
    BY <1>3, <2>2, <2>3, <2>5
<1>6. CASE Lend(s)
  <2>1. PICK t : /\ t = [u EXCEPT !.lent = u.filling, !.filling = 3 - u.filling]
                 /\ HandOver(s, t)
    BY <1>6 DEF Lend
  <2>2. /\ t.received = u.received /\ t.delivered = u.delivered /\ t.buf = u.buf
        /\ t.filling = 3 - u.filling /\ t.lent = u.filling
        /\ SameIn(u, t)
    BY <1>1, <2>1 DEF ServerStream, SameIn
  <2>3. /\ stream' = [stream EXCEPT ![s] = t]
        /\ loop[s]["peerRead"] = "send" /\ loop[s]["clientRead"] = "recv"
        /\ loop'[s]["peerRead"] = "read" /\ loop'[s]["clientRead"] = "copy"
    BY <1>1, <2>1 DEF HandOver, Loop
  <2>4. u.received \in Nat /\ u.delivered \in Nat /\ u.filling \in {1, 2}
    BY <1>1 DEF ServerStream
  <2>5. Out(t, "read", "copy")
    BY <1>4, <2>2, <2>3, <2>4 DEF OutOrder
  <2> QED
    BY <1>3, <2>2, <2>3, <2>5
<1>7. CASE CopyData(s)
  <2>1. PICK t : /\ t = [u EXCEPT !.hand = u.buf[u.lent]]
                 /\ loop[s]["clientRead"] = "copy" /\ Local(s, "clientRead", "write", t)
    BY <1>7 DEF CopyData
  <2>2. /\ t.received = u.received /\ t.delivered = u.delivered /\ t.buf = u.buf
        /\ t.filling = u.filling /\ t.lent = u.lent /\ t.hand = u.buf[u.lent]
        /\ SameIn(u, t)
    BY <1>1, <2>1 DEF ServerStream, SameIn
  <2>3. /\ stream' = [stream EXCEPT ![s] = t]
        /\ loop'[s]["peerRead"] = loop[s]["peerRead"] /\ loop'[s]["clientRead"] = "write"
    BY <1>1, <2>1 DEF Local, Loop
  <2>4. Out(t, loop[s]["peerRead"], "write")
    BY <1>4, <2>1, <2>2 DEF OutOrder
  <2> QED
    BY <1>3, <2>2, <2>3, <2>4
<1>8. CASE WriteToClient(s)
  <2>1. PICK ok \in BOOLEAN :
          /\ WritePacket(Frame("data", s, u.hand), ok)
          /\ stream' = [stream EXCEPT ![s].delivered = IF ok THEN @ + 1 ELSE @]
          /\ loop[s]["clientRead"] = "write"
          /\ loop' = [loop EXCEPT ![s]["clientRead"] = IF ok THEN "recv" ELSE "swap"]
    BY <1>8 DEF WriteToClient
  <2>2. PICK t : /\ t = [u EXCEPT !.delivered = IF ok THEN u.delivered + 1 ELSE u.delivered]
                 /\ stream' = [stream EXCEPT ![s] = t]
    BY <2>1
  <2>3. /\ t.received = u.received /\ t.buf = u.buf /\ t.filling = u.filling
        /\ ok => t.delivered = u.delivered + 1
        /\ SameIn(u, t)
    BY <1>1, <2>2 DEF ServerStream, SameIn
  <2>4. /\ loop'[s]["peerRead"] = loop[s]["peerRead"]
        /\ ok => loop'[s]["clientRead"] = "recv"
        /\ ws' # "failed" => ok
    BY <1>1, <2>1 DEF Loop, WritePacket
  <2>5. u.received \in Nat /\ u.delivered \in Nat
    BY <1>1 DEF ServerStream
  <2>6. Out(t, loop'[s]["peerRead"], loop'[s]["clientRead"])
    BY <1>4, <2>1, <2>3, <2>4, <2>5 DEF OutOrder
  <2> QED
    BY <1>3, <2>2, <2>3, <2>6
<1> QED
  BY <1>5, <1>6, <1>7, <1>8

(* A step between the client and the peer within stream s, which becomes t. *)
LEMMA InStep ==
  ASSUME TypeOK, OrderInv, NEW s \in Stream, NEW t, streams' = streams, up' = up,
         client' = client, stream' = [stream EXCEPT ![s] = t], SameOut(stream[s], t),
         \A l \in {"peerRead", "clientRead"} : loop'[s][l] = loop[s][l],
         \A r \in Stream \ {s} : /\ loop'[r] = loop[r]
                                 /\ Pushing(r)' <=> Pushing(r)
                                 /\ Pushing(r) => packet' = packet,
         ws = "failed" => ws' = "failed",
         InInv(s)', UpInv(s)'
  PROVE  OrderInv'
<1>1. stream'[s] = t /\ \A r \in Stream \ {s} : stream'[r] = stream[r]
  BY DEF TypeOK
<1>2. \A r \in Stream \ {s} : OutQuiet(r) /\ InQuiet(r)
  BY <1>1 DEF OutQuiet, InQuiet, SameOut, SameIn
<1>3. OutQuiet(s)
  BY <1>1 DEF OutQuiet
<1> QED
  BY <1>2, <1>3, OutKeeps, InKeeps, UpKeeps, FirstKeeps DEF OrderInv

(* What the frames under way carry depends on them and on the bounds only. *)
LEMMA SameCarry ==
  ASSUME NEW s \in Stream, up' = up, client' = client, UpOrder(s),
         Live(s)' => Live(s), Held(s)' = Held(s),
         Pushing(s)' => packet'.n = Given(stream'[s], loop'[s]["peerWrite"]) + 1
  PROVE  UpOrder(s)'
<1>1. DataOf(up, s)' = DataOf(up, s)
  BY DEF DataOf
<1>2. Carry(up, s, Held(s), client.data[s])' = Carry(up, s, Held(s), client.data[s])
  BY <1>1 DEF Carry
<1> QED
  BY <1>2 DEF UpOrder

(* The steps between writeQueue and the peer. *)
LEMMA InKept ==
  ASSUME TypeOK, HandlerHolds, NeverSendsOnClosed', OrderInv,
         ws = "failed" => ws' = "failed",
         PushData \/ \E s \in Stream : TakeData(s) \/ PeerTakes(s)
  PROVE  OrderInv'
<1>1. stream \in [Stream -> ServerStream] /\ loop \in [Stream -> [Loop -> At]]
  BY DEF TypeOK
<1>2. ASSUME NEW s \in Stream, TakeData(s) PROVE OrderInv'
  <2> DEFINE u == stream[s]
  <2>1. PICK t : /\ t = [u EXCEPT !.queue = <<>>, !.taken = Head(u.queue)]
                 /\ loop[s]["peerWrite"] = "recv" /\ u.queue # <<>>
                 /\ Local(s, "peerWrite", "write", t)
    BY <1>2 DEF TakeData
  <2>2. /\ t.queue = <<>> /\ t.taken = Head(u.queue) /\ t.written = u.written
        /\ SameOut(u, t)
    BY <1>1, <2>1 DEF ServerStream, SameOut
  <2>3. u.queue \in Seq(Nat) /\ Len(u.queue) = 1 /\ u.written \in Nat
    <3>1. u.queue \in Seq(Nat) /\ u.written \in Nat
      BY <1>1 DEF ServerStream
    <3>2. Len(u.queue) <= 1
      BY DEF TypeOK
    <3>3. Len(u.queue) \in Nat /\ Len(u.queue) # 0
      BY <2>1, <3>1
    <3>4. \A n \in Nat : n <= 1 /\ n # 0 => n = 1
      OBVIOUS
    <3>5. Len(u.queue) = 1
      BY <3>2, <3>3, <3>4, Zenon
    <3> QED
      BY <3>1, <3>5
  <2>4. /\ stream' = [stream EXCEPT ![s] = t] /\ stream'[s] = t
        /\ loop'[s]["peerWrite"] = "write"
        /\ \A l \in {"peerRead", "clientRead"} : loop'[s][l] = loop[s][l]
        /\ \A r \in Stream \ {s} : loop'[r] = loop[r]
        /\ up' = up /\ client' = client
        /\ handler' = handler /\ packet' = packet /\ streams' = streams
    BY <1>1, <2>1 DEF Local, Loop, wire, run
  <2>5. WriteOrder(u, "recv") /\ UpOrder(s)
    BY <2>1 DEF OrderInv, InInv, UpInv, Working
  <2>6. Given(t, "write") = Given(u, "recv")
    BY <2>2, <2>3 DEF Given, Taken
  <2>7. WriteOrder(t, "write")
    BY <2>1, <2>2, <2>3, <2>5 DEF WriteOrder, Taken
  <2>8. (Pushing(s)' <=> Pushing(s)) /\ Held(s)' = Held(s) /\ (Live(s)' <=> Live(s))
    BY <2>1, <2>4, <2>6 DEF Held, Pushing, Live, Connecting
  <2>9. UpOrder(s)'
    BY <2>1, <2>4, <2>5, <2>6, <2>8, SameCarry DEF UpOrder
  <2>10. InInv(s)' /\ UpInv(s)'
    BY <2>4, <2>7, <2>9 DEF InInv, UpInv
  <2>11. \A r \in Stream : Pushing(r)' <=> Pushing(r)
    BY <2>4 DEF Pushing
  <2> QED
    BY <2>2, <2>4, <2>10, <2>11, InStep
<1>3. ASSUME NEW s \in Stream, PeerTakes(s) PROVE OrderInv'
  <2> DEFINE u == stream[s]
  <2>1. PICK t, at : /\ t = [u EXCEPT !.written = u.written + 1, !.counter = u.counter + 1]
                     /\ loop[s]["peerWrite"] = "write" /\ at \in {"credit", "recv"}
                     /\ Local(s, "peerWrite", at, t)
    BY <1>3 DEF PeerTakes
  <2>2. t.queue = u.queue /\ t.written = u.written + 1 /\ SameOut(u, t)
    BY <1>1, <2>1 DEF ServerStream, SameOut
  <2>3. u.queue \in Seq(Nat) /\ Len(u.queue) \in Nat /\ u.written \in Nat
    BY <1>1 DEF ServerStream
  <2>4. /\ stream' = [stream EXCEPT ![s] = t] /\ stream'[s] = t
        /\ loop'[s]["peerWrite"] = at
        /\ \A l \in {"peerRead", "clientRead"} : loop'[s][l] = loop[s][l]
        /\ \A r \in Stream \ {s} : loop'[r] = loop[r]
        /\ up' = up /\ client' = client
        /\ handler' = handler /\ packet' = packet /\ streams' = streams
    BY <1>1, <2>1 DEF Local, Loop, wire, run
  <2>5. WriteOrder(u, "write") /\ UpOrder(s)
    BY <2>1 DEF OrderInv, InInv, UpInv, Working
  <2>6. Given(t, at) = Given(u, "write")
    BY <2>1, <2>2, <2>3 DEF Given, Taken
  <2>7. WriteOrder(t, at)
    BY <2>1, <2>2, <2>3, <2>5 DEF WriteOrder, Taken
  <2>8. (Pushing(s)' <=> Pushing(s)) /\ Held(s)' = Held(s) /\ (Live(s)' <=> Live(s))
    BY <2>1, <2>4, <2>6 DEF Held, Pushing, Live, Connecting
  <2>9. UpOrder(s)'
    BY <2>1, <2>4, <2>5, <2>6, <2>8, SameCarry DEF UpOrder
  <2>10. InInv(s)' /\ UpInv(s)'
    BY <2>4, <2>7, <2>9 DEF InInv, UpInv
  <2>11. \A r \in Stream : Pushing(r)' <=> Pushing(r)
    BY <2>4 DEF Pushing
  <2> QED
    BY <2>2, <2>4, <2>10, <2>11, InStep
<1>4. CASE PushData
  <2>1. PICK s \in Stream : s = packet.id
    BY <1>4 DEF PushData, HandlerHolds, TypeOK
  <2> DEFINE u == stream[s]
  <2>2. PICK t : /\ t = [u EXCEPT !.queue = <<packet.n>>] /\ u.queue = <<>>
                 /\ stream' = [stream EXCEPT ![s] = t] /\ handler' = "poll"
    BY <1>4, <2>1 DEF PushData, NeverSendsOnClosed
  <2>3. /\ t.queue = <<packet.n>> /\ t.written = u.written /\ t.taken = u.taken
        /\ SameOut(u, t)
    BY <1>1, <2>2 DEF ServerStream, SameOut
  <2>4. /\ handler = "push" /\ stream'[s] = t /\ loop' = loop /\ up' = up /\ client' = client
        /\ streams' = streams
    BY <1>1, <1>4, <2>2 DEF PushData, wire
  <2>5. Pushing(s) /\ \A r \in Stream : ~Pushing(r)' /\ (r # s => ~Pushing(r))
    BY <2>1, <2>2, <2>4 DEF Pushing
  <2> DEFINE w == loop[s]["peerWrite"]
  <2>6. u.written \in Nat /\ Len(t.queue) = 1 /\ Len(u.queue) = 0 /\ Head(t.queue) = packet.n
    BY <1>1, <2>2, <2>3 DEF ServerStream
  <2>7. /\ Given(t, w) = Given(u, w) + 1 /\ Given(u, w) \in Nat
        /\ Given(u, w) = Taken(u, w) /\ Taken(t, w) = Taken(u, w)
    BY <2>3, <2>6 DEF Given, Taken
  <2>8. ASSUME Working(w) PROVE WriteOrder(t, w) /\ UpOrder(s)'
    <3>1. WriteOrder(u, w) /\ UpOrder(s)
      BY <2>8 DEF OrderInv, InInv, UpInv
    <3>2. packet.n = Given(u, w) + 1
      BY <2>5, <3>1 DEF UpOrder
    <3>3. WriteOrder(t, w)
      BY <2>3, <2>6, <2>7, <3>1, <3>2 DEF WriteOrder
    <3>4. Held(s)' = Held(s) /\ (Live(s)' <=> Live(s))
      BY <2>4, <2>5, <2>7 DEF Held, Live, Connecting
    <3> QED
      BY <2>4, <2>5, <3>1, <3>3, <3>4, SameCarry
  <2>9. InInv(s)' /\ UpInv(s)'
    BY <2>4, <2>8 DEF InInv, UpInv
  <2> QED
    BY <2>2, <2>3, <2>4, <2>5, <2>9, InStep
<1> QED
  BY <1>2, <1>3, <1>4
-----------------------------------------------------------------------------
(* A frame more: data that comes next, or a frame that is not data of s. *)
LEMMA CarryMore ==
  ASSUME NEW s \in Stream, NEW q \in Seq(Packet), NEW f \in Packet,
         NEW a \in Nat, NEW b \in Nat, Carry(q, s, a, b)
  PROVE  /\ f.type = "data" /\ f.id = s /\ f.n = b + 1 => Carry(Append(q, f), s, a, b + 1)
         /\ ~(f.type = "data" /\ f.id = s) => Carry(Append(q, f), s, a, b)
<1> DEFINE p == Append(q, f)
           m == Len(q)
<1>1. /\ m \in Nat /\ Len(p) = m + 1 /\ p[m + 1] = f
      /\ \A i \in 1 .. m : p[i] = q[i] /\ i # m + 1
  OBVIOUS
<1> HIDE DEF p
<1>2. CASE f.type = "data" /\ f.id = s /\ f.n = b + 1
  <2>1. DataOf(p, s) = DataOf(q, s) \cup {m + 1}
    BY <1>1, <1>2 DEF DataOf
  <2>2. DataOf(q, s) \subseteq 1 .. m
    BY DEF DataOf
  <2>3. \A i \in DataOf(q, s) : q[i].n \in Nat
    <3>1. \A i \in DataOf(q, s) : q[i] \in Packet
      BY DEF DataOf
    <3> QED
      BY <3>1 DEF Packet
  <2>4. \A i \in DataOf(p, s) : a < p[i].n /\ p[i].n <= b + 1
    BY <1>1, <1>2, <2>1, <2>2, <2>3 DEF Carry
  <2>5. ASSUME NEW i \in DataOf(p, s), NEW j \in DataOf(p, s), i < j PROVE p[i].n < p[j].n
    <3>1. i \in DataOf(q, s) /\ i \in 1 .. m
      BY <1>1, <2>1, <2>2, <2>5
    <3>2. CASE j = m + 1
      BY <1>1, <1>2, <2>3, <3>1, <3>2 DEF Carry
    <3>3. CASE j \in DataOf(q, s)
      BY <1>1, <2>2, <2>5, <3>1, <3>3 DEF Carry
    <3> QED
      BY <2>1, <3>2, <3>3
  <2>6. ASSUME NEW n \in (a + 1) .. (b + 1) PROVE \E i \in DataOf(p, s) : p[i].n = n
    <3>1. CASE n = b + 1
      BY <1>1, <1>2, <2>1, <3>1
    <3>2. CASE n \in (a + 1) .. b
      BY <1>1, <2>1, <2>2, <3>2 DEF Carry
    <3> QED
      BY <3>1, <3>2
  <2>7. Carry(p, s, a, b + 1)
    BY <2>4, <2>5, <2>6 DEF Carry
  <2> QED
    BY <1>2, <2>7 DEF p
<1>3. CASE ~(f.type = "data" /\ f.id = s)
  <2>1. DataOf(p, s) = DataOf(q, s)
    BY <1>1, <1>3 DEF DataOf
  <2>2. \A i \in DataOf(q, s) : p[i] = q[i]
    BY <1>1 DEF DataOf
  <2>3. Carry(p, s, a, b)
    BY <2>1, <2>2 DEF Carry
  <2> QED
    BY <1>3, <2>3 DEF p
<1> QED
  BY <1>2, <1>3

(* A frame less: data of s that comes next, or another frame. *)
LEMMA CarryLess ==
  ASSUME NEW s \in Stream, NEW q \in Seq(Packet), q # <<>>,
         NEW a \in Nat, NEW b \in Nat, Carry(q, s, a, b)
  PROVE  LET f == Head(q)
         IN /\ f.type = "data" /\ f.id = s => f.n = a + 1 /\ Carry(Tail(q), s, a + 1, b)
            /\ ~(f.type = "data" /\ f.id = s) => Carry(Tail(q), s, a, b)
<1> DEFINE p == Tail(q)
           f == Head(q)
           m == Len(p)
<1>1. /\ m \in Nat /\ Len(q) = m + 1 /\ f = q[1]
      /\ \A i \in 1 .. m : p[i] = q[i + 1] /\ i + 1 \in 1 .. m + 1
  OBVIOUS
<1> HIDE DEF p, f
<1>2. \A i \in DataOf(q, s) : i \in 1 .. m + 1 /\ q[i].n \in Nat
  <2>1. \A i \in DataOf(q, s) : i \in 1 .. m + 1 /\ q[i] \in Packet
    BY <1>1 DEF DataOf
  <2> QED
    BY <2>1 DEF Packet
<1>3. /\ \A i \in DataOf(p, s) : i \in 1 .. m /\ i + 1 \in DataOf(q, s) /\ p[i] = q[i + 1]
      /\ \A i \in DataOf(q, s) : i # 1 => i - 1 \in DataOf(p, s) /\ p[i - 1] = q[i]
  <2>1. ASSUME NEW i \in DataOf(q, s), i # 1
        PROVE  i - 1 \in 1 .. m /\ p[i - 1] = q[i]
    <3>1. i - 1 \in 1 .. m /\ (i - 1) + 1 = i
      BY <1>2, <2>1, <1>1
    <3> QED
      BY <1>1, <3>1
  <2>2. ASSUME NEW i \in DataOf(q, s), i # 1 PROVE i - 1 \in DataOf(p, s)
    BY <2>1, <2>2 DEF DataOf
  <2>3. \A i \in DataOf(p, s) : i \in 1 .. m /\ i + 1 \in DataOf(q, s) /\ p[i] = q[i + 1]
    BY <1>1 DEF DataOf
  <2> QED
    BY <2>1, <2>2, <2>3
<1>4. CASE f.type = "data" /\ f.id = s
  <2>1. 1 \in DataOf(q, s)
    BY <1>1, <1>4 DEF DataOf
  <2>2. f.n = a + 1
    <3>1. a + 1 <= f.n /\ f.n <= b /\ f.n \in Nat
      BY <1>1, <1>2, <2>1 DEF Carry
    <3>2. PICK i \in DataOf(q, s) : q[i].n = a + 1
      BY <3>1 DEF Carry
    <3>3. i = 1 \/ 1 < i
      BY <1>2
    <3> QED
      BY <1>1, <2>1, <3>1, <3>2, <3>3 DEF Carry
  <2>3. ASSUME NEW i \in DataOf(p, s) PROVE a + 1 < p[i].n /\ p[i].n <= b
    <3>1. i + 1 \in DataOf(q, s) /\ 1 < i + 1 /\ p[i] = q[i + 1]
      BY <1>3
    <3> QED
      BY <1>1, <2>1, <2>2, <3>1 DEF Carry
  <2>4. ASSUME NEW i \in DataOf(p, s), NEW j \in DataOf(p, s), i < j PROVE p[i].n < p[j].n
    <3>1. i + 1 < j + 1
      BY <1>3, <2>4
    <3> QED
      BY <1>3, <3>1 DEF Carry
  <2>5. ASSUME NEW n \in (a + 1 + 1) .. b PROVE \E i \in DataOf(p, s) : p[i].n = n
    <3>1. PICK i \in DataOf(q, s) : q[i].n = n
      BY DEF Carry
    <3>2. i # 1
      BY <1>1, <2>2, <3>1
    <3> QED
      BY <1>3, <3>1, <3>2
  <2>6. a + 1 <= b
    BY <1>1, <1>2, <2>1, <2>2 DEF Carry
  <2>7. Carry(p, s, a + 1, b)
    BY <2>3, <2>4, <2>5, <2>6 DEF Carry
  <2> QED
    BY <1>4, <2>2, <2>7 DEF p, f
<1>5. CASE ~(f.type = "data" /\ f.id = s)
  <2>1. 1 \notin DataOf(q, s)
    BY <1>1, <1>5 DEF DataOf
  <2>2. \A i \in DataOf(p, s) : a < p[i].n /\ p[i].n <= b
    BY <1>3 DEF Carry
  <2>3. ASSUME NEW i \in DataOf(p, s), NEW j \in DataOf(p, s), i < j PROVE p[i].n < p[j].n
    <3>1. i + 1 < j + 1
      BY <1>3, <2>3
    <3> QED
      BY <1>3, <3>1 DEF Carry
  <2>4. ASSUME NEW n \in (a + 1) .. b PROVE \E i \in DataOf(p, s) : p[i].n = n
    <3>1. PICK i \in DataOf(q, s) : q[i].n = n
      BY DEF Carry
    <3> QED
      BY <1>3, <2>1, <3>1
  <2>5. Carry(p, s, a, b)
    BY <2>2, <2>3, <2>4 DEF Carry
  <2> QED
    BY <1>5, <2>5 DEF p, f
<1> QED
  BY <1>4, <1>5

LEMMA HeldNat ==
  ASSUME TypeOK, NEW s \in Stream
  PROVE  /\ Held(s) \in Nat /\ client.data[s] \in Nat
         /\ Given(stream[s], loop[s]["peerWrite"]) \in Nat
<1>1. stream[s].queue \in Seq(Nat) /\ stream[s].written \in Nat /\ client.data[s] \in Nat
  BY DEF TypeOK, ServerStream
<1>2. Len(stream[s].queue) \in Nat
  BY <1>1
<1>3. Given(stream[s], loop[s]["peerWrite"]) \in Nat
  BY <1>1, <1>2 DEF Given, Taken
<1> QED
  BY <1>1, <1>3 DEF Held

(* A stream that the client does not know has no data under way. *)
LEMMA UnknownHasNone ==
  ASSUME IInv, OrderInv, NEW s \in Stream, s \notin client.known
  PROVE  DataOf(up, s) = {}
<1>1. Working(loop[s]["peerWrite"])
  BY DEF IInv, UsedOnce, Untouched, Loop, Working
<1>2. Carry(up, s, Held(s), 0)
  BY <1>1 DEF OrderInv, UpInv, UpOrder, Live, ConnectFirst
<1>3. ASSUME NEW i \in DataOf(up, s) PROVE FALSE
  <2>1. up[i] \in Packet
    BY DEF DataOf, IInv, TypeOK
  <2>2. up[i].n \in Nat /\ Held(s) \in Nat
    BY <2>1, HeldNat DEF Packet, IInv
  <2> QED
    BY <1>2, <2>2 DEF Carry
<1> QED
  BY <1>3

(* The handler reads a frame. *)
LEMMA FirstLess ==
  ASSUME TypeOK, NEW s \in Stream, ConnectFirst(s), up # <<>>, up' = Tail(up), client' = client
  PROVE  ConnectFirst(s)' /\ (Connecting(s)' => Connecting(s))
<1>1. \A i \in 1 .. Len(up') : i + 1 \in 1 .. Len(up) /\ up'[i] = up[i + 1]
  BY DEF TypeOK
<1>2. ASSUME NEW i \in 1 .. Len(up'), NEW j \in DataOf(up', s),
             up'[i].type = "connect" /\ up'[i].id = s
      PROVE  i < j
  <2>1. j \in 1 .. Len(up') /\ j + 1 \in DataOf(up, s)
    BY <1>1 DEF DataOf
  <2>2. i + 1 < j + 1
    BY <1>1, <1>2, <2>1 DEF ConnectFirst
  <2> QED
    BY <2>1, <2>2
<1> QED
  BY <1>1, <1>2 DEF ConnectFirst, Connecting

(* What ReadMessage does to the streams: it moves no data within them. *)
LEMMA ReadQuiet ==
  ASSUME IInv, ReadMessage, NEW s \in Stream
  PROVE  /\ OutQuiet(s) /\ InQuiet(s) /\ ~Pushing(s)
         /\ s \in streams' => s \in streams \/ Connecting(s)
         /\ Pushing(s)' => Head(up).type = "data" /\ packet' = Head(up) /\ s \in streams
         /\ Head(up).type = "data" /\ Head(up).id = s => streams' = streams
         /\ Head(up).type = "data" /\ Head(up).id = s /\ s \in streams => Pushing(s)'
<1>1. /\ up # <<>> /\ up' = Tail(up) /\ handler = "read"
      /\ stream \in [Stream -> ServerStream] /\ loop \in [Stream -> [Loop -> At]]
      /\ up \in Seq(Packet)
  BY DEF ReadMessage, IInv, TypeOK
<1>2. PICK f \in Packet : f = Head(up) /\ f = up[1] /\ 1 \in 1 .. Len(up)
  BY <1>1
<1>3. ~Pushing(s)
  BY <1>1 DEF Pushing
<1>4. ASSUME stream' = stream, loop' = loop PROVE OutQuiet(s) /\ InQuiet(s)
  BY <1>4 DEF OutQuiet, InQuiet, SameOut, SameIn
<1>5. CASE f.type = "connect" /\ HandleConnect(f.id)
  <2>1. PICK r \in Stream : r = f.id /\ Connecting(r) /\ Untouched(r)
    BY <1>2, <1>5 DEF IInv, NamesStreams, UsedOnce, Connecting
  <2>2. CASE handler' = "reply"
    BY <1>2, <1>3, <1>4, <1>5, <2>2 DEF HandleConnect, Pushing
  <2>3. CASE handler' = "poll"
    <3>1. PICK t : stream' = [stream EXCEPT ![r] = t] /\ t = [stream[r] EXCEPT !.conn = "open"]
      BY <1>5, <2>1, <2>3 DEF HandleConnect
    <3>2. SameOut(stream[r], t) /\ SameIn(stream[r], t)
      BY <1>1, <3>1, OtherFields
    <3>3. /\ loop'[r]["peerRead"] = "read" /\ loop'[r]["clientRead"] = "recv"
          /\ loop'[r]["peerWrite"] = "recv"
          /\ \A k \in Stream \ {r} : loop'[k] = loop[k]
          /\ streams' = streams \cup {r}
      BY <1>1, <1>5, <2>1, <2>3 DEF HandleConnect, Loop
    <3>4. \A l \in Loop : loop[r][l] = "none"
      BY <2>1 DEF Untouched
    <3>5. SameOut(stream[s], stream'[s]) /\ SameIn(stream[s], stream'[s])
      BY <1>1, <3>1, <3>2 DEF SameOut, SameIn
    <3>6. OutQuiet(s) /\ InQuiet(s)
      BY <3>3, <3>4, <3>5 DEF OutQuiet, InQuiet, Loop, Working
    <3> QED
      BY <1>2, <1>3, <1>5, <2>1, <2>3, <3>3, <3>6 DEF Pushing
  <2> QED
    BY <1>5, <2>2, <2>3 DEF HandleConnect
<1>6. CASE f.type = "data" /\ HandleData(f)
  BY <1>2, <1>3, <1>4, <1>6 DEF HandleData, Pushing
<1>7. CASE f.type = "close" /\ HandleClose(f)
  <2>1. PICK r \in Stream : r = f.id
    BY <1>2, <1>7 DEF IInv, NamesStreams
  <2>2. CASE handler' = "poll"
    BY <1>2, <1>3, <1>4, <1>7, <2>2 DEF HandleClose, Pushing
  <2>3. CASE handler' = "shut"
    <3>1. PICK t : stream' = [stream EXCEPT ![r] = t] /\ t = [stream[r] EXCEPT !.closed = TRUE]
      BY <1>7, <2>1, <2>3 DEF HandleClose
    <3>2. SameOut(stream[r], t) /\ SameIn(stream[r], t)
      BY <1>1, <3>1, OtherFields
    <3>3. SameOut(stream[s], stream'[s]) /\ SameIn(stream[s], stream'[s])
      BY <1>1, <3>1, <3>2 DEF SameOut, SameIn
    <3>4. loop' = loop /\ streams' = streams
      BY <1>7 DEF HandleClose
    <3>5. OutQuiet(s) /\ InQuiet(s)
      BY <3>3, <3>4 DEF OutQuiet, InQuiet
    <3> QED
      BY <1>2, <1>3, <1>7, <2>3, <3>4, <3>5 DEF Pushing
  <2> QED
    BY <1>7, <2>2, <2>3 DEF HandleClose
<1>8. CASE f.type = "other" /\ HandleOther
  BY <1>2, <1>3, <1>4, <1>8 DEF HandleOther, Pushing
<1> QED
  BY <1>2, <1>5, <1>6, <1>7, <1>8 DEF ReadMessage

LEMMA ReadKept ==
  ASSUME IInv, OrderInv, ReadMessage
  PROVE  OrderInv'
<1>1. /\ up # <<>> /\ up' = Tail(up) /\ client' = client /\ ws' = ws /\ up \in Seq(Packet)
      /\ TypeOK
  BY DEF ReadMessage, IInv, TypeOK
<1> DEFINE f == Head(up)
<1>2. f \in Packet /\ f = up[1] /\ 1 \in 1 .. Len(up)
  BY <1>1
<1>3. SUFFICES ASSUME NEW s \in Stream PROVE OutInv(s)' /\ InInv(s)' /\ UpInv(s)' /\ ConnectFirst(s)'
  BY DEF OrderInv
<1>4. OutInv(s)' /\ InInv(s)'
  BY <1>1, ReadQuiet, OutKeeps, InKeeps DEF OrderInv
<1>5. ConnectFirst(s)' /\ (Connecting(s)' => Connecting(s))
  BY <1>1, FirstLess DEF OrderInv
<1>6. ASSUME Working(loop'[s]["peerWrite"]) PROVE UpOrder(s)'
  <2> DEFINE a == Held(s)
             b == client.data[s]
             g == Given(stream[s], loop[s]["peerWrite"])
  <2>1. /\ Working(loop[s]["peerWrite"]) /\ Given(stream'[s], loop'[s]["peerWrite"]) = g
        /\ a = g /\ a \in Nat /\ b \in Nat
    BY <1>1, <1>6, ReadQuiet, HeldNat DEF InQuiet, SameIn, Given, Taken, Held
  <2>2. UpOrder(s)
    BY <2>1 DEF OrderInv, UpInv
  <2>3. Live(s)' => Live(s)
    BY <1>1, <1>5, ReadQuiet DEF Live
  <2>4. CASE f.type = "data" /\ f.id = s /\ s \in streams
    <3>1. Carry(up, s, a, b)
      BY <2>2, <2>4 DEF UpOrder, Live
    <3>2. f.n = a + 1 /\ Carry(Tail(up), s, a + 1, b)
      BY <1>1, <2>1, <2>4, <3>1, CarryLess
    <3>3. Pushing(s)' /\ packet' = f
      BY <2>4, ReadQuiet
    <3>4. Held(s)' = a + 1
      BY <2>1, <3>3 DEF Held
    <3> QED
      BY <1>1, <2>1, <3>2, <3>3, <3>4 DEF UpOrder
  <2>5. CASE f.type = "data" /\ f.id = s /\ s \notin streams
    <3>1. 1 \in DataOf(up, s)
      BY <1>2, <2>5 DEF DataOf
    <3>2. s \in client.known
      BY <3>1, UnknownHasNone
    <3>3. ~Connecting(s)
      <4>1. \A i \in 1 .. Len(up) : up[i].type = "connect" /\ up[i].id = s => i < 1
        BY <3>1 DEF OrderInv, ConnectFirst
      <4> QED
        BY <4>1 DEF Connecting
    <3>4. ~Live(s)' /\ ~Pushing(s)'
      BY <1>1, <1>5, <2>5, <3>2, <3>3, ReadQuiet DEF Live
    <3> QED
      BY <3>4 DEF UpOrder
  <2>6. CASE ~(f.type = "data" /\ f.id = s)
    <3>1. ~Pushing(s)'
      BY <2>6, ReadQuiet DEF Pushing
    <3>2. Held(s)' = a
      BY <2>1, <3>1 DEF Held
    <3>3. Live(s) => Carry(Tail(up), s, a, b)
      BY <1>1, <2>1, <2>2, <2>6, CarryLess DEF UpOrder
    <3> QED
      BY <1>1, <2>3, <3>1, <3>2, <3>3 DEF UpOrder
  <2> QED
    BY <2>4, <2>5, <2>6
<1> QED
  BY <1>4, <1>5, <1>6 DEF UpInv

(* The client sends a frame: a stream it did not know, or the next data. *)
LEMMA SendKept ==
  ASSUME IInv, OrderInv, NEW f \in Packet, ClientSends(f),
         f.type = "connect" => f.id \notin client.known,
         f.type = "data" => f.id \in client.known /\ f.n = client.data[f.id] + 1
  PROVE  OrderInv'
<1> DEFINE n == Len(up)
<1>1. /\ TypeOK /\ up \in Seq(Packet) /\ up' = Append(up, f) /\ ws' = ws
      /\ stream' = stream /\ loop' = loop /\ handler' = handler /\ packet' = packet
      /\ streams' = streams
  BY DEF ClientSends, IInv, TypeOK, run
<1>2. /\ n \in Nat /\ Len(up') = n + 1 /\ up'[n + 1] = f
      /\ \A i \in 1 .. n : up'[i] = up[i]
  BY <1>1
<1>3. SUFFICES ASSUME NEW s \in Stream PROVE OutInv(s)' /\ InInv(s)' /\ UpInv(s)' /\ ConnectFirst(s)'
  BY DEF OrderInv
<1>4. OutInv(s)' /\ InInv(s)'
  BY <1>1 DEF OrderInv, OutInv, InInv
<1>5. /\ client'.known = IF f.type = "connect" THEN client.known \cup {f.id} ELSE client.known
      /\ f.type = "data" /\ f.id = s => client'.data[s] = client.data[s] + 1
      /\ ~(f.type = "data" /\ f.id = s) => client'.data[s] = client.data[s]
  BY <1>1 DEF ClientSends, TypeOK
<1>6. ConnectFirst(s)'
  <2>1. ASSUME NEW i \in 1 .. Len(up'), NEW j \in DataOf(up', s),
               up'[i].type = "connect" /\ up'[i].id = s
        PROVE  i < j
    <3>1. j \in 1 .. n + 1 /\ up'[j].type = "data" /\ up'[j].id = s /\ i # j
      BY <1>2, <2>1 DEF DataOf
    <3>2. CASE j = n + 1
      BY <1>2, <3>1, <3>2
    <3>3. CASE j \in 1 .. n /\ i \in 1 .. n
      <4>1. j \in DataOf(up, s)
        BY <1>2, <3>1, <3>3 DEF DataOf
      <4> QED
        BY <1>2, <2>1, <3>3, <4>1 DEF OrderInv, ConnectFirst
    <3>4. CASE j \in 1 .. n /\ i = n + 1
      <4>1. j \in DataOf(up, s)
        BY <1>2, <3>1, <3>4 DEF DataOf
      <4>2. s \notin client.known
        BY <1>2, <2>1, <3>4
      <4> QED
        BY <4>1, <4>2, UnknownHasNone
    <3> QED
      BY <1>2, <3>1, <3>2, <3>3, <3>4
  <2>2. s \notin client'.known => client'.data[s] = 0
    BY <1>5 DEF OrderInv, ConnectFirst
  <2> QED
    BY <2>1, <2>2 DEF ConnectFirst
<1>7. ASSUME Working(loop[s]["peerWrite"]) PROVE UpOrder(s)'
  <2>1. UpOrder(s) /\ Held(s)' = Held(s) /\ Held(s) \in Nat /\ client.data[s] \in Nat
    BY <1>1, <1>7, HeldNat DEF OrderInv, UpInv, Held, Pushing
  <2>2. Live(s)' => Live(s)
    <3>1. Connecting(s)' => Connecting(s) \/ (f.type = "connect" /\ f.id = s)
      BY <1>2 DEF Connecting
    <3> QED
      BY <1>1, <1>5, <3>1 DEF Live
  <2>3. Live(s) => Carry(up', s, Held(s), client'.data[s])
    <3>1. CASE f.type = "data" /\ f.id = s
      BY <1>1, <1>5, <2>1, <3>1, CarryMore DEF UpOrder
    <3>2. CASE ~(f.type = "data" /\ f.id = s)
      BY <1>1, <1>5, <2>1, <3>2, CarryMore DEF UpOrder
    <3> QED
      BY <3>1, <3>2
  <2>4. Pushing(s)' => packet'.n = Given(stream[s], loop[s]["peerWrite"])' + 1
    BY <1>1, <2>1 DEF UpOrder, Pushing
  <2> QED
    BY <1>1, <2>1, <2>2, <2>3, <2>4 DEF UpOrder
<1> QED
  BY <1>1, <1>4, <1>6, <1>7 DEF UpInv

(* The client and the network. *)
LEMMA NetworkOrder ==
  ASSUME IInv, OrderInv, ws = "failed" => ws' = "failed", Network
  PROVE  OrderInv'
<1>1. ASSUME NEW s \in Stream, ClientConnects(s) \/ ClientWrites(s) \/ ClientCloses(s)
      PROVE  OrderInv'
  <2>1. /\ Frame("connect", s, 0) \in Packet /\ Frame("close", s, 0) \in Packet
        /\ Frame("data", s, client.data[s] + 1) \in Packet
    BY FrameType DEF TypeOK, IInv
  <2> QED
    BY <1>1, <2>1, SendKept DEF ClientConnects, ClientWrites, ClientCloses, Frame
<1>2. CASE ClientSendsOther
  <2>1. Frame("other", Everyone, 0) \in Packet /\ Frame("other", Everyone, 0).type = "other"
    BY FrameType DEF Frame
  <2> QED
    BY <1>2, <2>1, SendKept DEF ClientSendsOther
<1>3. CASE ClientReceives \/ Cut
  <2>1. /\ up' = up /\ client' = client /\ stream' = stream /\ loop' = loop
        /\ handler' = handler /\ packet' = packet /\ streams' = streams
    BY <1>3 DEF ClientReceives, Cut, run
  <2>2. \A s \in Stream : Calm(s)
    BY <2>1 DEF Calm, OutQuiet, InQuiet, SameOut, SameIn, Pushing
  <2> QED
    BY <2>1, <2>2, CalmStep
<1> QED
  BY <1>1, <1>2, <1>3 DEF Network

(* The order holds in the beginning, and every step keeps it. *)
LEMMA OrderInit == Init => OrderInv
<1> SUFFICES ASSUME Init, NEW s \in Stream
             PROVE  OutInv(s) /\ InInv(s) /\ UpInv(s) /\ ConnectFirst(s)
  BY DEF OrderInv
<1>1. /\ up = <<>> /\ handler = "init" /\ client.known = {} /\ client.data[s] = 0
      /\ stream[s] = NewStream /\ \A l \in Loop : loop[s][l] = "none"
  BY DEF Init
<1>2. /\ stream[s].received = 0 /\ stream[s].delivered = 0 /\ stream[s].written = 0
      /\ stream[s].queue = <<>>
  BY <1>1 DEF NewStream
<1>3. OutInv(s) /\ InInv(s)
  BY <1>1, <1>2 DEF OutInv, InInv, OutOrder, WriteOrder, Loop
<1>4. DataOf(up, s) = {} /\ Held(s) = 0 /\ ~Pushing(s)
  BY <1>1, <1>2 DEF DataOf, Held, Given, Taken, Pushing, Loop
<1>5. Carry(up, s, Held(s), client.data[s])
  BY <1>1, <1>4 DEF Carry
<1>6. UpInv(s) /\ ConnectFirst(s)
  BY <1>1, <1>4, <1>5 DEF UpInv, UpOrder, ConnectFirst
<1> QED
  BY <1>3, <1>6

LEMMA OrderStep == IInv /\ IInv' /\ OrderInv /\ [Next]_vars => OrderInv'
<1> SUFFICES ASSUME IInv, IInv', OrderInv, [Next]_vars PROVE OrderInv'
  OBVIOUS
<1>1. TypeOK /\ HandlerHolds /\ NeverSendsOnClosed'
  BY DEF IInv
<1>2. ws = "failed" => ws' = "failed"
  BY <1>1, StaysFailed
<1>3. CASE UNCHANGED vars
  <2>1. \A s \in Stream : Calm(s)
    BY <1>3 DEF Calm, OutQuiet, InQuiet, SameOut, SameIn, Pushing, vars, run
  <2> QED
    BY <1>2, <1>3, <2>1, CalmStep DEF vars, wire
<1>4. CASE SendInitialContinue \/ NothingPending \/ ReadError \/ Reply \/ ShutByHandler \/ Exit
  BY <1>1, <1>2, <1>4, CalmHandler, CalmStep
<1>5. ASSUME NEW s \in Stream, Sweep(s) \/ \E l \in Loop : ClosePending(s, l) PROVE OrderInv'
  BY <1>1, <1>2, <1>5, CalmHandler, CalmStep
<1>6. CASE ReadMessage
  BY <1>6, ReadKept
<1>7. CASE PushData
  BY <1>1, <1>2, <1>7, InKept
<1>8. ASSUME NEW s \in Stream,
             \/ PeerSends(s) \/ PeerEnds(s) \/ PeerReadLoop(s) \/ ClientReadLoop(s)
             \/ PeerWriteLoop(s)
      PROVE  OrderInv'
  <2>1. CASE \/ PeerEnds(s) \/ ReadQueueEnds(s) \/ WriteQueueEnds(s) \/ PeerRefuses(s)
             \/ GiveCredit(s) \/ \E l \in Loop : CloseStep(s, l)
    BY <1>1, <1>2, <2>1, CalmLoop, CalmStep
  <2>2. CASE PeerSends(s) \/ Lend(s) \/ CopyData(s) \/ WriteToClient(s)
    BY <1>1, <1>2, <2>2, OutKept
  <2>3. CASE TakeData(s) \/ PeerTakes(s)
    BY <1>1, <1>2, <2>3, InKept
  <2> QED
    BY <1>8, <2>1, <2>2, <2>3 DEF PeerReadLoop, ClientReadLoop, PeerWriteLoop, Loop
<1>9. CASE Network
  BY <1>2, <1>9, NetworkOrder
<1> QED
  BY <1>3, <1>4, <1>5, <1>6, <1>7, <1>8, <1>9 DEF Next, Handler

LEMMA OrderAlways == Spec => [](IInv /\ OrderInv)
<1>1. Init => IInv /\ OrderInv
  BY IInvInit, OrderInit
<1>2. (IInv /\ OrderInv) /\ [Next]_vars => (IInv /\ OrderInv)'
  BY IInvStep, OrderStep
<1> QED
  BY <1>1, <1>2, PTL DEF Spec

(* One step of the streams' data, in either direction. *)
DeliversNext(s) ==
  /\ stream'[s].delivered # stream[s].delivered => stream[s].hand = stream'[s].delivered
  /\ stream'[s].written # stream[s].written => stream[s].taken = stream'[s].written

LEMMA OrderAction ==
  ASSUME IInv, OrderInv, [Next]_vars, NEW s \in Stream
  PROVE  DeliversNext(s)
<1>1. TypeOK /\ HandlerHolds /\ stream \in [Stream -> ServerStream]
  BY DEF IInv, TypeOK
<1>2. ASSUME stream'[s].delivered = stream[s].delivered, stream'[s].written = stream[s].written
      PROVE  DeliversNext(s)
  BY <1>2 DEF DeliversNext
<1>3. ASSUME Calm(s) \/ (OutQuiet(s) /\ InQuiet(s)) \/ stream' = stream PROVE DeliversNext(s)
  BY <1>2, <1>3 DEF Calm, OutQuiet, InQuiet, SameOut, SameIn
<1>4. ASSUME NEW r \in Stream, NEW t, stream' = [stream EXCEPT ![r] = t],
             t.delivered = stream[r].delivered, t.written = stream[r].written
      PROVE  DeliversNext(s)
  BY <1>1, <1>2, <1>4
<1>5. CASE UNCHANGED vars \/ Network
  <2>1. stream' = stream
    BY <1>5 DEF vars, Network, ClientConnects, ClientWrites, ClientCloses, ClientSendsOther,
       ClientSends, ClientReceives, Cut
  <2> QED
    BY <1>3, <2>1
<1>6. CASE \/ SendInitialContinue \/ NothingPending \/ ReadError \/ Reply \/ ShutByHandler
           \/ Exit \/ \E r \in Stream : Sweep(r) \/ \E l \in Loop : ClosePending(r, l)
  BY <1>1, <1>3, <1>6, CalmHandler
<1>7. CASE ReadMessage
  BY <1>3, <1>7, ReadQuiet
<1>8. CASE PushData
  <2>1. CASE stream' = stream
    BY <1>3, <2>1
  <2>2. CASE stream' = [stream EXCEPT ![packet.id].queue = <<packet.n>>]
    <3>1. PICK r \in Stream : r = packet.id
      BY <1>1, <1>8 DEF PushData, HandlerHolds, TypeOK
    <3>2. PICK t : stream' = [stream EXCEPT ![r] = t] /\ t = [stream[r] EXCEPT !.queue = <<packet.n>>]
      BY <2>2, <3>1
    <3>3. t.delivered = stream[r].delivered /\ t.written = stream[r].written
      BY <1>1, <3>2 DEF ServerStream
    <3> QED
      BY <1>4, <3>2, <3>3
  <2> QED
    BY <1>8, <2>1, <2>2 DEF PushData
<1>9. ASSUME NEW r \in Stream,
             \/ PeerSends(r) \/ PeerEnds(r) \/ PeerReadLoop(r) \/ ClientReadLoop(r)
             \/ PeerWriteLoop(r)
      PROVE  DeliversNext(s)
  <2> DEFINE u == stream[r]
  <2>1. u \in ServerStream /\ u.delivered \in Nat /\ u.written \in Nat
    BY <1>1 DEF ServerStream
  <2>2. CASE \/ PeerEnds(r) \/ ReadQueueEnds(r) \/ WriteQueueEnds(r) \/ PeerRefuses(r)
             \/ GiveCredit(r) \/ \E l \in Loop : CloseStep(r, l)
    BY <1>1, <1>3, <2>2, CalmLoop
  <2>3. CASE PeerSends(r) \/ Lend(r) \/ CopyData(r) \/ TakeData(r)
    <3>1. PICK t : /\ stream' = [stream EXCEPT ![r] = t]
                   /\ \/ t = [u EXCEPT !.received = u.received + 1,
                                        !.buf[u.filling] = u.received + 1]
                      \/ t = [u EXCEPT !.lent = u.filling, !.filling = 3 - u.filling]
                      \/ t = [u EXCEPT !.hand = u.buf[u.lent]]
                      \/ t = [u EXCEPT !.queue = <<>>, !.taken = Head(u.queue)]
      BY <2>3 DEF PeerSends, Lend, HandOver, CopyData, TakeData, Local
    <3>2. t.delivered = u.delivered /\ t.written = u.written
      BY <2>1, <3>1 DEF ServerStream
    <3> QED
      BY <1>4, <3>1, <3>2
  <2>4. CASE WriteToClient(r)
    <3>1. PICK ok \in BOOLEAN :
            /\ WritePacket(Frame("data", r, u.hand), ok)
            /\ loop[r]["clientRead"] = "write"
            /\ stream' = [stream EXCEPT ![r].delivered = IF ok THEN @ + 1 ELSE @]
      BY <2>4 DEF WriteToClient
    <3>2. CASE ok
      <4>1. ws # "failed"
        BY <3>1, <3>2 DEF WritePacket
      <4>2. u.hand = u.delivered + 1
        BY <3>1, <4>1 DEF OrderInv, OutInv, OutOrder
      <4>3. PICK t : stream' = [stream EXCEPT ![r] = t] /\ t = [u EXCEPT !.delivered = u.delivered + 1]
        BY <3>1, <3>2
      <4>4. t.delivered = u.delivered + 1 /\ t.written = u.written
        BY <2>1, <4>3 DEF ServerStream
      <4>5. stream'[s] = IF s = r THEN t ELSE stream[s]
        BY <1>1, <4>3
      <4> QED
        BY <4>2, <4>4, <4>5 DEF DeliversNext
    <3>3. CASE ~ok
      <4>1. PICK t : stream' = [stream EXCEPT ![r] = t] /\ t = [u EXCEPT !.delivered = u.delivered]
        BY <3>1, <3>3
      <4>2. t.delivered = u.delivered /\ t.written = u.written
        BY <2>1, <4>1 DEF ServerStream
      <4> QED
        BY <1>4, <4>1, <4>2
    <3> QED
      BY <3>2, <3>3
  <2>5. CASE PeerTakes(r)
    <3>1. PICK t : /\ stream' = [stream EXCEPT ![r] = t] /\ loop[r]["peerWrite"] = "write"
                   /\ t = [u EXCEPT !.written = u.written + 1, !.counter = u.counter + 1]
      BY <2>5 DEF PeerTakes, Local
    <3>2. u.taken = u.written + 1
      BY <3>1 DEF OrderInv, InInv, WriteOrder, Working
    <3>3. t.written = u.written + 1 /\ t.delivered = u.delivered
      BY <2>1, <3>1 DEF ServerStream
    <3>4. stream'[s] = IF s = r THEN t ELSE stream[s]
      BY <1>1, <3>1
    <3> QED
      BY <3>2, <3>3, <3>4 DEF DeliversNext
  <2> QED
    BY <1>9, <2>2, <2>3, <2>4, <2>5 DEF PeerReadLoop, ClientReadLoop, PeerWriteLoop, Loop
<1> QED
  BY <1>5, <1>6, <1>7, <1>8, <1>9 DEF Next, Handler

(* Whatever the loops, the handler and the client do in between, what goes out
   in either direction is what came in, without gaps and in order.         *)
THEOREM DataInOrder == Spec => InOrder
<1> DEFINE Delivers == \A s \in Stream : DeliversNext(s)
<1>1. IInv /\ OrderInv /\ [Next]_vars => [Delivers]_vars
  BY OrderAction
<1> HIDE DEF Delivers
<1>2. Spec => [][Delivers]_vars
  BY <1>1, OrderAlways, PTL DEF Spec
<1>3. Spec => [][\A s \in Stream : DeliversNext(s)]_vars
  BY <1>2 DEF Delivers
<1> QED
  BY <1>3 DEF InOrder, DeliversNext
-----------------------------------------------------------------------------
(* The server manager. The theorems are about a configuration without      *)
(* HTTPS: with it the shutdown of manager.go closes the HTTP server twice  *)
(* and leaves the HTTPS one, and neither property holds.                   *)

(* Nobody serves, or will come to, for a server that is not shut down. *)
AllDown ==
  \A g \in Gen, k \in Kind : server[g].serve[k] \in {"launch", "serving"} => k \in server[g].down

(* Each configuration has a command of its own, and the front end keeps one
   for Close.                                                              *)
Counting ==
  /\ manager.at = "listen" => manager.cmd = "configure"
  /\ manager.gen <= front.sent
  /\ manager.at \in {"shutdown", "listen"} /\ manager.cmd = "configure" => manager.gen < front.sent
  /\ front.sent <= MaxCommands
  /\ front.at \in {"loop", "close"} => front.sent < MaxCommands
  /\ front.at \in {"configure", "stop"} => front.sent + 1 < MaxCommands

(* Only what is configured is served and shut down. *)
Configured ==
  /\ \A k \in Kind : saved[k] # 0 => k \in Listeners
  /\ \A g \in Gen, k \in Kind : server[g].serve[k] # "no" => k \in Listeners
  /\ \A g \in Gen, k \in Kind : server[g].serve[k] # "no" => g <= manager.gen

(* What the manager knows at each place of its loop. *)
ManagerKnows ==
  /\ manager.at = "shutdown" =>
       /\ \A k \in manager.todo : saved[k] # 0
       /\ \A k \in Kind : saved[k] # 0 => k \in manager.todo \/ k \in server[saved[k]].down
  /\ manager.at = "started" =>
       /\ manager.gen # 0
       /\ \A k \in Listeners : saved[k] = manager.gen /\ bound[k] = manager.gen
       /\ \A k \in Kind : server[manager.gen].serve[k] = "no"
  /\ manager.at \in {"listen", "started", "end"} => AllDown
  /\ closed => manager.at = "end"

ServerInv ==
  ServerTypeOK /\ Counting /\ Configured /\ ManagerKnows /\ SavedServes
-----------------------------------------------------------------------------
(* What ServerNext keeps when the manager, the servers and the listeners stay. *)
LEMMA ManagerStays ==
  ASSUME ServerInv, ServerTypeOK', Counting',
         UNCHANGED <<manager, saved, server, bound, closed, crashed>>
  PROVE  ServerInv'
BY DEF ServerInv, Configured, ManagerKnows, AllDown, SavedServes

(* Without HTTPS a server serves its own listener and its own shutdown. *)
LEMMA OwnListener ==
  ASSUME "https" \notin Listeners, NEW k \in Listeners
  PROVE  k \in Kind /\ ListenerOf(k) = k /\ Target(k) = k
BY ServerAssumption DEF ListenerOf, Target, Kind

(* The front end. *)
LEMMA FrontEndStep ==
  ASSUME ServerInv, FrontEnd
  PROVE  ServerInv'
<1>1. ServerTypeOK /\ Counting /\ MaxCommands \in Nat \ {0, 1}
  BY ServerAssumption DEF ServerInv
<1>2. UNCHANGED <<manager, saved, server, bound, closed, crashed>>
  BY DEF FrontEnd, UserCommand, Interrupt, CloseCalled, ProgramExits, channels
<1>3. CASE \E c \in Commands : UserCommand(c)
  <2>1. PICK c \in {"configure", "stop"} : UserCommand(c)
    BY <1>3 DEF Commands
  <2>2. /\ front' = [front EXCEPT !.at = c] /\ front.sent + 2 < MaxCommands
        /\ UNCHANGED <<signal, request>>
    BY <2>1 DEF UserCommand
  <2>3. ServerTypeOK'
    BY <1>1, <1>2, <2>2 DEF ServerTypeOK
  <2>4. front'.sent = front.sent /\ front.sent \in 0 .. MaxCommands /\ front'.at \in {"configure", "stop"}
    BY <1>1, <2>2 DEF ServerTypeOK
  <2>5. Counting'
    BY <1>1, <1>2, <2>2, <2>4 DEF Counting
  <2> QED
    BY <1>2, <2>3, <2>5, ManagerStays
<1>4. CASE Interrupt
  <2>1. ServerTypeOK' /\ Counting'
    BY <1>1, <1>2, <1>4 DEF Interrupt, ServerTypeOK, Counting
  <2> QED
    BY <1>2, <2>1, ManagerStays
<1>5. CASE CloseCalled \/ ProgramExits
  <2>1. PICK c \in {"close", "exit"} :
          /\ front' = [front EXCEPT !.at = c] /\ UNCHANGED <<signal, request>>
          /\ c = "close" => front.at = "loop"
    BY <1>5 DEF CloseCalled, ProgramExits
  <2>2. ServerTypeOK'
    BY <1>1, <1>2, <2>1 DEF ServerTypeOK
  <2>3. front'.sent = front.sent /\ front.sent \in 0 .. MaxCommands /\ front'.at = c
    BY <1>1, <2>1 DEF ServerTypeOK
  <2>4. Counting'
    BY <1>1, <1>2, <2>1, <2>3 DEF Counting
  <2> QED
    BY <1>2, <2>2, <2>4, ManagerStays
<1> QED
  BY <1>3, <1>4, <1>5 DEF FrontEnd

(* A command is taken: what is saved has to be shut down. *)
LEMMA CommandStep ==
  ASSUME ServerInv, Command \/ CommandsEnd
  PROVE  ServerInv'
<1>1. /\ ServerTypeOK /\ Counting /\ MaxCommands \in Nat \ {0, 1}
      /\ manager.at = "recv"
      /\ UNCHANGED <<signal, saved, server, bound, closed, crashed, request>>
  BY ServerAssumption DEF ServerInv, Command, CommandsEnd, channels
<1>2. PICK c \in {"configure", "stop", "close", "end"} :
        /\ manager' = [manager EXCEPT !.at = "shutdown", !.cmd = c, !.failed = FALSE,
                         !.todo = {k \in Kind : saved[k] # 0}]
        /\ \/ /\ c = front.at
              /\ front' = [front EXCEPT !.sent = @ + 1, !.at = IF @ = "close" THEN "drain" ELSE "loop"]
           \/ c = "end" /\ front' = front
  BY DEF Command, CommandsEnd
<1>3. /\ manager'.at = "shutdown" /\ manager'.cmd = c /\ manager'.gen = manager.gen
      /\ manager'.todo = {k \in Kind : saved[k] # 0}
      /\ manager.gen \in 0 .. MaxCommands /\ front.sent \in 0 .. MaxCommands
  BY <1>1, <1>2 DEF ServerTypeOK
<1>4. \/ /\ c = front.at /\ front'.sent = front.sent + 1
         /\ front'.at = IF c = "close" THEN "drain" ELSE "loop"
      \/ c = "end" /\ front' = front
  BY <1>1, <1>2 DEF ServerTypeOK
<1>5. ServerTypeOK' /\ Counting'
  <2>1. CASE c = "end" /\ front' = front
    <3>1. ServerTypeOK'
      BY <1>1, <1>2, <2>1 DEF ServerTypeOK
    <3>2. Counting'
      BY <1>1, <1>3, <2>1 DEF Counting
    <3> QED
      BY <3>1, <3>2
  <2>2. CASE c # "end"
    <3>1. /\ c = front.at /\ front'.sent = front.sent + 1 /\ front'.at = IF c = "close" THEN "drain" ELSE "loop"
          /\ front' = [front EXCEPT !.sent = @ + 1, !.at = IF @ = "close" THEN "drain" ELSE "loop"]
      BY <1>2, <1>4, <2>2
    <3>2. /\ front.sent + 1 <= MaxCommands
          /\ c # "close" => front.sent + 1 < MaxCommands
      BY <1>1, <1>2, <1>3, <2>2, <3>1 DEF Counting
    <3>3. front'.sent \in 0 .. MaxCommands
      BY <1>1, <1>3, <3>1, <3>2
    <3>4. ServerTypeOK'
      BY <1>1, <1>2, <3>1, <3>3 DEF ServerTypeOK
    <3>5. Counting'
      BY <1>1, <1>3, <3>1, <3>2 DEF Counting
    <3> QED
      BY <3>4, <3>5
  <2>3. c = "end" => c # front.at
    BY <1>1 DEF ServerTypeOK
  <2> QED
    BY <1>2, <2>1, <2>2, <2>3
<1>6. Configured' /\ SavedServes'
  BY <1>1, <1>3 DEF ServerInv, Configured, SavedServes
<1>7. ManagerKnows'
  <2>1. ~closed
    BY <1>1 DEF ServerInv, ManagerKnows
  <2> QED
    BY <1>1, <1>3, <2>1 DEF ManagerKnows
<1> QED
  BY <1>1, <1>5, <1>6, <1>7 DEF ServerInv

(* One server is shut down. *)
LEMMA ShutdownBeginsStep ==
  ASSUME ServerInv, "https" \notin Listeners, NEW k \in Kind, ShutdownBegins(k)
  PROVE  ServerInv'
<1>1. /\ ServerTypeOK /\ Counting /\ Configured /\ ManagerKnows /\ SavedServes
      /\ manager.at = "shutdown" /\ k \in manager.todo
      /\ UNCHANGED <<front, signal, saved, closed, request>>
  BY DEF ServerInv, ShutdownBegins
<1>2. PICK g \in Gen : g = saved[k] /\ g # 0 /\ k \in Listeners /\ Target(k) = k /\ ListenerOf(k) = k
  <2>1. saved[k] # 0 /\ k \in Listeners
    BY <1>1 DEF ManagerKnows, Configured
  <2>2. saved[k] \in 0 .. MaxCommands
    BY <1>1 DEF ServerTypeOK
  <2>3. saved[k] \in Gen
    BY <2>1, <2>2, ServerAssumption DEF Gen
  <2> QED
    BY <2>1, <2>3, OwnListener
<1>3. /\ manager' = [manager EXCEPT !.todo = @ \ {k}]
      /\ server' = [server EXCEPT ![g].down = @ \cup {k}]
      /\ bound' = IF server[g].serve[k] = "serving" /\ bound[k] = g
                  THEN [bound EXCEPT ![k] = 0] ELSE bound
      /\ UNCHANGED crashed
  BY <1>2 DEF ShutdownBegins
<1>4. /\ manager'.at = manager.at /\ manager'.cmd = manager.cmd /\ manager'.gen = manager.gen
      /\ manager'.todo = manager.todo \ {k}
  BY <1>1, <1>3 DEF ServerTypeOK
<1>5. /\ \A h \in Gen : server'[h].serve = server[h].serve /\ server[h].down \subseteq server'[h].down
      /\ k \in server'[g].down
  <2>1. /\ server \in [Gen -> [down : SUBSET Kind, serve : [Kind -> {"no", "launch", "serving", "report", "end"}]]]
        /\ server' = [server EXCEPT ![g].down = @ \cup {k}]
    BY <1>1, <1>3 DEF ServerTypeOK
  <2>2. server'[g] = [server[g] EXCEPT !.down = @ \cup {k}]
    BY <2>1
  <2>3. server'[g].serve = server[g].serve /\ server'[g].down = server[g].down \cup {k}
    BY <2>1, <2>2
  <2>4. \A h \in Gen \ {g} : server'[h] = server[h]
    BY <2>1
  <2> QED
    BY <2>3, <2>4
<1>6. \A j \in Kind : bound'[j] = bound[j] \/ (j = k /\ bound[j] = g)
  <2>1. bound' = bound \/ (bound' = [bound EXCEPT ![k] = 0] /\ bound[k] = g)
    BY <1>3
  <2>2. bound \in [Kind -> 0 .. MaxCommands]
    BY <1>1 DEF ServerTypeOK
  <2> QED
    BY <2>1, <2>2
<1>7. ServerTypeOK'
  <2>1. server' \in [Gen -> [down : SUBSET Kind, serve : [Kind -> {"no", "launch", "serving", "report", "end"}]]]
    BY <1>1, <1>2, <1>3 DEF ServerTypeOK
  <2>2. bound' \in [Kind -> 0 .. MaxCommands]
    BY <1>1, <1>3, ServerAssumption DEF ServerTypeOK
  <2>3. manager' \in [at : {"recv", "shutdown", "listen", "started", "error", "end"}, failed : BOOLEAN,
                      cmd : {"none", "configure", "stop", "close", "end"},
                      gen : 0 .. MaxCommands, todo : SUBSET Kind]
    BY <1>1, <1>3 DEF ServerTypeOK
  <2> QED
    BY <1>1, <1>3, <2>1, <2>2, <2>3 DEF ServerTypeOK
<1>8. Counting'
  BY <1>1, <1>4 DEF Counting
<1>9. Configured'
  BY <1>1, <1>4, <1>5 DEF Configured
<1>10. ManagerKnows'
  <2>1. \A j \in manager'.todo : saved'[j] # 0
    BY <1>1, <1>4 DEF ManagerKnows
  <2>2. ASSUME NEW j \in Kind, saved[j] # 0
        PROVE  j \in manager'.todo \/ j \in server'[saved[j]].down
    <3>1. j \in manager.todo \/ j \in server[saved[j]].down
      BY <1>1, <2>2 DEF ManagerKnows
    <3>2. saved[j] \in Gen
      BY <1>1, <2>2, ServerAssumption DEF ServerTypeOK, Gen
    <3> QED
      BY <1>2, <1>4, <1>5, <3>1, <3>2
  <2> QED
    BY <1>1, <1>4, <2>1, <2>2 DEF ManagerKnows
<1>11. SavedServes'
  <2>1. ASSUME NEW h \in Gen, NEW j \in Listeners,
               server'[h].serve[j] \in {"launch", "serving"}, j \notin server'[h].down
        PROVE  saved'[j] = h /\ bound'[ListenerOf(j)] = h
    <3>1. saved[j] = h /\ bound[j] = h
      BY <1>1, <1>5, <2>1, OwnListener DEF SavedServes
    <3>2. ~(j = k /\ h = g)
      BY <1>5, <2>1
    <3> QED
      BY <1>1, <1>6, <3>1, <3>2, OwnListener
  <2> QED
    BY <2>1 DEF SavedServes
<1> QED
  BY <1>1, <1>3, <1>7, <1>8, <1>9, <1>10, <1>11 DEF ServerInv

(* The shutdown ends: whatever it says, every server is marked. *)
LEMMA ShutdownEndsStep ==
  ASSUME ServerInv, "https" \notin Listeners, ShutdownEnds
  PROVE  ServerInv'
<1>1. /\ ServerTypeOK /\ Counting /\ Configured /\ ManagerKnows /\ SavedServes
      /\ manager.at = "shutdown" /\ manager.todo = {}
      /\ saved' = (IF Busy THEN saved ELSE [k \in Kind |-> 0])
      /\ closed' = (manager.cmd = "end" /\ ~Busy)
      /\ UNCHANGED <<front, signal, server, bound, crashed, request>>
  BY DEF ServerInv, ShutdownEnds
<1>2. PICK a \in {"listen", "end", "recv"} :
        /\ manager' = [manager EXCEPT !.failed = Busy, !.at = a]
        /\ a = "listen" <=> manager.cmd = "configure"
        /\ a = "end" <=> manager.cmd = "end"
  BY DEF ShutdownEnds
<1>3. /\ manager'.at = a /\ manager'.cmd = manager.cmd /\ manager'.gen = manager.gen
  BY <1>1, <1>2 DEF ServerTypeOK
<1>4. AllDown
  <2>1. ASSUME NEW g \in Gen, NEW k \in Kind, server[g].serve[k] \in {"launch", "serving"},
               k \notin server[g].down
        PROVE  FALSE
    <3>1. k \in Listeners
      BY <1>1, <2>1 DEF Configured
    <3>2. saved[k] = g /\ g # 0
      BY <1>1, <2>1, <3>1 DEF SavedServes, Gen
    <3> QED
      BY <1>1, <2>1, <3>2 DEF ManagerKnows
  <2> QED
    BY <2>1 DEF AllDown
<1>5. ServerTypeOK'
  <2>1. manager' \in [at : {"recv", "shutdown", "listen", "started", "error", "end"}, failed : BOOLEAN,
                      cmd : {"none", "configure", "stop", "close", "end"},
                      gen : 0 .. MaxCommands, todo : SUBSET Kind]
    BY <1>1, <1>2 DEF ServerTypeOK, Busy
  <2>2. saved' \in [Kind -> 0 .. MaxCommands]
    BY <1>1, ServerAssumption DEF ServerTypeOK
  <2> QED
    BY <1>1, <2>1, <2>2 DEF ServerTypeOK
<1>6. Counting'
  BY <1>1, <1>2, <1>3 DEF Counting
<1>7. Configured'
  BY <1>1, <1>3 DEF Configured
<1>8. ManagerKnows'
  <2>1. AllDown'
    BY <1>1, <1>4 DEF AllDown
  <2> QED
    BY <1>1, <1>2, <1>3, <2>1 DEF ManagerKnows
<1>9. SavedServes'
  BY <1>1, <1>4, ServerAssumption DEF SavedServes, AllDown
<1> QED
  BY <1>1, <1>5, <1>6, <1>7, <1>8, <1>9 DEF ServerInv

(* The listeners of a new generation are opened while nobody serves. *)
LEMMA ListenStep ==
  ASSUME ServerInv, Listen
  PROVE  ServerInv'
<1> DEFINE g == manager.gen + 1
<1>1. /\ ServerTypeOK /\ Counting /\ Configured /\ ManagerKnows /\ AllDown
      /\ manager.at = "listen" /\ ~closed
      /\ UNCHANGED <<front, signal, server, closed, crashed, request>>
  BY DEF ServerInv, Listen, ManagerKnows, channels
<1>2. g \in 1 .. MaxCommands /\ g <= front.sent
  BY <1>1, ServerAssumption DEF Counting, ServerTypeOK
<1>3. PICK bad \in SUBSET Listeners :
        /\ bound' = [k \in Kind |-> IF k \in {j \in Listeners : \A b \in bad : Order(j) < Order(b)}
                                    THEN g ELSE bound[k]]
        /\ \/ /\ bad = {}
              /\ saved' = [k \in Kind |-> IF k \in Listeners THEN g ELSE 0]
              /\ manager' = [manager EXCEPT !.at = "started", !.gen = g]
           \/ /\ manager' = [manager EXCEPT !.at = "error", !.gen = g]
              /\ UNCHANGED saved
  BY DEF Listen
<1>4. PICK a \in {"started", "error"} :
        /\ manager' = [manager EXCEPT !.at = a, !.gen = g]
        /\ a = "started" => bad = {} /\ saved' = [k \in Kind |-> IF k \in Listeners THEN g ELSE 0]
        /\ a = "error" => saved' = saved
  BY <1>3
<1> HIDE DEF g
<1>5. manager'.at = a /\ manager'.gen = g /\ manager'.cmd = manager.cmd
  BY <1>1, <1>4 DEF ServerTypeOK
<1>6. ServerTypeOK'
  <2>1. g \in 0 .. MaxCommands
    BY <1>2, ServerAssumption
  <2>2. manager' \in [at : {"recv", "shutdown", "listen", "started", "error", "end"}, failed : BOOLEAN,
                      cmd : {"none", "configure", "stop", "close", "end"},
                      gen : 0 .. MaxCommands, todo : SUBSET Kind]
    <3>1. manager \in [at : {"recv", "shutdown", "listen", "started", "error", "end"}, failed : BOOLEAN,
                       cmd : {"none", "configure", "stop", "close", "end"},
                       gen : 0 .. MaxCommands, todo : SUBSET Kind]
      BY <1>1 DEF ServerTypeOK
    <3> QED
      BY <1>4, <2>1, <3>1
  <2>3. saved' \in [Kind -> 0 .. MaxCommands]
    BY <1>1, <1>2, <1>4, ServerAssumption DEF ServerTypeOK
  <2>4. bound' \in [Kind -> 0 .. MaxCommands]
    BY <1>1, <1>2, <1>3, ServerAssumption DEF ServerTypeOK
  <2> QED
    BY <1>1, <2>2, <2>3, <2>4 DEF ServerTypeOK
<1>7. Counting'
  BY <1>1, <1>2, <1>5 DEF Counting
<1>8. Configured'
  <2>1. /\ \A k \in Kind : saved'[k] # 0 => k \in Listeners
        /\ manager.gen < manager'.gen /\ manager.gen \in Nat /\ manager'.gen \in Nat
    BY <1>1, <1>2, <1>4, <1>5, ServerAssumption DEF Configured, ServerTypeOK, g
  <2> QED
    BY <1>1, <2>1 DEF Configured, Gen
<1>9. AllDown'
  BY <1>1 DEF AllDown
<1>10. ManagerKnows'
  <2>1. a = "started" => /\ manager'.gen # 0
                         /\ \A k \in Listeners : saved'[k] = manager'.gen /\ bound'[k] = manager'.gen
    BY <1>2, <1>3, <1>4, <1>5, ServerAssumption
  <2>2. \A k \in Kind : server'[manager'.gen].serve[k] = "no"
    BY <1>1, <1>2, <1>5, ServerAssumption DEF Configured, ServerTypeOK, Gen, g
  <2> QED
    BY <1>1, <1>5, <1>9, <2>1, <2>2 DEF ManagerKnows
<1>11. SavedServes'
  BY <1>9, ServerAssumption DEF SavedServes, AllDown
<1> QED
  BY <1>1, <1>6, <1>7, <1>8, <1>10, <1>11 DEF ServerInv

(* The front end hears of it, and the goroutines of the servers start. *)
LEMMA NotifyStep ==
  ASSUME ServerInv, "https" \notin Listeners, Notify
  PROVE  ServerInv'
<1> DEFINE g == manager.gen
<1>1. /\ ServerTypeOK /\ Counting /\ Configured /\ ManagerKnows /\ SavedServes
      /\ manager.at \in {"started", "error"} /\ ~closed
      /\ manager' = [manager EXCEPT !.at = "recv"]
      /\ UNCHANGED <<front, signal, saved, bound, closed, crashed, request>>
  BY DEF ServerInv, Notify, ManagerKnows, channels
<1>2. manager'.at = "recv" /\ manager'.gen = manager.gen
  BY <1>1 DEF ServerTypeOK
<1>3. Counting' /\ ManagerKnows'
  BY <1>1, <1>2 DEF Counting, ManagerKnows
<1>4. CASE manager.at = "error"
  <2>1. server' = server
    BY <1>4 DEF Notify
  <2>2. ServerTypeOK'
    BY <1>1, <2>1 DEF ServerTypeOK
  <2>3. Configured' /\ SavedServes'
    BY <1>1, <1>2, <2>1 DEF Configured, SavedServes
  <2> QED
    BY <1>1, <1>3, <2>2, <2>3 DEF ServerInv
<1>5. CASE manager.at = "started"
  <2>1. server' = [server EXCEPT ![g].serve = [k \in Kind |-> IF k \in Listeners THEN "launch" ELSE "no"]]
    BY <1>5 DEF Notify
  <2>2. g \in Gen
    BY <1>1, <1>5, ServerAssumption DEF ManagerKnows, ServerTypeOK, Gen
  <2>3. /\ server'[g].serve = [k \in Kind |-> IF k \in Listeners THEN "launch" ELSE "no"]
        /\ \A h \in Gen \ {g} : server'[h] = server[h]
    BY <1>1, <2>1, <2>2 DEF ServerTypeOK
  <2>4. ServerTypeOK'
    <3> DEFINE SetOfServers == [down : SUBSET Kind, serve : [Kind -> {"no", "launch", "serving", "report", "end"}]]
               new == [k \in Kind |-> IF k \in Listeners THEN "launch" ELSE "no"]
               started == [server[g] EXCEPT !.serve = new]
    <3>1. server \in [Gen -> SetOfServers]
      BY <1>1 DEF ServerTypeOK
    <3>2. new \in [Kind -> {"no", "launch", "serving", "report", "end"}]
      OBVIOUS
    <3>3. server' = [server EXCEPT ![g] = started]
      BY <2>1
    <3>4. started \in SetOfServers
      <4> HIDE DEF new
      <4> QED
        BY <2>2, <3>1, <3>2
    <3> HIDE DEF started, SetOfServers
    <3>5. server' \in [Gen -> SetOfServers]
      BY <2>2, <3>1, <3>3, <3>4
    <3> QED
      BY <1>1, <3>5 DEF ServerTypeOK, SetOfServers
  <2>5. Configured'
    <3>1. g \in Nat
      BY <2>2 DEF Gen
    <3> QED
      BY <1>1, <1>2, <2>2, <2>3, <3>1 DEF Configured
  <2>6. SavedServes'
    <3>1. ASSUME NEW h \in Gen, NEW j \in Listeners,
                 server'[h].serve[j] \in {"launch", "serving"}, j \notin server'[h].down
          PROVE  saved[j] = h /\ bound[j] = h
      <4>1. CASE h = g
        BY <1>1, <1>5, <4>1 DEF ManagerKnows
      <4>2. CASE h # g
        BY <1>1, <1>5, <2>3, <3>1, <4>2, OwnListener DEF ManagerKnows, AllDown
      <4> QED
        BY <4>1, <4>2
    <3> QED
      BY <1>1, <3>1, OwnListener DEF SavedServes
  <2> QED
    BY <1>1, <1>3, <2>4, <2>5, <2>6 DEF ServerInv
<1> QED
  BY <1>1, <1>4, <1>5

(* The collector closes what no server holds. *)
LEMMA CollectStep ==
  ASSUME ServerInv, "https" \notin Listeners, NEW k \in Kind, Collect(k)
  PROVE  ServerInv'
<1>1. /\ ServerTypeOK /\ Counting /\ Configured /\ ManagerKnows /\ SavedServes
      /\ manager.at # "started" /\ bound' = [bound EXCEPT ![k] = 0]
      /\ \A j \in Kind : server[bound[k]].serve[j] \notin {"launch", "serving"}
      /\ UNCHANGED <<front, signal, manager, saved, server, closed, crashed, request>>
  BY DEF ServerInv, Collect, channels
<1>2. ServerTypeOK'
  <2>1. bound' \in [Kind -> 0 .. MaxCommands]
    BY <1>1, ServerAssumption DEF ServerTypeOK
  <2> QED
    BY <1>1, <2>1 DEF ServerTypeOK
<1>3. Counting' /\ Configured' /\ ManagerKnows'
  BY <1>1 DEF Counting, Configured, ManagerKnows, AllDown
<1>4. SavedServes'
  <2>1. ASSUME NEW h \in Gen, NEW j \in Listeners,
               server[h].serve[j] \in {"launch", "serving"}, j \notin server[h].down
        PROVE  saved[j] = h /\ bound'[j] = h
    <3>1. saved[j] = h /\ bound[j] = h
      BY <1>1, <2>1, OwnListener DEF SavedServes
    <3>2. j # k
      BY <1>1, <2>1, <3>1, OwnListener
    <3> QED
      BY <1>1, <3>1, <3>2, OwnListener DEF ServerTypeOK
  <2> QED
    BY <1>1, <2>1, OwnListener DEF SavedServes
<1> QED
  BY <1>1, <1>2, <1>3, <1>4 DEF ServerInv

(* A goroutine comes to serve, to report an error or to its end, and may close
   its listener when it no longer serves.                                  *)
LEMMA GoroutineMoves ==
  ASSUME ServerInv, "https" \notin Listeners, NEW g \in Gen, NEW k \in Listeners,
         NEW to \in {"serving", "report", "end"},
         server[g].serve[k] \in {"launch", "serving", "report"},
         to = "serving" => server[g].serve[k] = "launch",
         server' = [server EXCEPT ![g].serve[k] = to],
         \/ bound' = bound
         \/ to # "serving" /\ bound[k] = g /\ bound' = [bound EXCEPT ![k] = 0],
         crashed' \in BOOLEAN,
         UNCHANGED <<front, signal, manager, saved, closed, request>>
  PROVE  ServerInv'
<1>1. /\ ServerTypeOK /\ Counting /\ Configured /\ ManagerKnows /\ SavedServes
      /\ k \in Kind
  BY OwnListener DEF ServerInv
<1>2. /\ \A h \in Gen : server'[h].down = server[h].down
      /\ \A h \in Gen, j \in Kind :
           server'[h].serve[j] = IF h = g /\ j = k THEN to ELSE server[h].serve[j]
  BY <1>1 DEF ServerTypeOK
<1>3. ServerTypeOK'
  <2>1. server' \in [Gen -> [down : SUBSET Kind, serve : [Kind -> {"no", "launch", "serving", "report", "end"}]]]
    <3>1. /\ server \in [Gen -> [down : SUBSET Kind, serve : [Kind -> {"no", "launch", "serving", "report", "end"}]]]
          /\ to \in {"no", "launch", "serving", "report", "end"}
      BY <1>1 DEF ServerTypeOK
    <3>2. [server[g].serve EXCEPT ![k] = to] \in [Kind -> {"no", "launch", "serving", "report", "end"}]
      BY <1>1, <3>1
    <3>3. server' = [server EXCEPT ![g] = [server[g] EXCEPT !.serve = [server[g].serve EXCEPT ![k] = to]]]
      OBVIOUS
    <3> QED
      BY <3>1, <3>2, <3>3
  <2>2. bound' \in [Kind -> 0 .. MaxCommands]
    BY <1>1, ServerAssumption DEF ServerTypeOK
  <2> QED
    BY <1>1, <2>1, <2>2 DEF ServerTypeOK
<1>4. Counting'
  BY <1>1 DEF Counting
<1>5. Configured'
  BY <1>1, <1>2 DEF Configured
<1>6. ManagerKnows'
  <2>1. AllDown => AllDown'
    BY <1>1, <1>2 DEF AllDown
  <2>2. ASSUME NEW j \in Kind, saved[j] # 0 PROVE saved[j] \in Gen
    BY <1>1, <2>2, ServerAssumption DEF ServerTypeOK, Gen
  <2>3. ASSUME manager.at = "started"
        PROVE  bound' = bound /\ manager.gen # g
    <3>1. bound[k] = manager.gen /\ g # manager.gen
      BY <1>1, <2>3 DEF ManagerKnows
    <3> QED
      BY <3>1
  <2>4. manager.at = "started" => manager.gen \in Gen
    BY <1>1, ServerAssumption DEF ManagerKnows, ServerTypeOK, Gen
  <2> QED
    BY <1>1, <1>2, <2>1, <2>2, <2>3, <2>4 DEF ManagerKnows
<1>7. SavedServes'
  <2>1. ASSUME NEW h \in Gen, NEW j \in Listeners,
               server'[h].serve[j] \in {"launch", "serving"}, j \notin server'[h].down
        PROVE  saved[j] = h /\ bound'[j] = h
    <3>1. saved[j] = h /\ bound[j] = h
      BY <1>1, <1>2, <2>1, OwnListener DEF SavedServes
    <3>2. ~(j = k /\ h = g /\ to # "serving")
      BY <1>2, <2>1, OwnListener
    <3> QED
      BY <1>1, <3>1, <3>2, OwnListener DEF ServerTypeOK
  <2> QED
    BY <2>1, OwnListener DEF SavedServes
<1> QED
  BY <1>3, <1>4, <1>5, <1>6, <1>7 DEF ServerInv

(* The goroutines of the servers, one of which may fail by itself. *)
LEMMA ServeStep ==
  ASSUME ServerInv, "https" \notin Listeners, NEW g \in Gen, NEW k \in Kind,
         ServeBegins(g, k) \/ ServeEnds(g, k) \/ ServeFails(g, k) \/ Report(g, k)
  PROVE  ServerInv'
<1>1. /\ ServerTypeOK /\ Configured
      /\ server[g].serve[k] \in {"launch", "serving", "report"}
      /\ UNCHANGED <<front, signal, manager, saved, closed, request>>
  BY DEF ServerInv, ServeBegins, ServeEnds, ServeFails, Report, channels
<1>2. k \in Listeners /\ ListenerOf(k) = k /\ crashed \in BOOLEAN /\ closed \in BOOLEAN
  BY <1>1, OwnListener DEF Configured, ServerTypeOK
<1>3. PICK out \in {"end", "report"} : out = Returned(g, k)
  BY DEF Returned
<1>4. CASE ServeBegins(g, k)
  <2>1. PICK to \in {"serving", "end"} : to = IF k \in server[g].down THEN "end" ELSE "serving"
    OBVIOUS
  <2>2. server' = [server EXCEPT ![g].serve[k] = to] /\ crashed' = crashed
    BY <1>2, <1>4, <2>1 DEF ServeBegins
  <2>3. bound' = bound \/ (to # "serving" /\ bound[k] = g /\ bound' = [bound EXCEPT ![k] = 0])
    BY <1>2, <1>4, <2>1 DEF ServeBegins
  <2>4. server[g].serve[k] = "launch"
    BY <1>4 DEF ServeBegins
  <2> QED
    BY <1>1, <1>2, <2>2, <2>3, <2>4, GoroutineMoves
<1>5. CASE ServeEnds(g, k)
  <2>1. server' = [server EXCEPT ![g].serve[k] = out] /\ bound' = bound /\ crashed' = crashed
    BY <1>3, <1>5 DEF ServeEnds, channels
  <2> QED
    BY <1>1, <1>2, <2>1, GoroutineMoves
<1>6. CASE ServeFails(g, k)
  <2>1. /\ server' = [server EXCEPT ![g].serve[k] = out] /\ crashed' = crashed
        /\ bound[k] = g /\ bound' = [bound EXCEPT ![k] = 0]
    BY <1>2, <1>3, <1>6 DEF ServeFails, channels
  <2> QED
    BY <1>1, <1>2, <2>1, GoroutineMoves
<1>7. CASE Report(g, k)
  <2>1. PICK to \in {"report", "end"} : to = IF closed THEN "report" ELSE "end"
    OBVIOUS
  <2>2. bound' = bound /\ crashed' = closed /\ server[g].serve[k] = "report"
    BY <1>7 DEF Report
  <2>3. server' = [server EXCEPT ![g].serve[k] = to]
    <3>1. CASE closed
      <4>1. server' = server /\ to = "report"
        BY <1>7, <2>1, <3>1 DEF Report
      <4>2. server = [server EXCEPT ![g].serve[k] = "report"]
        <5>1. server[g] = [server[g] EXCEPT !.serve = [server[g].serve EXCEPT ![k] = "report"]]
          BY <1>1, <2>2 DEF ServerTypeOK
        <5> QED
          BY <1>1, <5>1 DEF ServerTypeOK
      <4> QED
        BY <4>1, <4>2
    <3>2. CASE ~closed
      BY <1>7, <2>1, <3>2 DEF Report
    <3> QED
      BY <3>1, <3>2
  <2> QED
    BY <1>1, <1>2, <2>2, <2>3, GoroutineMoves
<1> QED
  BY <1>4, <1>5, <1>6, <1>7

(* Clients. *)
LEMMA ClientStep ==
  ASSUME ServerInv, Clients
  PROVE  ServerInv'
<1> DEFINE RequestType == [at : {"none", "waiting", "active", "done"}, port : Kind \cup {"none"},
                           by : Kind \cup {"none"}, gen : 0 .. MaxCommands,
                           answer : {"none", "internal", "redirect", "external"}]
<1>1. /\ ServerTypeOK /\ Counting
      /\ UNCHANGED <<front, signal, manager, saved, server, bound, closed, crashed>>
  BY DEF ServerInv, Clients, Connect, Accept, Reset, Respond, channels
<1>2. PICK r \in Request :
        \/ \E port \in Kind : Connect(r, port)
        \/ \E g \in Gen, k \in Kind : Accept(r, g, k)
        \/ Reset(r)
        \/ Respond(r)
  BY DEF Clients
<1>3. request \in [Request -> RequestType] /\ bound \in [Kind -> 0 .. MaxCommands]
  BY <1>1 DEF ServerTypeOK
<1>4. PICK t \in RequestType : request' = [request EXCEPT ![r] = t]
  <2>1. request[r] \in RequestType
    BY <1>3
  <2>2. ASSUME NEW port \in Kind, Connect(r, port)
        PROVE  \E t \in RequestType : request' = [request EXCEPT ![r] = t]
    <3>1. bound[port] \in 0 .. MaxCommands
      BY <1>3
    <3>2. [request[r] EXCEPT !.at = "waiting", !.port = port, !.gen = bound[port]] \in RequestType
      BY <2>1, <3>1
    <3>3. request' = [request EXCEPT ![r] = [request[r] EXCEPT !.at = "waiting", !.port = port,
                                                              !.gen = bound[port]]]
      BY <1>3, <2>2 DEF Connect
    <3> QED
      BY <3>2, <3>3, Zenon
  <2>3. ASSUME NEW g \in Gen, NEW k \in Kind, Accept(r, g, k)
        PROVE  \E t \in RequestType : request' = [request EXCEPT ![r] = t]
    <3>1. [request[r] EXCEPT !.at = "active", !.by = k] \in RequestType
      BY <2>1
    <3> QED
      BY <2>3, <3>1 DEF Accept
  <2>4. ASSUME Reset(r)
        PROVE  \E t \in RequestType : request' = [request EXCEPT ![r] = t]
    <3>1. [request[r] EXCEPT !.at = "done"] \in RequestType
      BY <2>1
    <3> QED
      BY <2>4, <3>1 DEF Reset
  <2>5. ASSUME Respond(r)
        PROVE  \E t \in RequestType : request' = [request EXCEPT ![r] = t]
    <3>1. HandlerOf(request[r].by) \in {"none", "internal", "redirect", "external"}
      BY DEF HandlerOf
    <3>2. [request[r] EXCEPT !.at = "done", !.answer = HandlerOf(request[r].by)] \in RequestType
      BY <2>1, <3>1
    <3> QED
      BY <2>5, <3>2 DEF Respond
  <2> QED
    BY <1>2, <2>2, <2>3, <2>4, <2>5
<1>5. request' \in [Request -> RequestType]
  BY <1>3, <1>4
<1>6. ServerTypeOK' /\ Counting'
  BY <1>1, <1>5 DEF ServerTypeOK, Counting
<1> QED
  BY <1>1, <1>6, ManagerStays

LEMMA StepKeeps ==
  ASSUME ServerInv, "https" \notin Listeners, [ServerNext]_serverVars
  PROVE  ServerInv'
<1>1. CASE UNCHANGED serverVars
  <2>1. /\ UNCHANGED <<front, signal, manager, saved, server, bound, closed, crashed, request>>
        /\ ServerTypeOK /\ Counting
    BY <1>1 DEF serverVars, channels, ServerInv
  <2>2. ServerTypeOK' /\ Counting'
    BY <2>1 DEF ServerTypeOK, Counting
  <2> QED
    BY <2>1, <2>2, ManagerStays
<1>2. CASE Manager
  BY <1>2, CommandStep, ShutdownEndsStep, ListenStep, NotifyStep, ShutdownBeginsStep DEF Manager
<1>3. CASE FrontEnd \/ Clients
  BY <1>3, FrontEndStep, ClientStep
<1>4. CASE Serve
  BY <1>4, ServeStep DEF Serve
<1>5. CASE Listening
  BY <1>5, ServeStep, CollectStep DEF Listening
<1> QED
  BY <1>1, <1>2, <1>3, <1>4, <1>5 DEF ServerNext

LEMMA InitEstablishes == ServerInit => ServerInv
<1> SUFFICES ASSUME ServerInit PROVE ServerInv
  OBVIOUS
<1>1. MaxCommands \in Nat \ {0, 1} /\ FrontEnds \subseteq {"cli", "gui"}
  BY ServerAssumption
<1>2. PICK f \in FrontEnds : front = [kind |-> f, at |-> "configure", sent |-> 0]
  BY DEF ServerInit
<1>3. /\ saved = [k \in Kind |-> 0] /\ bound = [k \in Kind |-> 0]
      /\ server = [g \in Gen |-> [down |-> {}, serve |-> [k \in Kind |-> "no"]]]
      /\ manager = [at |-> "recv", cmd |-> "none", gen |-> 0, todo |-> {}, failed |-> FALSE]
      /\ signal = FALSE /\ closed = FALSE /\ crashed = FALSE
      /\ request = [r \in Request |-> [at |-> "none", port |-> "none",
                                      by |-> "none", gen |-> 0, answer |-> "none"]]
  BY DEF ServerInit, NoServers
<1>4. ServerTypeOK
  <2>1. front \in [kind : FrontEnds, sent : 0 .. MaxCommands,
                   at : {"configure", "stop", "close", "loop", "drain", "exit"}]
    BY <1>1, <1>2
  <2>2. saved \in [Kind -> 0 .. MaxCommands] /\ bound \in [Kind -> 0 .. MaxCommands]
    BY <1>1, <1>3
  <2>3. server \in [Gen -> [down : SUBSET Kind, serve : [Kind -> {"no", "launch", "serving", "report", "end"}]]]
    BY <1>3
  <2>4. manager \in [at : {"recv", "shutdown", "listen", "started", "error", "end"}, failed : BOOLEAN,
                     cmd : {"none", "configure", "stop", "close", "end"},
                     gen : 0 .. MaxCommands, todo : SUBSET Kind]
    BY <1>1, <1>3
  <2>5. request \in [Request -> [at : {"none", "waiting", "active", "done"},
                                port : Kind \cup {"none"}, by : Kind \cup {"none"},
                                gen : 0 .. MaxCommands,
                                answer : {"none", "internal", "redirect", "external"}]]
    BY <1>1, <1>3
  <2> QED
    BY <1>3, <2>1, <2>2, <2>3, <2>4, <2>5 DEF ServerTypeOK
<1>5. Counting
  BY <1>1, <1>2, <1>3 DEF Counting
<1>6. Configured /\ ManagerKnows
  BY <1>3 DEF Configured, ManagerKnows
<1>7. SavedServes
  BY <1>3, ServerAssumption DEF SavedServes
<1> QED
  BY <1>3, <1>4, <1>5, <1>6, <1>7 DEF ServerInv

(* The strengthening is an invariant of the manager, for any number of commands,
   configurations, failing shutdowns and servers that fail by themselves.  *)
THEOREM InvariantHolds ==
  ASSUME "https" \notin Listeners
  PROVE  ServerSpec => []ServerInv
BY InitEstablishes, StepKeeps, PTL DEF ServerSpec

(* The server that the manager would shut down is the one that has the
   address, whatever commands come, whichever shutdowns fail and whichever
   servers fail by themselves (manager.go:60-182).                         *)
THEOREM SavedServersServe ==
  ASSUME "https" \notin Listeners
  PROVE  ServerSpec => []SavedServes
<1>1. ServerInv => SavedServes
  BY DEF ServerInv
<1> QED
  BY <1>1, InvariantHolds, PTL

(* A goroutine that comes to have an error to send is one of a server that
   serves and is not marked.                                               *)
LEMMA NewReport ==
  ASSUME ServerInv, "https" \notin Listeners, [ServerNext]_serverVars,
         NEW g \in Gen, NEW k \in Kind,
         server[g].serve[k] # "report", server'[g].serve[k] = "report"
  PROVE  server[g].serve[k] = "serving" /\ k \notin server[g].down
<1>1. ServerTypeOK /\ server' # server
  BY DEF ServerInv
<1>2. CASE \E h \in Gen, j \in Kind : ServeEnds(h, j) \/ ServeFails(h, j)
  <2>1. PICK h \in Gen, j \in Kind : ServeEnds(h, j) \/ ServeFails(h, j)
    BY <1>2
  <2>2. /\ server' = [server EXCEPT ![h].serve[j] = Returned(h, j)]
        /\ server[h].serve[j] = "serving"
    BY <2>1 DEF ServeEnds, ServeFails
  <2>3. h = g /\ j = k /\ Returned(h, j) = "report"
    BY <1>1, <2>2 DEF ServerTypeOK
  <2> QED
    BY <2>2, <2>3 DEF Returned
<1>3. ASSUME NEW h \in Gen, NEW j \in Kind, ServeBegins(h, j) \/ Report(h, j)
      PROVE  FALSE
  <2>1. PICK to \in {"serving", "end"} : server' = [server EXCEPT ![h].serve[j] = to]
    <3>1. CASE ServeBegins(h, j)
      <4>1. PICK to \in {"serving", "end"} : to = IF j \in server[h].down THEN "end" ELSE "serving"
        OBVIOUS
      <4>2. server' = [server EXCEPT ![h].serve[j] = to]
        BY <1>1, <3>1, <4>1 DEF ServeBegins
      <4> QED
        BY <4>2
    <3>2. CASE Report(h, j)
      BY <1>1, <3>2 DEF Report
    <3> QED
      BY <1>3, <3>1, <3>2
  <2> QED
    BY <1>1, <2>1 DEF ServerTypeOK
<1>4. CASE Notify
  <2>1. manager.gen \in Gen
    BY <1>1, <1>4, ServerAssumption DEF Notify, ServerInv, ManagerKnows, ServerTypeOK, Gen
  <2>2. server' = [server EXCEPT ![manager.gen].serve =
                     [j \in Kind |-> IF j \in Listeners THEN "launch" ELSE "no"]]
    BY <1>1, <1>4 DEF Notify
  <2> QED
    BY <1>1, <2>1, <2>2 DEF ServerTypeOK
<1>5. ASSUME NEW j \in Kind, ShutdownBegins(j)
      PROVE  FALSE
  <2>1. server' = [server EXCEPT ![saved[Target(j)]].down = @ \cup {Target(j)}]
    BY <1>1, <1>5 DEF ShutdownBegins
  <2>2. server'[g].serve = server[g].serve
    BY <1>1, <2>1 DEF ServerTypeOK
  <2> QED
    BY <2>2
<1>6. CASE FrontEnd \/ Command \/ CommandsEnd \/ ShutdownEnds \/ Listen \/ Clients
  BY <1>1, <1>6 DEF FrontEnd, UserCommand, Interrupt, CloseCalled, ProgramExits, Command, CommandsEnd,
       ShutdownEnds, Listen, Clients, Connect, Accept, Reset, Respond
<1>7. CASE \E j \in Kind : Collect(j)
  BY <1>1, <1>7 DEF Collect
<1>8. CASE UNCHANGED serverVars
  BY <1>1, <1>8 DEF serverVars
<1> QED
  BY <1>2, <1>3, <1>4, <1>5, <1>6, <1>7, <1>8 DEF ServerNext, Manager, Serve, Listening

(* A panic of a configuration without HTTPS is that of a late report. *)
LEMMA OnlyReportsPanic ==
  ASSUME ServerInv, "https" \notin Listeners, ServerNext, crashed'
  PROVE  closed /\ Reporting # {}
<1>1. ~crashed /\ ServerTypeOK /\ Configured /\ ManagerKnows
  BY DEF ServerInv, ServerNext
<1>2. ASSUME NEW g \in Gen, NEW k \in Kind, Report(g, k)
      PROVE  closed /\ Reporting # {}
  <2>1. closed /\ server[g].serve[k] = "report"
    BY <1>2 DEF Report
  <2>2. <<g, k>> \in Reporting
    BY <2>1 DEF Reporting
  <2> QED
    BY <2>1, <2>2
<1>3. ASSUME NEW g \in Gen, NEW k \in Kind, ServeBegins(g, k)
      PROVE  FALSE
  BY <1>1, <1>3, OwnListener DEF ServeBegins, Configured
<1>4. ASSUME NEW k \in Kind, ShutdownBegins(k)
      PROVE  FALSE
  <2>1. k \in Listeners /\ saved[k] # 0
    BY <1>1, <1>4 DEF ShutdownBegins, ManagerKnows, Configured
  <2> QED
    BY <1>1, <1>4, <2>1, OwnListener DEF ShutdownBegins
<1>5. CASE FrontEnd \/ Command \/ CommandsEnd \/ ShutdownEnds \/ Listen \/ Notify \/ Clients
  BY <1>1, <1>5 DEF FrontEnd, UserCommand, Interrupt, CloseCalled, ProgramExits, Command, CommandsEnd,
       ShutdownEnds, Listen, Notify, Clients, Connect, Accept, Reset, Respond, channels
<1>6. CASE Listening
  BY <1>1, <1>6 DEF Listening, Collect, ServeFails, channels
<1>7. CASE \E g \in Gen, k \in Kind : ServeEnds(g, k)
  BY <1>1, <1>7 DEF ServeEnds, channels
<1> QED
  BY <1>2, <1>3, <1>4, <1>5, <1>6, <1>7 DEF ServerNext, Manager, Serve

(* Once the manager has closed statusCh nobody comes to have an error to
   send, and the only panic of the program is that of a Serve that had failed
   by itself before and not been heard (manager.go:162-195).               *)
THEOREM StatusChannelSafe ==
  ASSUME "https" \notin Listeners
  PROVE  ServerSpec => OnlyPastFailuresPanic
<1> DEFINE OnlyPast == /\ closed => Reporting' \subseteq Reporting
                       /\ crashed' => closed /\ Reporting # {}
<1>1. ASSUME ServerInv, [ServerNext]_serverVars
      PROVE  [OnlyPast]_serverVars
  <2>1. ASSUME closed, NEW x \in Reporting' PROVE x \in Reporting
    <3>1. x \in Gen \X Kind /\ server'[x[1]].serve[x[2]] = "report"
      BY <2>1 DEF Reporting
    <3>2. PICK g \in Gen, k \in Kind : x = <<g, k>>
      BY <3>1
    <3>3. AllDown
      BY <1>1, <2>1 DEF ServerInv, ManagerKnows
    <3>4. server[g].serve[k] = "report"
      BY <1>1, <3>1, <3>2, <3>3, NewReport DEF AllDown
    <3> QED
      BY <3>1, <3>2, <3>4 DEF Reporting
  <2>2. CASE UNCHANGED serverVars
    BY <2>2
  <2>3. CASE ServerNext
    BY <1>1, <2>1, <2>3, OnlyReportsPanic
  <2> QED
    BY <1>1, <2>2, <2>3
<1> HIDE DEF OnlyPast
<1>2. ServerSpec => [][OnlyPast]_serverVars
  BY <1>1, InvariantHolds, PTL DEF ServerSpec
<1> QED
  BY <1>2 DEF OnlyPast, OnlyPastFailuresPanic
=============================================================================
