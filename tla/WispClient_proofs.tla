--------------------------- MODULE WispClient_proofs ---------------------------
(***************************************************************************)
(* Theorems about the Wisp client, for any number of streams and writers,  *)
(* channels and credits of any size, and any number of frames.             *)
(*                                                                         *)
(* That readLoop does not panic is nearly inductive: a stream leaves the   *)
(* map before the next frame is read, and one that has not been dialed is  *)
(* neither in the map nor closed. That credits are not spent twice needs   *)
(* every number on its way to a stream, in frames and in initBuffer.       *)
(***************************************************************************)
EXTENDS WispClient, SequenceTheorems, TLAPS

FrameType ==
  [type : {"connect", "data", "close", "continue"}, id : Stream \cup {Everyone}, n : Nat]

ClientType ==
  [connect : {"wait", "ok", "failed"}, ready : BOOLEAN, initBuffer : Nat,
   close : {"no", "cancelled", "shut", "done"}]

StreamType ==
  [dialed : {"no", "connect", "yes", "failed"}, closed : BOOLEAN, closeErr : BOOLEAN,
   readCh : Seq(Nat), chClosed : BOOLEAN, credits : Nat, got : Nat, sent : Nat]

LoopType ==
  [at : {"read", "deliver", "refuse", "remove", "end"}, id : Stream \cup {Everyone}, n : Nat]

WriterType ==
  [at : {"idle", "check", "load", "wait", "send"}, id : Stream \cup {Everyone},
   woken : BOOLEAN]

PeerType == [known : BOOLEAN, closed : BOOLEAN, counter : Nat, sent : Nat]

WireType == up \in Seq(FrameType) /\ down \in Seq(FrameType)

StreamsType == stream \in [Stream -> StreamType] /\ streams \subseteq Stream

(* A goroutine at work has a stream. *)
LoopInv == loop \in LoopType /\ (loop.at \in {"deliver", "refuse", "remove"} => loop.id \in Stream)

WriterInv ==
  /\ writer \in [Writer -> WriterType]
  /\ \A w \in Writer : writer[w].at # "idle" => writer[w].id \in Stream

TypeInv ==
  /\ WireType /\ StreamsType /\ LoopInv /\ WriterInv
  /\ client \in ClientType
  /\ server \in [Stream -> PeerType]

(* A stream that has not been dialed is not in the map, and not closed. *)
FreshIsOpen ==
  \A s \in Stream : stream[s].dialed = "no" => s \notin streams /\ ~stream[s].chClosed

IInv == TypeInv /\ FreshIsOpen /\ NeverPanics
-----------------------------------------------------------------------------
(* A frame is added to a queue, or taken from it. *)
LEMMA Queues ==
  ASSUME NEW q \in Seq(FrameType)
  PROVE  /\ \A f \in FrameType : Append(q, f) \in Seq(FrameType)
         /\ q # <<>> => Head(q) \in FrameType /\ Tail(q) \in Seq(FrameType)
<1>1. ASSUME NEW f \in FrameType PROVE Append(q, f) \in Seq(FrameType)
  OBVIOUS
<1>2. ASSUME q # <<>> PROVE Head(q) \in FrameType /\ Tail(q) \in Seq(FrameType)
  BY <1>2
<1> QED
  BY <1>1, <1>2

LEMMA Writing ==
  ASSUME WireType, NEW f \in FrameType, NEW ok, WritePacket(f, ok)
  PROVE  WireType'
<1>1. down' = down /\ (up' = up \/ up' = Append(up, f))
  BY DEF WritePacket, wire
<1> QED
  BY <1>1, Queues DEF WireType

(* Waking writers changes nothing but that they are woken. *)
LEMMA Waking ==
  ASSUME WriterInv, NEW S, Wake(S)
  PROVE  WriterInv'
<1>1. \A w \in Writer : [writer[w] EXCEPT !.woken = TRUE] \in WriterType
  BY DEF WriterInv, WriterType
<1>2. /\ writer' \in [Writer -> WriterType]
      /\ \A w \in Writer : writer'[w].at = writer[w].at /\ writer'[w].id = writer[w].id
  BY <1>1 DEF Wake, WriterInv, WriterType
<1> QED
  BY <1>2 DEF WriterInv

LEMMA InitEstablishes == Init => IInv
<1> SUFFICES ASSUME Init PROVE IInv
  OBVIOUS
<1>1. WireType
  BY ClientAssumption DEF Init, WireType, FrameType, Frame
<1>2. StreamsType
  BY DEF Init, StreamsType, StreamType, NewStream
<1>3. LoopInv
  BY DEF Init, LoopInv, LoopType, Reading
<1>4. WriterInv
  BY DEF Init, WriterInv, WriterType, NoWrite
<1>5. client \in ClientType /\ server \in [Stream -> PeerType]
  BY DEF Init, ClientType, PeerType, NewPeer
<1>6. FreshIsOpen /\ NeverPanics
  BY DEF Init, FreshIsOpen, NeverPanics, NewStream, Reading
<1> QED
  BY <1>1, <1>2, <1>3, <1>4, <1>5, <1>6 DEF IInv, TypeInv

(* A step that leaves readLoop and its channels alone, and adds to the map at
   most a stream that is being dialed.                                     *)
LEMMA ChannelsAlone ==
  ASSUME IInv, TypeInv', loop' = loop,
         \A s \in Stream : stream'[s].chClosed = stream[s].chClosed,
         \A s \in Stream : stream'[s].dialed = "no" => stream[s].dialed = "no",
         \A s \in streams' : s \in streams \/ (stream[s].dialed = "no" /\ stream'[s].dialed # "no")
  PROVE  IInv'
<1>1. /\ loop.at = "deliver" => loop.id \in Stream
      /\ streams \subseteq Stream /\ streams' \subseteq Stream
  BY DEF IInv, TypeInv, LoopInv, StreamsType
<1>2. FreshIsOpen'
  BY <1>1 DEF IInv, FreshIsOpen
<1>3. NeverPanics'
  <2>1. loop'.at = "deliver" => ~stream'[loop'.id].chClosed
    BY <1>1 DEF IInv, NeverPanics
  <2>2. ASSUME NEW s \in streams', stream'[s].chClosed
        PROVE  loop'.at = "remove" /\ loop'.id = s
    <3>1. s \in Stream /\ stream[s].chClosed
      BY <1>1, <2>2
    <3>2. s \in streams
      BY <3>1 DEF IInv, FreshIsOpen
    <3> QED
      BY <3>1, <3>2 DEF IInv, NeverPanics
  <2> QED
    BY <2>1, <2>2 DEF NeverPanics
<1> QED
  BY <1>2, <1>3 DEF IInv

(* A step of one stream that keeps it a stream. *)
LEMMA OneStream ==
  ASSUME StreamsType, NEW s \in Stream, NEW t \in StreamType,
         stream' = [stream EXCEPT ![s] = t], streams' \in SUBSET Stream
  PROVE  /\ StreamsType' /\ stream'[s] = t
         /\ \A r \in Stream \ {s} : stream'[r] = stream[r]
BY DEF StreamsType

(* The steps of the client as a whole. *)
LEMMA ClientSteps ==
  ASSUME IInv, ConnectReturns \/ CloseBegins \/ CloseWebSocket \/ CloseStreams
  PROVE  IInv'
<1>1. /\ UNCHANGED <<up, down, stream, loop, server>> /\ streams' \in {streams, {}}
      /\ client' \in ClientType
  BY DEF ConnectReturns, CloseBegins, CloseWebSocket, CloseStreams, wire, IInv, TypeInv, ClientType
<1>2. WriterInv'
  <2>1. CASE CloseStreams
    BY <2>1, Waking DEF CloseStreams, IInv, TypeInv
  <2>2. CASE ConnectReturns \/ CloseBegins \/ CloseWebSocket
    BY <2>2 DEF ConnectReturns, CloseBegins, CloseWebSocket, calls, IInv, TypeInv, WriterInv
  <2> QED
    BY <2>1, <2>2
<1>3. TypeInv'
  BY <1>1, <1>2 DEF IInv, TypeInv, WireType, StreamsType, LoopInv
<1> QED
  BY <1>1, <1>3, ChannelsAlone

(* Dial. *)
LEMMA DialSteps ==
  ASSUME IInv, NEW s \in Stream, Dial(s) \/ DialConnects(s)
  PROVE  IInv'
<1>1. stream[s] \in StreamType /\ client.initBuffer \in Nat /\ StreamsType
  BY DEF IInv, TypeInv, StreamsType, ClientType
<1>2. CASE Dial(s)
  <2> DEFINE t == [stream[s] EXCEPT !.dialed = "connect", !.credits = client.initBuffer]
  <2>1. /\ t \in StreamType /\ t.chClosed = stream[s].chClosed /\ t.dialed # "no"
    BY <1>1 DEF StreamType
  <2>2. /\ stream' = [stream EXCEPT ![s] = t] /\ streams' = streams \cup {s}
        /\ stream[s].dialed = "no"
        /\ UNCHANGED <<up, down, client, loop, writer, server>>
    BY <1>2 DEF Dial, wire, calls
  <2> HIDE DEF t
  <2>3. /\ StreamsType' /\ stream'[s] = t
        /\ \A r \in Stream \ {s} : stream'[r] = stream[r]
    <3>1. streams' \in SUBSET Stream
      BY <1>1, <2>2 DEF StreamsType
    <3> QED
      BY <1>1, <2>1, <2>2, <3>1, OneStream
  <2>4. TypeInv'
    BY <2>2, <2>3 DEF IInv, TypeInv, WireType, LoopInv, WriterInv
  <2> QED
    BY <2>1, <2>2, <2>3, <2>4, ChannelsAlone DEF IInv, TypeInv, StreamsType
<1>3. CASE DialConnects(s)
  <2>1. PICK ok \in BOOLEAN :
          /\ WritePacket(Frame("connect", s, 0), ok)
          /\ stream' = [stream EXCEPT ![s].dialed = IF ok THEN "yes" ELSE "failed"]
          /\ streams' = IF ok THEN streams ELSE streams \ {s}
    BY <1>3 DEF DialConnects
  <2> DEFINE t == [stream[s] EXCEPT !.dialed = IF ok THEN "yes" ELSE "failed"]
  <2>2. /\ t \in StreamType /\ t.chClosed = stream[s].chClosed /\ t.dialed # "no"
    BY <1>1 DEF StreamType
  <2>3. /\ stream' = [stream EXCEPT ![s] = t] /\ streams' \subseteq streams
        /\ UNCHANGED <<client, loop, writer, server>>
    BY <1>3, <2>1 DEF DialConnects, calls
  <2> HIDE DEF t
  <2>4. /\ StreamsType' /\ stream'[s] = t
        /\ \A r \in Stream \ {s} : stream'[r] = stream[r]
    <3>1. streams' \in SUBSET Stream
      BY <1>1, <2>3 DEF StreamsType
    <3> QED
      BY <1>1, <2>2, <2>3, <3>1, OneStream
  <2>5. WireType'
    <3>1. Frame("connect", s, 0) \in FrameType
      BY DEF Frame, FrameType
    <3> QED
      BY <2>1, <3>1, Writing DEF IInv, TypeInv
  <2>6. TypeInv'
    BY <2>3, <2>4, <2>5 DEF IInv, TypeInv, LoopInv, WriterInv
  <2> QED
    BY <2>2, <2>3, <2>4, <2>6, ChannelsAlone DEF IInv, TypeInv, StreamsType
<1> QED
  BY <1>2, <1>3

(* A frame is read: no stream of the map is closed then. *)
LEMMA ReadMessageStep ==
  ASSUME IInv, ReadMessage
  PROVE  IInv'
<1> DEFINE f == Head(down)
<1>1. /\ loop.at = "read" /\ f \in FrameType /\ down' \in Seq(FrameType)
      /\ UNCHANGED <<up, ws, server>>
  BY Queues DEF ReadMessage, IInv, TypeInv, WireType
<1>2. \A s \in streams : ~stream[s].chClosed
  BY <1>1 DEF IInv, NeverPanics
<1>3. \/ ReceiveReady(f) \/ ReceiveUnknown(f) \/ ReceiveData(f)
      \/ UpdateBuffer(f) \/ RemoteClosed(f)
  BY DEF ReadMessage
<1> HIDE DEF f
<1>4. WireType' /\ server' \in [Stream -> PeerType]
  BY <1>1 DEF IInv, TypeInv, WireType
<1>5. StreamsType /\ streams \subseteq Stream
  BY DEF IInv, TypeInv, StreamsType
<1>6. CASE ReceiveReady(f)
  <2>1. /\ client' \in ClientType /\ UNCHANGED <<streams, stream, loop, writer>>
    BY <1>1, <1>6 DEF ReceiveReady, IInv, TypeInv, ClientType, FrameType
  <2>2. TypeInv'
    BY <1>4, <2>1 DEF IInv, TypeInv, StreamsType, LoopInv, WriterInv
  <2> QED
    BY <2>1, <2>2, ChannelsAlone
<1>7. CASE ReceiveUnknown(f)
  <2>1. /\ UNCHANGED <<client, streams, stream, writer>> /\ f.id \in Stream
        /\ loop' \in {loop, [Reading EXCEPT !.at = "refuse", !.id = f.id]}
    BY <1>7 DEF ReceiveUnknown
  <2>2. LoopInv' /\ loop'.at \in {"read", "refuse"}
    <3>1. CASE loop' = loop
      BY <1>1, <3>1 DEF IInv, TypeInv, LoopInv
    <3>2. CASE loop' = [Reading EXCEPT !.at = "refuse", !.id = f.id]
      BY <2>1, <3>2 DEF LoopInv, LoopType, Reading
    <3> QED
      BY <2>1, <3>1, <3>2
  <2>3. TypeInv'
    BY <1>4, <2>1, <2>2 DEF IInv, TypeInv, StreamsType, WriterInv
  <2>4. FreshIsOpen' /\ NeverPanics'
    BY <1>2, <2>1, <2>2 DEF IInv, FreshIsOpen, NeverPanics
  <2> QED
    BY <2>3, <2>4 DEF IInv
<1>8. CASE ReceiveData(f)
  <2>1. /\ UNCHANGED <<client, streams, stream, writer>> /\ f.id \in streams
        /\ loop' \in {loop, [at |-> "deliver", id |-> f.id, n |-> f.n]}
    BY <1>8 DEF ReceiveData
  <2>2. f.id \in Stream /\ f.n \in Nat
    BY <1>5, <1>1, <2>1 DEF FrameType
  <2>3. LoopInv' /\ (loop'.at = "read" \/ (loop'.at = "deliver" /\ loop'.id = f.id))
    BY <1>1, <2>1, <2>2 DEF IInv, TypeInv, LoopInv, LoopType
  <2>4. TypeInv'
    BY <1>4, <2>1, <2>3 DEF IInv, TypeInv, StreamsType, WriterInv
  <2>5. FreshIsOpen' /\ NeverPanics'
    BY <1>2, <2>1, <2>3 DEF IInv, FreshIsOpen, NeverPanics
  <2> QED
    BY <2>4, <2>5 DEF IInv
<1>9. CASE UpdateBuffer(f)
  <2> DEFINE t == [stream[f.id] EXCEPT !.credits = f.n]
  <2>1. /\ UNCHANGED <<client, streams, loop>> /\ f.id \in Stream /\ f.n \in Nat
        /\ stream' = [stream EXCEPT ![f.id] = t] /\ Wake({f.id})
    BY <1>5, <1>1, <1>9 DEF UpdateBuffer, FrameType
  <2>2. /\ t \in StreamType /\ t.chClosed = stream[f.id].chClosed
        /\ t.dialed = stream[f.id].dialed
    BY <1>5, <2>1 DEF StreamsType, StreamType
  <2> HIDE DEF t
  <2>3. /\ StreamsType' /\ stream'[f.id] = t
        /\ \A r \in Stream \ {f.id} : stream'[r] = stream[r]
    BY <1>5, <2>1, <2>2, OneStream
  <2>4. WriterInv'
    BY <2>1, Waking DEF IInv, TypeInv
  <2>5. TypeInv'
    BY <1>4, <2>1, <2>3, <2>4 DEF IInv, TypeInv, LoopInv
  <2> QED
    BY <2>1, <2>2, <2>3, <2>5, ChannelsAlone
<1>10. CASE RemoteClosed(f)
  <2> DEFINE t == [stream[f.id] EXCEPT !.closeErr = TRUE, !.chClosed = TRUE]
  <2>1. /\ UNCHANGED <<client, streams>> /\ f.id \in Stream /\ f.id \in streams
        /\ stream' = [stream EXCEPT ![f.id] = t] /\ Wake({f.id})
        /\ loop' = [Reading EXCEPT !.at = "remove", !.id = f.id]
    BY <1>5, <1>10 DEF RemoteClosed
  <2>2. t \in StreamType /\ t.dialed = stream[f.id].dialed
    BY <1>5, <2>1 DEF StreamsType, StreamType
  <2> HIDE DEF t
  <2>3. /\ StreamsType' /\ stream'[f.id] = t
        /\ \A r \in Stream \ {f.id} : stream'[r] = stream[r]
    BY <1>5, <2>1, <2>2, OneStream
  <2>4. WriterInv'
    BY <2>1, Waking DEF IInv, TypeInv
  <2>5. LoopInv' /\ loop'.at = "remove" /\ loop'.id = f.id
    BY <2>1 DEF LoopInv, LoopType, Reading
  <2>6. TypeInv'
    BY <1>4, <2>1, <2>3, <2>4, <2>5 DEF IInv, TypeInv
  <2>7. FreshIsOpen'
    BY <2>1, <2>2, <2>3 DEF IInv, FreshIsOpen
  <2>8. NeverPanics'
    BY <1>5, <1>2, <2>1, <2>3, <2>5 DEF NeverPanics
  <2> QED
    BY <2>6, <2>7, <2>8 DEF IInv
<1> QED
  BY <1>3, <1>6, <1>7, <1>8, <1>9, <1>10

(* The steps of readLoop that finish with a frame. *)
LEMMA LoopSteps ==
  ASSUME IInv, Deliver \/ RefuseUnknown \/ RemoveRemote \/ ReadError
  PROVE  IInv'
<1>1. /\ StreamsType /\ streams \subseteq Stream
      /\ \A s \in streams : stream[s].chClosed => loop.at = "remove" /\ loop.id = s
  BY DEF IInv, TypeInv, StreamsType, NeverPanics
<1>2. LoopInv' /\ loop'.at \in {"read", "end"}
  BY DEF Deliver, RefuseUnknown, RemoveRemote, ReadError, LoopInv, LoopType, Reading
<1>3. CASE Deliver
  <2>1. /\ loop.at = "deliver" /\ loop.id \in Stream /\ loop.n \in Nat
        /\ UNCHANGED <<up, down, client, streams, writer, server>>
    BY <1>3 DEF Deliver, wire, calls, IInv, TypeInv, LoopInv, LoopType
  <2> DEFINE t == [stream[loop.id] EXCEPT !.readCh = Append(@, loop.n)]
  <2>2. stream' = stream \/ stream' = [stream EXCEPT ![loop.id] = t]
    BY <1>3 DEF Deliver
  <2>3. /\ t \in StreamType /\ t.chClosed = stream[loop.id].chClosed
        /\ t.dialed = stream[loop.id].dialed
    <3>1. stream[loop.id] \in StreamType
      BY <1>1, <2>1 DEF StreamsType
    <3>2. Append(stream[loop.id].readCh, loop.n) \in Seq(Nat)
      BY <2>1, <3>1 DEF StreamType
    <3> QED
      BY <3>1, <3>2 DEF StreamType
  <2> HIDE DEF t
  <2>4. /\ StreamsType'
        /\ \A r \in Stream : /\ stream'[r].chClosed = stream[r].chClosed
                              /\ stream'[r].dialed = stream[r].dialed
    <3>1. CASE stream' = stream
      BY <1>1, <2>1, <3>1 DEF StreamsType
    <3>2. CASE stream' = [stream EXCEPT ![loop.id] = t]
      <4>1. streams' \in SUBSET Stream
        BY <1>1, <2>1
      <4>2. /\ StreamsType' /\ stream'[loop.id] = t
            /\ \A r \in Stream \ {loop.id} : stream'[r] = stream[r]
        BY <1>1, <2>1, <2>3, <3>2, <4>1, OneStream
      <4> QED
        BY <2>3, <4>2
    <3> QED
      BY <2>2, <3>1, <3>2
  <2>5. TypeInv'
    BY <1>2, <2>1, <2>4 DEF IInv, TypeInv, WireType, WriterInv
  <2>6. FreshIsOpen' /\ NeverPanics'
    BY <1>1, <1>2, <2>1, <2>4 DEF IInv, FreshIsOpen, NeverPanics
  <2> QED
    BY <2>5, <2>6 DEF IInv
<1>4. CASE RefuseUnknown
  <2>1. /\ loop.at = "refuse" /\ loop.id \in Stream
        /\ UNCHANGED <<client, streams, stream, writer, server>>
    BY <1>4 DEF RefuseUnknown, calls, IInv, TypeInv, LoopInv
  <2>2. WireType'
    <3>1. PICK ok \in BOOLEAN : WritePacket(Frame("close", loop.id, 0), ok)
      BY <1>4 DEF RefuseUnknown
    <3>2. Frame("close", loop.id, 0) \in FrameType
      BY <2>1 DEF Frame, FrameType
    <3> QED
      BY <3>1, <3>2, Writing DEF IInv, TypeInv
  <2>3. TypeInv'
    BY <1>2, <2>1, <2>2 DEF IInv, TypeInv, StreamsType, WriterInv
  <2> QED
    BY <1>1, <1>2, <2>1, <2>3 DEF IInv, FreshIsOpen, NeverPanics
<1>5. CASE RemoveRemote
  <2>1. /\ loop.at = "remove" /\ streams' = streams \ {loop.id}
        /\ UNCHANGED <<up, down, client, stream, writer, server>>
    BY <1>5 DEF RemoveRemote, wire, calls
  <2>2. TypeInv'
    BY <1>2, <2>1 DEF IInv, TypeInv, WireType, StreamsType, WriterInv
  <2> QED
    BY <1>1, <1>2, <2>1, <2>2 DEF IInv, FreshIsOpen, NeverPanics
<1>6. CASE ReadError
  <2>1. /\ loop.at = "read" /\ UNCHANGED <<up, down, client, streams, stream, writer, server>>
    BY <1>6 DEF ReadError, wire, calls
  <2>2. TypeInv'
    BY <1>2, <2>1 DEF IInv, TypeInv, WireType, StreamsType, WriterInv
  <2> QED
    BY <1>1, <1>2, <2>1, <2>2 DEF IInv, FreshIsOpen, NeverPanics
<1> QED
  BY <1>3, <1>4, <1>5, <1>6

(* Read. *)
LEMMA ReadSteps ==
  ASSUME IInv, NEW s \in Stream, Read(s) \/ ReadReturns(s) \/ ReadTimesOut(s)
  PROVE  IInv'
<1>1. StreamsType /\ stream[s] \in StreamType /\ streams \in SUBSET Stream
  BY DEF IInv, TypeInv, StreamsType
<1>2. UNCHANGED <<up, down, client, streams, loop, writer, server>>
  BY DEF Read, ReadReturns, ReadTimesOut, wire
<1> DEFINE t == [stream[s] EXCEPT !.readCh = Tail(@), !.got = Head(stream[s].readCh)]
<1>3. \/ stream' = stream
      \/ stream[s].readCh # <<>> /\ stream' = [stream EXCEPT ![s] = t]
  BY DEF Read, ReadReturns, ReadTimesOut
<1>4. CASE stream' = stream
  <2>1. TypeInv'
    BY <1>2, <1>4 DEF IInv, TypeInv, WireType, StreamsType, LoopInv, WriterInv
  <2> QED
    BY <1>2, <1>4, <2>1, ChannelsAlone
<1>5. CASE stream[s].readCh # <<>> /\ stream' = [stream EXCEPT ![s] = t]
  <2>1. /\ t \in StreamType /\ t.chClosed = stream[s].chClosed /\ t.dialed = stream[s].dialed
    <3>1. Tail(stream[s].readCh) \in Seq(Nat) /\ Head(stream[s].readCh) \in Nat
      BY <1>1, <1>5 DEF StreamType
    <3> QED
      BY <1>1, <3>1 DEF StreamType
  <2> HIDE DEF t
  <2>2. /\ StreamsType' /\ stream'[s] = t
        /\ \A r \in Stream \ {s} : stream'[r] = stream[r]
    BY <1>1, <1>2, <1>5, <2>1, OneStream
  <2>3. TypeInv'
    BY <1>2, <2>2 DEF IInv, TypeInv, WireType, LoopInv, WriterInv
  <2> QED
    BY <1>2, <2>1, <2>2, <2>3, ChannelsAlone
<1> QED
  BY <1>3, <1>4, <1>5

(* A writer that moves on, with its stream. *)
LEMMA WriterMoves ==
  ASSUME WriterInv, NEW w \in Writer, NEW v \in WriterType,
         v.at # "idle" => v.id \in Stream, writer' = [writer EXCEPT ![w] = v]
  PROVE  WriterInv'
BY DEF WriterInv

(* Write: a credit is taken only when there is one. *)
LEMMA WriteSteps ==
  ASSUME IInv, NEW w \in Writer,
         Write(w) \/ WriteTimesOut(w) \/ \E s \in Stream : WriteCalled(w, s)
  PROVE  IInv'
<1>1. /\ StreamsType /\ WriterInv /\ WireType /\ streams \in SUBSET Stream
      /\ writer[w] \in WriterType /\ (writer[w].at # "idle" => writer[w].id \in Stream)
      /\ NoWrite \in WriterType /\ NoWrite.at = "idle"
  BY DEF IInv, TypeInv, StreamsType, WriterInv, WriterType, NoWrite
<1>2. ASSUME writer[w].at # "idle", Move(w, "check") \/ Move(w, "load") \/ Move(w, "send")
      PROVE  WriterInv'
  <2>1. PICK at \in {"check", "load", "send"} : writer' = [writer EXCEPT ![w].at = at]
    BY <1>2 DEF Move
  <2> DEFINE v == [writer[w] EXCEPT !.at = at]
  <2>2. v \in WriterType /\ v.id = writer[w].id
    BY <1>1 DEF WriterType
  <2>3. writer' = [writer EXCEPT ![w] = v]
    BY <2>1
  <2> HIDE DEF v
  <2> QED
    BY <1>1, <1>2, <2>2, <2>3, WriterMoves
<1>3. ASSUME WriteEnds(w) PROVE WriterInv'
  BY <1>1, <1>3, WriterMoves DEF WriteEnds
<1>4. ASSUME WriterInv', UNCHANGED <<client, streams, stream, loop, server>>, WireType'
      PROVE  IInv'
  <2>1. TypeInv'
    BY <1>4 DEF IInv, TypeInv, StreamsType, LoopInv
  <2> QED
    BY <1>4, <2>1, ChannelsAlone
<1>5. ASSUME WriterInv', UNCHANGED <<up, down, client, streams, loop, server>>,
             NEW s \in Stream, NEW t \in StreamType, stream' = [stream EXCEPT ![s] = t],
             t.chClosed = stream[s].chClosed, t.dialed = stream[s].dialed
      PROVE  IInv'
  <2>1. /\ StreamsType' /\ stream'[s] = t
        /\ \A r \in Stream \ {s} : stream'[r] = stream[r]
    BY <1>1, <1>5, OneStream
  <2>2. TypeInv'
    BY <1>5, <2>1 DEF IInv, TypeInv, WireType, LoopInv
  <2> QED
    BY <1>5, <2>1, <2>2, ChannelsAlone
<1>6. CASE WriteChecks(w)
  <2> DEFINE s == writer[w].id
             t == [stream[s] EXCEPT !.credits = @ - 1]
  <2>1. /\ writer[w].at = "check" /\ UNCHANGED <<up, down, client, streams, loop, server>>
        /\ \/ WriteEnds(w) /\ UNCHANGED stream
           \/ Move(w, "load") /\ UNCHANGED stream
           \/ /\ stream[s].credits > 0 /\ Move(w, "send")
              /\ stream' = [stream EXCEPT ![s] = t]
    BY <1>6 DEF WriteChecks, wire
  <2>2. WriterInv' /\ s \in Stream
    BY <1>1, <1>2, <1>3, <2>1
  <2>3. CASE UNCHANGED stream
    BY <1>1, <1>4, <2>1, <2>2, <2>3 DEF WireType
  <2>4. CASE stream[s].credits > 0 /\ stream' = [stream EXCEPT ![s] = t]
    <3>1. stream[s] \in StreamType /\ stream[s].credits - 1 \in Nat
      BY <1>1, <2>2, <2>4 DEF StreamsType, StreamType
    <3>2. t \in StreamType /\ t.chClosed = stream[s].chClosed /\ t.dialed = stream[s].dialed
      BY <3>1 DEF StreamType
    <3> HIDE DEF t
    <3> QED
      BY <1>5, <2>1, <2>2, <2>4, <3>2
  <2> QED
    BY <2>1, <2>3, <2>4
<1>7. CASE WriteLoads(w)
  <2> DEFINE v == [writer[w] EXCEPT !.at = "wait", !.woken = FALSE]
  <2>1. v \in WriterType /\ v.id = writer[w].id /\ writer[w].at # "idle"
    BY <1>1, <1>7 DEF WriteLoads, WriterType
  <2>2. writer' = [writer EXCEPT ![w] = v]
        /\ UNCHANGED <<up, down, client, streams, stream, loop, server>>
    BY <1>7 DEF WriteLoads, wire
  <2> HIDE DEF v
  <2>3. WriterInv'
    BY <1>1, <2>1, <2>2, WriterMoves
  <2> QED
    BY <1>1, <1>4, <2>2, <2>3 DEF WireType
<1>8. CASE WriteWoken(w) \/ WriteTimesOut(w)
  <2>1. /\ writer[w].at = "wait" /\ (Move(w, "check") \/ WriteEnds(w))
        /\ UNCHANGED <<up, down, client, streams, stream, loop, server>>
    BY <1>8 DEF WriteWoken, WriteTimesOut, wire
  <2> QED
    BY <1>1, <1>2, <1>3, <1>4, <2>1 DEF WireType
<1>9. CASE WriteSends(w)
  <2>1. PICK ok \in BOOLEAN : WritePacket(Frame("data", writer[w].id, 0), ok)
    BY <1>9 DEF WriteSends
  <2>2. /\ WriteEnds(w) /\ writer[w].at = "send"
        /\ UNCHANGED <<client, streams, stream, loop, server>>
    BY <1>9 DEF WriteSends
  <2>3. Frame("data", writer[w].id, 0) \in FrameType
    BY <1>1, <2>2 DEF Frame, FrameType
  <2> QED
    BY <1>1, <1>3, <1>4, <2>1, <2>2, <2>3, Writing
<1>10. CASE \E s \in Stream : WriteCalled(w, s)
  <2>1. PICK s \in Stream : WriteCalled(w, s)
    BY <1>10
  <2> DEFINE v == [at |-> "check", id |-> s, woken |-> FALSE]
             t == [stream[s] EXCEPT !.sent = @ + 1]
  <2>2. /\ v \in WriterType /\ v.id \in Stream
        /\ t \in StreamType /\ t.chClosed = stream[s].chClosed /\ t.dialed = stream[s].dialed
    <3>1. v \in WriterType /\ v.id \in Stream
      BY DEF WriterType
    <3>2. stream[s] \in StreamType
      BY <1>1 DEF StreamsType
    <3>3. t \in StreamType /\ t.chClosed = stream[s].chClosed /\ t.dialed = stream[s].dialed
      BY <3>2 DEF StreamType
    <3> QED
      BY <3>1, <3>3
  <2>3. /\ writer' = [writer EXCEPT ![w] = v] /\ stream' = [stream EXCEPT ![s] = t]
        /\ UNCHANGED <<up, down, client, streams, loop, server>>
    BY <2>1 DEF WriteCalled, wire
  <2> HIDE DEF v, t
  <2>4. WriterInv'
    BY <1>1, <2>2, <2>3, WriterMoves
  <2> QED
    BY <1>5, <2>2, <2>3, <2>4
<1> QED
  BY <1>6, <1>7, <1>8, <1>9, <1>10 DEF Write

(* Close of a stream. *)
LEMMA CloseSteps ==
  ASSUME IInv, NEW s \in Stream, CloseSwaps(s) \/ CloseStep(s)
  PROVE  IInv'
<1>1. StreamsType /\ stream[s] \in StreamType /\ streams \in SUBSET Stream
  BY DEF IInv, TypeInv, StreamsType
<1>2. CASE CloseSwaps(s)
  <2> DEFINE t == [stream[s] EXCEPT !.closed = TRUE]
  <2>1. /\ t \in StreamType /\ t.chClosed = stream[s].chClosed /\ t.dialed = stream[s].dialed
    BY <1>1 DEF StreamType
  <2>2. /\ stream' = [stream EXCEPT ![s] = t]
        /\ UNCHANGED <<up, down, client, streams, loop, writer, server>>
    BY <1>2 DEF CloseSwaps, wire
  <2> HIDE DEF t
  <2>3. /\ StreamsType' /\ stream'[s] = t
        /\ \A r \in Stream \ {s} : stream'[r] = stream[r]
    BY <1>1, <2>1, <2>2, OneStream
  <2>4. TypeInv'
    BY <2>2, <2>3 DEF IInv, TypeInv, WireType, LoopInv, WriterInv
  <2> QED
    BY <2>1, <2>2, <2>3, <2>4, ChannelsAlone
<1>3. CASE CloseSends(s)
  <2>1. PICK ok \in BOOLEAN : WritePacket(Frame("close", s, 0), ok)
    BY <1>3 DEF CloseSends
  <2>2. UNCHANGED <<client, streams, stream, loop, writer, server>>
    BY <1>3 DEF CloseSends
  <2>3. Frame("close", s, 0) \in FrameType
    BY DEF Frame, FrameType
  <2>4. TypeInv'
    BY <2>1, <2>2, <2>3, Writing DEF IInv, TypeInv, StreamsType, LoopInv, WriterInv
  <2> QED
    BY <2>2, <2>4, ChannelsAlone
<1>4. CASE CloseRemoves(s)
  <2>1. /\ streams' = streams \ {s} /\ Wake({s})
        /\ UNCHANGED <<up, down, client, stream, loop, server>>
    BY <1>4 DEF CloseRemoves, wire
  <2>2. TypeInv'
    BY <2>1, Waking DEF IInv, TypeInv, WireType, StreamsType, LoopInv
  <2> QED
    BY <2>1, <2>2, ChannelsAlone
<1> QED
  BY <1>2, <1>3, <1>4 DEF CloseStep

(* The server: what it sends are frames of streams. *)
LEMMA ServerSteps ==
  ASSUME IInv, Cut \/ ServerTakes \/ \E s \in Stream : ServerSends(s) \/ ServerCloses(s)
  PROVE  IInv'
<1>1. /\ WireType /\ server \in [Stream -> PeerType]
      /\ WriteQueueLen \in Nat
  BY ClientAssumption DEF IInv, TypeInv
<1>2. ASSUME WireType', server' \in [Stream -> PeerType],
             UNCHANGED <<client, streams, stream, loop, writer>>
      PROVE  IInv'
  <2>1. TypeInv'
    BY <1>2 DEF IInv, TypeInv, StreamsType, LoopInv, WriterInv
  <2> QED
    BY <1>2, <2>1, ChannelsAlone
<1>3. CASE Cut
  <2>1. WireType' /\ UNCHANGED <<client, streams, stream, loop, writer, server>>
    BY <1>3 DEF Cut, WireType, calls
  <2> QED
    BY <1>1, <1>2, <2>1
<1>4. ASSUME NEW f \in FrameType, Send(f) PROVE down' \in Seq(FrameType)
  BY <1>1, <1>4, Queues DEF Send, WireType
<1>5. CASE ServerTakes
  <2> DEFINE f == Head(up)
             s == f.id
             due == server[s].counter >= WriteQueueLen \div 2
  <2>1. /\ f \in FrameType /\ up' \in Seq(FrameType)
        /\ UNCHANGED <<client, streams, stream, loop, writer>>
    BY <1>1, <1>5, Queues DEF ServerTakes, WireType, calls
  <2>2. /\ Frame("close", s, 0) \in FrameType
        /\ Frame("continue", s, WriteQueueLen) \in FrameType
    BY <1>1, <2>1 DEF Frame, FrameType
  <2>3. \/ server' = [server EXCEPT ![s].known = TRUE] /\ UNCHANGED down
        \/ Send(Frame("close", s, 0)) /\ server' = [server EXCEPT ![s].closed = TRUE]
        \/ /\ server' = [server EXCEPT ![s].counter = IF due THEN 0 ELSE @ + 1]
           /\ Send(Frame("continue", s, WriteQueueLen)) \/ UNCHANGED down
        \/ server' = [server EXCEPT ![s].closed = TRUE] /\ UNCHANGED down
        \/ UNCHANGED <<down, server>>
    BY <1>5 DEF ServerTakes
  <2> HIDE DEF f, s, due
  <2>4. down' \in Seq(FrameType)
    BY <1>1, <1>4, <2>2, <2>3 DEF WireType
  <2>5. server' \in [Stream -> PeerType]
    <3>1. CASE s \notin Stream
      BY <1>1, <2>3, <3>1
    <3>2. CASE s \in Stream
      <4>1. server[s] \in PeerType
        BY <1>1, <3>2
      <4>2. /\ [server[s] EXCEPT !.known = TRUE] \in PeerType
            /\ [server[s] EXCEPT !.closed = TRUE] \in PeerType
            /\ [server[s] EXCEPT !.counter = IF due THEN 0 ELSE @ + 1] \in PeerType
        <5>1. [server[s] EXCEPT !.known = TRUE] \in PeerType
          BY <4>1 DEF PeerType
        <5>2. [server[s] EXCEPT !.closed = TRUE] \in PeerType
          BY <4>1 DEF PeerType
        <5>3. [server[s] EXCEPT !.counter = IF due THEN 0 ELSE @ + 1] \in PeerType
          <6>1. (IF due THEN 0 ELSE server[s].counter + 1) \in Nat
            BY <4>1 DEF PeerType
          <6> QED
            BY <4>1, <6>1 DEF PeerType
        <5> QED
          BY <5>1, <5>2, <5>3
      <4> QED
        BY <1>1, <2>3, <3>2, <4>2
    <3> QED
      BY <3>1, <3>2
  <2> QED
    BY <1>2, <2>1, <2>4, <2>5 DEF WireType
<1>6. ASSUME NEW s \in Stream, ServerSends(s) \/ ServerCloses(s) PROVE IInv'
  <2>1. server[s] \in PeerType
    BY <1>1
  <2>2. /\ server[s].sent \in Nat /\ server[s].sent + 1 \in Nat
        /\ [server[s] EXCEPT !.sent = @ + 1] \in PeerType
        /\ [server[s] EXCEPT !.closed = TRUE] \in PeerType
    <3>1. server[s].sent \in Nat /\ server[s].sent + 1 \in Nat
      BY <2>1 DEF PeerType
    <3>2. [server[s] EXCEPT !.sent = @ + 1] \in PeerType
      BY <2>1, <3>1 DEF PeerType
    <3>3. [server[s] EXCEPT !.closed = TRUE] \in PeerType
      BY <2>1 DEF PeerType
    <3> QED
      BY <3>1, <3>2, <3>3
  <2>3. /\ Frame("data", s, server[s].sent + 1) \in FrameType
        /\ Frame("close", s, server[s].sent) \in FrameType
    BY <2>2 DEF Frame, FrameType
  <2>4. down' \in Seq(FrameType) /\ up' = up
    BY <1>4, <1>6, <2>3 DEF ServerSends, ServerCloses
  <2>5. server' \in [Stream -> PeerType]
    BY <1>1, <1>6, <2>2 DEF ServerSends, ServerCloses
  <2>6. UNCHANGED <<client, streams, stream, loop, writer>>
    BY <1>6 DEF ServerSends, ServerCloses, calls
  <2> QED
    BY <1>1, <1>2, <2>4, <2>5, <2>6 DEF WireType
<1> QED
  BY <1>3, <1>5, <1>6

LEMMA StepKeeps == IInv /\ [Next]_vars => IInv'
<1> SUFFICES ASSUME IInv, [Next]_vars PROVE IInv'
  OBVIOUS
<1>1. CASE ConnectReturns \/ CloseBegins \/ CloseWebSocket \/ CloseStreams
  BY <1>1, ClientSteps
<1>2. CASE ReadLoop
  BY <1>2, ReadMessageStep, LoopSteps DEF ReadLoop
<1>3. CASE Calls
  BY <1>3, DialSteps, ReadSteps, WriteSteps, CloseSteps DEF Calls
<1>4. CASE Environment
  BY <1>4, ServerSteps DEF Environment
<1>5. CASE UNCHANGED vars
  <2>1. UNCHANGED <<up, down, client, streams, stream, loop, writer, server>>
    BY <1>5 DEF vars, wire, calls
  <2>2. TypeInv'
    BY <2>1 DEF IInv, TypeInv, WireType, StreamsType, LoopInv, WriterInv
  <2> QED
    BY <2>1, <2>2, ChannelsAlone
<1> QED
  BY <1>1, <1>2, <1>3, <1>4, <1>5 DEF Next

(* The types, and that a stream that was not dialed is unknown to readLoop, for
   any number of streams and calls.                                         *)
THEOREM InvariantHolds == Spec => []IInv
BY InitEstablishes, StepKeeps, PTL DEF Spec

(* readLoop neither sends on a readCh it has closed nor closes it again,
   whatever a server sends after its CLOSE (client.go:379-401).            *)
THEOREM LoopNeverPanics == Spec => []NeverPanics
<1>1. IInv => NeverPanics
  BY DEF IInv
<1> QED
  BY <1>1, InvariantHolds, PTL

(* However many writers compete, the credits of a stream do not run below
   zero (client.go:318-345).                                               *)
THEOREM CreditsOnce == Spec => []CreditsSpentOnce
<1>1. IInv => CreditsSpentOnce
  BY DEF IInv, TypeInv, StreamsType, StreamType, CreditsSpentOnce
<1> QED
  BY <1>1, InvariantHolds, PTL
-----------------------------------------------------------------------------
(* Nobody has closed stream s, nor what it goes over. *)
Live(s) == ~Over(s) /\ ~server[s].closed /\ ws = "open" /\ ~ClientClosed

(* Nothing of the data of stream s is missing or out of its place. *)
Order(s) ==
  /\ \A i \in 1 .. Len(stream[s].readCh) : stream[s].readCh[i] = stream[s].got + i
  /\ Delivering(s) => loop.n = LastTaken(s)
  /\ Carry(down, s, LastTaken(s), server[s].sent)

(* A server sends data on a stream that it knows, which has been dialed, and
   which is in the map as long as nobody has closed it.                    *)
Dialed(s) ==
  /\ \A i \in 1 .. Len(up) : up[i].type = "connect" /\ up[i].id = s => stream[s].dialed = "yes"
  /\ server[s].known => stream[s].dialed = "yes"
  /\ ~server[s].known => server[s].sent = 0
  /\ stream[s].dialed \in {"connect", "yes"} /\ Live(s) => s \in streams

(* Who takes a stream out of the map has closed it. *)
Removers ==
  /\ loop.at = "remove" => stream[loop.id].closeErr
  /\ \A s \in Stream : closer[s] \in {"frame", "remove"} => stream[s].closed

OrderInv == Removers /\ \A s \in Stream : Dialed(s) /\ (Live(s) => Order(s))

-----------------------------------------------------------------------------
(* A stream of which no data moves, and that stays closed when it is. *)
SameData(t, u) ==
  /\ u.got = t.got /\ u.readCh = t.readCh
  /\ t.closed => u.closed
  /\ t.closeErr => u.closeErr

(* The ends of the connection and of the client are final. *)
Ends == (ws' = "open" => ws = "open") /\ (ClientClosed => ClientClosed')

LEMMA FieldsOf ==
  ASSUME NEW t \in StreamType
  PROVE  /\ SameData(t, t)
         /\ \A d : SameData(t, [t EXCEPT !.dialed = d])
         /\ \A c : LET u == [t EXCEPT !.credits = c] IN SameData(t, u) /\ u.dialed = t.dialed
         /\ \A n : LET u == [t EXCEPT !.sent = n] IN SameData(t, u) /\ u.dialed = t.dialed
         /\ LET u == [t EXCEPT !.closed = TRUE]
            IN SameData(t, u) /\ u.dialed = t.dialed /\ u.closed
         /\ LET u == [t EXCEPT !.closeErr = TRUE, !.chClosed = TRUE]
            IN SameData(t, u) /\ u.dialed = t.dialed /\ u.closeErr
BY DEF StreamType, SameData

(* A step that moves no data from the server towards a Read. *)
LEMMA StillStep ==
  ASSUME OrderInv, Ends, down' = down, server' = server, NEW s \in Stream,
         SameData(stream[s], stream'[s]),
         Delivering(s)' <=> Delivering(s), Delivering(s) => loop'.n = loop.n
  PROVE  Live(s)' => Live(s) /\ Order(s)'
<1>1. Live(s)' => Live(s)
  BY DEF Live, Over, Ends, SameData
<1>2. LastTaken(s)' = LastTaken(s)
  BY DEF LastTaken, SameData
<1>3. DataOf(down, s)' = DataOf(down, s)
  BY DEF DataOf
<1>4. ASSUME Order(s) PROVE Order(s)'
  <2>1. Carry(down, s, LastTaken(s), server[s].sent)' = Carry(down, s, LastTaken(s), server[s].sent)
    BY <1>2, <1>3 DEF Carry
  <2> QED
    BY <1>2, <1>4, <2>1 DEF Order, SameData
<1> QED
  BY <1>1, <1>4 DEF OrderInv

(* A step that writes no CONNECT, and takes no live stream out of the map. *)
LEMMA DialedKeeps ==
  ASSUME TypeInv, NEW s \in Stream, Dialed(s),
         up' = up \/ \E f \in FrameType : f.type # "connect" /\ up' = Append(up, f),
         stream'[s].dialed = stream[s].dialed,
         server'[s].known <=> server[s].known, server'[s].known \/ server'[s].sent = server[s].sent,
         Live(s)' => Live(s), s \in streams /\ Live(s)' => s \in streams'
  PROVE  Dialed(s)'
<1>1. ASSUME NEW i \in 1 .. Len(up'), up'[i].type = "connect", up'[i].id = s
      PROVE  stream'[s].dialed = "yes"
  <2>1. CASE up' = up
    BY <1>1, <2>1 DEF Dialed
  <2>2. ASSUME NEW f \in FrameType, f.type # "connect", up' = Append(up, f)
        PROVE  stream'[s].dialed = "yes"
    <3>1. up \in Seq(FrameType)
      BY DEF TypeInv, WireType
    <3>2. i \in 1 .. Len(up) /\ up'[i] = up[i]
      BY <1>1, <2>2, <3>1
    <3> QED
      BY <1>1, <3>2 DEF Dialed
  <2> QED
    BY <2>1, <2>2
<1> QED
  BY <1>1 DEF Dialed

(* The steps of the client as a whole. *)
LEMMA ClientOrder ==
  ASSUME TypeInv, OrderInv, ConnectReturns \/ CloseBegins \/ CloseWebSocket \/ CloseStreams
  PROVE  OrderInv'
<1>1. UNCHANGED <<up, down, stream, loop, server, closer>>
  BY DEF ConnectReturns, CloseBegins, CloseWebSocket, CloseStreams, wire, calls
<1>2. client \in ClientType /\ stream \in [Stream -> StreamType]
  BY DEF TypeInv, StreamsType
<1>3. Ends /\ (streams' = streams \/ ClientClosed')
  BY <1>2 DEF ConnectReturns, CloseBegins, CloseWebSocket, CloseStreams, wire, Ends, ClientClosed,
     ClientType
<1>4. \A s \in Stream : Live(s)' => Live(s) /\ Order(s)'
  BY <1>1, <1>2, <1>3, FieldsOf, StillStep DEF Delivering
<1>5. \A s \in Stream : Dialed(s)'
  BY <1>1, <1>3, <1>4, DialedKeeps DEF OrderInv, Live
<1> QED
  BY <1>1, <1>4, <1>5 DEF OrderInv, Removers

(* Dial. *)
LEMMA DialOrder ==
  ASSUME TypeInv, OrderInv, NEW s \in Stream, Dial(s) \/ DialConnects(s)
  PROVE  OrderInv'
<1>1. stream \in [Stream -> StreamType] /\ stream[s] \in StreamType /\ up \in Seq(FrameType)
  BY DEF TypeInv, StreamsType, WireType
<1>2. UNCHANGED <<down, client, loop, server, closer>> /\ Ends
  BY DEF Dial, DialConnects, WritePacket, wire, calls, Ends, ClientClosed
<1>3. PICK d \in {"connect", "yes", "failed"}, t \in StreamType :
        /\ stream' = [stream EXCEPT ![s] = t] /\ t.dialed = d /\ SameData(stream[s], t)
  <2>1. CASE Dial(s)
    <3> DEFINE t == [stream[s] EXCEPT !.dialed = "connect", !.credits = client.initBuffer]
    <3>1. t \in StreamType /\ t.dialed = "connect" /\ SameData(stream[s], t)
      BY <1>1 DEF StreamType, SameData, TypeInv, ClientType
    <3> QED
      BY <2>1, <3>1 DEF Dial
  <2>2. CASE DialConnects(s)
    <3>1. PICK d \in {"yes", "failed"} : stream' = [stream EXCEPT ![s].dialed = d]
      BY <2>2 DEF DialConnects
    <3> DEFINE t == [stream[s] EXCEPT !.dialed = d]
    <3>2. t \in StreamType /\ t.dialed = d
      BY <1>1 DEF StreamType
    <3>3. stream' = [stream EXCEPT ![s] = t] /\ SameData(stream[s], t)
      BY <1>1, <3>1, FieldsOf
    <3> HIDE DEF t
    <3> QED
      BY <3>2, <3>3
  <2> QED
    BY <2>1, <2>2
<1>4. /\ stream'[s] = t /\ \A r \in Stream \ {s} : stream'[r] = stream[r]
      /\ \A r \in Stream : SameData(stream[r], stream'[r])
  BY <1>1, <1>3, FieldsOf
<1>5. \A r \in Stream : Live(r)' => Live(r) /\ Order(r)'
  BY <1>2, <1>4, StillStep DEF Delivering
<1>6. ASSUME NEW r \in Stream PROVE Dialed(r)'
  <2>1. CASE Dial(s)
    <3>1. up' = up /\ streams' = streams \cup {s} /\ stream[s].dialed = "no"
      BY <2>1 DEF Dial, wire
    <3>2. CASE r # s
      BY <1>2, <1>4, <1>5, <3>1, <3>2, DialedKeeps DEF OrderInv
    <3>3. CASE r = s
      <4>1. /\ \A i \in 1 .. Len(up) : ~(up[i].type = "connect" /\ up[i].id = s)
            /\ ~server[s].known /\ server[s].sent = 0
        BY <3>1 DEF OrderInv, Dialed
      <4> QED
        BY <1>2, <3>1, <3>3, <4>1 DEF Dialed
    <3> QED
      BY <3>2, <3>3
  <2>2. CASE DialConnects(s)
    <3>1. PICK ok \in BOOLEAN :
            /\ WritePacket(Frame("connect", s, 0), ok) /\ stream[s].dialed = "connect"
            /\ stream' = [stream EXCEPT ![s].dialed = IF ok THEN "yes" ELSE "failed"]
            /\ streams' = IF ok THEN streams ELSE streams \ {s}
      BY <2>2 DEF DialConnects
    <3>2. stream'[s].dialed = IF ok THEN "yes" ELSE "failed"
      BY <1>1, <3>1 DEF StreamType
    <3>3. /\ \A i \in 1 .. Len(up) : ~(up[i].type = "connect" /\ up[i].id = s)
          /\ ~server[s].known /\ server[s].sent = 0
          /\ Live(s) => s \in streams
      BY <3>1 DEF OrderInv, Dialed
    <3>4. up' = up \/ (ok /\ up' = Append(up, Frame("connect", s, 0)))
      BY <3>1 DEF WritePacket, wire
    <3>5. Frame("connect", s, 0) \in FrameType /\ Frame("connect", s, 0).id = s
      BY DEF Frame, FrameType
    <3>6. ASSUME NEW i \in 1 .. Len(up'), up'[i].type = "connect", up'[i].id = r
          PROVE  stream'[r].dialed = "yes"
      <4>1. CASE i \in 1 .. Len(up) /\ up'[i] = up[i]
        BY <1>4, <3>3, <3>6, <4>1 DEF OrderInv, Dialed
      <4>2. CASE ok /\ up'[i] = Frame("connect", s, 0)
        BY <3>2, <3>5, <3>6, <4>2
      <4> QED
        BY <1>1, <3>4, <3>5, <4>1, <4>2
    <3>7. CASE r # s
      <4>1. /\ server[r].known => stream[r].dialed = "yes"
            /\ ~server[r].known => server[r].sent = 0
            /\ stream[r].dialed \in {"connect", "yes"} /\ Live(r) => r \in streams
        BY DEF OrderInv, Dialed
      <4>2. r \in streams => r \in streams'
        BY <3>1, <3>7
      <4> QED
        BY <1>2, <1>4, <1>5, <3>6, <3>7, <4>1, <4>2 DEF Dialed
    <3>8. CASE r = s
      <4>1. stream'[s].dialed \in {"connect", "yes"} => ok
        BY <3>2
      <4> QED
        BY <1>2, <1>5, <3>1, <3>3, <3>6, <3>8, <4>1 DEF Dialed
    <3> QED
      BY <3>7, <3>8
  <2> QED
    BY <2>1, <2>2
<1>7. Removers'
  <2>1. loop.at = "remove" => loop.id \in Stream
    BY DEF TypeInv, LoopInv
  <2> QED
    BY <1>2, <1>4, <2>1 DEF OrderInv, Removers, SameData
<1> QED
  BY <1>5, <1>6, <1>7 DEF OrderInv

(* The calls that move no data: Read as far as its select, Write, Close, and
   what readLoop does without a frame or data.                             *)
LEMMA CallOrder ==
  ASSUME TypeInv, OrderInv,
         \/ RefuseUnknown \/ RemoveRemote \/ ReadError
         \/ \E s \in Stream : Read(s) \/ ReadTimesOut(s) \/ CloseSwaps(s) \/ CloseStep(s)
         \/ \E w \in Writer : Write(w) \/ WriteTimesOut(w) \/ \E s \in Stream : WriteCalled(w, s)
  PROVE  OrderInv'
<1>1. /\ stream \in [Stream -> StreamType]
      /\ loop.at \in {"deliver", "refuse", "remove"} => loop.id \in Stream
      /\ loop \in LoopType
      /\ \A w \in Writer : writer[w].at # "idle" => writer[w].id \in Stream
      /\ \A w \in Writer : writer[w].id \in Stream \cup {Everyone}
  BY DEF TypeInv, StreamsType, LoopInv, WriterInv, WriterType
<1>2. ASSUME NEW type \in {"close", "data"}, NEW x, NEW ok, WritePacket(Frame(type, x, 0), ok),
             x \in Stream \cup {Everyone}
      PROVE  /\ down' = down /\ ws' = ws
             /\ up' = up \/ \E f \in FrameType : f.type # "connect" /\ up' = Append(up, f)
  <2>1. Frame(type, x, 0) \in FrameType /\ Frame(type, x, 0).type # "connect"
    BY <1>2 DEF Frame, FrameType
  <2> QED
    BY <1>2, <2>1 DEF WritePacket, wire
<1>3. ASSUME down' = down, ws' = ws, client' = client, server' = server,
             up' = up \/ \E f \in FrameType : f.type # "connect" /\ up' = Append(up, f),
             loop' = loop \/ (loop.at # "deliver" /\ loop'.at \notin {"deliver", "remove"}),
             \A r \in Stream : SameData(stream[r], stream'[r])
                             /\ stream'[r].dialed = stream[r].dialed,
             \A r \in streams : r \in streams' \/ stream[r].closed \/ stream[r].closeErr,
             \A r \in Stream : closer'[r] \in {"frame", "remove"} => stream'[r].closed
      PROVE  OrderInv'
  <2>1. Ends
    BY <1>3 DEF Ends, ClientClosed
  <2>2. \A r \in Stream : (Delivering(r)' <=> Delivering(r)) /\ (Delivering(r) => loop'.n = loop.n)
    BY <1>3 DEF Delivering
  <2>3. \A r \in Stream : Live(r)' => Live(r) /\ Order(r)'
    BY <1>3, <2>1, <2>2, StillStep
  <2>4. ASSUME NEW r \in Stream PROVE Dialed(r)'
    <3>1. r \in streams /\ Live(r)' => r \in streams'
      BY <1>3, <2>3 DEF Live, Over
    <3>2. Dialed(r)
      BY DEF OrderInv
    <3> QED
      BY <1>3, <2>3, <3>1, <3>2, DialedKeeps
  <2>5. Removers'
    BY <1>1, <1>3 DEF OrderInv, Removers, SameData
  <2> QED
    BY <2>3, <2>4, <2>5 DEF OrderInv
<1>4. ASSUME stream' = stream
      PROVE  \A r \in Stream : SameData(stream[r], stream'[r]) /\ stream'[r].dialed = stream[r].dialed
  BY <1>1, <1>4, FieldsOf
<1>5. ASSUME NEW s \in Stream, NEW t, stream' = [stream EXCEPT ![s] = t],
             SameData(stream[s], t), t.dialed = stream[s].dialed
      PROVE  /\ \A r \in Stream : SameData(stream[r], stream'[r]) /\ stream'[r].dialed = stream[r].dialed
             /\ stream'[s] = t
  BY <1>1, <1>5, FieldsOf
<1>6. closer' = closer /\ (\A r \in Stream : SameData(stream[r], stream'[r]))
        => \A r \in Stream : closer'[r] \in {"frame", "remove"} => stream'[r].closed
  BY DEF OrderInv, Removers, SameData
<1>7. CASE RefuseUnknown
  <2>1. PICK ok \in BOOLEAN : WritePacket(Frame("close", loop.id, 0), ok)
    BY <1>7 DEF RefuseUnknown
  <2>2. loop.id \in Stream \cup {Everyone}
    BY <1>1 DEF LoopType
  <2>3. /\ UNCHANGED <<client, server, stream, streams, closer>>
        /\ loop.at # "deliver" /\ loop'.at \notin {"deliver", "remove"}
    BY <1>7 DEF RefuseUnknown, calls, Reading
  <2> QED
    BY <1>2, <1>3, <1>4, <1>6, <2>1, <2>2, <2>3
<1>8. CASE RemoveRemote \/ ReadError
  <2>1. /\ UNCHANGED <<up, down, ws, client, server, stream, closer>>
        /\ loop.at # "deliver" /\ loop'.at \notin {"deliver", "remove"}
    BY <1>8 DEF RemoveRemote, ReadError, wire, calls, Reading
  <2>2. \A r \in streams : r \in streams' \/ stream[r].closeErr
    BY <1>8 DEF RemoveRemote, ReadError, OrderInv, Removers
  <2> QED
    BY <1>3, <1>4, <1>6, <2>1, <2>2
<1>9. ASSUME NEW s \in Stream, Read(s) \/ ReadTimesOut(s) PROVE OrderInv'
  <2>1. UNCHANGED <<up, down, ws, client, server, stream, streams, closer, loop>>
    BY <1>9 DEF Read, ReadTimesOut, wire
  <2> QED
    BY <1>3, <1>4, <1>6, <2>1
<1>10. ASSUME NEW s \in Stream, CloseSwaps(s) PROVE OrderInv'
  <2>1. PICK t : stream' = [stream EXCEPT ![s] = t] /\ t = [stream[s] EXCEPT !.closed = TRUE]
    BY <1>10 DEF CloseSwaps
  <2>2. SameData(stream[s], t) /\ t.dialed = stream[s].dialed /\ t.closed
    BY <1>1, <2>1, FieldsOf
  <2>3. /\ UNCHANGED <<up, down, ws, client, server, streams, loop>>
        /\ closer' = [closer EXCEPT ![s] = "frame"]
    BY <1>10 DEF CloseSwaps, wire
  <2>4. \A r \in Stream : closer'[r] \in {"frame", "remove"} => stream'[r].closed
    <3>1. stream'[s].closed /\ \A r \in Stream : stream[r].closed => stream'[r].closed
      <4>1. stream'[s] = t /\ \A r \in Stream : SameData(stream[r], stream'[r])
        BY <1>5, <2>1, <2>2
      <4> QED
        BY <2>2, <4>1 DEF SameData
    <3>2. \A r \in Stream : closer[r] \in {"frame", "remove"} => stream[r].closed
      BY DEF OrderInv, Removers
    <3> QED
      BY <2>3, <3>1, <3>2
  <2> QED
    BY <1>3, <1>5, <2>1, <2>2, <2>3, <2>4
<1>11. ASSUME NEW s \in Stream, CloseSends(s) PROVE OrderInv'
  <2>1. PICK ok \in BOOLEAN : WritePacket(Frame("close", s, 0), ok)
    BY <1>11 DEF CloseSends
  <2>2. /\ UNCHANGED <<client, server, stream, streams, loop>> /\ closer[s] = "frame"
        /\ closer' = [closer EXCEPT ![s] = "remove"]
    BY <1>11 DEF CloseSends
  <2>3. \A r \in Stream : closer'[r] \in {"frame", "remove"} => stream'[r].closed
    BY <2>2 DEF OrderInv, Removers
  <2> QED
    BY <1>2, <1>3, <1>4, <2>1, <2>2, <2>3
<1>12. ASSUME NEW s \in Stream, CloseRemoves(s) PROVE OrderInv'
  <2>1. /\ UNCHANGED <<up, down, ws, client, server, stream, loop>> /\ closer[s] = "remove"
        /\ closer' = [closer EXCEPT ![s] = "end"] /\ streams' = streams \ {s}
    BY <1>12 DEF CloseRemoves, wire
  <2>2. stream[s].closed
    BY <2>1 DEF OrderInv, Removers
  <2>3. \A r \in Stream : closer'[r] \in {"frame", "remove"} => stream'[r].closed
    BY <2>1 DEF OrderInv, Removers
  <2> QED
    BY <1>3, <1>4, <2>1, <2>2, <2>3
<1>13. ASSUME NEW w \in Writer, NEW s \in Stream, WriteCalled(w, s) PROVE OrderInv'
  <2>1. PICK t : stream' = [stream EXCEPT ![s] = t] /\ t = [stream[s] EXCEPT !.sent = stream[s].sent + 1]
    BY <1>13 DEF WriteCalled
  <2>2. SameData(stream[s], t) /\ t.dialed = stream[s].dialed
    BY <1>1, <2>1, FieldsOf
  <2>3. UNCHANGED <<up, down, ws, client, server, streams, loop, closer>>
    BY <1>13 DEF WriteCalled, wire
  <2> QED
    BY <1>3, <1>5, <1>6, <2>1, <2>2, <2>3
<1>14. ASSUME NEW w \in Writer, WriteChecks(w) PROVE OrderInv'
  <2>1. UNCHANGED <<up, down, ws, client, server, streams, loop, closer>>
    BY <1>14 DEF WriteChecks, wire
  <2>2. PICK s \in Stream : s = writer[w].id
    BY <1>1, <1>14 DEF WriteChecks
  <2>3. CASE stream' = stream
    BY <1>3, <1>4, <1>6, <2>1, <2>3
  <2>4. CASE stream' = [stream EXCEPT ![s].credits = @ - 1]
    <3>1. PICK t : stream' = [stream EXCEPT ![s] = t] /\ t = [stream[s] EXCEPT !.credits = stream[s].credits - 1]
      BY <2>4
    <3>2. SameData(stream[s], t) /\ t.dialed = stream[s].dialed
      BY <1>1, <3>1, FieldsOf
    <3> QED
      BY <1>3, <1>5, <1>6, <2>1, <3>1, <3>2
  <2> QED
    BY <1>14, <2>2, <2>3, <2>4 DEF WriteChecks
<1>15. ASSUME NEW w \in Writer, WriteLoads(w) \/ WriteWoken(w) \/ WriteTimesOut(w) PROVE OrderInv'
  <2>1. UNCHANGED <<up, down, ws, client, server, stream, streams, loop, closer>>
    BY <1>15 DEF WriteLoads, WriteWoken, WriteTimesOut, wire
  <2> QED
    BY <1>3, <1>4, <1>6, <2>1
<1>16. ASSUME NEW w \in Writer, WriteSends(w) PROVE OrderInv'
  <2>1. PICK ok \in BOOLEAN : WritePacket(Frame("data", writer[w].id, 0), ok)
    BY <1>16 DEF WriteSends
  <2>2. UNCHANGED <<client, server, stream, streams, loop, closer>>
    BY <1>16 DEF WriteSends
  <2> QED
    BY <1>1, <1>2, <1>3, <1>4, <1>6, <2>1, <2>2
<1> QED
  BY <1>7, <1>8, <1>9, <1>10, <1>11, <1>12, <1>13, <1>14, <1>15, <1>16 DEF CloseStep, Write
-----------------------------------------------------------------------------
(* A frame more: data that comes next, or a frame that is not data of s. *)
LEMMA CarryMore ==
  ASSUME NEW s \in Stream, NEW q \in Seq(FrameType), NEW f \in FrameType,
         NEW a \in Nat, NEW b \in Nat, Carry(q, s, a, b)
  PROVE  /\ f.type = "data" /\ f.id = s /\ f.n = b + 1 => Carry(Append(q, f), s, a, b + 1)
         /\ ~(f.type = "data" /\ f.id = s) => Carry(Append(q, f), s, a, b)
<1> DEFINE p == Append(q, f)
           m == Len(q)
<1>1. /\ m \in Nat /\ Len(p) = m + 1 /\ p[m + 1] = f
      /\ \A i \in 1 .. m : p[i] = q[i] /\ i # m + 1
  OBVIOUS
<1> HIDE DEF p
<1>2. CASE f.type = "data" /\ f.id = s /\ f.n = b + 1
  <2>1. DataOf(p, s) = DataOf(q, s) \cup {m + 1}
    BY <1>1, <1>2 DEF DataOf
  <2>2. DataOf(q, s) \subseteq 1 .. m
    BY DEF DataOf
  <2>3. \A i \in DataOf(q, s) : q[i].n \in Nat
    <3>1. \A i \in DataOf(q, s) : q[i] \in FrameType
      BY DEF DataOf
    <3> QED
      BY <3>1 DEF FrameType
  <2>4. \A i \in DataOf(p, s) : a < p[i].n /\ p[i].n <= b + 1
    BY <1>1, <1>2, <2>1, <2>2, <2>3 DEF Carry
  <2>5. ASSUME NEW i \in DataOf(p, s), NEW j \in DataOf(p, s), i < j PROVE p[i].n < p[j].n
    <3>1. i \in DataOf(q, s) /\ i \in 1 .. m
      BY <1>1, <2>1, <2>2, <2>5
    <3>2. CASE j = m + 1
      BY <1>1, <1>2, <2>3, <3>1, <3>2 DEF Carry
    <3>3. CASE j \in DataOf(q, s)
      BY <1>1, <2>2, <2>5, <3>1, <3>3 DEF Carry
    <3> QED
      BY <2>1, <3>2, <3>3
  <2>6. ASSUME NEW n \in (a + 1) .. (b + 1) PROVE \E i \in DataOf(p, s) : p[i].n = n
    <3>1. CASE n = b + 1
      BY <1>1, <1>2, <2>1, <3>1
    <3>2. CASE n \in (a + 1) .. b
      BY <1>1, <2>1, <2>2, <3>2 DEF Carry
    <3> QED
      BY <3>1, <3>2
  <2>7. Carry(p, s, a, b + 1)
    BY <2>4, <2>5, <2>6 DEF Carry
  <2> QED
    BY <1>2, <2>7 DEF p
<1>3. CASE ~(f.type = "data" /\ f.id = s)
  <2>1. DataOf(p, s) = DataOf(q, s)
    BY <1>1, <1>3 DEF DataOf
  <2>2. \A i \in DataOf(q, s) : p[i] = q[i]
    BY <1>1 DEF DataOf
  <2>3. Carry(p, s, a, b)
    BY <2>1, <2>2 DEF Carry
  <2> QED
    BY <1>3, <2>3 DEF p
<1> QED
  BY <1>2, <1>3

(* A frame less: data of s that comes next, or another frame. *)
LEMMA CarryLess ==
  ASSUME NEW s \in Stream, NEW q \in Seq(FrameType), q # <<>>,
         NEW a \in Nat, NEW b \in Nat, Carry(q, s, a, b)
  PROVE  LET f == Head(q)
         IN /\ f.type = "data" /\ f.id = s => f.n = a + 1 /\ Carry(Tail(q), s, a + 1, b)
            /\ ~(f.type = "data" /\ f.id = s) => Carry(Tail(q), s, a, b)
<1> DEFINE p == Tail(q)
           f == Head(q)
           m == Len(p)
<1>1. /\ m \in Nat /\ Len(q) = m + 1 /\ f = q[1]
      /\ \A i \in 1 .. m : p[i] = q[i + 1] /\ i + 1 \in 1 .. m + 1
  OBVIOUS
<1> HIDE DEF p, f
<1>2. \A i \in DataOf(q, s) : i \in 1 .. m + 1 /\ q[i].n \in Nat
  <2>1. \A i \in DataOf(q, s) : i \in 1 .. m + 1 /\ q[i] \in FrameType
    BY <1>1 DEF DataOf
  <2> QED
    BY <2>1 DEF FrameType
<1>3. /\ \A i \in DataOf(p, s) : i \in 1 .. m /\ i + 1 \in DataOf(q, s) /\ p[i] = q[i + 1]
      /\ \A i \in DataOf(q, s) : i # 1 => i - 1 \in DataOf(p, s) /\ p[i - 1] = q[i]
  <2>1. ASSUME NEW i \in DataOf(q, s), i # 1
        PROVE  i - 1 \in 1 .. m /\ p[i - 1] = q[i]
    <3>1. i - 1 \in 1 .. m /\ (i - 1) + 1 = i
      BY <1>2, <2>1, <1>1
    <3> QED
      BY <1>1, <3>1
  <2>2. ASSUME NEW i \in DataOf(q, s), i # 1 PROVE i - 1 \in DataOf(p, s)
    BY <2>1, <2>2 DEF DataOf
  <2>3. \A i \in DataOf(p, s) : i \in 1 .. m /\ i + 1 \in DataOf(q, s) /\ p[i] = q[i + 1]
    BY <1>1 DEF DataOf
  <2> QED
    BY <2>1, <2>2, <2>3
<1>4. CASE f.type = "data" /\ f.id = s
  <2>1. 1 \in DataOf(q, s)
    BY <1>1, <1>4 DEF DataOf
  <2>2. f.n = a + 1
    <3>1. a + 1 <= f.n /\ f.n <= b /\ f.n \in Nat
      BY <1>1, <1>2, <2>1 DEF Carry
    <3>2. PICK i \in DataOf(q, s) : q[i].n = a + 1
      BY <3>1 DEF Carry
    <3>3. i = 1 \/ 1 < i
      BY <1>2
    <3> QED
      BY <1>1, <2>1, <3>1, <3>2, <3>3 DEF Carry
  <2>3. ASSUME NEW i \in DataOf(p, s) PROVE a + 1 < p[i].n /\ p[i].n <= b
    <3>1. i + 1 \in DataOf(q, s) /\ 1 < i + 1 /\ p[i] = q[i + 1]
      BY <1>3
    <3> QED
      BY <1>1, <2>1, <2>2, <3>1 DEF Carry
  <2>4. ASSUME NEW i \in DataOf(p, s), NEW j \in DataOf(p, s), i < j PROVE p[i].n < p[j].n
    <3>1. i + 1 < j + 1
      BY <1>3, <2>4
    <3> QED
      BY <1>3, <3>1 DEF Carry
  <2>5. ASSUME NEW n \in (a + 1 + 1) .. b PROVE \E i \in DataOf(p, s) : p[i].n = n
    <3>1. PICK i \in DataOf(q, s) : q[i].n = n
      BY DEF Carry
    <3>2. i # 1
      BY <1>1, <2>2, <3>1
    <3> QED
      BY <1>3, <3>1, <3>2
  <2>6. a + 1 <= b
    BY <1>1, <1>2, <2>1, <2>2 DEF Carry
  <2>7. Carry(p, s, a + 1, b)
    BY <2>3, <2>4, <2>5, <2>6 DEF Carry
  <2> QED
    BY <1>4, <2>2, <2>7 DEF p, f
<1>5. CASE ~(f.type = "data" /\ f.id = s)
  <2>1. 1 \notin DataOf(q, s)
    BY <1>1, <1>5 DEF DataOf
  <2>2. \A i \in DataOf(p, s) : a < p[i].n /\ p[i].n <= b
    BY <1>3 DEF Carry
  <2>3. ASSUME NEW i \in DataOf(p, s), NEW j \in DataOf(p, s), i < j PROVE p[i].n < p[j].n
    <3>1. i + 1 < j + 1
      BY <1>3, <2>3
    <3> QED
      BY <1>3, <3>1 DEF Carry
  <2>4. ASSUME NEW n \in (a + 1) .. b PROVE \E i \in DataOf(p, s) : p[i].n = n
    <3>1. PICK i \in DataOf(q, s) : q[i].n = n
      BY DEF Carry
    <3> QED
      BY <1>3, <2>1, <3>1
  <2>5. Carry(p, s, a, b)
    BY <2>2, <2>3, <2>4 DEF Carry
  <2> QED
    BY <1>5, <2>5 DEF p, f
<1> QED
  BY <1>4, <1>5

LEMMA TakenNat ==
  ASSUME TypeInv, NEW s \in Stream
  PROVE  /\ LastTaken(s) \in Nat /\ server[s].sent \in Nat
         /\ stream[s].got \in Nat /\ Len(stream[s].readCh) \in Nat
         /\ stream[s].readCh \in Seq(Nat)
<1>1. stream[s] \in StreamType /\ server[s] \in PeerType
  BY DEF TypeInv, StreamsType
<1>2. /\ stream[s].got \in Nat /\ stream[s].readCh \in Seq(Nat) /\ server[s].sent \in Nat
  BY <1>1 DEF StreamType, PeerType
<1>3. Len(stream[s].readCh) \in Nat
  BY <1>2
<1> QED
  BY <1>2, <1>3 DEF LastTaken

(* The send on readCh: the data is behind what is there. *)
LEMMA DeliverOrder ==
  ASSUME TypeInv, OrderInv, Deliver
  PROVE  OrderInv'
<1>1. /\ stream \in [Stream -> StreamType] /\ loop.at = "deliver" /\ loop.id \in Stream
      /\ UNCHANGED <<up, down, ws, client, streams, server, closer>> /\ loop' = Reading
  BY DEF Deliver, TypeInv, StreamsType, LoopInv, wire, calls
<1>2. PICK s \in Stream : s = loop.id
  BY <1>1
<1>3. loop'.at = "read" /\ \A r \in Stream : ~Delivering(r)' /\ (r # s => ~Delivering(r))
  BY <1>2, <1>1 DEF Reading, Delivering
<1>4. PICK t : /\ stream' = [stream EXCEPT ![s] = t]
               /\ \/ t = [stream[s] EXCEPT !.readCh = Append(stream[s].readCh, loop.n)]
                  \/ ClientClosed' /\ t = stream[s]
  BY <1>2, <1>1 DEF Deliver, CtxDone, ClientClosed
<1>5. /\ t.dialed = stream[s].dialed /\ t.got = stream[s].got
      /\ t.closed = stream[s].closed /\ t.closeErr = stream[s].closeErr
      /\ ClientClosed' \/ t.readCh = Append(stream[s].readCh, loop.n)
  BY <1>1, <1>4 DEF StreamType
<1>6. stream'[s] = t /\ \A r \in Stream \ {s} : stream'[r] = stream[r]
  BY <1>1, <1>4
<1>7. Ends
  BY <1>1 DEF Ends, ClientClosed
<1>8. \A r \in Stream \ {s} : Live(r)' => Live(r) /\ Order(r)'
  <2>1. \A r \in Stream \ {s} : SameData(stream[r], stream'[r])
    BY <1>6 DEF SameData
  <2> QED
    BY <1>1, <1>3, <1>7, <2>1, StillStep
<1>9. Live(s)' => Live(s)
  BY <1>1, <1>5, <1>6, <1>7 DEF Live, Over, Ends
<1>10. ASSUME Live(s)' PROVE Order(s)'
  <2> DEFINE q == stream[s].readCh
  <2>1. Order(s) /\ t.readCh = Append(q, loop.n)
    BY <1>1, <1>5, <1>9, <1>10 DEF OrderInv, Live
  <2>2. /\ Delivering(s) /\ stream[s].got \in Nat /\ Len(q) \in Nat /\ q \in Seq(Nat)
    BY <1>2, <1>1, TakenNat DEF Delivering
  <2>3. LastTaken(s) = stream[s].got + Len(q) + 1 /\ loop.n = LastTaken(s)
    BY <2>1, <2>2 DEF LastTaken, Order
  <2>4. loop.n \in Nat
    BY <2>2, <2>3
  <2>5. /\ Len(t.readCh) = Len(q) + 1 /\ t.readCh[Len(q) + 1] = loop.n
        /\ \A i \in 1 .. Len(q) : t.readCh[i] = q[i]
    BY <2>1, <2>2, <2>4
  <2>6. LastTaken(s)' = LastTaken(s)
    BY <1>1, <1>3, <1>5, <1>6, <2>2, <2>3, <2>5 DEF LastTaken
  <2>7. \A i \in 1 .. Len(t.readCh) : t.readCh[i] = stream[s].got + i
    <3>1. ASSUME NEW i \in 1 .. Len(t.readCh) PROVE t.readCh[i] = stream[s].got + i
      <4>1. i \in 1 .. Len(q) \/ i = Len(q) + 1
        BY <2>2, <2>5
      <4>2. CASE i \in 1 .. Len(q)
        BY <2>1, <2>5, <4>2 DEF Order
      <4>3. CASE i = Len(q) + 1
        <5>1. stream[s].got + i = stream[s].got + Len(q) + 1
          BY <2>2, <4>3
        <5> QED
          BY <2>3, <2>5, <4>3, <5>1
      <4> QED
        BY <4>1, <4>2, <4>3
    <3> QED
      BY <3>1
  <2>8. Carry(down, s, LastTaken(s), server[s].sent)'
    <3>1. Carry(down, s, LastTaken(s), server[s].sent)
      BY <2>1 DEF Order
    <3> QED
      BY <1>1, <2>6, <3>1 DEF Carry, DataOf
  <2>9. stream'[s].readCh = t.readCh /\ stream'[s].got = stream[s].got /\ ~Delivering(s)'
    BY <1>1, <1>3, <1>5, <1>6
  <2>10. \A i \in 1 .. Len(stream'[s].readCh) : stream'[s].readCh[i] = stream'[s].got + i
    BY <2>7, <2>9, Zenon
  <2> QED
    BY <1>1, <2>8, <2>9, <2>10 DEF Order, Reading
<1>11. \A r \in Stream : Dialed(r)'
  BY <1>1, <1>5, <1>6, <1>8, <1>9, DialedKeeps DEF OrderInv
<1>12. Removers'
  BY <1>1, <1>3, <1>5, <1>6 DEF OrderInv, Removers
<1> QED
  BY <1>1, <1>8, <1>10, <1>11, <1>12 DEF OrderInv

(* A Read takes the first of what is in readCh. *)
LEMMA ReadOrder ==
  ASSUME TypeInv, OrderInv, NEW s \in Stream, ReadReturns(s)
  PROVE  OrderInv'
<1>1. /\ stream \in [Stream -> StreamType]
      /\ UNCHANGED <<up, down, ws, client, streams, server, closer, loop>>
      /\ loop.at = "remove" => loop.id \in Stream
  BY DEF ReadReturns, TypeInv, StreamsType, LoopInv, wire
<1> DEFINE q == stream[s].readCh
<1>2. PICK t : /\ stream' = [stream EXCEPT ![s] = t]
               /\ \/ q # <<>> /\ t = [stream[s] EXCEPT !.readCh = Tail(q), !.got = Head(q)]
                  \/ t = stream[s]
  BY <1>1 DEF ReadReturns
<1>3. /\ t.dialed = stream[s].dialed
      /\ t.closed = stream[s].closed /\ t.closeErr = stream[s].closeErr
      /\ t = stream[s] \/ (q # <<>> /\ t.readCh = Tail(q) /\ t.got = Head(q))
  BY <1>1, <1>2 DEF StreamType
<1>4. stream'[s] = t /\ \A r \in Stream \ {s} : stream'[r] = stream[r]
  BY <1>1, <1>2
<1>5. Ends /\ \A r \in Stream : Delivering(r)' <=> Delivering(r)
  BY <1>1 DEF Ends, ClientClosed, Delivering
<1>6. \A r \in Stream \ {s} : Live(r)' => Live(r) /\ Order(r)'
  <2>1. \A r \in Stream \ {s} : SameData(stream[r], stream'[r])
    BY <1>4 DEF SameData
  <2> QED
    BY <1>1, <1>5, <2>1, StillStep
<1>7. Live(s)' => Live(s)
  BY <1>1, <1>3, <1>4, <1>5 DEF Live, Over, Ends
<1>8. ASSUME Live(s)' PROVE Order(s)'
  <2>1. CASE t = stream[s]
    <3>1. SameData(stream[s], stream'[s])
      BY <1>4, <2>1 DEF SameData
    <3> QED
      BY <1>1, <1>5, <1>8, <3>1, StillStep
  <2>2. CASE q # <<>> /\ t.readCh = Tail(q) /\ t.got = Head(q)
    <3>1. Order(s) /\ q \in Seq(Nat) /\ stream[s].got \in Nat
      BY <1>7, <1>8, TakenNat DEF OrderInv
    <3> DEFINE n == Len(q)
               r == Tail(q)
               h == Head(q)
               g == stream[s].got
    <3>2. /\ n \in Nat /\ n > 0 /\ Len(r) = n - 1 /\ h = q[1]
          /\ \A i \in 1 .. n - 1 : r[i] = q[i + 1]
      BY <2>2, <3>1
    <3>3. \A i \in 1 .. n : q[i] = g + i
      BY <3>1 DEF Order
    <3> HIDE DEF n, r, h, g
    <3>4. h = g + 1 /\ g \in Nat
      BY <3>1, <3>2, <3>3 DEF g
    <3>5. \A i \in 1 .. n - 1 : r[i] = h + i
      <4>1. ASSUME NEW i \in 1 .. n - 1 PROVE r[i] = h + i
        <5>1. i + 1 \in 1 .. n /\ r[i] = q[i + 1]
          BY <3>2
        <5>2. r[i] = g + (i + 1)
          BY <3>3, <5>1
        <5> QED
          BY <3>4, <5>2
      <4> QED
        BY <4>1
    <3>6. LastTaken(s)' = LastTaken(s)
      <4>1. LastTaken(s)' = h + (n - 1) + (IF Delivering(s) THEN 1 ELSE 0)
        BY <1>4, <1>5, <2>2, <3>2 DEF LastTaken, n, r, h
      <4>2. LastTaken(s) = g + n + (IF Delivering(s) THEN 1 ELSE 0)
        BY DEF LastTaken, n, g
      <4>3. h + (n - 1) = g + n
        BY <3>2, <3>4
      <4> QED
        BY <4>1, <4>2, <4>3
    <3>7. Carry(down, s, LastTaken(s), server[s].sent)'
      <4>1. Carry(down, s, LastTaken(s), server[s].sent)
        BY <3>1 DEF Order
      <4> QED
        BY <1>1, <3>6, <4>1 DEF Carry, DataOf
    <3>8. stream'[s].readCh = r /\ stream'[s].got = h
      BY <1>4, <2>2 DEF r, h
    <3>9. \A i \in 1 .. Len(stream'[s].readCh) : stream'[s].readCh[i] = stream'[s].got + i
      BY <3>2, <3>5, <3>8, Zenon
    <3> QED
      BY <1>1, <1>5, <3>1, <3>6, <3>7, <3>9 DEF Order
  <2> QED
    BY <1>3, <2>1, <2>2
<1>9. \A r \in Stream : Dialed(r)'
  BY <1>1, <1>3, <1>4, <1>6, <1>7, DialedKeeps DEF OrderInv
<1>10. Removers'
  BY <1>1, <1>3, <1>4 DEF OrderInv, Removers
<1> QED
  BY <1>6, <1>8, <1>9, <1>10 DEF OrderInv

(* A frame is read: data goes on to readCh, unless the stream is over. *)
LEMMA ReadMessageOrder ==
  ASSUME TypeInv, OrderInv, ReadMessage
  PROVE  OrderInv'
<1>1. /\ stream \in [Stream -> StreamType] /\ streams \subseteq Stream /\ down \in Seq(FrameType)
      /\ down # <<>> /\ down' = Tail(down) /\ loop.at = "read"
      /\ UNCHANGED <<up, ws, streams, server, closer>>
  BY DEF ReadMessage, TypeInv, StreamsType, WireType, ReceiveReady, ReceiveUnknown, ReceiveData,
     UpdateBuffer, RemoteClosed, calls
<1>2. PICK f \in FrameType : f = Head(down) /\ f = down[1] /\ 1 \in 1 .. Len(down)
  BY <1>1
<1>3. \/ ReceiveReady(f) \/ ReceiveUnknown(f) \/ ReceiveData(f)
      \/ UpdateBuffer(f) \/ RemoteClosed(f)
  BY <1>2 DEF ReadMessage
<1>4. client'.close = client.close
  BY <1>3 DEF ReceiveReady, ReceiveUnknown, ReceiveData, UpdateBuffer, RemoteClosed, TypeInv, ClientType
<1>5. Ends
  BY <1>1, <1>4 DEF Ends, ClientClosed
<1>6. /\ \A r \in Stream : /\ SameData(stream[r], stream'[r])
                          /\ stream'[r].dialed = stream[r].dialed
      /\ loop'.at = "remove" => stream'[loop'.id].closeErr
      /\ f.type = "close" /\ f.id \in streams => stream'[f.id].closeErr
  <2>1. CASE ReceiveReady(f) \/ ReceiveUnknown(f) \/ ReceiveData(f)
    <3>1. stream' = stream /\ loop'.at # "remove" /\ ~(f.type = "close" /\ f.id \in streams)
      <4>1. Everyone \notin streams
        BY <1>1, ClientAssumption
      <4>2. CASE ReceiveReady(f)
        BY <1>1, <4>1, <4>2 DEF ReceiveReady, Reading
      <4>3. CASE ReceiveUnknown(f)
        BY <1>1, <4>3 DEF ReceiveUnknown, Reading
      <4>4. CASE ReceiveData(f)
        BY <1>1, <4>4 DEF ReceiveData, Reading
      <4> QED
        BY <2>1, <4>2, <4>3, <4>4
    <3> QED
      BY <1>1, <3>1, FieldsOf
  <2>2. CASE UpdateBuffer(f)
    <3>1. PICK t : /\ f.id \in Stream /\ stream' = [stream EXCEPT ![f.id] = t]
                   /\ t = [stream[f.id] EXCEPT !.credits = f.n]
      BY <1>1, <2>2 DEF UpdateBuffer
    <3>2. SameData(stream[f.id], t) /\ t.dialed = stream[f.id].dialed
      BY <1>1, <3>1, FieldsOf
    <3>3. loop' = loop /\ f.type # "close"
      BY <2>2 DEF UpdateBuffer
    <3>4. stream'[f.id] = t /\ \A r \in Stream \ {f.id} : stream'[r] = stream[r]
      BY <1>1, <3>1
    <3> QED
      BY <1>1, <3>2, <3>3, <3>4, FieldsOf
  <2>3. CASE RemoteClosed(f)
    <3>1. PICK t : /\ f.id \in Stream /\ stream' = [stream EXCEPT ![f.id] = t]
                   /\ t = [stream[f.id] EXCEPT !.closeErr = TRUE, !.chClosed = TRUE]
      BY <1>1, <2>3 DEF RemoteClosed
    <3>2. SameData(stream[f.id], t) /\ t.dialed = stream[f.id].dialed /\ t.closeErr
      BY <1>1, <3>1, FieldsOf
    <3>3. loop'.id = f.id
      BY <2>3 DEF RemoteClosed, Reading
    <3>4. stream'[f.id] = t /\ \A r \in Stream \ {f.id} : stream'[r] = stream[r]
      BY <1>1, <3>1
    <3> QED
      BY <1>1, <3>2, <3>3, <3>4, FieldsOf
  <2> QED
    BY <1>3, <2>1, <2>2, <2>3
<1>7. ASSUME NEW s \in Stream PROVE Live(s)' => Live(s)
  BY <1>1, <1>5, <1>6 DEF Live, Over, Ends, SameData
<1>8. ASSUME NEW s \in Stream, Live(s)' PROVE Order(s)'
  <2> DEFINE a == LastTaken(s)
             b == server[s].sent
  <2>1. /\ Live(s) /\ Order(s) /\ a \in Nat /\ b \in Nat /\ ~Delivering(s)
        /\ a = stream[s].got + Len(stream[s].readCh) /\ Carry(down, s, a, b)
    <3>1. Live(s) /\ Order(s)
      BY <1>7, <1>8 DEF OrderInv
    <3>2. ~Delivering(s)
      BY <1>1 DEF Delivering
    <3>3. a = stream[s].got + Len(stream[s].readCh)
      BY <3>2, TakenNat DEF LastTaken
    <3> QED
      BY <3>1, <3>2, <3>3, TakenNat DEF Order
  <2> HIDE DEF a, b
  <2>2. stream'[s].readCh = stream[s].readCh /\ stream'[s].got = stream[s].got
    BY <1>6 DEF SameData
  <2>3. \A i \in 1 .. Len(stream'[s].readCh) : stream'[s].readCh[i] = stream'[s].got + i
    BY <2>1, <2>2 DEF Order
  <2>4. CASE f.type = "data" /\ f.id = s
    <3>1. f.n = a + 1 /\ Carry(Tail(down), s, a + 1, b)
      BY <1>1, <1>2, <2>1, <2>4, CarryLess
    <3>2. s \in streams
      <4>1. b # 0
        BY <1>1, <2>1, <3>1 DEF Carry
      <4> QED
        BY <2>1, <4>1 DEF OrderInv, Dialed, b
    <3>3. loop' = [at |-> "deliver", id |-> s, n |-> a + 1]
      <4>1. ReceiveData(f)
        BY <1>3, <2>4, <3>2, ClientAssumption DEF ReceiveReady, ReceiveUnknown, UpdateBuffer, RemoteClosed
      <4>2. ~Over(s)
        BY <2>1 DEF Live
      <4> QED
        BY <2>4, <3>1, <4>1, <4>2 DEF ReceiveData
    <3>4. Delivering(s)' /\ loop'.n = a + 1 /\ LastTaken(s)' = a + 1
      BY <2>1, <2>2, <3>3 DEF Delivering, LastTaken
    <3> QED
      BY <1>1, <2>3, <3>1, <3>4 DEF Order, b
  <2>5. CASE ~(f.type = "data" /\ f.id = s)
    <3>1. Carry(Tail(down), s, a, b)
      BY <1>1, <1>2, <2>1, <2>5, CarryLess
    <3>2. ~Delivering(s)'
      <4>1. CASE ReceiveData(f)
        BY <1>1, <2>5, <4>1 DEF ReceiveData, Delivering
      <4>2. CASE ReceiveReady(f) \/ ReceiveUnknown(f)
        BY <1>1, <4>2 DEF ReceiveReady, ReceiveUnknown, Delivering, Reading
      <4>3. CASE UpdateBuffer(f) \/ RemoteClosed(f)
        BY <1>1, <4>3 DEF UpdateBuffer, RemoteClosed, Delivering, Reading
      <4> QED
        BY <1>3, <4>1, <4>2, <4>3
    <3>3. LastTaken(s)' = a
      BY <2>1, <2>2, <3>2 DEF LastTaken
    <3> QED
      BY <1>1, <2>3, <3>1, <3>2, <3>3 DEF Order, b
  <2> QED
    BY <2>4, <2>5
<1>9. \A r \in Stream : Dialed(r)'
  BY <1>1, <1>6, <1>7, DialedKeeps DEF OrderInv
<1>10. Removers'
  BY <1>1, <1>6 DEF OrderInv, Removers, SameData
<1> QED
  BY <1>8, <1>9, <1>10 DEF OrderInv

(* The server and the network: data is numbered as it is sent. *)
LEMMA ServerOrder ==
  ASSUME TypeInv, OrderInv, Environment
  PROVE  OrderInv'
<1>1. /\ UNCHANGED <<client, streams, stream, loop, closer>>
      /\ up \in Seq(FrameType) /\ down \in Seq(FrameType) /\ server \in [Stream -> PeerType]
  BY DEF Environment, ServerTakes, ServerSends, ServerCloses, Cut, calls, TypeInv, WireType
<1>2. Removers'
  BY <1>1 DEF OrderInv, Removers
<1>3. /\ \A s \in Stream : LastTaken(s)' = LastTaken(s) /\ (Delivering(s)' <=> Delivering(s))
      /\ ClientClosed' = ClientClosed /\ \A s \in Stream : Over(s)' = Over(s)
  BY <1>1 DEF LastTaken, Delivering, ClientClosed, Over
<1>4. ASSUME NEW s \in Stream, Order(s), Carry(down', s, LastTaken(s), server'[s].sent)
      PROVE  Order(s)'
  BY <1>1, <1>3, <1>4 DEF Order
<1>5. ASSUME NEW s \in Stream, ws' = ws, server[s].closed => server'[s].closed
      PROVE  Live(s)' => Live(s)
  BY <1>3, <1>5 DEF Live
<1>6. CASE Cut
  <2>1. \A s \in Stream : ~Live(s)'
    BY <1>6 DEF Cut, Live
  <2>2. \A s \in Stream : Dialed(s)'
    BY <1>1, <1>6, <2>1 DEF Cut, OrderInv, Dialed
  <2> QED
    BY <1>2, <2>1, <2>2 DEF OrderInv
<1>7. CASE ServerTakes
  <2>1. PICK f \in FrameType : f = Head(up) /\ f = up[1] /\ 1 \in 1 .. Len(up)
    BY <1>1, <1>7 DEF ServerTakes
  <2>2. up' = Tail(up) /\ ws' = ws
    BY <1>7 DEF ServerTakes
  <2>3. down' = down \/ \E g \in FrameType : g.type # "data" /\ down' = Append(down, g)
    <3>1. /\ Frame("close", f.id, 0) \in FrameType /\ Frame("close", f.id, 0).type # "data"
          /\ Frame("continue", f.id, WriteQueueLen) \in FrameType
          /\ Frame("continue", f.id, WriteQueueLen).type # "data"
      BY ClientAssumption DEF Frame, FrameType
    <3> QED
      BY <1>7, <2>1, <3>1 DEF ServerTakes, Send
  <2>4. ASSUME NEW s \in Stream
        PROVE  /\ server'[s].sent = server[s].sent
               /\ server[s].closed => server'[s].closed
               /\ server[s].known => server'[s].known
               /\ server'[s].known => server[s].known \/ (f.type = "connect" /\ f.id = s)
    <3>1. server[s] \in PeerType
      BY <1>1
    <3>2. CASE server' = server
      BY <3>2
    <3>3. CASE f.type = "connect" /\ server' = [server EXCEPT ![f.id].known = TRUE]
      BY <1>1, <3>1, <3>3 DEF PeerType
    <3>4. CASE server' = [server EXCEPT ![f.id].closed = TRUE]
      BY <1>1, <3>1, <3>4 DEF PeerType
    <3>5. CASE \E n : server' = [server EXCEPT ![f.id].counter = n]
      BY <1>1, <3>1, <3>5 DEF PeerType
    <3>6. \/ server' = server
          \/ f.type = "connect" /\ server' = [server EXCEPT ![f.id].known = TRUE]
          \/ server' = [server EXCEPT ![f.id].closed = TRUE]
          \/ \E n : server' = [server EXCEPT ![f.id].counter = n]
      BY <1>7, <2>1 DEF ServerTakes
    <3> QED
      BY <3>2, <3>3, <3>4, <3>5, <3>6
  <2>5. ASSUME NEW s \in Stream, Live(s)' PROVE Order(s)'
    <3>1. Live(s) /\ Order(s)
      BY <1>5, <2>2, <2>4, <2>5 DEF OrderInv
    <3>2. Carry(down', s, LastTaken(s), server[s].sent)
      BY <1>1, <2>3, <3>1, CarryMore, TakenNat DEF Order
    <3> QED
      BY <1>4, <2>4, <3>1, <3>2
  <2>6. ASSUME NEW s \in Stream PROVE Dialed(s)'
    <3>1. \A i \in 1 .. Len(up') : up'[i] = up[i + 1] /\ i + 1 \in 1 .. Len(up)
      BY <1>1, <2>1, <2>2
    <3>2. f.type = "connect" /\ f.id = s => stream[s].dialed = "yes"
      BY <2>1 DEF OrderInv, Dialed
    <3>3. Live(s)' => Live(s)
      BY <1>5, <2>2, <2>4
    <3>4. Dialed(s)
      BY DEF OrderInv
    <3> QED
      BY <1>1, <2>4, <3>1, <3>2, <3>3, <3>4 DEF Dialed
  <2> QED
    BY <1>2, <2>5, <2>6 DEF OrderInv
<1>8. ASSUME NEW r \in Stream, ServerSends(r) \/ ServerCloses(r) PROVE OrderInv'
  <2>1. up' = up /\ ws' = ws /\ server[r].known /\ server[r] \in PeerType
    BY <1>1, <1>8 DEF ServerSends, ServerCloses
  <2>2. CASE ServerSends(r)
    <3> DEFINE b == server[r].sent + 1
               f == Frame("data", r, b)
    <3>1. /\ f \in FrameType /\ f.type = "data" /\ f.id = r /\ f.n = b /\ server[r].sent \in Nat
      BY <2>1 DEF Frame, FrameType, PeerType
    <3>2. /\ down' = Append(down, f) /\ server' = [server EXCEPT ![r].sent = b]
      BY <2>2 DEF ServerSends, Send
    <3>3. /\ server'[r].sent = b /\ server'[r].closed = server[r].closed
          /\ server'[r].known = server[r].known
          /\ \A s \in Stream \ {r} : server'[s] = server[s]
      BY <1>1, <2>1, <3>2 DEF PeerType
    <3> HIDE DEF f
    <3>4. ASSUME NEW s \in Stream, Live(s)' PROVE Order(s)'
      <4>1. Live(s) /\ Order(s)
        BY <1>5, <2>1, <3>3, <3>4 DEF OrderInv
      <4>2. Carry(down', s, LastTaken(s), server'[s].sent)
        BY <1>1, <3>1, <3>2, <3>3, <4>1, CarryMore, TakenNat DEF Order
      <4> QED
        BY <1>4, <4>1, <4>2
    <3>5. \A s \in Stream : Dialed(s)'
      BY <1>1, <1>5, <2>1, <3>3, DialedKeeps DEF OrderInv
    <3> QED
      BY <1>2, <3>4, <3>5 DEF OrderInv
  <2>3. CASE ServerCloses(r)
    <3> DEFINE f == Frame("close", r, server[r].sent)
    <3>1. f \in FrameType /\ f.type = "close"
      BY <2>1 DEF Frame, FrameType, PeerType
    <3>2. down' = Append(down, f) /\ server' = [server EXCEPT ![r].closed = TRUE]
      BY <2>3 DEF ServerCloses, Send
    <3>3. /\ server'[r].sent = server[r].sent /\ server'[r].closed
          /\ server'[r].known = server[r].known
          /\ \A s \in Stream \ {r} : server'[s] = server[s]
      BY <1>1, <2>1, <3>2 DEF PeerType
    <3> HIDE DEF f
    <3>4. ASSUME NEW s \in Stream, Live(s)' PROVE Order(s)'
      <4>1. Live(s) /\ Order(s) /\ server'[s].sent = server[s].sent
        BY <1>5, <2>1, <3>3, <3>4 DEF OrderInv
      <4>2. Carry(down', s, LastTaken(s), server[s].sent)
        BY <1>1, <3>1, <3>2, <4>1, CarryMore, TakenNat DEF Order
      <4> QED
        BY <1>4, <4>1, <4>2
    <3>5. \A s \in Stream : Dialed(s)'
      BY <1>1, <1>5, <2>1, <3>3, DialedKeeps DEF OrderInv
    <3> QED
      BY <1>2, <3>4, <3>5 DEF OrderInv
  <2> QED
    BY <1>8, <2>2, <2>3
<1> QED
  BY <1>6, <1>7, <1>8 DEF Environment

LEMMA OrderStep == TypeInv /\ OrderInv /\ [Next]_vars => OrderInv'
<1> SUFFICES ASSUME TypeInv, OrderInv, [Next]_vars PROVE OrderInv'
  OBVIOUS
<1>1. CASE ConnectReturns \/ CloseBegins \/ CloseWebSocket \/ CloseStreams
  BY <1>1, ClientOrder
<1>2. CASE ReadLoop
  BY <1>2, ReadMessageOrder, DeliverOrder, CallOrder DEF ReadLoop
<1>3. CASE Calls
  BY <1>3, DialOrder, ReadOrder, CallOrder DEF Calls
<1>4. CASE Environment
  BY <1>4, ServerOrder
<1>5. CASE UNCHANGED vars
  <2>1. UNCHANGED <<up, down, ws, client, streams, stream, loop, closer, server>>
    BY <1>5 DEF vars, wire, calls
  <2>2. Ends /\ \A s \in Stream : Delivering(s)' <=> Delivering(s)
    BY <2>1 DEF Ends, ClientClosed, Delivering
  <2>3. \A s \in Stream : SameData(stream[s], stream'[s])
    BY <2>1 DEF SameData
  <2>4. \A s \in Stream : Live(s)' => Live(s) /\ Order(s)'
    BY <2>1, <2>2, <2>3, StillStep
  <2>5. \A s \in Stream : Dialed(s)'
    BY <2>1, <2>4, DialedKeeps DEF OrderInv
  <2> QED
    BY <2>1, <2>4, <2>5 DEF OrderInv, Removers
<1> QED
  BY <1>1, <1>2, <1>3, <1>4, <1>5 DEF Next

LEMMA OrderInit == Init => OrderInv
<1> SUFFICES ASSUME Init PROVE OrderInv
  OBVIOUS
<1>1. Removers
  BY DEF Init, Removers, Reading
<1>2. ASSUME NEW s \in Stream PROVE Dialed(s) /\ Order(s)
  <2>1. /\ up = <<>> /\ Len(down) = 1 /\ down[1].type = "continue"
        /\ stream[s].dialed = "no" /\ stream[s].readCh = <<>> /\ stream[s].got = 0
        /\ ~server[s].known /\ server[s].sent = 0 /\ ~Delivering(s)
    BY DEF Init, NewStream, NewPeer, Frame, Reading, Delivering
  <2>2. DataOf(down, s) = {} /\ LastTaken(s) = 0
    BY <2>1 DEF DataOf, LastTaken
  <2>3. Carry(down, s, LastTaken(s), server[s].sent)
    BY <2>1, <2>2 DEF Carry
  <2> QED
    BY <2>1, <2>3 DEF Dialed, Order
<1> QED
  BY <1>1, <1>2 DEF OrderInv

(* Through frames, readLoop and the channel of a stream, a Read gets what the
   server has sent, without gaps and in order, until a side closes.        *)
THEOREM ReadsInOrder == Spec => []ReadInOrder
<1>1. Init => IInv /\ OrderInv
  BY InitEstablishes, OrderInit
<1>2. (IInv /\ OrderInv) /\ [Next]_vars => (IInv /\ OrderInv)'
  BY StepKeeps, OrderStep DEF IInv
<1>3. OrderInv => ReadInOrder
  BY DEF OrderInv, Live, Order, ReadInOrder
<1> QED
  BY <1>1, <1>2, <1>3, PTL DEF Spec
===============================================================================
