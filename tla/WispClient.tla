------------------------------ MODULE WispClient ------------------------------
(***************************************************************************)
(* The Wisp client: Client and clientStream of internal/wisp/client.go.    *)
(*                                                                         *)
(* One goroutine, readLoop, takes the frames of the WebSocket and hands    *)
(* them to streams; callers dial, read, write and close from goroutines of *)
(* their own.  A stream has a channel of data, a number of credits, and a  *)
(* channel that is closed and replaced whenever its credits change.        *)
(*                                                                         *)
(* Abstractions.  The data of a stream is numbered from 1.  The server is  *)
(* what server.go lets a client see: it takes frames in order, grants      *)
(* credits, sends data and CLOSE, and may send data after its CLOSE.  A    *)
(* stream is its ID and is dialed once (nextID only grows).  Any call may  *)
(* have a deadline.  Addresses, UDP (whose Write needs no credit), frames  *)
(* that do not parse and data read in parts (readBuf) are left out.        *)
(***************************************************************************)
EXTENDS Integers, Sequences, FiniteSets

CONSTANTS
  Stream,        \* the IDs of the streams
  Everyone,      \* stream ID 0, the connection
  Writer,        \* the goroutines that write
  WriteQueueLen, \* the credits the server grants
  ReadChLen,     \* the capacity of readCh
  WireCap,       \* bound: frames the WebSocket takes before a write blocks
  MaxData,       \* bound: data the server sends on a stream
  MaxWrites      \* bound: writes to a stream

ASSUME ClientAssumption ==
  /\ Everyone \notin Stream
  /\ WriteQueueLen \in Nat \ {0}
  /\ ReadChLen \in Nat \ {0}
  /\ WireCap \in Nat \ {0}
  /\ MaxData \in Nat
  /\ MaxWrites \in Nat

VARIABLES
  up, down,  \* frames under way to the server and to the client
  ws,        \* the WebSocket is open, broken, or closed by the client
  client,    \* Connect, Close, ready and initBuffer
  streams,   \* the map of streams
  stream,    \* clientStream
  loop,      \* where readLoop is, with the stream and data it is at
  reader,    \* where the Read of a stream is
  writer,    \* where a Write is
  closer,    \* where the Close of a stream is
  server     \* what the server knows of a stream

wire == <<up, down, ws>>
calls == <<reader, writer, closer>>
vars == <<wire, client, streams, stream, loop, calls, server>>

Frame(type, s, n) == [type |-> type, id |-> s, n |-> n]

(* dialed: where Dial is; got, sent: data read, calls of Write.             *)
NewStream ==
  [dialed |-> "no", closed |-> FALSE, closeErr |-> FALSE, readCh |-> <<>>,
   chClosed |-> FALSE, credits |-> 0,
   got |-> 0, sent |-> 0]

NoWrite == [at |-> "idle", id |-> Everyone, woken |-> FALSE]
Reading == [at |-> "read", id |-> Everyone, n |-> 0]
NewPeer == [known |-> FALSE, closed |-> FALSE, counter |-> 0, sent |-> 0]

Init ==
  /\ up = <<>> /\ ws = "open"
  /\ down = <<Frame("continue", Everyone, WriteQueueLen)>>
  /\ client = [connect |-> "wait", close |-> "no", ready |-> FALSE, initBuffer |-> 0]
  /\ streams = {}
  /\ stream = [s \in Stream |-> NewStream]
  /\ loop = Reading
  /\ reader = [s \in Stream |-> "idle"]
  /\ writer = [w \in Writer |-> NoWrite]
  /\ closer = [s \in Stream |-> "no"]
  /\ server = [s \in Stream |-> NewPeer]

ClientClosed == client.close # "no"
CtxDone == client.close # "no"
Over(s) == stream[s].closed \/ stream[s].closeErr

(* writePacket: it waits while the WebSocket is full and fails when it is
   closed; when the connection is broken the frame may be lost.            *)
WritePacket(f, ok) ==
  \/ /\ ws = "open" /\ ok /\ Len(up) < WireCap
     /\ up' = Append(up, f)
     /\ UNCHANGED <<down, ws>>
  \/ ws = "broken" /\ UNCHANGED wire
  \/ ws = "closed" /\ ~ok /\ UNCHANGED wire

(* bufferUpdateCh is closed and replaced: who waits for the old one goes on. *)
Wake(S) ==
  writer' = [w \in Writer |->
    IF writer[w].id \in S /\ writer[w].at = "wait" THEN [writer[w] EXCEPT !.woken = TRUE]
    ELSE writer[w]]
-----------------------------------------------------------------------------
(* Client. *)

ConnectReturns ==
  /\ client.connect = "wait" /\ client.ready
  /\ client' = [client EXCEPT !.connect = "ok"]
  /\ UNCHANGED <<wire, streams, stream, loop, calls, server>>

(* Connect gives up, or a caller closes the client: Close. *)
CloseBegins ==
  /\ ~ClientClosed
  /\ client' = [client EXCEPT !.close = "cancelled",
                  !.connect = IF @ = "wait" THEN "failed" ELSE @]
  /\ UNCHANGED <<wire, streams, stream, loop, calls, server>>

CloseWebSocket ==
  /\ client.close = "cancelled"
  /\ ws' = "closed"
  /\ client' = [client EXCEPT !.close = "shut"]
  /\ UNCHANGED <<up, down, streams, stream, loop, calls, server>>

CloseStreams ==
  /\ client.close = "shut"
  /\ client' = [client EXCEPT !.close = "done"]
  /\ Wake(streams)
  /\ streams' = {}
  /\ UNCHANGED <<wire, stream, loop, reader, closer, server>>

(* Dial up to the CONNECT frame. *)
Dial(s) ==
  /\ client.connect = "ok" /\ ~ClientClosed
  /\ stream[s].dialed = "no"
  /\ stream' = [stream EXCEPT ![s].dialed = "connect", ![s].credits = client.initBuffer]
  /\ streams' = streams \cup {s}
  /\ UNCHANGED <<wire, client, loop, calls, server>>

DialConnects(s) ==
  /\ stream[s].dialed = "connect"
  /\ \E ok \in BOOLEAN :
       /\ WritePacket(Frame("connect", s, 0), ok)
       /\ stream' = [stream EXCEPT ![s].dialed = IF ok THEN "yes" ELSE "failed"]
       /\ streams' = IF ok THEN streams ELSE streams \ {s}
  /\ UNCHANGED <<client, loop, calls, server>>
-----------------------------------------------------------------------------
(* readLoop. *)

(* A CONTINUE for stream 0 gives the credits of new streams. *)
ReceiveReady(f) ==
  /\ f.id = Everyone
  /\ client' = [client EXCEPT !.ready = TRUE, !.initBuffer = f.n]
  /\ UNCHANGED <<streams, stream, loop, writer>>

(* A frame for a stream that is not in the map: a CLOSE is the answer. *)
ReceiveUnknown(f) ==
  /\ f.id \in Stream \ streams
  /\ loop' = IF f.type = "close" THEN loop ELSE [Reading EXCEPT !.at = "refuse", !.id = f.id]
  /\ UNCHANGED <<client, streams, stream, writer>>

(* receiveData drops what comes for a stream that is over. *)
ReceiveData(f) ==
  /\ f.id \in streams /\ f.type = "data"
  /\ loop' = IF Over(f.id) THEN loop ELSE [at |-> "deliver", id |-> f.id, n |-> f.n]
  /\ UNCHANGED <<client, streams, stream, writer>>

(* updateBuffer. *)
UpdateBuffer(f) ==
  /\ f.id \in streams /\ f.type = "continue"
  /\ stream' = [stream EXCEPT ![f.id].credits = f.n]
  /\ Wake({f.id})
  /\ UNCHANGED <<client, streams, loop>>

(* remoteClosed, before removeStream. *)
RemoteClosed(f) ==
  /\ f.id \in streams /\ f.type = "close"
  /\ stream' = [stream EXCEPT ![f.id].closeErr = TRUE, ![f.id].chClosed = TRUE]
  /\ Wake({f.id})
  /\ loop' = [Reading EXCEPT !.at = "remove", !.id = f.id]
  /\ UNCHANGED <<client, streams>>

ReadMessage ==
  /\ loop.at = "read" /\ down # <<>>
  /\ down' = Tail(down)
  /\ LET f == Head(down) IN
       \/ ReceiveReady(f) \/ ReceiveUnknown(f) \/ ReceiveData(f)
       \/ UpdateBuffer(f) \/ RemoteClosed(f)
  /\ UNCHANGED <<up, ws, reader, closer, server>>

(* Mutant of Deliver: the end of the client is not waited for. *)
DeliverIgnoresCtx ==
  /\ loop.at = "deliver"
  /\ Len(stream[loop.id].readCh) < ReadChLen
  /\ stream' = [stream EXCEPT ![loop.id].readCh = Append(@, loop.n)]
  /\ loop' = Reading
  /\ UNCHANGED <<wire, client, streams, calls, server>>

(* Mutant of Deliver: data is dropped when the channel is full. *)
DeliverOrDrop ==
  /\ loop.at = "deliver"
  /\ stream' = IF Len(stream[loop.id].readCh) < ReadChLen
                 THEN [stream EXCEPT ![loop.id].readCh = Append(@, loop.n)] ELSE stream
  /\ loop' = Reading
  /\ UNCHANGED <<wire, client, streams, calls, server>>

(* The send on readCh, which may have to wait for a Read. *)
Deliver ==
  /\ loop.at = "deliver"
  /\ \/ /\ Len(stream[loop.id].readCh) < ReadChLen
        /\ stream' = [stream EXCEPT ![loop.id].readCh = Append(@, loop.n)]
     \/ CtxDone /\ UNCHANGED stream
  /\ loop' = Reading
  /\ UNCHANGED <<wire, client, streams, calls, server>>

RefuseUnknown ==
  /\ loop.at = "refuse"
  /\ \E ok \in BOOLEAN : WritePacket(Frame("close", loop.id, 0), ok)
  /\ loop' = Reading
  /\ UNCHANGED <<client, streams, stream, calls, server>>

(* Mutant of RemoveRemote: the stream stays in the map. *)
KeepRemote ==
  /\ loop.at = "remove"
  /\ loop' = Reading
  /\ UNCHANGED <<wire, client, streams, stream, calls, server>>

RemoveRemote ==
  /\ loop.at = "remove"
  /\ streams' = streams \ {loop.id}
  /\ loop' = Reading
  /\ UNCHANGED <<wire, client, stream, calls, server>>

(* ReadMessage fails and the loop returns, leaving the rest as it is. *)
ReadError ==
  /\ loop.at = "read"
  /\ ws # "open"
  /\ loop' = [Reading EXCEPT !.at = "end"]
  /\ UNCHANGED <<wire, client, streams, stream, calls, server>>

ReadLoop == ReadMessage \/ Deliver \/ RefuseUnknown \/ RemoveRemote \/ ReadError
-----------------------------------------------------------------------------
(* Read. *)

Finish(s) == reader' = [reader EXCEPT ![s] = "idle"]

(* The error of a remote CLOSE is returned at once when all data is read. *)
ReadAfterClose(s) ==
  /\ ~stream[s].closed
  /\ stream[s].closeErr /\ stream[s].readCh = <<>>
  /\ UNCHANGED reader

ReadWaits(s) ==
  /\ ~stream[s].closed
  /\ ~(stream[s].closeErr /\ stream[s].readCh = <<>>)
  /\ reader' = [reader EXCEPT ![s] = "recv"]

Read(s) ==
  /\ stream[s].dialed = "yes" /\ reader[s] = "idle"
  /\ ReadAfterClose(s) \/ ReadWaits(s)
  /\ UNCHANGED <<wire, client, streams, stream, loop, writer, closer, server>>

(* Mutant of ReadReturns: the end of the client is not waited for. *)
ReadIgnoresCtx(s) ==
  /\ reader[s] = "recv"
  /\ Finish(s)
  /\ \/ /\ stream[s].readCh # <<>>
        /\ stream' = [stream EXCEPT ![s].readCh = Tail(@), ![s].got = Head(stream[s].readCh)]
     \/ stream[s].readCh = <<>> /\ stream[s].chClosed /\ UNCHANGED stream
  /\ UNCHANGED <<wire, client, streams, loop, writer, closer, server>>

(* The select of Read. *)
ReadReturns(s) ==
  /\ reader[s] = "recv"
  /\ Finish(s)
  /\ \/ /\ stream[s].readCh # <<>>
        /\ stream' = [stream EXCEPT ![s].readCh = Tail(@), ![s].got = Head(stream[s].readCh)]
     \/ stream[s].readCh = <<>> /\ stream[s].chClosed /\ UNCHANGED stream
     \/ CtxDone /\ UNCHANGED stream
  /\ UNCHANGED <<wire, client, streams, loop, writer, closer, server>>

ReadTimesOut(s) ==
  /\ reader[s] = "recv"
  /\ Finish(s)
  /\ UNCHANGED <<wire, client, streams, stream, loop, writer, closer, server>>
-----------------------------------------------------------------------------
(* Write: check, take a credit, or load the channel and wait. *)

Move(w, at) == writer' = [writer EXCEPT ![w].at = at]
WriteEnds(w) == writer' = [writer EXCEPT ![w] = NoWrite]

WriteCalled(w, s) ==
  /\ stream[s].dialed = "yes" /\ writer[w].at = "idle"
  /\ stream[s].sent < MaxWrites /\ ~Over(s)
  /\ writer' = [writer EXCEPT ![w] =
       [at |-> "check", id |-> s, woken |-> FALSE]]
  /\ stream' = [stream EXCEPT ![s].sent = @ + 1]
  /\ UNCHANGED <<wire, client, streams, loop, reader, closer, server>>

(* Mutant of WriteChecks: the credit is taken without the CompareAndSwap,
   after another writer may have taken it.                                 *)
WriteTakesLate(w) ==
  LET s == writer[w].id IN
  /\ \/ /\ writer[w].at = "check" /\ stream[s].credits > 0
        /\ Move(w, "load") /\ UNCHANGED stream
     \/ /\ writer[w].at = "load"
        /\ stream' = [stream EXCEPT ![s].credits = @ - 1]
        /\ Move(w, "send")
  /\ UNCHANGED <<wire, client, streams, loop, reader, closer, server>>

(* One round of the loop, with the CompareAndSwap that succeeds. *)
WriteChecks(w) ==
  LET s == writer[w].id IN
  /\ writer[w].at = "check"
  /\ \/ Over(s) /\ WriteEnds(w) /\ UNCHANGED stream
     \/ /\ ~Over(s) /\ stream[s].credits > 0
        /\ stream' = [stream EXCEPT ![s].credits = @ - 1]
        /\ Move(w, "send")
     \/ ~Over(s) /\ stream[s].credits <= 0 /\ Move(w, "load") /\ UNCHANGED stream
  /\ UNCHANGED <<wire, client, streams, loop, reader, closer, server>>

(* bufferUpdateCh is loaded after the check: an update in between has
   already replaced it.                                                    *)
WriteLoads(w) ==
  /\ writer[w].at = "load"
  /\ writer' = [writer EXCEPT ![w].at = "wait", ![w].woken = FALSE]
  /\ UNCHANGED <<wire, client, streams, stream, loop, reader, closer, server>>

WriteWoken(w) ==
  /\ writer[w].at = "wait"
  /\ \/ writer[w].woken /\ Move(w, "check")
     \/ CtxDone /\ WriteEnds(w)
  /\ UNCHANGED <<wire, client, streams, stream, loop, reader, closer, server>>

WriteTimesOut(w) ==
  /\ writer[w].at = "wait"
  /\ WriteEnds(w)
  /\ UNCHANGED <<wire, client, streams, stream, loop, reader, closer, server>>

WriteSends(w) ==
  /\ writer[w].at = "send"
  /\ \E ok \in BOOLEAN : WritePacket(Frame("data", writer[w].id, 0), ok)
  /\ WriteEnds(w)
  /\ UNCHANGED <<client, streams, stream, loop, reader, closer, server>>

Write(w) == WriteChecks(w) \/ WriteLoads(w) \/ WriteWoken(w) \/ WriteSends(w)
-----------------------------------------------------------------------------
(* closeWithReason: the swap, the CLOSE frame, then removeStream and
   closeInternal, which nothing can tell apart.                            *)

CloseSwaps(s) ==
  /\ stream[s].dialed = "yes" /\ ~stream[s].closed
  /\ stream' = [stream EXCEPT ![s].closed = TRUE]
  /\ closer' = [closer EXCEPT ![s] = "frame"]
  /\ UNCHANGED <<wire, client, streams, loop, reader, writer, server>>

CloseSends(s) ==
  /\ closer[s] = "frame"
  /\ \E ok \in BOOLEAN : WritePacket(Frame("close", s, 0), ok)
  /\ closer' = [closer EXCEPT ![s] = "remove"]
  /\ UNCHANGED <<client, streams, stream, loop, reader, writer, server>>

CloseRemoves(s) ==
  /\ closer[s] = "remove"
  /\ streams' = streams \ {s}
  /\ Wake({s})
  /\ closer' = [closer EXCEPT ![s] = "end"]
  /\ UNCHANGED <<wire, client, stream, loop, reader, server>>

CloseStep(s) == CloseSends(s) \/ CloseRemoves(s)
-----------------------------------------------------------------------------
(* The server, as far as a client can tell. *)

Send(f) == Len(down) < WireCap /\ down' = Append(down, f)

(* A frame is taken; after more than half of the credits a CONTINUE is due.
   A CONNECT may be refused by a CLOSE.                                    *)
ServerTakes ==
  /\ ws = "open" /\ up # <<>>
  /\ up' = Tail(up)
  /\ LET f == Head(up)  s == f.id  due == server[s].counter >= WriteQueueLen \div 2 IN
       \/ /\ f.type = "connect"
          /\ \/ server' = [server EXCEPT ![s].known = TRUE] /\ UNCHANGED down
             \/ Send(Frame("close", s, 0)) /\ server' = [server EXCEPT ![s].closed = TRUE]
       \/ /\ f.type = "data" /\ server[s].known /\ ~server[s].closed
          /\ server' = [server EXCEPT ![s].counter = IF due THEN 0 ELSE @ + 1]
          /\ IF due THEN Send(Frame("continue", s, WriteQueueLen)) ELSE UNCHANGED down
       \/ /\ f.type = "close" /\ server' = [server EXCEPT ![s].closed = TRUE]
          /\ UNCHANGED down
       \/ /\ f.type = "data" /\ (server[s].closed \/ ~server[s].known)
          /\ UNCHANGED <<down, server>>
  /\ UNCHANGED <<ws, client, streams, stream, loop, calls>>

(* Data of the peer, also after a CLOSE that has overtaken it. *)
ServerSends(s) ==
  /\ ws = "open" /\ server[s].known /\ server[s].sent < MaxData
  /\ Send(Frame("data", s, server[s].sent + 1))
  /\ server' = [server EXCEPT ![s].sent = @ + 1]
  /\ UNCHANGED <<up, ws, client, streams, stream, loop, calls>>

ServerCloses(s) ==
  /\ ws = "open" /\ server[s].known /\ ~server[s].closed
  /\ Send(Frame("close", s, server[s].sent))
  /\ server' = [server EXCEPT ![s].closed = TRUE]
  /\ UNCHANGED <<up, ws, client, streams, stream, loop, calls>>

(* The connection breaks, with what is under way. *)
Cut ==
  /\ ws = "open"
  /\ ws' = "broken" /\ up' = <<>> /\ down' = <<>>
  /\ UNCHANGED <<client, streams, stream, loop, calls, server>>
-----------------------------------------------------------------------------
Calls ==
  \/ \E s \in Stream : Dial(s) \/ DialConnects(s) \/ Read(s) \/ ReadReturns(s) \/ ReadTimesOut(s)
                         \/ CloseSwaps(s) \/ CloseStep(s)
  \/ \E w \in Writer : Write(w) \/ WriteTimesOut(w) \/ \E s \in Stream : WriteCalled(w, s)

Environment == ServerTakes \/ Cut \/ \E s \in Stream : ServerSends(s) \/ ServerCloses(s)

Next ==
  \/ ConnectReturns \/ CloseBegins \/ CloseWebSocket \/ CloseStreams
  \/ ReadLoop \/ Calls \/ Environment

Spec == Init /\ [][Next]_vars

(* Goroutines run, and the server takes what it is sent.  Callers need not
   write or close, deadlines need not come, a server need not send.  When a
   Read finds data and its deadline at once, the select does not always
   prefer the deadline: ReadReturns is strongly fair.                      *)
FairSpec ==
  /\ Spec
  /\ WF_vars(CloseWebSocket) /\ WF_vars(CloseStreams)
  /\ WF_vars(ReadLoop) /\ WF_vars(ServerTakes)
  /\ \A s \in Stream : /\ WF_vars(DialConnects(s)) /\ WF_vars(CloseStep(s))
                       /\ WF_vars(Read(s)) /\ SF_vars(ReadReturns(s))
  /\ \A w \in Writer : WF_vars(Write(w))
-----------------------------------------------------------------------------
(* The variables have their types, and readCh and the wire their bounds. *)
TypeOK ==
  /\ ws \in {"open", "broken", "closed"}
  /\ Len(up) <= WireCap /\ Len(down) <= WireCap
  /\ client \in [connect : {"wait", "ok", "failed"}, ready : BOOLEAN, initBuffer : Nat,
                 close : {"no", "cancelled", "shut", "done"}]
  /\ streams \subseteq Stream
  /\ \A s \in Stream :
       /\ stream[s].dialed \in {"no", "connect", "yes", "failed"}
       /\ stream[s].readCh \in Seq(1..MaxData) /\ Len(stream[s].readCh) <= ReadChLen
       /\ reader[s] \in {"idle", "recv"}
       /\ closer[s] \in {"no", "frame", "remove", "end"}
  /\ loop \in [at : {"read", "deliver", "refuse", "remove", "end"}, id : Stream \cup {Everyone},
               n : 0..MaxData]
  /\ writer \in [Writer -> [at : {"idle", "check", "load", "wait", "send"},
                            id : Stream \cup {Everyone}, woken : BOOLEAN]]

(* readLoop does not panic: it neither sends on a readCh it has closed nor
   closes it again, although a server may send after its CLOSE.            *)
NeverPanics ==
  /\ loop.at = "deliver" => ~stream[loop.id].chClosed
  /\ \A s \in streams : stream[s].chClosed => loop.at = "remove" /\ loop.id = s

DataOf(q, s) == {i \in 1 .. Len(q) : q[i].type = "data" /\ q[i].id = s}

(* The frames q carry the data of stream s from a + 1 to b, each one once and
   in order.                                                               *)
Carry(q, s, a, b) ==
  /\ a <= b
  /\ \A i \in DataOf(q, s) : a < q[i].n /\ q[i].n <= b
  /\ \A i, j \in DataOf(q, s) : i < j => q[i].n < q[j].n
  /\ \A n \in (a + 1) .. b : \E i \in DataOf(q, s) : q[i].n = n

Delivering(s) == loop.at = "deliver" /\ loop.id = s

(* The last data of a stream that readLoop has taken. *)
LastTaken(s) == stream[s].got + Len(stream[s].readCh) + (IF Delivering(s) THEN 1 ELSE 0)

(* As long as no side has closed the stream or the connection, what has been
   read and what is under way, in readCh, with readLoop and on the wire, is
   what the server sent, in order.                                         *)
ReadInOrder ==
  \A s \in Stream :
    /\ stream[s].dialed = "yes" /\ ~Over(s) /\ ~server[s].closed
    /\ ws = "open" /\ ~ClientClosed
    => /\ \A i \in 1 .. Len(stream[s].readCh) : stream[s].readCh[i] = stream[s].got + i
       /\ Delivering(s) => loop.n = LastTaken(s)
       /\ Carry(down, s, LastTaken(s), server[s].sent)

(* Writers that compete for the last credit do not take it twice. *)
CreditsSpentOnce == \A s \in Stream : stream[s].credits >= 0

Calling(s) == reader[s] = "recv" \/ closer[s] \notin {"no", "end"} \/ stream[s].dialed = "connect"
Quiet == (\A s \in Stream : ~Calling(s)) /\ \A w \in Writer : writer[w].at = "idle"

(* The end of the client ends every call under way, whatever it waits for. *)
CloseFreesCallers == client.close = "done" ~> Quiet /\ loop.at = "end"

(* A reader that keeps reading keeps the loop of all streams going: it waits
   with data only for a stream that has been closed on this side.          *)
LoopGoesOn == loop.at = "deliver" ~> loop.at # "deliver" \/ stream[loop.id].closed

(* "TCP Flow Control" and the test of that name: as long as the connection,
   the stream and the client last, a Write gets its credit.                *)
WriteGetsCredit ==
  \A w \in Writer : writer[w].at = "wait" ~>
    \/ writer[w].at # "wait" \/ ws # "open" \/ ClientClosed
    \/ Over(writer[w].id) \/ server[writer[w].id].closed
=============================================================================
