------------------------------ MODULE WispServer ------------------------------
(***************************************************************************)
(* One connection of the Wisp server: connHandler and serverStream of      *)
(* internal/wisp/server.go.                                                *)
(*                                                                         *)
(* The handler, the goroutine of run(), reads the frames of a WebSocket    *)
(* one by one.  A CONNECT dials a peer and starts three loops: peerRead    *)
(* lends what the peer sends to clientRead, which writes it to the         *)
(* WebSocket, and peerWrite writes what the handler queues to the peer.    *)
(* Whoever ends a stream first closes it and then asks the handler,        *)
(* through closeCh, to take it out of its map.                             *)
(*                                                                         *)
(* Abstractions.  The data of a stream is numbered from 1 in either        *)
(* direction.  The WebSocket is two bounded queues and a state.  Streams   *)
(* are TCP streams, whose Read returns data or an error, and a client uses *)
(* an ID once, as client.go does: the refusal of an ID that is in use is   *)
(* left out, and a stream is its ID.                                       *)
(***************************************************************************)
EXTENDS Integers, Sequences, FiniteSets

CONSTANTS
  Stream,        \* the IDs of the streams
  Everyone,      \* stream ID 0, the connection
  WriteQueueLen, \* the credits of a stream
  WireCap,       \* bound: frames the WebSocket takes before a write blocks
  MaxReads,      \* bound: how often a peer sends
  MaxFrames      \* bound: frames the client sends

ASSUME WispAssumption ==
  /\ Everyone \notin Stream
  /\ WriteQueueLen \in Nat \ {0}
  /\ WireCap \in Nat \ {0}
  /\ MaxReads \in Nat
  /\ MaxFrames \in Nat

VARIABLES
  up, down,  \* frames under way to the server and to the client
  ws,        \* the WebSocket is open, broken, or a write has failed
  handler,   \* where the goroutine of run() is
  packet,    \* the frame it writes or queues, or whose stream it closes
  streams,   \* its map
  stream,    \* serverStream, and the locals of its loops
  loop,      \* where the loops of a stream are
  client     \* how many frames and data the client has sent

wire == <<up, down, ws>>
run == <<handler, packet, streams>>
vars == <<wire, run, stream, loop, client>>

Loop == {"peerRead", "clientRead", "peerWrite"}
At == {"none", "read", "send", "recv", "copy", "write", "credit",
       "swap", "frame", "shut", "pend", "end"}

Frame(type, s, n) == [type |-> type, id |-> s, n |-> n]
NoPacket == Frame("none", Everyone, 0)

(* closed, the peer connection, writeQueue, the two buffers of peerRead and
   the one it fills next, the one lent to clientRead and the data copied
   from it, the data peerWrite has taken, and how much data the peer sent
   (received), went to the client (delivered) and to the peer (written).   *)
NewStream ==
  [closed |-> FALSE, conn |-> "none", queue |-> <<>>, queueClosed |-> FALSE,
   buf |-> [b \in {1, 2} |-> 0], filling |-> 1, lent |-> 1, hand |-> 0, taken |-> 0,
   counter |-> 0, received |-> 0, delivered |-> 0, written |-> 0]

Init ==
  /\ up = <<>> /\ down = <<>> /\ ws = "open"
  /\ handler = "init"
  /\ packet = Frame("continue", Everyone, WriteQueueLen)
  /\ streams = {}
  /\ stream = [s \in Stream |-> NewStream]
  /\ loop = [s \in Stream |-> [l \in Loop |-> "none"]]
  /\ client = [frames |-> 0, data |-> [s \in Stream |-> 0], known |-> {}]
-----------------------------------------------------------------------------
(* writePacket of frame f: it waits while the WebSocket is full.  When that
   is broken the frame is lost, until a write fails, as do all after it.   *)
WritePacket(f, ok) ==
  /\ \/ /\ ws = "open" /\ ok
        /\ Len(down) < WireCap
        /\ down' = Append(down, f)
        /\ UNCHANGED ws
     \/ ws = "broken" /\ ok /\ UNCHANGED <<ws, down>>
     \/ ws # "open" /\ ~ok /\ ws' = "failed" /\ UNCHANGED down
  /\ UNCHANGED up

(* What a loop does when its call of close has returned. *)
AfterClose(l) == IF l = "clientRead" THEN "recv" ELSE "end"

Pending == {s \in Stream : \E l \in Loop : loop[s][l] = "pend"}
-----------------------------------------------------------------------------
(* The handler. *)

SendInitialContinue ==
  /\ handler = "init"
  /\ \E ok \in BOOLEAN :
       /\ WritePacket(packet, ok)
       /\ handler' = IF ok THEN "poll" ELSE "exit"
  /\ packet' = NoPacket
  /\ UNCHANGED <<streams, stream, loop, client>>

(* Mutant of ClosePending: the stream stays in the map. *)
CloseQueueOnly(s, l) ==
  /\ handler \in {"poll", "final"}
  /\ loop[s][l] = "pend"
  /\ stream' = [stream EXCEPT ![s].queueClosed = @ \/ s \in streams]
  /\ loop' = [loop EXCEPT ![s][l] = AfterClose(l)]
  /\ UNCHANGED <<wire, run, client>>

(* closePending: the loop of a stream waits on closeCh, and goes on. *)
ClosePending(s, l) ==
  /\ handler \in {"poll", "final"}
  /\ loop[s][l] = "pend"
  /\ streams' = streams \ {s}
  /\ stream' = [stream EXCEPT ![s].queueClosed = @ \/ s \in streams]
  /\ loop' = [loop EXCEPT ![s][l] = AfterClose(l)]
  /\ UNCHANGED <<wire, handler, packet, client>>

NothingPending ==
  /\ handler \in {"poll", "final"}
  /\ Pending = {}
  /\ handler' = IF handler = "poll" THEN "read" ELSE "sweep"
  /\ UNCHANGED <<wire, packet, streams, stream, loop, client>>

(* handleConnect: the peer is dialed, or the client is told that it is not. *)
HandleConnect(s) ==
  \/ /\ streams' = streams \cup {s}
     /\ stream' = [stream EXCEPT ![s].conn = "open"]
     /\ loop' = [loop EXCEPT ![s] =
          [l \in Loop |-> IF l = "peerRead" THEN "read" ELSE "recv"]]
     /\ handler' = "poll"
     /\ UNCHANGED packet
  \/ /\ handler' = "reply"
     /\ packet' = Frame("close", s, 0)
     /\ UNCHANGED <<streams, stream, loop>>

HandleData(f) ==
  /\ IF f.id \in streams
     THEN handler' = "push" /\ packet' = f
     ELSE handler' = "poll" /\ UNCHANGED packet
  /\ UNCHANGED <<streams, stream, loop>>

(* handleClose, as far as the swap of cleanup: the stream stays in the map. *)
HandleClose(f) ==
  /\ IF f.id \in streams /\ ~stream[f.id].closed
     THEN /\ handler' = "shut" /\ packet' = f
          /\ stream' = [stream EXCEPT ![f.id].closed = TRUE]
     ELSE handler' = "poll" /\ UNCHANGED <<packet, stream>>
  /\ UNCHANGED <<streams, loop>>

HandleOther ==
  /\ handler' = "reject"
  /\ packet' = Frame("close", Everyone, 0)
  /\ UNCHANGED <<streams, stream, loop>>

ReadMessage ==
  /\ handler = "read"
  /\ up # <<>>
  /\ up' = Tail(up)
  /\ LET f == Head(up)
     IN \/ f.type = "connect" /\ HandleConnect(f.id)
        \/ f.type = "data" /\ HandleData(f)
        \/ f.type = "close" /\ HandleClose(f)
        \/ f.type = "other" /\ HandleOther
  /\ UNCHANGED <<down, ws, client>>

ReadError ==
  /\ handler = "read"
  /\ ws # "open"
  /\ handler' = "final"
  /\ UNCHANGED <<wire, packet, streams, stream, loop, client>>

Reply ==
  /\ handler \in {"reply", "reject"}
  /\ \E ok \in BOOLEAN : WritePacket(packet, ok)
  /\ handler' = IF handler = "reply" THEN "poll" ELSE "exit"
  /\ packet' = NoPacket
  /\ UNCHANGED <<streams, stream, loop, client>>

(* writeQueue holds one packet; a send on a closed channel panics. *)
PushData ==
  /\ handler = "push"
  /\ IF stream[packet.id].queueClosed
     THEN handler' = "panic" /\ UNCHANGED stream
     ELSE /\ stream[packet.id].queue = <<>>
          /\ stream' = [stream EXCEPT ![packet.id].queue = <<packet.n>>]
          /\ handler' = "poll"
  /\ packet' = NoPacket
  /\ UNCHANGED <<wire, streams, loop, client>>

(* Mutant of Sweep: the map is dropped without a cleanup. *)
ForgetStream(s) ==
  /\ handler = "sweep"
  /\ s \in streams
  /\ streams' = streams \ {s}
  /\ UNCHANGED <<wire, handler, packet, stream, loop, client>>

(* The end of run() after a read error: cleanup of what is left in the map. *)
Sweep(s) ==
  /\ handler = "sweep"
  /\ s \in streams
  /\ streams' = streams \ {s}
  /\ stream' = [stream EXCEPT ![s].closed = TRUE]
  /\ IF stream[s].closed
     THEN UNCHANGED <<handler, packet>>
     ELSE handler' = "sweepShut" /\ packet' = Frame("close", s, 0)
  /\ UNCHANGED <<wire, loop, client>>

(* conn.Close of the handler's own cleanup. *)
ShutByHandler ==
  /\ handler \in {"shut", "sweepShut"}
  /\ stream' = [stream EXCEPT ![packet.id].conn = "closed"]
  /\ handler' = IF handler = "shut" THEN "poll" ELSE "sweep"
  /\ packet' = NoPacket
  /\ UNCHANGED <<wire, streams, loop, client>>

(* run() returns; its context is done and the WebSocket closed. *)
Exit ==
  /\ handler = "exit" \/ (handler = "sweep" /\ streams = {})
  /\ handler' = "done"
  /\ ws' = IF ws = "open" THEN "broken" ELSE ws
  /\ UNCHANGED <<up, down, packet, streams, stream, loop, client>>

Handler ==
  \/ SendInitialContinue
  \/ \E s \in Stream, l \in Loop : ClosePending(s, l)
  \/ NothingPending
  \/ ReadMessage
  \/ ReadError
  \/ Reply
  \/ PushData
  \/ \E s \in Stream : Sweep(s)
  \/ ShutByHandler
  \/ Exit
-----------------------------------------------------------------------------
(* A step of loop l that stays within the stream, which becomes t. *)
Local(s, l, at, t) ==
  /\ stream' = [stream EXCEPT ![s] = t]
  /\ loop' = [loop EXCEPT ![s][l] = at]
  /\ UNCHANGED <<wire, run, client>>

(* peerReadLoop: conn.Read fills a buffer. *)
PeerSends(s) ==
  /\ loop[s]["peerRead"] = "read"
  /\ stream[s].conn = "open"
  /\ stream[s].received < MaxReads
  /\ LET n == stream[s].received + 1
     IN Local(s, "peerRead", "send",
              [stream[s] EXCEPT !.received = n, !.buf[stream[s].filling] = n])

(* conn.Read fails, or the peer has ended: readQueue is closed. *)
PeerEnds(s) ==
  /\ loop[s]["peerRead"] = "read"
  /\ Local(s, "peerRead", "swap", stream[s])

(* Both loops are at readQueue, which has no capacity, and go on. *)
HandOver(s, t) ==
  /\ loop[s]["peerRead"] = "send" /\ loop[s]["clientRead"] = "recv"
  /\ stream' = [stream EXCEPT ![s] = t]
  /\ loop' = [loop EXCEPT ![s]["peerRead"] = "read", ![s]["clientRead"] = "copy"]
  /\ UNCHANGED <<wire, run, client>>

(* Mutant of Lend: peerRead goes on with the same buffer. *)
LendTheOnly(s) == HandOver(s, [stream[s] EXCEPT !.lent = @])

(* peerRead lends the buffer it has filled, and goes on with the other one. *)
Lend(s) ==
  HandOver(s, [stream[s] EXCEPT !.lent = stream[s].filling,
                                !.filling = 3 - stream[s].filling])

(* clientReadLoop: NewDataPacket keeps the lent buffer, SerializePacket
   copies it before the lock of the WebSocket.                             *)
CopyData(s) ==
  /\ loop[s]["clientRead"] = "copy"
  /\ Local(s, "clientRead", "write",
           [stream[s] EXCEPT !.hand = stream[s].buf[stream[s].lent]])

WriteToClient(s) ==
  /\ loop[s]["clientRead"] = "write"
  /\ \E ok \in BOOLEAN :
       /\ WritePacket(Frame("data", s, stream[s].hand), ok)
       /\ stream' = [stream EXCEPT ![s].delivered = IF ok THEN @ + 1 ELSE @]
       /\ loop' = [loop EXCEPT ![s]["clientRead"] = IF ok THEN "recv" ELSE "swap"]
  /\ UNCHANGED <<run, client>>

ReadQueueEnds(s) ==
  /\ loop[s]["clientRead"] = "recv"
  /\ loop[s]["peerRead"] \notin {"read", "send"}
  /\ Local(s, "clientRead", "end", stream[s])

(* peerWriteLoop *)
TakeData(s) ==
  /\ loop[s]["peerWrite"] = "recv"
  /\ stream[s].queue # <<>>
  /\ Local(s, "peerWrite", "write",
           [stream[s] EXCEPT !.queue = <<>>, !.taken = Head(stream[s].queue)])

WriteQueueEnds(s) ==
  /\ loop[s]["peerWrite"] = "recv"
  /\ handler = "done" \/ (stream[s].queue = <<>> /\ stream[s].queueClosed)
  /\ Local(s, "peerWrite", "end", stream[s])

PeerTakes(s) ==
  /\ loop[s]["peerWrite"] = "write"
  /\ stream[s].conn = "open"
  /\ LET n == stream[s].counter + 1
     IN Local(s, "peerWrite", IF n > WriteQueueLen \div 2 THEN "credit" ELSE "recv",
              [stream[s] EXCEPT !.written = @ + 1, !.counter = n])

PeerRefuses(s) ==
  /\ loop[s]["peerWrite"] = "write"
  /\ Local(s, "peerWrite", "swap", stream[s])

GiveCredit(s) ==
  /\ loop[s]["peerWrite"] = "credit"
  /\ \E ok \in BOOLEAN : WritePacket(Frame("continue", s, WriteQueueLen), ok)
  /\ stream' = [stream EXCEPT ![s].counter = 0]
  /\ loop' = [loop EXCEPT ![s]["peerWrite"] = "recv"]
  /\ UNCHANGED <<run, client>>

(* Mutant of Swap: nobody looks who was first. *)
SwapBlindly(s, l) ==
  /\ loop[s][l] = "swap"
  /\ Local(s, l, "frame", [stream[s] EXCEPT !.closed = TRUE])

(* close(reason) of a loop: the swap, the CLOSE frame, conn.Close; the send on
   closeCh is ClosePending of the handler.                                 *)
Swap(s, l) ==
  /\ loop[s][l] = "swap"
  /\ Local(s, l, IF stream[s].closed THEN AfterClose(l) ELSE "frame",
           [stream[s] EXCEPT !.closed = TRUE])

(* Mutant of CloseFrame: the first error ends the close. *)
CloseFrameOrGiveUp(s, l) ==
  /\ loop[s][l] = "frame"
  /\ \E ok \in BOOLEAN :
       /\ WritePacket(Frame("close", s, 0), ok)
       /\ loop' = [loop EXCEPT ![s][l] = IF ok THEN "shut" ELSE AfterClose(l)]
  /\ UNCHANGED <<run, stream, client>>

CloseFrame(s, l) ==
  /\ loop[s][l] = "frame"
  /\ \E ok \in BOOLEAN : WritePacket(Frame("close", s, 0), ok)
  /\ loop' = [loop EXCEPT ![s][l] = "shut"]
  /\ UNCHANGED <<run, stream, client>>

Shut(s, l) ==
  /\ loop[s][l] = "shut"
  /\ Local(s, l, "pend", [stream[s] EXCEPT !.conn = "closed"])

CloseStep(s, l) == Swap(s, l) \/ CloseFrame(s, l) \/ Shut(s, l)
PeerReadLoop(s) == CloseStep(s, "peerRead")
ClientReadLoop(s) ==
  \/ Lend(s) \/ CopyData(s) \/ WriteToClient(s) \/ ReadQueueEnds(s)
  \/ CloseStep(s, "clientRead")
PeerWriteLoop(s) ==
  \/ TakeData(s) \/ WriteQueueEnds(s) \/ PeerTakes(s) \/ PeerRefuses(s) \/ GiveCredit(s)
  \/ CloseStep(s, "peerWrite")
-----------------------------------------------------------------------------
(* The client and the network.  A client may still write to a stream it, or
   the server, has closed.                                                 *)
ClientSends(f) ==
  /\ ws = "open"
  /\ Len(up) < WireCap
  /\ client.frames < MaxFrames
  /\ up' = Append(up, f)
  /\ client' = [frames |-> client.frames + 1,
                data |-> IF f.type = "data"
                         THEN [client.data EXCEPT ![f.id] = f.n] ELSE client.data,
                known |-> IF f.type = "connect"
                          THEN client.known \cup {f.id} ELSE client.known]
  /\ UNCHANGED <<down, ws, run, stream, loop>>

ClientConnects(s) == s \notin client.known /\ ClientSends(Frame("connect", s, 0))
ClientWrites(s) == s \in client.known /\ ClientSends(Frame("data", s, client.data[s] + 1))
ClientCloses(s) == s \in client.known /\ ClientSends(Frame("close", s, 0))
ClientSendsOther == ClientSends(Frame("other", Everyone, 0))

ClientReceives ==
  /\ ws = "open"
  /\ down # <<>>
  /\ down' = Tail(down)
  /\ UNCHANGED <<up, ws, run, stream, loop, client>>

Cut ==
  /\ ws = "open"
  /\ ws' = "broken"
  /\ UNCHANGED <<up, down, run, stream, loop, client>>

Network ==
  \/ \E s \in Stream : ClientConnects(s) \/ ClientWrites(s) \/ ClientCloses(s)
  \/ ClientSendsOther
  \/ ClientReceives
  \/ Cut
-----------------------------------------------------------------------------
Next ==
  \/ Handler
  \/ \E s \in Stream :
       \/ PeerReadLoop(s) \/ ClientReadLoop(s) \/ PeerWriteLoop(s)
       \/ PeerSends(s) \/ PeerEnds(s)
  \/ Network

Spec == Init /\ [][Next]_vars

(* Goroutines are scheduled, a client reads what it is sent, a peer takes or
   refuses what it is sent, and a Read of a closed connection returns.  A
   writer cannot starve: the frames are bounded.                           *)
Fairness ==
  /\ WF_vars(Handler)
  /\ \A s \in Stream :
       /\ WF_vars(PeerReadLoop(s))
       /\ WF_vars(ClientReadLoop(s))
       /\ WF_vars(PeerWriteLoop(s))
       /\ WF_vars(PeerEnds(s) /\ stream[s].conn = "closed")
  /\ WF_vars(ClientReceives)

FairSpec == Spec /\ Fairness
-----------------------------------------------------------------------------
Packet ==
  [type : {"none", "connect", "data", "continue", "close", "other"},
   id : Stream \cup {Everyone}, n : Nat]

ServerStream ==
  [closed : BOOLEAN, conn : {"none", "open", "closed"},
   queue : Seq(Nat), queueClosed : BOOLEAN,
   buf : [{1, 2} -> Nat], filling : {1, 2}, lent : {1, 2}, hand : Nat, taken : Nat,
   counter : Nat, received : Nat, delivered : Nat, written : Nat]

(* The types of the variables; the two channels of the code with a capacity,
   a WebSocket and writeQueue, never hold more than that.                  *)
TypeOK ==
  /\ up \in Seq(Packet) /\ down \in Seq(Packet)
  /\ Len(up) <= WireCap /\ Len(down) <= WireCap
  /\ ws \in {"open", "broken", "failed"}
  /\ handler \in {"init", "poll", "read", "reply", "reject", "push", "shut",
                  "final", "sweep", "sweepShut", "exit", "done", "panic"}
  /\ packet \in Packet
  /\ streams \subseteq Stream
  /\ stream \in [Stream -> ServerStream]
  /\ \A s \in Stream : Len(stream[s].queue) <= 1
  /\ loop \in [Stream -> [Loop -> At]]
  /\ client \in [frames : Nat, data : [Stream -> Nat], known : SUBSET Stream]

(* handleData never sends on a writeQueue that closePending has closed, which
   would panic: "SAFETY: writeQueue is closed before the stream is removed
   from the map" (server.go:267) relies on both being of one goroutine.    *)
NeverSendsOnClosed == handler # "panic"

(* The goroutines that have won the swap of cleanup and are not done yet. *)
Closers(s) ==
  {l \in Loop : loop[s][l] \in {"frame", "shut", "pend"}}
    \cup IF handler \in {"shut", "sweepShut"} /\ packet.id = s THEN {"handler"} ELSE {}

(* However many goroutines find out that a stream is over, one of them closes
   it, and only a stream that nobody else is closing.                      *)
ClosedOnce ==
  \A s \in Stream :
    /\ Cardinality(Closers(s)) <= 1
    /\ Closers(s) # {} => stream[s].closed

(* A connection to a peer is closed, or is in the map, or somebody is about to
   close it: taking a stream out of the map never leaks its connection.    *)
NoOrphans ==
  \A s \in Stream :
    stream[s].conn = "open" => s \in streams \/ Closers(s) # {}

(* What goes out is what came in, without gaps and in order, in both
   directions: peerRead never fills a buffer that clientRead still needs.  *)
InOrder ==
  [][\A s \in Stream :
       /\ stream'[s].delivered # stream[s].delivered
            => stream[s].hand = stream'[s].delivered
       /\ stream'[s].written # stream[s].written
            => stream[s].taken = stream'[s].written]_vars

(* A handler that ends because the WebSocket does leaves no connection to a
   peer open, whichever goroutine has to close it.                         *)
ConnsClosed == (handler = "final") ~> \A s \in Stream : stream[s].conn # "open"

(* The comment at server.go:165-168: closeCh is never closed, "So let's just
   let it be garbage collected."  Nobody waits on it once its reader is gone. *)
CloseChCollected == handler \in {"exit", "done"} => Pending = {}

(* handleData gets rid of its packet, unless the WebSocket breaks, provided that
   the peers take or refuse what they are sent.  The comment in clientReadLoop
   states the rule: "Can't exit until readQueue is closed, otherwise
   peerReadLoop may block."                                                *)
HandlerGoesOn == (handler = "push") ~> (handler # "push" \/ ws # "open")
=============================================================================
