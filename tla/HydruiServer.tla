------------------------------ MODULE HydruiServer ------------------------------
(***************************************************************************)
(* The server program: the manager of internal/server/manager.go, its two  *)
(* front ends (cmd/hydrui-server/cli.go and win32_ui.go), and the requests *)
(* of clients, which a shutdown waits for.                                 *)
(*                                                                         *)
(* The goroutine of NewManager takes commands; each Configure makes three  *)
(* http.Servers (External for HTTP and HTTPS, Internal) that goroutines of *)
(* their own Serve.  Both channels are unbuffered: a send is a rendezvous. *)
(*                                                                         *)
(* Abstractions.  A configuration is the set of its listeners; all of a    *)
(* run have the same addresses.  A generation is a Configure that has been *)
(* taken.  A request is a connection and its answer: which handler gives   *)
(* it; TLS, paths, headers, bodies and what Hydrus answers are left out.   *)
(***************************************************************************)
EXTENDS Integers, FiniteSets

CONSTANTS
  Listeners,   \* the listeners of the configuration
  FrontEnds,   \* which front ends are looked at: "cli", "gui"
  Request,     \* the requests of clients
  MaxCommands  \* bound: commands a front end sends, the first and the last too

Kind == {"http", "https", "internal"}

ASSUME ServerAssumption ==
  /\ Listeners \subseteq Kind
  /\ FrontEnds \subseteq {"cli", "gui"}
  /\ MaxCommands \in Nat \ {0, 1}

VARIABLES
  front,    \* the goroutine that gives commands
  signal,   \* SIGINT or SIGTERM has come: the context is done
  manager,  \* the goroutine of NewManager
  saved,    \* httpServer, httpsServer, internalServer: a generation, 0 for nil
  server,   \* of a generation: which servers shut down, which goroutines serve
  bound,    \* the generation whose listener has an address, 0 for none
  closed,   \* statusCh is closed
  crashed,  \* the program has panicked
  request   \* where a request is

channels == <<closed, crashed>>
serverVars == <<front, signal, manager, saved, server, bound, channels, request>>

Gen == 1..MaxCommands
NoServers ==
  [down |-> {}, serve |-> [k \in Kind |-> "no"]]

ServerInit ==
  /\ \E f \in FrontEnds : front = [kind |-> f, at |-> "configure", sent |-> 0]
  /\ signal = FALSE
  /\ manager = [at |-> "recv", cmd |-> "none", gen |-> 0, todo |-> {}, failed |-> FALSE]
  /\ saved = [k \in Kind |-> 0]
  /\ server = [g \in Gen |-> NoServers]
  /\ bound = [k \in Kind |-> 0]
  /\ closed = FALSE /\ crashed = FALSE
  /\ request = [r \in Request |-> [at |-> "none", port |-> "none",
                                   by |-> "none", gen |-> 0, answer |-> "none"]]

(* A request of this server is under way. *)
Active(g, k) == \E r \in Request : request[r].at = "active" /\ request[r].gen = g /\ request[r].by = k

(* Who takes a status message: the loop of the CLI, the goroutine of the
   GUI, or Close, which drains the channel.                                *)
Receiving == front.kind = "gui" \/ front.at \in {"loop", "drain"}
-----------------------------------------------------------------------------
(* The front ends. *)

Commands == IF front.kind = "gui" THEN {"configure", "stop"} ELSE {}

(* Clicks of the GUI; the CLI configures once. *)
UserCommand(c) ==
  /\ front.at = "loop" /\ c \in Commands
  /\ front.sent + 2 < MaxCommands
  /\ front' = [front EXCEPT !.at = c]
  /\ UNCHANGED <<signal, manager, saved, server, bound, channels, request>>

Interrupt ==
  /\ front.kind = "cli" /\ ~signal
  /\ signal' = TRUE
  /\ UNCHANGED <<front, manager, saved, server, bound, channels, request>>

(* The loop of the CLI ends, or someone quits the GUI: Close. *)
CloseCalled ==
  /\ front.at = "loop"
  /\ front.kind = "cli" => signal
  /\ front' = [front EXCEPT !.at = "close"]
  /\ UNCHANGED <<signal, manager, saved, server, bound, channels, request>>

(* The send on commandCh and its receiver; Close goes on to close commandCh
   and to drain statusCh.                                                  *)
Command ==
  /\ front.at \in {"configure", "stop", "close"}
  /\ manager.at = "recv"
  /\ front' = [front EXCEPT !.sent = @ + 1, !.at = IF @ = "close" THEN "drain" ELSE "loop"]
  /\ manager' = [manager EXCEPT !.at = "shutdown", !.cmd = front.at, !.failed = FALSE,
                   !.todo = {k \in Kind : saved[k] # 0}]
  /\ UNCHANGED <<signal, saved, server, bound, channels, request>>

(* commandCh is closed: the last shutdown. *)
CommandsEnd ==
  /\ front.at = "drain" /\ manager.at = "recv"
  /\ manager' = [manager EXCEPT !.at = "shutdown", !.cmd = "end", !.failed = FALSE,
                   !.todo = {k \in Kind : saved[k] # 0}]
  /\ UNCHANGED <<front, signal, saved, server, bound, channels, request>>

(* Close returns, or the goroutine of the GUI exits, when statusCh is closed. *)
ProgramExits ==
  /\ front.at = "drain" /\ closed
  /\ front' = [front EXCEPT !.at = "exit"]
  /\ UNCHANGED <<signal, manager, saved, server, bound, channels, request>>
-----------------------------------------------------------------------------
(* shutdownServer. *)

(* Which server the branch of k shuts down: manager.go says httpServer twice. *)
Target(k) == IF k = "https" THEN "http" ELSE k

(* What a server of startServer serves: the HTTPS server, too, is given the
   HTTP listener.                                                          *)
ListenerOf(k) == IF k = "internal" THEN "internal" ELSE "http"

(* Mutant of ShutdownBegins: the server is not marked. *)
ShutdownUnmarked(k) ==
  LET t == Target(k) IN
  /\ manager.at = "shutdown" /\ k \in manager.todo
  /\ manager' = [manager EXCEPT !.todo = @ \ {k}]
  /\ bound' = [bound EXCEPT ![t] = 0]
  /\ UNCHANGED <<front, signal, saved, server, channels, request>>

(* One goroutine of the group: the server is marked, and the listener it
   serves is closed; one it has not come to serve is not known to it.      *)
ShutdownBegins(k) ==
  LET t == Target(k)  g == saved[t]  l == ListenerOf(t) IN
  /\ manager.at = "shutdown" /\ k \in manager.todo
  /\ IF g = 0 THEN crashed' = TRUE /\ UNCHANGED <<manager, server, bound>>
     ELSE /\ manager' = [manager EXCEPT !.todo = @ \ {k}]
          /\ server' = [server EXCEPT ![g].down = @ \cup {t}]
          /\ bound' = IF server[g].serve[t] = "serving" /\ bound[l] = g
                      THEN [bound EXCEPT ![l] = 0] ELSE bound
          /\ UNCHANGED crashed
  /\ UNCHANGED <<front, signal, saved, closed, request>>

(* Mutant of ShutdownEnds: statusCh is closed when the commands end. *)
ShutdownLeaves ==
  /\ manager.at = "shutdown"
  /\ saved' = [k \in Kind |-> 0]
  /\ closed' = (manager.cmd = "end")
  /\ manager' = [manager EXCEPT !.todo = {},
       !.at = CASE manager.cmd = "configure" -> "listen" [] manager.cmd = "end" -> "end"
                [] OTHER -> "recv"]
  /\ UNCHANGED <<front, signal, server, bound, crashed, request>>

Busy == \E k \in Kind : saved[k] # 0 /\ Active(saved[k], k)

(* group.Wait: without an error the servers are forgotten; requests under way
   fail it, at once when the context is done, else after ten seconds.       *)
ShutdownEnds ==
  /\ manager.at = "shutdown" /\ manager.todo = {}
  /\ saved' = IF Busy THEN saved ELSE [k \in Kind |-> 0]
  /\ closed' = (manager.cmd = "end" /\ ~Busy)
  /\ manager' = [manager EXCEPT !.failed = Busy,
       !.at = CASE manager.cmd = "configure" -> "listen" [] manager.cmd = "end" -> "end"
                [] OTHER -> "recv"]
  /\ UNCHANGED <<front, signal, server, bound, crashed, request>>
-----------------------------------------------------------------------------
(* startServer. *)

Order(k) == CASE k = "http" -> 1 [] k = "https" -> 2 [] k = "internal" -> 3

(* newListener for each listener in turn: one that fails leaves those before
   it open until they are collected.  An address in use always fails.      *)
Listen ==
  LET g == manager.gen + 1
      inUse == {k \in Listeners : bound[k] # 0} IN
  /\ manager.at = "listen"
  /\ \E bad \in SUBSET Listeners :
       /\ inUse \subseteq bad
       /\ LET opened == {k \in Listeners : \A b \in bad : Order(k) < Order(b)} IN
            bound' = [k \in Kind |-> IF k \in opened THEN g ELSE bound[k]]
       /\ IF bad = {} /\ Listeners \cap {"http", "https"} # {}
          THEN /\ saved' = [k \in Kind |-> IF k \in Listeners THEN g ELSE 0]
               /\ manager' = [manager EXCEPT !.at = "started", !.gen = g]
          ELSE /\ manager' = [manager EXCEPT !.at = "error", !.gen = g]
               /\ UNCHANGED saved
  /\ UNCHANGED <<front, signal, server, channels, request>>

(* Mutant of Notify: Close does not drain the channel. *)
NotifyLate ==
  /\ manager.at \in {"started", "error"} /\ Receiving
  /\ front.at = "loop"
  /\ manager' = [manager EXCEPT !.at = "recv"]
  /\ server' = IF manager.at = "error" THEN server
               ELSE [server EXCEPT ![manager.gen].serve =
                       [k \in Kind |-> IF k \in Listeners THEN "launch" ELSE "no"]]
  /\ UNCHANGED <<front, signal, saved, bound, channels, request>>

(* StatusStarted or StatusError is received; the goroutines are started. *)
Notify ==
  /\ manager.at \in {"started", "error"} /\ Receiving
  /\ manager' = [manager EXCEPT !.at = "recv"]
  /\ server' = IF manager.at = "error" THEN server
               ELSE [server EXCEPT ![manager.gen].serve =
                       [k \in Kind |-> IF k \in Listeners THEN "launch" ELSE "no"]]
  /\ UNCHANGED <<front, signal, saved, bound, channels, request>>

(* A listener that nobody refers to is closed by the garbage collector. *)
Collect(k) ==
  LET g == bound[k] IN
  /\ g # 0 /\ manager.at # "started"
  /\ \A j \in Kind : server[g].serve[j] \notin {"launch", "serving"}
  /\ bound' = [bound EXCEPT ![k] = 0]
  /\ UNCHANGED <<front, signal, manager, saved, server, channels, request>>

(* Serve: without a listener it panics; a server that has been shut down
   before returns at once and closes the listener.                         *)
ServeBegins(g, k) ==
  LET l == ListenerOf(k) IN
  /\ server[g].serve[k] = "launch"
  /\ IF l \notin Listeners
     THEN crashed' = TRUE /\ UNCHANGED <<server, bound>>
     ELSE LET late == k \in server[g].down IN
       /\ server' = [server EXCEPT ![g].serve[k] = IF late THEN "end" ELSE "serving"]
       /\ bound' = IF late /\ bound[l] = g THEN [bound EXCEPT ![l] = 0] ELSE bound
       /\ UNCHANGED crashed
  /\ UNCHANGED <<front, signal, manager, saved, closed, request>>

(* What Serve returns: ErrServerClosed for a server that is shut down, else
   an error to report.                                                     *)
Returned(g, k) == IF k \in server[g].down THEN "end" ELSE "report"

(* Accept fails because the listener has been closed. *)
ServeEnds(g, k) ==
  /\ server[g].serve[k] = "serving" /\ bound[ListenerOf(k)] # g
  /\ server' = [server EXCEPT ![g].serve[k] = Returned(g, k)]
  /\ UNCHANGED <<front, signal, manager, saved, bound, channels, request>>

(* Accept fails for good with the listener open, and Serve, which returns,
   closes it.                                                              *)
ServeFails(g, k) ==
  /\ server[g].serve[k] = "serving" /\ bound[ListenerOf(k)] = g
  /\ server' = [server EXCEPT ![g].serve[k] = Returned(g, k)]
  /\ bound' = [bound EXCEPT ![ListenerOf(k)] = 0]
  /\ UNCHANGED <<front, signal, manager, saved, channels, request>>

(* The send of StatusError, which panics when statusCh is closed. *)
Report(g, k) ==
  /\ server[g].serve[k] = "report"
  /\ Receiving \/ closed
  /\ crashed' = closed
  /\ server' = IF closed THEN server ELSE [server EXCEPT ![g].serve[k] = "end"]
  /\ UNCHANGED <<front, signal, manager, saved, bound, closed, request>>
-----------------------------------------------------------------------------
(* Requests. *)

Connect(r, port) ==
  /\ request[r].at = "none" /\ bound[port] # 0
  /\ request' = [request EXCEPT ![r].at = "waiting", ![r].port = port, ![r].gen = bound[port]]
  /\ UNCHANGED <<front, signal, manager, saved, server, bound, channels>>

(* A server takes a connection of its listener; one that waits in the
   backlog of a listener that is closed is lost.                           *)
Accept(r, g, k) ==
  /\ request[r].at = "waiting" /\ request[r].gen = g /\ request[r].port = ListenerOf(k)
  /\ server[g].serve[k] = "serving" /\ bound[request[r].port] = g
  /\ request' = [request EXCEPT ![r].at = "active", ![r].by = k]
  /\ UNCHANGED <<front, signal, manager, saved, server, bound, channels>>

Reset(r) ==
  /\ request[r].at = "waiting" /\ bound[request[r].port] # request[r].gen
  /\ request' = [request EXCEPT ![r].at = "done"]
  /\ UNCHANGED <<front, signal, manager, saved, server, bound, channels>>

(* The handlers: the HTTP server redirects when there is an HTTPS listener. *)
HandlerOf(k) ==
  CASE k = "internal" -> "internal"
    [] k = "http" /\ "https" \in Listeners -> "redirect"
    [] OTHER -> "external"

Respond(r) ==
  /\ request[r].at = "active"
  /\ request' = [request EXCEPT ![r].at = "done", ![r].answer = HandlerOf(request[r].by)]
  /\ UNCHANGED <<front, signal, manager, saved, server, bound, channels>>
-----------------------------------------------------------------------------
FrontEnd == (\E c \in Commands : UserCommand(c)) \/ Interrupt \/ CloseCalled \/ ProgramExits

Manager ==
  \/ Command \/ CommandsEnd \/ ShutdownEnds \/ Listen \/ Notify
  \/ \E k \in Kind : ShutdownBegins(k)

Serve == \E g \in Gen, k \in Kind : ServeBegins(g, k) \/ ServeEnds(g, k) \/ Report(g, k)

Clients ==
  \E r \in Request :
    \/ \E port \in Kind : Connect(r, port)
    \/ \E g \in Gen, k \in Kind : Accept(r, g, k)
    \/ Reset(r) \/ Respond(r)

(* What the system does to a listener: it fails, or is collected. *)
Listening ==
  \E k \in Kind : Collect(k) \/ \E g \in Gen : ServeFails(g, k)

ServerNext == ~crashed /\ (FrontEnd \/ Manager \/ Serve \/ Clients \/ Listening)

ServerSpec == ServerInit /\ [][ServerNext]_serverVars

(* Goroutines run; a signal, a click, the end of a request and the failure of
   a listener need not come.                                               *)
ServerFairSpec ==
  /\ ServerSpec
  /\ WF_serverVars(~crashed /\ Manager) /\ WF_serverVars(~crashed /\ Serve) /\ WF_serverVars(~crashed /\ ProgramExits)
  /\ WF_serverVars(front.kind = "cli" /\ ~crashed /\ CloseCalled)
-----------------------------------------------------------------------------
(* The variables have their types. *)
ServerTypeOK ==
  /\ front \in [kind : FrontEnds, sent : 0..MaxCommands,
                at : {"configure", "stop", "close", "loop", "drain", "exit"}]
  /\ manager \in [at : {"recv", "shutdown", "listen", "started", "error", "end"}, failed : BOOLEAN,
                  cmd : {"none", "configure", "stop", "close", "end"},
                  gen : 0..MaxCommands, todo : SUBSET Kind]
  /\ saved \in [Kind -> 0..MaxCommands] /\ bound \in [Kind -> 0..MaxCommands]
  /\ server \in [Gen -> [down : SUBSET Kind,
                         serve : [Kind -> {"no", "launch", "serving", "report", "end"}]]]
  /\ signal \in BOOLEAN /\ closed \in BOOLEAN /\ crashed \in BOOLEAN
  /\ request \in [Request -> [at : {"none", "waiting", "active", "done"},
                             port : Kind \cup {"none"}, by : Kind \cup {"none"},
                             gen : 0..MaxCommands,
                             answer : {"none", "internal", "redirect", "external"}]]

(* The server that the manager would shut down is the one that has the
   address: nobody serves on for a configuration that has been replaced.   *)
SavedServes ==
  \A g \in Gen, k \in Listeners :
    /\ server[g].serve[k] \in {"launch", "serving"} /\ k \notin server[g].down
    => saved[k] = g /\ bound[ListenerOf(k)] = g

(* The goroutines that have an error to send on statusCh. *)
Reporting == {x \in Gen \X Kind : server[x[1]].serve[x[2]] = "report"}

(* Nobody comes to have something to send once statusCh has been closed
   (manager.go:193-195), and the only panic is that of a Serve that had
   failed by itself and found nobody to take its error before that.        *)
OnlyPastFailuresPanic ==
  [][/\ closed => Reporting' \subseteq Reporting
     /\ crashed' => closed /\ Reporting # {}]_serverVars

(* Not so, and no run checks it: the program does not panic.  A Serve that
   has failed by itself may come to send its error when the manager has shut
   everything down and closed statusCh.                                    *)
NoPanic == ~crashed

(* Close returns and the program exits.  It does not when the manager waits
   to report to a CLI that has left its loop, when the last shutdown fails
   because a request is under way, nor when the error of a Serve that has
   failed comes too late.                                                  *)
CloseReturns ==
  front.at = "close" ~>
    \/ front.at = "exit"
    \/ front.kind = "cli" /\ front.at = "close" /\ manager.at \in {"started", "error"}
    \/ manager.at = "end" /\ manager.failed
    \/ crashed /\ closed /\ Reporting # {}

(* manager.go:112, "HTTP -> HTTPS redirector, when using both HTTP and
   HTTPS": over plain HTTP the page itself is not served.                  *)
PlainIsRedirected ==
  "https" \in Listeners =>
    \A r \in Request : request[r].port = "http" => request[r].answer # "external"
=============================================================================
