---------------------------- MODULE AppLifecycle ----------------------------
(***************************************************************************)
(* The life of an app from createApp on: packages/server/src/index.ts      *)
(* 483-541.  The server of SocketServer is served by Bun, Ctrl+D in a      *)
(* terminal shuts it down and ends the process, and close() shuts it down  *)
(* on the application's behalf, as often as the application likes.         *)
(*                                                                         *)
(* Bun.serve and readline are external.  Of server.stop() the model        *)
(* assumes that nothing new is accepted from the call on, that its promise *)
(* resolves when no request is in flight and no socket is connected, and   *)
(* that stop(true) cuts both off.  It cannot stop the handlers: that of a  *)
(* request which was cut off runs on (cutOff), and so does that of a       *)
(* request over a socket when the socket closes (serving).                 *)
(***************************************************************************)
EXTENDS SocketServer

CONSTANTS
  HttpRequest,    \* requests over HTTP that take a while
  MaxCloses       \* bound: calls of close() the application makes

ASSUME ClosesAssumption == MaxCloses \in Nat

\* The calls of close() in the order they are made, and Ctrl+D.
Closer == 1..MaxCloses
CtrlD == 0
Caller == Closer \cup {CtrlD}

VARIABLES
  tty,        \* stdin is a terminal
  prompt,     \* the readline interface: "none", "open" or "closed"
  attached,   \* handleClose listens to its close event
  listening,  \* Bun accepts requests and connections
  inFlight,   \* requests over HTTP that wait for their answer
  cutOff,     \* requests over HTTP that were cut off, their handlers running
  handled,    \* requests over HTTP whose handlers have ended
  serving,    \* sockets a request of which is in its middleware chain
  shutdown,   \* how far each caller's shutdown is
  exited,     \* process.exit(0)
  first       \* history: who asked first

httpVars == <<inFlight, cutOff, handled>>
appVars == <<tty, prompt, attached, listening, httpVars, serving, shutdown,
             exited, first>>
allVars == <<vars, appVars>>

Phase == {"idle", "stopping", "hook", "done"}

\* Type correctness, of the sessions and sockets below as well (SocketServer).
\* Without a terminal there is no readline interface, whose close event, at the
\* end of a piped stdin, would end the process (index.ts 500-502).
AppTypeOK ==
  /\ TypeOK
  /\ tty \in BOOLEAN
  /\ prompt \in {"none", "open", "closed"}
  /\ attached \in BOOLEAN
  /\ tty <=> prompt # "none"
  /\ attached => tty
  /\ listening \in BOOLEAN
  /\ inFlight \subseteq HttpRequest
  /\ cutOff \subseteq HttpRequest
  /\ handled \subseteq HttpRequest
  /\ serving \subseteq Socket
  /\ shutdown \in [Caller -> Phase]
  /\ exited \in BOOLEAN
  /\ first \in {"none", "close", "ctrlD"}

\* Nothing was asked of the app yet.
Fresh ==
  /\ Init
  /\ listening = TRUE
  /\ inFlight = {}
  /\ cutOff = {}
  /\ handled = {}
  /\ serving = {}
  /\ shutdown = [c \in Caller |-> "idle"]
  /\ exited = FALSE
  /\ first = "none"

\* Definitions named Faulty... are plausible bugs that no action uses.
FaultyAppInit ==
  /\ Fresh
  /\ tty \in BOOLEAN
  /\ prompt = "open"
  /\ attached = TRUE

\* createApp has resolved: processIO has attached to a terminal if there is one.
AppInit ==
  /\ Fresh
  /\ tty \in BOOLEAN
  /\ prompt = IF tty THEN "open" ELSE "none"
  /\ attached = tty

-----------------------------------------------------------------------------
Connected == {s \in Socket : ws[s].status \in {"upgraded", "open", "closing"}}

\* server.stop(force): sockets that are cut off report their close later.
Cut(status) ==
  CASE status = "open" -> "closing" [] status = "upgraded" -> "closed"
    [] OTHER -> status

StopServer(force) ==
  /\ listening' = FALSE
  /\ IF force
     THEN /\ inFlight' = {}
          /\ cutOff' = cutOff \cup inFlight
          /\ ws' = [s \in Socket |-> [ws[s] EXCEPT !.status = Cut(@)]]
          /\ UNCHANGED <<handled, now, ticketing, registry, timers, heard>>
     ELSE UNCHANGED <<httpVars, vars>>

\* shutdown(force): await server.stop(force), then await onClose().
BeginShutdown(c, force) ==
  /\ shutdown' = [shutdown EXCEPT ![c] = "stopping"]
  /\ StopServer(force)

\* Ctrl+D closes the readline interface, and handleClose runs if it listens.
PressCtrlD ==
  /\ prompt = "open"
  /\ prompt' = "closed"
  /\ IF attached
     THEN /\ BeginShutdown(CtrlD, FALSE)
          /\ first' = IF first = "none" THEN "ctrlD" ELSE first
     ELSE UNCHANGED <<listening, httpVars, shutdown, first, vars>>
  /\ UNCHANGED <<tty, attached, serving, exited>>

NextCall(c) ==
  shutdown[c] = "idle" /\ \A d \in 1..(c - 1) : shutdown[d] # "idle"

FaultyCloseApp(c, force) ==
  /\ NextCall(c)
  /\ attached' = FALSE
  /\ prompt' = IF tty THEN "closed" ELSE prompt
  /\ shutdown' = [d \in Caller |->
                   IF d = c \/ (d = CtrlD /\ attached) THEN "stopping"
                                                      ELSE shutdown[d]]
  /\ StopServer(force)
  /\ first' = IF first = "none" THEN "close" ELSE first
  /\ UNCHANGED <<tty, serving, exited>>

(***************************************************************************)
(* close(force).  In a terminal the listener is removed before the         *)
(* interface is closed, which would call it.                               *)
(***************************************************************************)
CloseApp(c, force) ==
  /\ NextCall(c)
  /\ attached' = FALSE
  /\ prompt' = IF tty THEN "closed" ELSE prompt
  /\ BeginShutdown(c, force)
  /\ first' = IF first = "none" THEN "close" ELSE first
  /\ UNCHANGED <<tty, serving, exited>>

FaultyStopped(c) ==
  /\ shutdown[c] = "stopping"
  /\ shutdown' = [shutdown EXCEPT ![c] = "hook"]
  /\ UNCHANGED <<tty, prompt, attached, listening, httpVars, serving, exited,
                 first, vars>>

\* stop's promise resolves, and onClose is called.
Stopped(c) ==
  /\ shutdown[c] = "stopping"
  /\ inFlight = {}
  /\ Connected = {}
  /\ shutdown' = [shutdown EXCEPT ![c] = "hook"]
  /\ UNCHANGED <<tty, prompt, attached, listening, httpVars, serving, exited,
                 first, vars>>

\* onClose resolves, and after Ctrl+D the process ends; or it rejects, and so
\* does close(), or nothing more happens.
HookEnds(c) ==
  /\ shutdown[c] = "hook"
  /\ shutdown' = [shutdown EXCEPT ![c] = "done"]
  /\ exited' \in {exited, c = CtrlD}
  /\ UNCHANGED <<tty, prompt, attached, listening, httpVars, serving, first,
                 vars>>

-----------------------------------------------------------------------------
\* Requests over HTTP, and those of /ws, are accepted while Bun listens.
Request(h) ==
  /\ listening
  /\ h \notin inFlight \cup cutOff \cup handled
  /\ inFlight' = inFlight \cup {h}
  /\ UNCHANGED <<tty, prompt, attached, listening, cutOff, handled, serving,
                 shutdown, exited, first, vars>>

\* The handler of a request ends; if it was cut off, nobody gets the answer.
EndHandler(h) ==
  /\ h \in inFlight \cup cutOff
  /\ inFlight' = inFlight \ {h}
  /\ cutOff' = cutOff \ {h}
  /\ handled' = handled \cup {h}
  /\ UNCHANGED <<tty, prompt, attached, listening, serving, shutdown, exited,
                 first>>

Answer(h) == EndHandler(h) /\ UNCHANGED vars

Endpoint == listening /\ Ticketing /\ UNCHANGED appVars

\* A handler that was in the application's middleware reaches its /ws endpoint
\* only now, perhaps after stop was called.  A request that was cut off cannot
\* be upgraded any more.
LateEndpoint(h) ==
  /\ EndHandler(h)
  /\ Ticketing
  /\ h \in cutOff => UNCHANGED ws

\* What goes on with the sockets that are there.
OnSocket(s) == SocketEvent(s) /\ UNCHANGED appVars

\* A message is a request whose chain takes a while: its handler waits for it.
ServeRequest(s) ==
  /\ Message(s)
  /\ serving' = serving \cup {s}
  /\ UNCHANGED <<tty, prompt, attached, listening, httpVars, shutdown, exited,
                 first>>

\* The last of these handlers of s ends, whatever became of s.  Its answer, if
\* anybody gets it, changes nothing here; and the /ws endpoints refuse what
\* comes over a socket, since it carries a clientId (socket.ts 146-227).
Served(s) ==
  /\ s \in serving
  /\ serving' = serving \ {s}
  /\ UNCHANGED <<tty, prompt, attached, listening, httpVars, shutdown, exited,
                 first, vars>>

Clock == Tick /\ UNCHANGED appVars

AppNext ==
  /\ ~exited
  /\ \/ PressCtrlD
     \/ \E c \in Closer, force \in BOOLEAN : CloseApp(c, force)
     \/ \E c \in Caller : Stopped(c) \/ HookEnds(c)
     \/ \E h \in HttpRequest : Request(h) \/ Answer(h) \/ LateEndpoint(h)
     \/ Endpoint
     \/ \E s \in Socket : OnSocket(s) \/ ServeRequest(s) \/ Served(s)
     \/ Clock

(***************************************************************************)
(* Fairness of the event loop: stop's promise is continued, an upgraded    *)
(* connection is opened, and timers and closes are as in SocketServer.     *)
(* The application may take any time over its answers and its onClose, and *)
(* a peer may talk or be silent as it likes.                               *)
(***************************************************************************)
AppFairness ==
  /\ \A c \in Caller : WF_allVars(~exited /\ Stopped(c))
  /\ WF_allVars(~exited /\ Clock)
  /\ \A s \in Socket :
       /\ WF_allVars(~exited /\ Open(s) /\ UNCHANGED appVars)
       /\ WF_allVars(~exited /\ ReaperFires(s) /\ UNCHANGED appVars)
       /\ WF_allVars(~exited /\ ServerClose(s) /\ UNCHANGED appVars)

AppSpec == AppInit /\ [][AppNext]_allVars /\ AppFairness

-----------------------------------------------------------------------------
\* An app that was closed by its application leaves the process alone:
\* close() takes the listener off before the interface it closes can call it,
\* so neither that nor a later Ctrl+D shuts down again or exits (index.ts
\* 509-521; "exited 0 and still reported passing", CHANGELOG.md 57).
ClosedAppStays ==
  first = "close" => shutdown[CtrlD] = "idle" /\ ~exited

\* onClose, where an application lets go of its database, is called when no
\* peer is left: nothing is accepted, no request waits for its answer, no
\* connection, session or reaper is left, and none of these comes back while
\* other shutdowns go on.  It does not wait for handlers: those of requests that
\* close(true) cut off, and those of sockets that closed or were reaped in the
\* middle of a request, may still run beside it; they are the only ones, so
\* whatever they do then, nobody is told (index.ts 495-498, with the close
\* callback, socket.ts 469-492, and the await of message, 518).
HookAfterPeers ==
  (\E c \in Caller : shutdown[c] \in {"hook", "done"}) =>
    /\ ~listening
    /\ inFlight = {}
    /\ Connected = {}
    /\ DOMAIN active = {}
    /\ timers = {}
    /\ \A s \in serving : ws[s].status = "closed"

\* An open socket that was heard so late that its reaper is due after the
\* bounded clock has stopped: the model's picture of a peer that keeps talking.
TalksOn(s) ==
  ws[s].status = "open" /\ heard[s] + DisconnectThreshold > MaxTime

\* Every shutdown gets to the end of onClose, however many are under way and
\* although the peers of open sockets may have vanished: the reapers close
\* what stop() waits for.  Three things can keep it from there: a request the
\* application never answers, an onClose that never ends, and a peer that stays
\* connected and keeps talking, since each of its messages, a heartbeat too,
\* re-arms its reaper.  After a close(true) neither the first nor the last is
\* possible (index.ts 495-521, socket.ts 421-431, 500).
ShutdownEnds ==
  \A c \in Caller :
    \/ <>[](inFlight # {})
    \/ <>[](shutdown[c] = "hook")
    \/ <>[](\E s \in Socket : TalksOn(s))
    \/ shutdown[c] # "idle" ~> shutdown[c] = "done" \/ exited

\* A socket whose peer goes silent, at whatever time t it was last heard, is
\* closed and given up, also while the app shuts down (socket.ts 421-431).
SilentPeersReaped ==
  \A s \in Socket : \A t \in 1..(MaxTime - DisconnectThreshold) :
    ws[s].status = "open" /\ heard[s] = t
      ~> ws[s].status = "closed" \/ heard[s] > t \/ exited
=============================================================================
