------------------------- MODULE AppLifecycleProofs -------------------------
(***************************************************************************)
(* Proofs about AppLifecycle, for any number of sockets, requests and      *)
(* callers of close().  What SocketServer guarantees of its own steps is   *)
(* taken from the proofs about it; stop(true) is a step it does not have.  *)
(***************************************************************************)
EXTENDS AppLifecycle, SocketServerProofs

USE DurationsAssumption, BoundsAssumption, NoneAssumption, ClosesAssumption

-----------------------------------------------------------------------------
(* Where sessions and reapers stand, as far as the callbacks know.         *)
ServerInv ==
    /\ TypeOK
    /\ SessionInv
    /\ \A s \in Socket : ReaperInv(s)

(* An app that was not asked anything, or was closed first, has not begun  *)
(* the shutdown of Ctrl+D; closed, it no longer listens for it.            *)
CtrlDAsked ==
    /\ first # "ctrlD" => shutdown[CtrlD] = "idle" /\ ~exited
    /\ first = "close" => ~attached

(* From the first shutdown on nothing is accepted.                         *)
StoppedListening ==
    (\E c \in Caller : shutdown[c] # "idle") => ~listening

(* Where onClose was called no request waits and no peer is connected, and *)
(* nothing would bring one.                                                *)
PeersGone ==
    (\E c \in Caller : shutdown[c] \in {"hook", "done"}) =>
        inFlight = {} /\ Connected = {}

(* Only a socket that opened gets a message, so only such a one is served. *)
Opened(status) == status \in {"open", "closing", "closed"}
ServedOpened == \A s \in serving : Opened(ws[s].status)

AppInv ==
    /\ ServerInv
    /\ AppTypeOK
    /\ CtrlDAsked
    /\ StoppedListening
    /\ PeersGone
    /\ ServedOpened

-----------------------------------------------------------------------------
(* The server's own steps keep what its proofs say they keep.              *)
LEMMA ServerStep ==
    ASSUME ServerInv, [Next]_vars
    PROVE  ServerInv'
<1>1. TypeOK'
  BY TypeStep DEF ServerInv
<1>2. SessionInv'
  BY <1>1, SessionStep DEF ServerInv
<1>3. \A s \in Socket : ReaperInv(s)'
  BY ReaperStep DEF ServerInv
<1> QED BY <1>1, <1>2, <1>3 DEF ServerInv

(* A socket that opened stays opened or closes.                            *)
LEMMA OpenedStays ==
    ASSUME TypeOK, [Next]_vars, NEW s \in Socket, Opened(ws[s].status)
    PROVE  Opened(ws'[s].status)
<1> USE DEF Opened
<1>1. ASSUME NEW t, NEW x \in Socket, Upgrade(t, x)
      PROVE  Opened(ws'[s].status)
  BY <1>1 DEF Upgrade, TypeOK, SocketData
<1>2. ASSUME NEW x \in Socket, Open(x)
      PROVE  Opened(ws'[s].status)
  <2>1. /\ ws' = [[Superseded(ws[x].clientId) EXCEPT ![x].status = "open"]
                   EXCEPT ![x].reaperHandle = now + DisconnectThreshold]
        /\ x # s
    BY <1>2 DEF Open, ArmReaper
  <2>2. ws'[s] = Superseded(ws[x].clientId)[s]
    BY <2>1 DEF Superseded, TypeOK, SocketData
  <2>3. Superseded(ws[x].clientId)[s].status \in {ws[s].status, "closing"}
    BY DEF Superseded, Closing, TypeOK, SocketData, ActiveSession
  <2> QED BY <2>2, <2>3
<1>3. ASSUME NEW x \in Socket,
             \/ Message(x)
             \/ ReaperFires(x)
             \/ \E code \in CloseCode : Close(x, code)
      PROVE  Opened(ws'[s].status)
  BY <1>3 DEF Message, ArmReaper, ReaperFires, Close, Closing, TypeOK,
     SocketData
<1>4. CASE ws' = ws
  BY <1>4
<1>5. CASE Ticketing
  <2>1. \/ ws' = ws
        \/ \E t \in DOMAIN tickets, x \in Socket : Upgrade(t, x)
    BY <1>5 DEF Ticketing, CreateTicket, UpdateTicket, UpdateTicketTooLate,
       RefuseUpgrade, connections
  <2> QED BY <2>1, <1>1, <1>4
<1> QED BY <1>2, <1>3, <1>4, <1>5 DEF Next, SocketEvent, Tick, connections,
           vars

(* stop(true): connections change their ready state and nothing else.      *)
CutOff ==
    /\ ws' = [s \in Socket |-> [ws[s] EXCEPT !.status = Cut(@)]]
    /\ UNCHANGED <<now, ticketing, registry, timers, heard>>

(* Cut, without CASE.                                                      *)
LEMMA CutEffect ==
    ASSUME NEW status
    PROVE  Cut(status) = IF status = "open" THEN "closing"
                         ELSE IF status = "upgraded" THEN "closed" ELSE status
BY Zenon DEF Cut

(* A connection that was cut off reports its close later, or never opened. *)
LEMMA CutOffEffect ==
    ASSUME TypeOK, CutOff, NEW s \in Socket
    PROVE  /\ ws'[s] \in SocketData
           /\ ws'[s].clientId = ws[s].clientId
           /\ ws'[s].superseded = ws[s].superseded
           /\ ws'[s].reaped = ws[s].reaped
           /\ ws'[s].reaperHandle = ws[s].reaperHandle
           /\ ws'[s].status = IF ws[s].status = "open" THEN "closing"
                              ELSE IF ws[s].status = "upgraded" THEN "closed"
                              ELSE ws[s].status
<1>1. PICK status \in Status :
         status = IF ws[s].status = "open" THEN "closing"
                  ELSE IF ws[s].status = "upgraded" THEN "closed"
                  ELSE ws[s].status
  BY DEF TypeOK, SocketData, Status
<1>2. ws'[s] = [ws[s] EXCEPT !.status = status]
  BY <1>1, CutEffect DEF CutOff
<1> QED BY <1>1, <1>2 DEF TypeOK, SocketData

(* Cutting off the sockets that are left preserves ServerInv.              *)
LEMMA CutOffStep ==
    ASSUME ServerInv, CutOff
    PROVE  ServerInv'
<1> USE DEF ServerInv
<1>1. TypeOK'
  <2>1. ws' \in [Socket -> SocketData]
    BY CutOffEffect DEF CutOff
  <2>2. \A s \in Socket : ws'[s].status # "free" => ws'[s].clientId \in ClientId
    BY CutOffEffect DEF TypeOK
  <2> QED BY <2>1, <2>2 DEF CutOff, TypeOK, ticketing, registry
<1>2. SessionInv'
  <2>1. active' = active /\ inactive' = inactive
    BY DEF CutOff, registry
  <2>2. \A c \in DOMAIN active : active[c].ws \in Socket
    BY DEF TypeOK, ActiveSession
  <2>3. SessionSocket'
    BY <2>1, <2>2, CutOffEffect DEF SessionInv, SessionSocket
  <2>4. NoOrphan'
    BY <2>1, CutOffEffect DEF SessionInv, NoOrphan
  <2>5. OneRecord' /\ NotYetSuperseded'
    BY <2>1, CutOffEffect DEF SessionInv, OneRecord, NotYetSuperseded
  <2> QED BY <2>3, <2>4, <2>5 DEF SessionInv
<1>3. ASSUME NEW s \in Socket PROVE ReaperInv(s)'
  <2>1. ReaperInv(s) /\ timers' = timers /\ heard' = heard
    BY DEF CutOff
  <2>2. IsConnected(s)' <=> IsConnected(s)
    BY CutOffEffect DEF IsConnected
  <2>3. ws[s].reaped => ws'[s].status \in {"closing", "closed"}
    BY <2>1, CutOffEffect DEF ReaperInv
  <2> QED BY <2>1, <2>2, <2>3, CutOffEffect, ReaperFrame
<1> QED BY <1>1, <1>2, <1>3

(* Either way the connections are those that were there.                   *)
LEMMA StopServerStep ==
    ASSUME AppInv, NEW force \in BOOLEAN, StopServer(force)
    PROVE  /\ ServerInv'
           /\ listening' = FALSE
           /\ inFlight' \subseteq inFlight
           /\ cutOff' \subseteq HttpRequest
           /\ handled' = handled
           /\ Connected' \subseteq Connected
           /\ \A s \in Socket : Opened(ws[s].status) => Opened(ws'[s].status)
<1>1. CASE force
  <2>1. CutOff
    BY <1>1 DEF StopServer, CutOff
  <2>2. Connected' \subseteq Connected
    BY <2>1, CutOffEffect DEF Connected, AppInv, ServerInv
  <2>3. \A s \in Socket : Opened(ws[s].status) => Opened(ws'[s].status)
    BY <2>1, CutOffEffect DEF Opened, AppInv, ServerInv
  <2> QED BY <1>1, <2>1, <2>2, <2>3, CutOffStep
          DEF StopServer, AppInv, AppTypeOK
<1>2. CASE ~force
  <2>1. UNCHANGED vars
    BY <1>2 DEF StopServer
  <2>2. ServerInv'
    BY <2>1, ServerStep DEF AppInv
  <2>3. Connected' = Connected
    BY <2>1 DEF Connected, vars
  <2> QED BY <1>2, <2>1, <2>2, <2>3
          DEF StopServer, AppInv, AppTypeOK, httpVars, vars
<1> QED BY <1>1, <1>2

-----------------------------------------------------------------------------
(* The application starts in states of the invariant.                      *)
LEMMA InitEstablishesInv == AppInit => AppInv
<1> SUFFICES ASSUME AppInit PROVE AppInv
  OBVIOUS
<1>1. ServerInv
  BY InitTypes, InitSessions, InitReapers DEF AppInit, Fresh, ServerInv
<1>2. AppTypeOK
  BY <1>1 DEF AppInit, Fresh, AppTypeOK, ServerInv, Phase, Caller
<1> QED BY <1>1, <1>2 DEF AppInit, Fresh, AppInv, CtrlDAsked,
           StoppedListening, PeersGone, ServedOpened, Caller, CtrlD

(* The shutdown of Ctrl+D preserves the invariant.                         *)
LEMMA PressCtrlDStep ==
    ASSUME AppInv, PressCtrlD
    PROVE  AppInv'
<1>1. CASE attached
  <2>1. StopServer(FALSE) /\ shutdown' = [shutdown EXCEPT ![CtrlD] = "stopping"]
    BY <1>1 DEF PressCtrlD, BeginShutdown
  <2>2. /\ ServerInv' /\ listening' = FALSE /\ inFlight' \subseteq inFlight
        /\ cutOff' \subseteq HttpRequest /\ handled' = handled
        /\ Connected' \subseteq Connected
        /\ \A s \in Socket : Opened(ws[s].status) => Opened(ws'[s].status)
    BY <2>1, StopServerStep
  <2>3. /\ prompt' = "closed" /\ tty' = tty /\ attached' = attached
        /\ exited' = exited /\ serving' = serving
        /\ first' = IF first = "none" THEN "ctrlD" ELSE first
    BY <1>1 DEF PressCtrlD
  <2>4. first' = "ctrlD"
    BY <1>1, <2>3 DEF AppInv, CtrlDAsked, AppTypeOK
  <2>5. AppTypeOK'
    <3>1. TypeOK' /\ tty' /\ prompt' = "closed" /\ attached'
      BY <1>1, <2>2, <2>3 DEF AppInv, AppTypeOK, ServerInv
    <3>2. shutdown' \in [Caller -> Phase]
      BY <2>1 DEF AppInv, AppTypeOK, Phase
    <3> QED BY <2>2, <2>3, <2>4, <3>1, <3>2 DEF AppInv, AppTypeOK
  <2>6. CtrlDAsked'
    BY <2>4 DEF CtrlDAsked, CtrlD
  <2>7. PeersGone'
    BY <2>1, <2>2 DEF AppInv, PeersGone, AppTypeOK
  <2>8. ServedOpened'
    BY <2>2, <2>3 DEF AppInv, AppTypeOK, ServedOpened
  <2> QED BY <2>2, <2>5, <2>6, <2>7, <2>8 DEF AppInv, StoppedListening
<1>2. CASE ~attached
  <2>1. /\ UNCHANGED vars
        /\ UNCHANGED <<listening, inFlight, cutOff, handled, shutdown, first,
                       tty, attached, serving, exited>>
    BY <1>2 DEF PressCtrlD, httpVars
  <2>2. ServerInv'
    BY <2>1, ServerStep DEF AppInv
  <2>3. /\ prompt = "open" /\ prompt' = "closed"
        /\ Connected' = Connected /\ ws' = ws
    BY <2>1 DEF PressCtrlD, Connected, vars
  <2> QED BY <2>1, <2>2, <2>3 DEF AppInv, AppTypeOK, CtrlDAsked,
             StoppedListening, PeersGone, ServedOpened, ServerInv
<1> QED BY <1>1, <1>2

(* close() preserves the invariant.                                        *)
LEMMA CloseAppStep ==
    ASSUME AppInv, NEW c \in Closer, NEW force \in BOOLEAN, CloseApp(c, force)
    PROVE  AppInv'
<1>1. /\ StopServer(force)
      /\ shutdown' = [shutdown EXCEPT ![c] = "stopping"]
      /\ attached' = FALSE
      /\ first' = IF first = "none" THEN "close" ELSE first
      /\ tty' = tty /\ exited' = exited /\ serving' = serving
  BY DEF CloseApp, BeginShutdown
<1>2. /\ ServerInv' /\ listening' = FALSE /\ inFlight' \subseteq inFlight
      /\ cutOff' \subseteq HttpRequest /\ handled' = handled
        /\ Connected' \subseteq Connected
        /\ \A s \in Socket : Opened(ws[s].status) => Opened(ws'[s].status)
  BY <1>1, StopServerStep
<1>3. c \in Caller /\ c # CtrlD
  BY DEF Caller, Closer, CtrlD
<1>4. AppTypeOK'
  <2>1. TypeOK' /\ (tty' <=> prompt' # "none")
    BY <1>1, <1>2 DEF CloseApp, AppInv, AppTypeOK, ServerInv
  <2>2. prompt' \in {"none", "open", "closed"}
    BY DEF CloseApp, AppInv, AppTypeOK
  <2>3. shutdown' \in [Caller -> Phase]
    BY <1>1 DEF AppInv, AppTypeOK, Phase
  <2> QED BY <1>1, <1>2, <2>1, <2>2, <2>3 DEF AppInv, AppTypeOK
<1>5. CtrlDAsked'
  BY <1>1, <1>3 DEF AppInv, CtrlDAsked, AppTypeOK, CtrlD, Caller
<1>6. PeersGone'
  BY <1>1, <1>2 DEF AppInv, PeersGone, AppTypeOK
<1>7. ServedOpened'
  BY <1>1, <1>2 DEF AppInv, AppTypeOK, ServedOpened
<1> QED BY <1>2, <1>4, <1>5, <1>6, <1>7 DEF AppInv, StoppedListening

(* onClose begins when the last peer is gone, and ends.                    *)
LEMMA HookStep ==
    ASSUME AppInv, NEW c \in Caller, Stopped(c) \/ HookEnds(c)
    PROVE  AppInv'
<1>1. /\ UNCHANGED vars
      /\ UNCHANGED <<tty, prompt, attached, listening, inFlight, cutOff,
                     handled, serving, first>>
  BY DEF Stopped, HookEnds, httpVars
<1>2. ServerInv' /\ Connected' = Connected /\ ws' = ws
  BY <1>1, ServerStep DEF AppInv, Connected, vars
<1>3. PICK p \in {"hook", "done"} :
         shutdown' = [shutdown EXCEPT ![c] = p]
  BY DEF Stopped, HookEnds
<1>4. shutdown[c] # "idle" /\ inFlight = {} /\ Connected = {}
  BY DEF Stopped, HookEnds, AppInv, PeersGone
<1>5. exited' \in {exited, FALSE} \/ (exited' = TRUE /\ c = CtrlD)
  <2>1. exited' = exited \/ exited' = (c = CtrlD)
    BY DEF Stopped, HookEnds
  <2>2. CASE c = CtrlD
    BY Zenon, <2>1, <2>2
  <2>3. CASE c # CtrlD
    BY Zenon, <2>1, <2>3
  <2> QED BY <2>2, <2>3
<1>6. AppTypeOK'
  BY <1>1, <1>2, <1>3, <1>5 DEF AppInv, AppTypeOK, ServerInv, Phase
<1>7. CtrlDAsked'
  <2>1. ASSUME first # "ctrlD" PROVE c # CtrlD
    BY <1>4, <2>1 DEF AppInv, CtrlDAsked
  <2>2. first # "ctrlD" => shutdown'[CtrlD] = "idle" /\ ~exited'
    BY <1>3, <1>5, <2>1 DEF AppInv, CtrlDAsked, AppTypeOK, Caller
  <2> QED BY <1>1, <2>2 DEF AppInv, CtrlDAsked
<1>8. StoppedListening' /\ PeersGone' /\ ServedOpened'
  BY <1>1, <1>2, <1>4 DEF AppInv, StoppedListening, PeersGone, ServedOpened
<1> QED BY <1>2, <1>6, <1>7, <1>8 DEF AppInv

(* Requests and their handlers, over HTTP and over sockets, and the steps  *)
(* of the server: without a connection there is no callback, and without a *)
(* request in flight or still accepted no connection comes.                *)
LEMMA ServesStep ==
    ASSUME AppInv,
           \/ \E h \in HttpRequest : Request(h) \/ Answer(h) \/ LateEndpoint(h)
           \/ Endpoint
           \/ \E s \in Socket : OnSocket(s) \/ ServeRequest(s) \/ Served(s)
           \/ Clock
    PROVE  AppInv'
<1>1. /\ [Next]_vars
      /\ UNCHANGED <<tty, prompt, attached, listening, shutdown, exited, first>>
      /\ inFlight' \subseteq HttpRequest /\ cutOff' \subseteq HttpRequest
      /\ handled' \subseteq HttpRequest
      /\ ~listening => inFlight' \subseteq inFlight
  BY DEF Request, Answer, EndHandler, LateEndpoint, Endpoint, OnSocket,
     ServeRequest, Served, Clock, Next, SocketEvent, appVars, httpVars, AppInv,
     AppTypeOK
<1>2. ServerInv'
  BY <1>1, ServerStep DEF AppInv
<1>3. /\ serving' \subseteq Socket
      /\ \A s \in serving' : s \in serving \/ ws[s].status = "open"
  BY DEF Request, Answer, EndHandler, LateEndpoint, Endpoint, OnSocket,
     ServeRequest, Served, Message, Clock, appVars, AppInv, AppTypeOK
<1>4. ServedOpened'
  BY <1>1, <1>3, OpenedStays DEF Opened, ServedOpened, AppInv, ServerInv
<1>5. ASSUME ~listening, inFlight = {}, Connected = {}
      PROVE  Connected' = {}
  <2>1. \A s \in Socket : ~SocketEvent(s)
    BY <1>5 DEF Connected, SocketEvent, Open, Message, Close, ReaperFires,
       AppInv, ServerInv, ReaperInv, IsConnected
  <2>2. ws' = ws
    BY <1>5, <2>1 DEF Request, Answer, Endpoint, LateEndpoint, EndHandler,
       OnSocket, ServeRequest, Served, SocketEvent, Clock, Tick, connections,
       vars
  <2> QED BY <1>5, <2>2 DEF Connected
<1>6. PeersGone'
  BY <1>1, <1>5 DEF AppInv, PeersGone, StoppedListening
<1> QED BY <1>1, <1>2, <1>3, <1>4, <1>6 DEF AppInv, AppTypeOK, CtrlDAsked,
           StoppedListening, ServerInv

(* Every reachable state satisfies the invariant.                          *)
LEMMA AppInvHolds == AppSpec => []AppInv
<1>1. AppInv /\ [AppNext]_allVars => AppInv'
  <2> SUFFICES ASSUME AppInv, [AppNext]_allVars PROVE AppInv'
    OBVIOUS
  <2>1. CASE UNCHANGED allVars
    <3>1. UNCHANGED vars /\ UNCHANGED appVars
      BY <2>1 DEF allVars
    <3>2. ServerInv' /\ Connected' = Connected /\ ws' = ws
      BY <3>1, ServerStep DEF AppInv, Connected, vars
    <3> QED BY <3>1, <3>2 DEF appVars, httpVars, AppInv, AppTypeOK, CtrlDAsked,
               StoppedListening, PeersGone, ServedOpened, ServerInv
  <2>2. CASE AppNext
    BY <2>2, PressCtrlDStep, CloseAppStep, HookStep, ServesStep
       DEF AppNext
  <2> QED BY <2>1, <2>2
<1> QED BY <1>1, InitEstablishesInv, PTL DEF AppSpec

-----------------------------------------------------------------------------
(* Every reachable state of the app and its server is well formed.         *)
THEOREM AppTypeCorrect == AppSpec => []AppTypeOK
BY AppInvHolds, PTL DEF AppInv

(* An app closed by its application never exits, nor does Ctrl+D shut it   *)
(* down again.                                                             *)
THEOREM ClosedAppStaysUp == AppSpec => []ClosedAppStays
<1>1. AppInv => ClosedAppStays
  BY DEF AppInv, CtrlDAsked, ClosedAppStays, CtrlD
<1> QED BY <1>1, AppInvHolds, PTL

(* onClose is called when no peer is left: no request waits, nothing is    *)
(* connected or accepted, and no session or timer comes back.  A handler   *)
(* that still runs then has lost its connection.                           *)
THEOREM HookComesLast == AppSpec => []HookAfterPeers
<1>1. AppInv => HookAfterPeers
  <2> SUFFICES ASSUME AppInv,
                      NEW c \in Caller,
                      shutdown[c] \in {"hook", "done"}
               PROVE  /\ ~listening /\ inFlight = {} /\ Connected = {}
                      /\ DOMAIN active = {} /\ timers = {}
                      /\ \A s \in serving : ws[s].status = "closed"
    BY DEF HookAfterPeers
  <2>1. ~listening /\ inFlight = {} /\ Connected = {}
    BY DEF AppInv, StoppedListening, PeersGone
  <2>2. DOMAIN active = {}
    <3>1. \A d \in DOMAIN active : active[d].ws \in Socket
      BY DEF AppInv, ServerInv, TypeOK, ActiveSession
    <3>2. \A d \in DOMAIN active :
             ws[active[d].ws].status \in {"open", "closing"}
      BY DEF AppInv, ServerInv, SessionInv, SessionSocket
    <3> QED BY <2>1, <3>1, <3>2 DEF Connected
  <2>3. timers = {}
    <3>1. \A timer \in timers : timer.ws \in Socket
      BY DEF AppInv, ServerInv, TypeOK
    <3> QED BY <2>1, <3>1 DEF AppInv, ServerInv, ReaperInv, IsConnected,
               Connected
  <2>4. \A s \in serving : ws[s].status = "closed"
    BY <2>1 DEF AppInv, AppTypeOK, ServedOpened, Opened, Connected
  <2> QED BY <2>1, <2>2, <2>3, <2>4
<1> QED BY <1>1, AppInvHolds, PTL
=============================================================================
