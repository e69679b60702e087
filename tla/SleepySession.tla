---------------------------- MODULE SleepySession ----------------------------
(***************************************************************************)
(* One client and the server, over a network: SocketClient composed with   *)
(* SocketServer.  Attempt n of the client is connection n of the server.   *)
(*                                                                         *)
(* What this module adds is what travels: the fetches of #requestTicket,   *)
(* the WebSocket upgrade, the welcome message with the session's token,    *)
(* and the closes.  It also adds the two fields the token is kept in       *)
(* between, #id and #token.  Each side sees the other's steps only when    *)
(* something arrived; a connection may be lost, and the two ends notice    *)
(* that independently.                                                     *)
(***************************************************************************)
EXTENDS Naturals

CONSTANTS
    ClientId, None, MaxAttempts, MaxTickets, TicketTtl, ReclaimTtl,
    DisconnectThreshold, MaxTime, TicketBound

(* Those of SocketClient and SocketServer, which INSTANCE does not carry   *)
(* over.                                                                   *)
ASSUME ClientAssumption ==
    MaxAttempts \in Nat \ {0} /\ None \notin 1..MaxAttempts

ASSUME ServerAssumption ==
    /\ {MaxTickets, TicketTtl, ReclaimTtl, MaxTime, TicketBound} \subseteq Nat
    /\ DisconnectThreshold \in Nat \ {0}
    /\ None \notin ClientId

VARIABLES
    (* SocketClient *)
    autoReconnect, ready, closing, socket, attempts, ticketing, outcome,
    readyState, listening, intervals, heartbeatTimer, liveness, scheduled,
    reconnects, reconnectTimer, late, closedMidway,
    (* SocketServer *)
    now, tickets, lastTicket, issued, active, inactive, lastToken, ws, reapers,
    heard,
    (* between them *)
    identity,       \* #id and #token, or None
    exchange,       \* what the ticket request of each attempt is waiting for
    presented,      \* the identity each attempt asked to reclaim
    offer,          \* TicketData of each attempt: [clientId, ticket]
    welcome,        \* the token in each connection's welcome message, 0 if none
    disturbed       \* history: a step that may cost the client its identity

clientVars == <<autoReconnect, ready, closing, socket, attempts, ticketing,
                outcome, readyState, listening, intervals, heartbeatTimer,
                liveness, scheduled, reconnects, reconnectTimer, late,
                closedMidway>>
serverVars == <<now, tickets, lastTicket, issued, active, inactive, lastToken,
                ws, reapers, heard>>
requestVars == <<exchange, presented, offer>>
netVars == <<identity, requestVars, welcome, disturbed>>
vars == <<clientVars, serverVars, netVars>>

Client == INSTANCE SocketClient
Server == INSTANCE SocketServer
    WITH Socket <- 1..MaxAttempts, timers <- reapers

Attempt == 1..MaxAttempts

NoTicket == 0
Identity == [clientId : ClientId, token : Nat \ {0}]

TicketData == [clientId : ClientId, ticket : Nat]

ASSUME NoneAssumption == None \notin Identity

(* The token with which the server would let somebody reclaim c, 0 if none. *)
SessionToken(c) ==
    IF c \in DOMAIN active THEN active[c].token
    ELSE IF c \in DOMAIN inactive THEN inactive[c].token ELSE 0

(* The reclaim window of a session has passed.                             *)
WindowPassed == \E c \in DOMAIN inactive : inactive[c].expiresAt <= now

-----------------------------------------------------------------------------
Init ==
    /\ Client!Init
    /\ Server!Init
    /\ identity = None
    /\ exchange = [n \in Attempt |-> IF n = 1 THEN "post" ELSE "none"]
    /\ presented = [n \in Attempt |-> None]
    /\ offer = [n \in Attempt |-> None]
    /\ welcome = [n \in Attempt |-> 0]
    /\ disturbed = FALSE

(* A reconnect timer fires; #requestTicket reads #id and #token at once.   *)
Reconnect ==
    /\ \E t \in reconnects : Client!Reconnect(t)
    /\ IF attempts' = attempts
       THEN UNCHANGED requestVars
       ELSE /\ exchange' = [exchange EXCEPT ![attempts'] =
                                IF identity = None THEN "post" ELSE "put"]
            /\ presented' = [presented EXCEPT ![attempts'] = identity]
            /\ UNCHANGED offer
    /\ UNCHANGED <<serverVars, identity, welcome, disturbed>>

Grant(n, c) ==
    /\ exchange' = [exchange EXCEPT ![n] = "answered"]
    /\ offer' = [offer EXCEPT ![n] =
                    [clientId |-> c,
                     ticket |-> IF lastTicket' = lastTicket THEN NoTicket
                                ELSE lastTicket']]

(* Definitions named Faulty... are plausible bugs that no action uses.     *)
FaultyReclaim(n) ==
    /\ exchange[n] = "put"
    /\ exchange' = [exchange EXCEPT ![n] = "post"]
    /\ UNCHANGED <<offer, serverVars>>
    /\ UNCHANGED <<clientVars, identity, presented, welcome, disturbed>>

(* PUT /ws/:clientId arrives.  Any refusal, the 503 of a full table        *)
(* included, makes #reclaimTicket return null, and the client goes on to   *)
(* POST /ws.                                                               *)
Reclaim(n) ==
    LET p == presented[n] IN
    /\ exchange[n] = "put"
    /\ IF Server!HoldsSession(p.clientId, p.token)
       THEN /\ Server!UpdateTicket(p.clientId, p.token)
            /\ IF lastTicket' = lastTicket
               THEN exchange' = [exchange EXCEPT ![n] = "post"] /\ UNCHANGED offer
               ELSE Grant(n, p.clientId)
            /\ disturbed' = (disturbed \/ lastTicket' = lastTicket)
       ELSE /\ exchange' = [exchange EXCEPT ![n] = "post"]
            /\ UNCHANGED <<offer, disturbed>>
            /\ Server!UpdateTicketTooLate(p.clientId) \/ UNCHANGED serverVars
    /\ UNCHANGED <<clientVars, identity, presented, welcome>>

(* POST /ws arrives.  #createTicket takes any answer for a ticket, the     *)
(* 503 of a full table included.                                           *)
CreateTicket(n) ==
    /\ exchange[n] = "post"
    /\ \E c \in ClientId : Server!CreateTicket(c) /\ Grant(n, c)
    /\ UNCHANGED <<clientVars, identity, presented, welcome, disturbed>>

TicketArrives(n) ==
    /\ exchange[n] = "answered"
    /\ Client!TicketArrives(n)
    /\ UNCHANGED <<serverVars, netVars>>

(* A fetch fails, before the server saw the request or after.              *)
FetchFails(n) ==
    /\ Client!TicketFails(n)
    /\ exchange' = [exchange EXCEPT ![n] = "failed"]
    /\ UNCHANGED <<serverVars, identity, presented, offer, welcome, disturbed>>

-----------------------------------------------------------------------------
(* The socket.                                                             *)

Upgrade(n) ==
    /\ readyState[n] \in {"connecting", "aborting"}
    /\ Server!Upgrade(offer[n].ticket, n)
    /\ UNCHANGED <<clientVars, netVars>>

(* GET /ws is refused, or never arrives.                                   *)
ConnectFails(n) ==
    /\ ws[n].status = "free"
    /\ Client!SocketFails(n)
    /\ \/ offer[n].ticket \in DOMAIN tickets
             /\ Server!RefuseUpgrade(offer[n].ticket)
       \/ UNCHANGED serverVars
    /\ UNCHANGED netVars

(* The open callback sends the welcome.                                    *)
Open(n) ==
    /\ Server!Open(n)
    /\ welcome' = [welcome EXCEPT ![n] = lastToken']
    /\ UNCHANGED <<clientVars, identity, requestVars, disturbed>>

SocketOpens(n) ==
    /\ ws[n].status # "free"
    /\ Client!SocketOpens(n)
    /\ UNCHANGED <<serverVars, netVars>>

FaultyWelcome(n) ==
    /\ welcome[n] # 0
    /\ Client!Welcome(n)
    /\ identity' = IF identity = None
                   THEN [clientId |-> ws[n].clientId, token |-> welcome[n]]
                   ELSE identity
    /\ UNCHANGED <<serverVars, requestVars, welcome, disturbed>>

FaultyWelcomeUnchecked(n) ==
    /\ Client!Welcome(n)
    /\ identity' = [clientId |-> ws[n].clientId, token |-> welcome[n]]
    /\ UNCHANGED <<serverVars, requestVars, welcome, disturbed>>

Welcome(n) ==
    /\ welcome[n] # 0
    /\ Client!Welcome(n)
    /\ identity' = [clientId |-> ws[n].clientId, token |-> welcome[n]]
    /\ UNCHANGED <<serverVars, requestVars, welcome, disturbed>>

(* A request or heartbeat of the client reaches the server, and an answer  *)
(* the client.                                                             *)
ServerHears(n) ==
    /\ n \in listening
    /\ Server!Message(n)
    /\ UNCHANGED <<clientVars, netVars>>

ClientHears(n) ==
    /\ ws[n].status # "upgraded"
    /\ Client!Message(n)
    /\ UNCHANGED <<serverVars, netVars>>

ReaperFires(n) ==
    /\ Server!ReaperFires(n)
    /\ UNCHANGED <<clientVars, netVars>>

-----------------------------------------------------------------------------
(* Closing.                                                                *)

(* A timeout of the client closes its socket, with code 1000.              *)
ClientTimeout ==
    /\ \/ \E n \in Attempt : Client!EstablishTimeout(n)
       \/ Client!LivenessTimeout
    /\ disturbed' = (disturbed \/ readyState' # readyState)
    /\ UNCHANGED <<serverVars, identity, requestVars, welcome>>

CloseClient ==
    /\ Client!CloseClient
    /\ UNCHANGED <<serverVars, netVars>>

(* The server's end: its own close() completes, the client's close frame   *)
(* arrives, or the connection is found lost.                               *)
ServerCloses(n) ==
    /\ \/ ws[n].status = "closing" /\ Server!Close(n, 1000)
       \/ readyState[n] \in {"aborting", "closing"} /\ Server!Close(n, 1000)
       \/ Server!Close(n, 1006)
    /\ disturbed' = (disturbed \/ WindowPassed')
    /\ UNCHANGED <<clientVars, identity, requestVars, welcome>>

FaultyClientCloses(n) ==
    /\ readyState[n] \in {"open", "closing"}
    /\ readyState' = [readyState EXCEPT ![n] = "closed"]
    /\ IF n \in listening /\ autoReconnect
       THEN Client!ScheduleReconnect
       ELSE UNCHANGED <<scheduled, reconnects, reconnectTimer>>
    /\ UNCHANGED <<autoReconnect, ready, closing, socket, attempts, ticketing,
                   outcome, listening, intervals, heartbeatTimer, liveness,
                   late, closedMidway>>
    /\ disturbed' = (disturbed \/ n \notin listening)
    /\ UNCHANGED <<serverVars, identity, requestVars, welcome>>

(* The client's end.  A welcome that had not been handled is lost, whether *)
(* the server has sent it by now or will.                                  *)
ClientCloses(n) ==
    /\ \/ ws[n].status # "free" /\ Client!SocketFails(n)
       \/ Client!SocketCloses(n)
    /\ disturbed' = (disturbed \/ n \notin listening)
    /\ UNCHANGED <<serverVars, identity, requestVars, welcome>>

(* Time passes, perhaps the end of a reclaim window.                       *)
Tick ==
    /\ Server!Tick
    /\ disturbed' = (disturbed \/ WindowPassed')
    /\ UNCHANGED <<clientVars, identity, requestVars, welcome>>

Next ==
    \/ Reconnect
    \/ \E n \in Attempt :
          \/ Reclaim(n) \/ CreateTicket(n) \/ TicketArrives(n) \/ FetchFails(n)
          \/ Upgrade(n) \/ ConnectFails(n) \/ Open(n) \/ SocketOpens(n)
          \/ Welcome(n) \/ ServerHears(n) \/ ClientHears(n) \/ ReaperFires(n)
          \/ ServerCloses(n) \/ ClientCloses(n)
    \/ ClientTimeout
    \/ CloseClient
    \/ Tick

Spec == Init /\ [][Next]_vars

-----------------------------------------------------------------------------
(* Type correctness of what travels.                                       *)
TypeOK ==
    /\ identity \in Identity \cup {None}
    /\ exchange \in [Attempt -> {"none", "put", "post", "answered", "failed"}]
    /\ presented \in [Attempt -> Identity \cup {None}]
    /\ offer \in [Attempt -> TicketData \cup {None}]
    /\ \A n \in Attempt :
          /\ exchange[n] = "answered" => offer[n] \in TicketData
          /\ exchange[n] = "put" => presented[n] \in Identity
    /\ welcome \in [Attempt -> Nat]
    /\ disturbed \in BOOLEAN

(* Nothing happened so far that may cost the client its identity: the      *)
(* application did not close it, no reclaim window passed, no attempt      *)
(* outlived its timeout, no timeout of the client closed a socket (the     *)
(* server takes code 1000 for a goodbye), no PUT met a full table of       *)
(* tickets, and no connection was lost before the client handled its       *)
(* welcome (if the server's open callback ran, or runs yet, the token has  *)
(* changed, and the client never learns the new one).                      *)
Undisturbed == ~closing /\ ~late /\ ~disturbed

(* The token the client keeps is one the server accepts for its identity,  *)
(* through drops, reaps and takeovers, or the welcome with the token that  *)
(* replaced it is on its way.                                              *)
TokenAccepted ==
    Undisturbed /\ identity # None =>
        \/ SessionToken(identity.clientId) = identity.token
        \/ \E n \in Attempt \ listening :
              /\ readyState[n] \in {"connecting", "open"}
              /\ ws[n].clientId = identity.clientId
              /\ welcome[n] = SessionToken(identity.clientId)

(* A client keeps its identity over any number of drops, lost answers,     *)
(* expired tickets and reaps, as long as none of the above happened: every *)
(* attempt gets it back from PUT /ws/:clientId and never falls through to  *)
(* POST /ws, not even when two of its sockets are still open on the server. *)
IdentityKept ==
    [][identity # None /\ Undisturbed' =>
         identity'.clientId = identity.clientId]_vars

(* A client that says it is connected is the one the server reaches under  *)
(* its identity: the registered session is the client's #socket, and where *)
(* there is none the server has seen that very socket close.               *)
SessionReachesClient ==
    Undisturbed /\ ready =>
        LET c == identity.clientId IN
        /\ c \in DOMAIN active => active[c].ws = socket
        /\ c \notin DOMAIN active => ws[socket].status = "closed"

(* "It reclaims its previous session, so `client.id` stays the same across *)
(* a reconnect" (packages/client/README.md:126), with no time passing      *)
(* between the drop and the reconnect.                                     *)
SameIdAcrossReconnect ==
    [][identity # None => identity'.clientId = identity.clientId]_vars
=============================================================================
