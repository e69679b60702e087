---------------------------- MODULE SocketServer ----------------------------
(***************************************************************************)
(* The server half of the socket protocol: packages/server/src/socket.ts.  *)
(*                                                                         *)
(* A client buys a ticket over HTTP (POST /ws for a new identity, PUT      *)
(* /ws/:clientId with the session's token for an old one) and spends it on *)
(* GET /ws, which upgrades to a socket.  The runtime then calls open,      *)
(* message and close for that socket, and the event loop calls the reaper  *)
(* timers and moves the clock.  Every handler of the file runs to          *)
(* completion without yielding as far as this state is concerned (the one  *)
(* await, in message, is followed by a send and nothing else), so each is  *)
(* one action; what interleaves is the handlers.                           *)
(*                                                                         *)
(* Identities, tokens and tickets are random in the code and so never      *)
(* repeat: tokens and tickets are numbered in the order they are drawn,    *)
(* and `issued' holds the identities already given out.  The order of the  *)
(* ticket numbers is therefore the insertion order of the Map `tickets'.   *)
(***************************************************************************)
EXTENDS Naturals, FiniteSets

CONSTANTS
    ClientId,               \* identities crypto.randomUUID() may draw
    Socket,                 \* connections the runtime may accept
    None,                   \* undefined
    MaxTickets,             \* opts.ws.maxTickets
    TicketTtl,              \* opts.ws.ticketTtl
    ReclaimTtl,             \* opts.ws.reclaimTtl
    DisconnectThreshold,    \* opts.ws.disconnectThreshold
    MaxTime,                \* bound: the clock stops here, and with it the
                            \* reapers that are due later; all else goes on
    TicketBound             \* bound: tickets issued in a behaviour

ASSUME DurationsAssumption ==
    /\ MaxTickets \in Nat
    /\ TicketTtl \in Nat
    /\ ReclaimTtl \in Nat
    /\ DisconnectThreshold \in Nat \ {0}

ASSUME BoundsAssumption == MaxTime \in Nat /\ TicketBound \in Nat

ASSUME NoneAssumption == None \notin ClientId

VARIABLES
    now,            \* Date.now(), never 0
    tickets,        \* SocketState.tickets: ticket |-> [clientId, expiresAt]
    lastTicket,     \* the last ticket drawn
    issued,         \* the identities drawn so far
    active,         \* activeSessions: clientId |-> [token, ws]
    inactive,       \* inactiveSessions: clientId |-> [token, expiresAt]
    lastToken,      \* the last token drawn
    ws,             \* every connection's SocketData and ready state
    timers,         \* the pending setTimeout calls of armReaper
    heard           \* history: when a socket was opened or last sent a message

vars == <<now, tickets, lastTicket, issued, active, inactive, lastToken, ws,
          timers, heard>>

registry == <<active, inactive, lastToken>>
ticketing == <<tickets, lastTicket, issued>>
connections == <<ws, timers, heard>>

-----------------------------------------------------------------------------
(* A Map of the code is a function whose domain is the Map's keys.         *)

EmptyMap == [k \in {} |-> None]

Put(map, key, value) ==
    [k \in DOMAIN map \cup {key} |-> IF k = key THEN value ELSE map[k]]

Delete(map, key) == [k \in DOMAIN map \ {key} |-> map[k]]

Ticket == [clientId : ClientId, expiresAt : Nat]
ActiveSession == [token : Nat, ws : Socket]
InactiveSession == [token : Nat, expiresAt : Nat]

(* "upgraded" is a connection between server.upgrade and the open          *)
(* callback; "closing" one the server called close() on, whose close       *)
(* callback has not run.  `reaperHandle' is the due time of the last timer *)
(* armed for it, 0 when there is none.                                     *)
Status == {"free", "upgraded", "open", "closing", "closed"}
SocketData == [clientId : ClientId \cup {None}, status : Status,
               superseded : BOOLEAN, reaped : BOOLEAN, reaperHandle : Nat]

Live(entry) == entry.expiresAt > now

-----------------------------------------------------------------------------
(* Tickets.                                                                *)

(* Definitions named Faulty... are plausible bugs, each placed before the   *)
(* definition it breaks.  No action uses them: they serve to confirm that  *)
(* every property can fail.                                                *)
FaultySweptTickets ==
    LET kept == {t \in DOMAIN tickets :
                    \E u \in DOMAIN tickets :
                        u <= t /\ tickets[u].expiresAt >= now}
    IN  [t \in kept |-> tickets[t]]

(* bindTicket deletes in insertion order up to the first live entry: what  *)
(* stays is every ticket at or after some live one.                        *)
SweptTickets ==
    LET kept == {t \in DOMAIN tickets :
                    \E u \in DOMAIN tickets : u <= t /\ Live(tickets[u])}
    IN  [t \in kept |-> tickets[t]]

FaultyBindTicket(c) ==
    /\ lastTicket < TicketBound
    /\ Cardinality(DOMAIN tickets) <= MaxTickets
    /\ lastTicket' = lastTicket + 1
    /\ tickets' = Put(tickets, lastTicket',
                      [clientId |-> c, expiresAt |-> now + TicketTtl])

BindTicket(c) ==
    /\ lastTicket < TicketBound
    /\ Cardinality(DOMAIN SweptTickets) < MaxTickets
    /\ lastTicket' = lastTicket + 1
    /\ tickets' = Put(SweptTickets, lastTicket',
                      [clientId |-> c, expiresAt |-> now + TicketTtl])

(* The 503 of a full table; the sweep has happened all the same.           *)
RefuseTicket ==
    /\ Cardinality(DOMAIN SweptTickets) >= MaxTickets
    /\ tickets' = SweptTickets
    /\ UNCHANGED lastTicket

(* POST /ws.                                                               *)
CreateTicket(c) ==
    /\ c \in ClientId \ issued
    /\ \/ BindTicket(c) /\ issued' = issued \cup {c}
       \/ RefuseTicket /\ UNCHANGED issued
    /\ UNCHANGED <<now, registry, connections>>

FaultyHoldsSession(c, token) ==
    \/ c \in DOMAIN active /\ active[c].token = token
    \/ /\ c \in DOMAIN inactive \ DOMAIN active
       /\ inactive[c].token = token

(* The session PUT /ws/:clientId compares the bearer token with.           *)
HoldsSession(c, token) ==
    \/ c \in DOMAIN active /\ active[c].token = token
    \/ /\ c \notin DOMAIN active
       /\ c \in DOMAIN inactive
       /\ Live(inactive[c])
       /\ inactive[c].token = token

(* PUT /ws/:clientId with the right token.  With a wrong one, or for an    *)
(* unknown identity, the handler throws and changes nothing.               *)
UpdateTicket(c, token) ==
    /\ HoldsSession(c, token)
    /\ BindTicket(c) \/ RefuseTicket
    /\ UNCHANGED <<now, issued, registry, connections>>

(* PUT /ws/:clientId for a session whose reclaim window has passed: 404,   *)
(* and the record is dropped on the way.                                   *)
UpdateTicketTooLate(c) ==
    /\ c \in DOMAIN inactive \ DOMAIN active
    /\ ~Live(inactive[c])
    /\ inactive' = Delete(inactive, c)
    /\ UNCHANGED <<now, ticketing, active, lastToken, connections>>

(* GET /ws: the ticket is spent before the upgrade is attempted ...        *)
RedeemTicket(t) ==
    /\ t \in DOMAIN tickets
    /\ tickets' = Delete(tickets, t)

FaultyUpgrade(t, s) ==
    /\ RedeemTicket(t)
    /\ ws[s].status = "free"
    /\ ws' = [ws EXCEPT ![s].status = "upgraded",
                        ![s].clientId = IF Live(tickets[t])
                                        THEN tickets[t].clientId ELSE None]
    /\ UNCHANGED <<now, lastTicket, issued, registry, timers, heard>>

Upgrade(t, s) ==
    /\ RedeemTicket(t)
    /\ Live(tickets[t])
    /\ ws[s].status = "free"
    /\ ws' = [ws EXCEPT ![s].status = "upgraded",
                        ![s].clientId = tickets[t].clientId]
    /\ UNCHANGED <<now, lastTicket, issued, registry, timers, heard>>

(* ... so it is gone also when it had expired or the runtime refuses.      *)
RefuseUpgrade(t) ==
    /\ RedeemTicket(t)
    /\ UNCHANGED <<now, lastTicket, issued, registry, connections>>

-----------------------------------------------------------------------------
(* The socket's callbacks.                                                 *)

FaultyClearedReaper(s) == timers

(* clearTimeout(ws.data.reaperHandle): of s, the timer last armed.         *)
ClearedReaper(s) ==
    timers \ {[ws |-> s, at |-> ws[s].reaperHandle]}

FaultyArmReaper(s, w) ==
    /\ timers' = ClearedReaper(s)
    /\ ws' = [w EXCEPT ![s].reaperHandle = now + DisconnectThreshold]
    /\ heard' = [heard EXCEPT ![s] = now]

(* armReaper, on the socket records w the caller has already updated.      *)
ArmReaper(s, w) ==
    /\ timers' = ClearedReaper(s)
                   \cup {[ws |-> s, at |-> now + DisconnectThreshold]}
    /\ ws' = [w EXCEPT ![s].reaperHandle = now + DisconnectThreshold]
    /\ heard' = [heard EXCEPT ![s] = now]

(* ws.close() on a socket that may be closing already.                     *)
Closing(status) == IF status = "open" THEN "closing" ELSE status

(* What open does to the socket that holds the identity already.           *)
Superseded(c) ==
    IF c \in DOMAIN active
    THEN [ws EXCEPT ![active[c].ws].superseded = TRUE,
                    ![active[c].ws].status = Closing(@)]
    ELSE ws

SweptInactive ==
    [c \in {d \in DOMAIN inactive : Live(inactive[d])} |-> inactive[c]]

InactiveAfterOpen(c) == Delete(SweptInactive, c)

Open(s) ==
    LET c == ws[s].clientId IN
    /\ ws[s].status = "upgraded"
    /\ lastToken' = lastToken + 1
    /\ inactive' = InactiveAfterOpen(c)
    /\ active' = Put(active, c, [token |-> lastToken', ws |-> s])
    /\ ArmReaper(s, [Superseded(c) EXCEPT ![s].status = "open"])
    /\ UNCHANGED <<now, ticketing>>

(* Any message that parses as JSON, valid or not, heartbeat or request.    *)
(* One that does not parse changes nothing.                                *)
Message(s) ==
    /\ ws[s].status = "open"
    /\ ArmReaper(s, ws)
    /\ UNCHANGED <<now, ticketing, registry>>

FaultyReaperFires(s) ==
    /\ \E timer \in timers :
          /\ timer.ws = s
          /\ timer.at <= now
          /\ timers' = timers \ {timer}
    /\ ws' = [ws EXCEPT ![s].reaped = TRUE]
    /\ UNCHANGED <<now, ticketing, registry, heard>>

ReaperFires(s) ==
    /\ \E timer \in timers :
          /\ timer.ws = s
          /\ timer.at <= now
          /\ timers' = timers \ {timer}
    /\ ws' = [ws EXCEPT ![s].reaped = TRUE, ![s].status = Closing(@)]
    /\ UNCHANGED <<now, ticketing, registry, heard>>

FaultyOwns(s) == ws[s].clientId \in DOMAIN active

(* The close callback acts only for the socket its identity is bound to.   *)
Owns(s) ==
    /\ ~ws[s].superseded
    /\ ws[s].clientId \in DOMAIN active
    /\ active[ws[s].clientId].ws = s

FaultyWilling(s, code) == code = 1000

(* A close with code 1000 that the reaper did not ask for.                 *)
Willing(s, code) == code = 1000 /\ ~ws[s].reaped

(* The close callback of s: the peer closed or was lost while s was open,  *)
(* or the server's own close() completes.                                  *)
Close(s, code) ==
    LET c == ws[s].clientId IN
    /\ ws[s].status \in {"open", "closing"}
    /\ ws' = [ws EXCEPT ![s].status = "closed"]
    /\ timers' = ClearedReaper(s)
    /\ active' = IF Owns(s) THEN Delete(active, c) ELSE active
    /\ inactive' = IF Owns(s) /\ ~Willing(s, code)
                   THEN Put(inactive, c,
                            [token |-> active[c].token,
                             expiresAt |-> now + ReclaimTtl])
                   ELSE inactive
    /\ UNCHANGED <<now, ticketing, lastToken, heard>>

Tick ==
    /\ now < MaxTime
    /\ now' = now + 1
    /\ UNCHANGED <<ticketing, registry, connections>>

-----------------------------------------------------------------------------
CloseCode == {1000, 1006}

Init ==
    /\ now = 1
    /\ tickets = EmptyMap
    /\ lastTicket = 0
    /\ issued = {}
    /\ active = EmptyMap
    /\ inactive = EmptyMap
    /\ lastToken = 0
    /\ ws = [s \in Socket |->
               [clientId |-> None, status |-> "free", superseded |-> FALSE,
                reaped |-> FALSE, reaperHandle |-> 0]]
    /\ timers = {}
    /\ heard = [s \in Socket |-> 0]

Ticketing ==
    \/ \E c \in ClientId :
          \/ CreateTicket(c)
          \/ \E token \in 1..lastToken : UpdateTicket(c, token)
          \/ UpdateTicketTooLate(c)
    \/ \E t \in DOMAIN tickets :
          \/ \E s \in Socket : Upgrade(t, s)
          \/ RefuseUpgrade(t)

SocketEvent(s) ==
    \/ Open(s)
    \/ Message(s)
    \/ ReaperFires(s)
    \/ \E code \in CloseCode : Close(s, code)

Next ==
    \/ Ticketing
    \/ \E s \in Socket : SocketEvent(s)
    \/ Tick

Spec == Init /\ [][Next]_vars

(* The part of a close the server itself asked for: the event loop, which  *)
(* completes it, can be taken to be fair to it.                            *)
ServerClose(s) ==
    ws[s].status = "closing" /\ \E code \in CloseCode : Close(s, code)

-----------------------------------------------------------------------------
(* Type correctness of the state the code keeps: every record has its      *)
(* shape, and a connection past the upgrade carries an identity            *)
(* (socket.ts:601-603 refuses an upgrade without one).                     *)
TypeOK ==
    /\ now \in Nat
    /\ DOMAIN tickets \subseteq 1..lastTicket
    /\ tickets \in [DOMAIN tickets -> Ticket]
    /\ lastTicket \in Nat
    /\ issued \subseteq ClientId
    /\ DOMAIN active \subseteq ClientId
    /\ active \in [DOMAIN active -> ActiveSession]
    /\ DOMAIN inactive \subseteq ClientId
    /\ inactive \in [DOMAIN inactive -> InactiveSession]
    /\ lastToken \in Nat
    /\ ws \in [Socket -> SocketData]
    /\ \A s \in Socket : ws[s].status # "free" => ws[s].clientId \in ClientId
    /\ timers \subseteq [ws : Socket, at : Nat]
    /\ heard \in [Socket -> Nat]

(* The socket a session is registered with really is that client's, is     *)
(* still connected as far as the callbacks told, and was not superseded:   *)
(* the table `send' and `broadcast' read never names a dead socket.        *)
SessionSocket ==
    \A c \in DOMAIN active :
        LET w == ws[active[c].ws] IN
        /\ w.clientId = c
        /\ w.status \in {"open", "closing"}
        /\ ~w.superseded

(* The converse: a connected socket that was not superseded is the one its *)
(* identity is registered with.  No open socket is out of reach of `send', *)
(* and with SessionSocket no identity has two.                             *)
NoOrphan ==
    \A s \in Socket :
        ws[s].status \in {"open", "closing"} /\ ~ws[s].superseded =>
            /\ ws[s].clientId \in DOMAIN active
            /\ active[ws[s].clientId].ws = s

(* An identity is active or reclaimable, never both: a late close callback *)
(* cannot leave a second record, with another token, behind a live one.    *)
OneRecord == DOMAIN active \cap DOMAIN inactive = {}

(* The session tables agree with the connections, and with each other, in  *)
(* whatever order the callbacks of the sockets of an identity run          *)
(* (socket.ts:434-492).                                                    *)
TablesAgree == SessionSocket /\ NoOrphan /\ OneRecord

(* A connected socket has exactly one reaper pending, due                  *)
(* DisconnectThreshold after it was last heard, until the reaper fires; a  *)
(* closed one has none.  An old timer that armReaper failed to clear would *)
(* reap a client that is talking.                                          *)
ReaperArmed ==
    \A s \in Socket :
        LET mine == {timer \in timers : timer.ws = s} IN
        CASE ws[s].status \in {"open", "closing"} /\ ~ws[s].reaped ->
               mine = {[ws |-> s, at |-> heard[s] + DisconnectThreshold]}
          [] OTHER -> mine = {}

(* The table of outstanding tickets stays within maxTickets, ticket        *)
(* expiries follow the insertion order (which is what lets bindTicket stop *)
(* at the first live one), and each ticket names an identity given out.    *)
TicketTable ==
    /\ Cardinality(DOMAIN tickets) <= MaxTickets
    /\ \A t, u \in DOMAIN tickets :
          t < u => tickets[t].expiresAt <= tickets[u].expiresAt
    /\ \A t \in DOMAIN tickets : tickets[t].clientId \in issued

(* After a ticket is issued no expired one is left in the table, so a      *)
(* flood of unused tickets cannot fill it for longer than TicketTtl.       *)
SweepComplete ==
    [][lastTicket' # lastTicket =>
         \A t \in DOMAIN tickets \cap DOMAIN tickets' : Live(tickets[t])]_vars

(* A ticket buys at most one connection: a connection is upgraded by       *)
(* taking a live ticket of its own identity out of the table, and a ticket *)
(* that left the table never comes back.                                   *)
TicketSingleUse ==
    [][/\ \A s \in Socket :
             ws[s].status = "free" /\ ws'[s].status # "free" =>
                \E t \in DOMAIN tickets \ DOMAIN tickets' :
                   /\ Live(tickets[t])
                   /\ tickets[t].clientId = ws'[s].clientId
       /\ DOMAIN tickets' \cap 1..lastTicket \subseteq DOMAIN tickets]_vars

(* The life of a ticket: it buys one connection while it is live, and once *)
(* expired it is gone with the next one sold (socket.ts:542-613).          *)
TicketLifetime == SweepComplete /\ TicketSingleUse

(* A client that fell silent has not said goodbye: when the session of a   *)
(* reaped socket ends, its identity stays reclaimable with the same token, *)
(* whatever close code the transport reports.                              *)
SilenceIsNotGoodbye ==
    [][\A c \in DOMAIN active :
         c \notin DOMAIN active' /\ ws[active[c].ws].reaped =>
            /\ c \in DOMAIN inactive'
            /\ inactive'[c].token = active[c].token]_vars

(* The session of an identity, as SessionLifecycle sees it, and who may    *)
(* still connect as whom: the holder of a ticket or of an upgraded         *)
(* connection.                                                             *)
SessionOf(c) ==
    IF c \in DOMAIN active
    THEN [phase |-> "live", token |-> active[c].token, until |-> 0]
    ELSE IF c \in DOMAIN inactive
         THEN [phase |-> "dormant", token |-> inactive[c].token,
               until |-> inactive[c].expiresAt]
         ELSE [phase |-> "absent", token |-> 0, until |-> 0]

Entitled ==
    {tickets[t].clientId : t \in DOMAIN tickets}
      \cup {ws[s].clientId : s \in {x \in Socket : ws[x].status = "upgraded"}}

Lifecycle == INSTANCE SessionLifecycle
    WITH session <- [c \in ClientId |-> SessionOf(c)], entitled <- Entitled,
         known <- issued, clock <- now

(* The server keeps the promises of SessionLifecycle, whatever the order   *)
(* in which sockets of the same identity open, are superseded, are reaped  *)
(* and report their close (socket.ts:434-492, 542-664).                    *)
ImplementsLifecycle == Lifecycle!Spec
=============================================================================
