------------------------ MODULE SleepySessionProofs ------------------------
(***************************************************************************)
(* Proofs about SleepySession, for any number of attempts, identities and  *)
(* tickets and any durations: what each end keeps to itself is known from  *)
(* the proofs about SocketClient and SocketServer, and what is new is how  *)
(* the two ends, the token and what travels between them agree.            *)
(***************************************************************************)
EXTENDS SleepySession, TLAPS

USE ClientAssumption, ServerAssumption DEF Attempt

(* The proofs about the two ends, over the same variables.                 *)
C == INSTANCE SocketClientProofs
S == INSTANCE SocketServerProofs
    WITH Socket <- 1..MaxAttempts, timers <- reapers

-----------------------------------------------------------------------------
(* Each end is the module its proofs are about: to the prover the          *)
(* operators of two instances of a module are different operators.         *)

(* A step of the client is one SocketClientProofs is about.                *)
LEMMA SameClient ==
    /\ Client!Init => C!Init
    /\ [Client!Next]_clientVars => [C!Next]_(C!vars)
<1>1. Client!Init => C!Init
  BY DEF Client!Init, C!Init, Client!Attempt, C!Attempt
<1>2. [Client!Next]_clientVars => [C!Next]_(C!vars)
  BY DEF clientVars, Client!Attempt, C!Attempt, Client!flags, C!flags,
     Client!attempting, C!attempting, Client!sockets, C!sockets,
     Client!timers, C!timers, Client!reconnecting, C!reconnecting,
     Client!history, C!history, C!vars, Client!Pending, C!Pending,
     Client!Underway, C!Underway, Client!CloseState, C!CloseState,
     Client!CloseCurrent, C!CloseCurrent,
     Client!ScheduleReconnect, C!ScheduleReconnect,
     Client!StopHeartbeat, C!StopHeartbeat, Client!Reject, C!Reject,
     Client!Fail, C!Fail, Client!Succeed, C!Succeed,
     Client!Establish, C!Establish, Client!TicketArrives, C!TicketArrives,
     Client!TicketFails, C!TicketFails, Client!SocketOpens, C!SocketOpens,
     Client!SocketFails, C!SocketFails, Client!Welcome, C!Welcome,
     Client!EstablishTimeout, C!EstablishTimeout, Client!Message, C!Message,
     Client!LivenessTimeout, C!LivenessTimeout,
     Client!HandleClose, C!HandleClose, Client!SocketCloses, C!SocketCloses,
     Client!Reconnect, C!Reconnect, Client!CloseClient, C!CloseClient,
     Client!Next, C!Next
<1> QED BY <1>1, <1>2

(* The ticketing handlers are those SocketServerProofs is about.           *)
LEMMA SameTicketing ==
    ASSUME NEW c, NEW t, NEW s
    PROVE  /\ Server!CreateTicket(c) => S!CreateTicket(c)
           /\ Server!UpdateTicket(c, t) => S!UpdateTicket(c, t)
           /\ Server!UpdateTicketTooLate(c) => S!UpdateTicketTooLate(c)
           /\ Server!Upgrade(t, s) => S!Upgrade(t, s)
           /\ Server!RefuseUpgrade(t) => S!RefuseUpgrade(t)
<1> USE DEF Server!registry, S!registry, Server!connections, S!connections,
            Server!Live, S!Live, Server!Delete, S!Delete, Server!Put, S!Put,
            Server!ticketing, S!ticketing
<1>a. Server!SweptTickets = S!SweptTickets
  BY DEF Server!SweptTickets, S!SweptTickets
<1>b. \A T : Server!Cardinality(T) = S!Cardinality(T)
  BY Zenon DEF Server!Cardinality, S!Cardinality
<1>1. /\ Server!BindTicket(c) => S!BindTicket(c)
      /\ Server!RefuseTicket => S!RefuseTicket
  BY <1>a, <1>b DEF Server!BindTicket, S!BindTicket, Server!RefuseTicket,
              S!RefuseTicket
<1>2. Server!CreateTicket(c) => S!CreateTicket(c)
  BY <1>1 DEF Server!CreateTicket, S!CreateTicket
<1>3. Server!UpdateTicket(c, t) => S!UpdateTicket(c, t)
  BY <1>1 DEF Server!UpdateTicket, S!UpdateTicket, Server!HoldsSession,
              S!HoldsSession
<1>4. Server!UpdateTicketTooLate(c) => S!UpdateTicketTooLate(c)
  BY DEF Server!UpdateTicketTooLate, S!UpdateTicketTooLate
<1>5. /\ Server!Upgrade(t, s) => S!Upgrade(t, s)
      /\ Server!RefuseUpgrade(t) => S!RefuseUpgrade(t)
  BY DEF Server!Upgrade, S!Upgrade, Server!RefuseUpgrade, S!RefuseUpgrade,
         Server!RedeemTicket, S!RedeemTicket
<1> QED BY <1>2, <1>3, <1>4, <1>5

(* So are the socket's callbacks and the clock.                            *)
LEMMA SameCallbacks ==
    ASSUME NEW s, NEW code
    PROVE  /\ Server!Open(s) => S!Open(s)
           /\ Server!Message(s) => S!Message(s)
           /\ Server!ReaperFires(s) => S!ReaperFires(s)
           /\ Server!Close(s, code) => S!Close(s, code)
           /\ Server!Tick => S!Tick
<1> USE DEF Server!registry, S!registry, Server!connections, S!connections,
            Server!Live, S!Live, Server!Delete, S!Delete, Server!Put, S!Put,
            Server!ticketing, S!ticketing, Server!Closing, S!Closing,
            Server!ClearedReaper, S!ClearedReaper
<1>1. Server!Open(s) => S!Open(s)
  BY DEF Server!Open, S!Open, Server!ArmReaper, S!ArmReaper,
         Server!Superseded, S!Superseded, Server!SweptInactive,
         S!SweptInactive, Server!InactiveAfterOpen, S!InactiveAfterOpen
<1>2. Server!Message(s) => S!Message(s)
  BY DEF Server!Message, S!Message, Server!ArmReaper, S!ArmReaper
<1>3. Server!ReaperFires(s) => S!ReaperFires(s)
  BY DEF Server!ReaperFires, S!ReaperFires
<1>4. Server!Close(s, code) => S!Close(s, code)
  BY DEF Server!Close, S!Close, Server!Owns, S!Owns, Server!Willing, S!Willing
<1>5. Server!Tick => S!Tick
  BY DEF Server!Tick, S!Tick
<1> QED BY <1>1, <1>2, <1>3, <1>4, <1>5

(* A step of the server is one SocketServerProofs is about.                *)
LEMMA SameServer ==
    /\ Server!Init => S!Init
    /\ [Server!Next]_serverVars => [S!Next]_(S!vars)
<1>1. Server!Init => S!Init
  BY DEF Server!Init, S!Init, Server!EmptyMap, S!EmptyMap
<1>2. ASSUME NEW s \in 1..MaxAttempts, Server!SocketEvent(s)
      PROVE  S!SocketEvent(s)
  BY <1>2, SameCallbacks
     DEF Server!SocketEvent, S!SocketEvent, Server!CloseCode, S!CloseCode
<1>3. Server!Ticketing => S!Ticketing
  BY SameTicketing DEF Server!Ticketing, S!Ticketing
<1>4. Server!Tick => S!Tick
  BY SameCallbacks
<1>5. Server!Next => S!Next
  BY <1>2, <1>3, <1>4 DEF Server!Next, S!Next
<1>6. UNCHANGED serverVars => UNCHANGED S!vars
  BY DEF serverVars, S!vars
<1> QED BY <1>1, <1>5, <1>6

-----------------------------------------------------------------------------
(* What is needed of the invariants of the two ends.                       *)

(* A connection on its way up whose welcome has not been handled.          *)
InFlight(n) ==
    n \in Attempt \ listening /\ readyState[n] \in {"connecting", "open"}

Waiting(n) == n <= attempts /\ outcome[n] = "pending"

(* As long as no attempt outlived its timeout, a connection in flight is   *)
(* that of #socket and somebody waits for it, only one attempt is waited   *)
(* for, and a client that is ready waits for none.                         *)
OneAtATime ==
    /\ \A n \in Attempt : InFlight(n) => Waiting(n) /\ socket = n
    /\ \A m, n \in Attempt : Waiting(m) /\ Waiting(n) => m = n
    /\ ready => /\ socket \in listening
                /\ \A n \in Attempt : ~Waiting(n)

(* Of the client: attempts are begun in order, and have a socket only once *)
(* they have their ticket.                                                 *)
ClientEnd ==
    /\ attempts \in Attempt
    /\ ticketing \subseteq Attempt /\ listening \subseteq Attempt
    /\ socket \in Attempt \cup {None}
    /\ readyState \in [Attempt -> C!ReadyState]
    /\ outcome \in [Attempt -> C!Outcome]
    /\ \A n \in Attempt : n > attempts => readyState[n] = "none"
    /\ \A n \in ticketing : n <= attempts /\ readyState[n] = "none"
    /\ \A n \in listening : readyState[n] \in {"open", "closing", "closed"}
    /\ ~late => OneAtATime

(* All of this follows from the invariant of the client.                   *)
LEMMA ClientEndHolds == C!ClientInv => ClientEnd
<1> SUFFICES ASSUME C!ClientInv PROVE ClientEnd
  OBVIOUS
<1> USE DEF C!Attempt
<1>1. C!TypeOK /\ C!AttemptsInOrder
  BY DEF C!ClientInv
<1>2. /\ attempts \in Attempt
      /\ ticketing \subseteq 1..attempts /\ 1..attempts \subseteq Attempt
      /\ listening \subseteq Attempt
      /\ socket \in Attempt \cup {None}
      /\ readyState \in [Attempt -> C!ReadyState]
      /\ outcome \in [Attempt -> C!Outcome]
  BY <1>1 DEF C!TypeOK
<1>3. /\ \A n \in Attempt : n > attempts => readyState[n] = "none"
      /\ \A n \in ticketing : n <= attempts /\ readyState[n] = "none"
      /\ \A n \in listening : readyState[n] \in {"open", "closing", "closed"}
  BY <1>1, <1>2 DEF C!TypeOK, C!AttemptsInOrder
<1>4. ASSUME ~late PROVE OneAtATime
  <2>1. \A n \in Attempt : Waiting(n) <=> C!Pending(n)
    BY DEF Waiting, C!Pending
  <2>2. ASSUME NEW n \in Attempt, Waiting(n)
        PROVE  ~ready /\ \A m \in Attempt : Waiting(m) => m = n
    <3>1. C!Pending(n)
      BY <2>1, <2>2
    <3>2. C!Threads = {n} /\ ~ready
      BY <1>4, <3>1, C!PendingAlone
    <3>3. \A m \in Attempt : Waiting(m) => m \in C!Threads
      BY <2>1, C!ThreadsMembers
    <3> QED BY <3>2, <3>3
  <2>3. ASSUME NEW n \in Attempt, InFlight(n)
        PROVE  Waiting(n) /\ socket = n
    BY <1>4, <2>1, <2>3 DEF InFlight, C!ClientInv, C!SocketIsCurrent
  <2>4. ready => socket \in listening
    BY <1>4 DEF C!ClientInv, C!SteadyWhileReady
  <2> QED BY <2>2, <2>3, <2>4 DEF OneAtATime
<1> QED BY <1>2, <1>3, <1>4 DEF ClientEnd

(* Of the server: each session has its socket and each connected socket    *)
(* its session, and a superseded one has been open.                        *)
ServerEnd ==
    /\ lastTicket \in Nat /\ DOMAIN tickets \subseteq 1..lastTicket
    /\ \A t \in DOMAIN tickets : tickets[t].clientId \in ClientId
    /\ lastToken \in Nat
    /\ \A c \in DOMAIN active :
          /\ c \in ClientId
          /\ active[c].ws \in Attempt
          /\ ws[active[c].ws].clientId = c
          /\ ws[active[c].ws].status \in {"open", "closing"}
          /\ ~ws[active[c].ws].superseded
    /\ DOMAIN active \cap DOMAIN inactive = {}
    /\ ws \in [Attempt -> S!SocketData]
    /\ \A n \in Attempt :
          /\ ws[n].status \in {"free", "upgraded", "open", "closing", "closed"}
          /\ ws[n].status # "free" => ws[n].clientId \in ClientId
          /\ ws[n].status \in {"free", "upgraded"} => ~ws[n].superseded
          /\ ws[n].status \in {"open", "closing"} /\ ~ws[n].superseded =>
                /\ ws[n].clientId \in DOMAIN active
                /\ active[ws[n].clientId].ws = n

(* All of this follows from the invariant of the server.                   *)
LEMMA ServerEndHolds == S!TypeOK /\ S!SessionInv => ServerEnd
BY DEF ServerEnd, S!TypeOK, S!SessionInv, S!SessionSocket, S!NoOrphan,
       S!OneRecord, S!NotYetSuperseded, S!Ticket, S!ActiveSession,
       S!SocketData, S!Status

-----------------------------------------------------------------------------
(* The inductive invariant, in parts.                                      *)

(* The ticket request of an attempt is where the client thinks it is, and  *)
(* the ticket it was answered with is of the identity it was told.         *)
TicketsMatch ==
    \A n \in Attempt :
        /\ n > attempts => exchange[n] = "none"
        /\ n <= attempts => exchange[n] # "none"
        /\ exchange[n] \in {"put", "post"} => n \in ticketing
        /\ n \in ticketing => exchange[n] # "failed"
        /\ readyState[n] # "none" => exchange[n] = "answered"
        /\ exchange[n] = "put" => presented[n] \in Identity
        /\ exchange[n] = "answered" =>
              /\ offer[n].clientId \in ClientId
              /\ offer[n].ticket \in 0..lastTicket
              /\ offer[n].ticket \in DOMAIN tickets =>
                    tickets[offer[n].ticket].clientId = offer[n].clientId

(* The two ends of a connection: the server has accepted no socket the     *)
(* client did not begin, knows it by the identity its ticket was for, and  *)
(* welcomes each with a token of its own.                                  *)
ConnectionsMatch ==
    \A n \in Attempt :
        /\ ws[n].status # "free" =>
              readyState[n] # "none" /\ ws[n].clientId = offer[n].clientId
        /\ readyState[n] \in {"open", "closing"} => ws[n].status # "free"
        /\ n \in listening => welcome[n] # 0
        /\ ws[n].status \in {"free", "upgraded"} <=> welcome[n] = 0
        /\ welcome[n] \in 0..lastToken
        /\ \A m \in Attempt : welcome[m] = welcome[n] /\ welcome[n] # 0 => m = n

(* A session's token is that of its socket's welcome; one that lost its    *)
(* session lost the token with it; and the server closes a socket of its   *)
(* own accord only after a takeover or a silence.                          *)
TokensMatch ==
    /\ \A c \in DOMAIN active : active[c].token = welcome[active[c].ws]
    /\ \A c \in DOMAIN inactive : inactive[c].token \in 1..lastToken
    /\ \A n \in Attempt :
          /\ ws[n].superseded => SessionToken(ws[n].clientId) # welcome[n]
          /\ ws[n].status = "closing" => ws[n].reaped \/ ws[n].superseded

(* Nobody closed a socket of an undisturbed client, and none was lost      *)
(* before its welcome.                                                     *)
SocketsKept ==
    \A n \in Attempt :
        /\ readyState[n] \in {"none", "connecting", "open", "closed"}
        /\ readyState[n] = "closed" /\ ws[n].status # "free" => n \in listening

(* An undisturbed client's identity is the one it asks for, is granted and *)
(* is connected with, and its token the one the server has, unless the     *)
(* welcome with the next one is on its way.                                *)
Recognised ==
    /\ \A c \in DOMAIN inactive : inactive[c].expiresAt > now
    /\ \A n \in Attempt :
          InFlight(n) /\ welcome[n] # 0 => SessionToken(ws[n].clientId) = welcome[n]
    /\ ready => /\ identity # None
                /\ identity.clientId = ws[socket].clientId
                /\ identity.token = welcome[socket]
    /\ identity # None =>
          /\ \A n \in Attempt : Waiting(n) =>
                /\ n \in ticketing => presented[n] = identity /\ exchange[n] # "post"
                /\ exchange[n] = "answered" => offer[n].clientId = identity.clientId
          /\ \/ SessionToken(identity.clientId) = identity.token
             \/ \E n \in Attempt : InFlight(n) /\ welcome[n] # 0

Matching == TicketsMatch /\ ConnectionsMatch /\ TokensMatch

UndisturbedInv == Undisturbed => SocketsKept /\ Recognised

(* What links the two ends, beside what each keeps to itself.              *)
Linked == TypeOK /\ Matching /\ UndisturbedInv

SessionInv == C!ClientInv /\ S!TypeOK /\ S!SessionInv /\ Linked

-----------------------------------------------------------------------------
(* Every step is one of the client, one of the server, or both.            *)

(* What a step does to the client, the client could do alone.              *)
LEMMA ClientSteps == ASSUME Next PROVE [Client!Next]_clientVars
<1> USE DEF Client!Attempt
<1>1. Reconnect => Client!Next
  BY DEF Reconnect, Client!Reconnect, Client!Next
<1>2. ASSUME NEW n \in Attempt,
             \/ TicketArrives(n) \/ FetchFails(n) \/ SocketOpens(n)
             \/ Welcome(n) \/ ClientHears(n) \/ ConnectFails(n)
             \/ ClientCloses(n)
      PROVE  Client!Next
  BY <1>2 DEF TicketArrives, FetchFails, SocketOpens, Welcome, ClientHears,
              ConnectFails, ClientCloses, Client!Next
<1>3. ASSUME NEW n \in Attempt,
             \/ Reclaim(n) \/ CreateTicket(n) \/ Upgrade(n) \/ Open(n)
             \/ ServerHears(n) \/ ReaperFires(n) \/ ServerCloses(n)
      PROVE  UNCHANGED clientVars
  BY <1>3 DEF Reclaim, CreateTicket, Upgrade, Open, ServerHears, ReaperFires,
              ServerCloses
<1>4. ClientTimeout \/ CloseClient => Client!Next
  BY DEF ClientTimeout, CloseClient, Client!Next
<1>5. Tick => UNCHANGED clientVars
  BY DEF Tick
<1> QED BY <1>1, <1>2, <1>3, <1>4, <1>5 DEF Next

(* What a step does to the server, the server could do alone; a token a    *)
(* client presents and the server accepts is one the server drew.          *)
LEMMA ServerSteps ==
    ASSUME TypeOK, ServerEnd, Matching, Next
    PROVE  [Server!Next]_serverVars
<1>1. ASSUME NEW n \in Attempt, Reclaim(n)
      PROVE  Server!Ticketing \/ UNCHANGED serverVars
  <2> DEFINE p == presented[n]
  <2>1. p.clientId \in ClientId /\ p.token \in Nat \ {0}
    BY <1>1 DEF Reclaim, Matching, TicketsMatch, Identity
  <2>2. CASE Server!HoldsSession(p.clientId, p.token)
    <3>1. \/ \E m \in Attempt : p.token = welcome[m]
          \/ p.token \in 1..lastToken
      BY <2>2 DEF Server!HoldsSession, Matching, TokensMatch, ServerEnd
    <3>a. lastToken \in Nat /\ \A m \in Attempt : welcome[m] \in 0..lastToken
      BY DEF Matching, ConnectionsMatch, ServerEnd
    <3>2. p.token \in 1..lastToken
      BY <2>1, <3>1, <3>a
    <3>3. Server!UpdateTicket(p.clientId, p.token)
      BY <1>1, <2>2 DEF Reclaim
    <3> QED BY <2>1, <3>2, <3>3 DEF Server!Ticketing
  <2>3. CASE ~Server!HoldsSession(p.clientId, p.token)
    <3>1. Server!UpdateTicketTooLate(p.clientId) \/ UNCHANGED serverVars
      BY <1>1, <2>3 DEF Reclaim
    <3> QED BY <2>1, <3>1 DEF Server!Ticketing
  <2> QED BY <2>2, <2>3
<1>2. ASSUME NEW n \in Attempt, CreateTicket(n) PROVE Server!Ticketing
  BY <1>2 DEF CreateTicket, Server!Ticketing
<1>3. ASSUME NEW n \in Attempt, Upgrade(n) PROVE Server!Ticketing
  <2>1. Server!Upgrade(offer[n].ticket, n) /\ offer[n].ticket \in DOMAIN tickets
    BY <1>3 DEF Upgrade, Server!Upgrade, Server!RedeemTicket
  <2> QED BY <2>1 DEF Server!Ticketing
<1>4. ASSUME NEW n \in Attempt, ConnectFails(n)
      PROVE  Server!Ticketing \/ UNCHANGED serverVars
  BY <1>4 DEF ConnectFails, Server!Ticketing
<1>5. ASSUME NEW n \in Attempt,
             Open(n) \/ ServerHears(n) \/ ReaperFires(n) \/ ServerCloses(n)
      PROVE  Server!SocketEvent(n)
  <2>1. {1000, 1006} = Server!CloseCode
    BY DEF Server!CloseCode
  <2> QED BY <1>5, <2>1 DEF Open, ServerHears, ReaperFires, ServerCloses,
                            Server!SocketEvent
<1>6. ASSUME NEW n \in Attempt,
             \/ TicketArrives(n) \/ FetchFails(n) \/ SocketOpens(n)
             \/ Welcome(n) \/ ClientHears(n) \/ ClientCloses(n)
      PROVE  UNCHANGED serverVars
  BY <1>6 DEF TicketArrives, FetchFails, SocketOpens, Welcome, ClientHears,
              ClientCloses
<1>7. Reconnect \/ ClientTimeout \/ CloseClient => UNCHANGED serverVars
  BY DEF Reconnect, ClientTimeout, CloseClient
<1>8. Tick => Server!Tick
  BY DEF Tick
<1> QED BY <1>1, <1>2, <1>3, <1>4, <1>5, <1>6, <1>7, <1>8
        DEF Next, Server!Next

(* Both ends keep their own invariants through every step of the whole.    *)
LEMMA EndsStep ==
    ASSUME SessionInv, [Next]_vars
    PROVE  /\ C!ClientInv' /\ S!TypeOK' /\ S!SessionInv'
           /\ ClientEnd /\ ClientEnd' /\ ServerEnd /\ ServerEnd'
<1>1. ClientEnd /\ ServerEnd
  BY ClientEndHolds, ServerEndHolds DEF SessionInv
<1>2. [Client!Next]_clientVars
  BY ClientSteps DEF vars
<1>3. [Server!Next]_serverVars
  BY <1>1, ServerSteps DEF vars, SessionInv, Linked
<1>4. C!ClientInv'
  <2>1. [C!Next]_(C!vars) /\ C!ClientInv
    BY <1>2, SameClient DEF SessionInv
  <2> QED BY <2>1, C!ClientStep
<1>5. S!TypeOK' /\ S!SessionInv'
  <2>1. [S!Next]_(S!vars) /\ S!TypeOK /\ S!SessionInv
    BY <1>3, SameServer DEF SessionInv
  <2>2. S!TypeOK'
    BY <2>1, S!TypeStep
  <2> QED BY <2>1, <2>2, S!SessionStep
<1>6. ClientEnd'
  <2>1. C!ClientInv' => ClientEnd'
    BY ClientEndHolds, PTL
  <2> QED BY <1>4, <2>1
<1>7. ServerEnd'
  <2>1. S!TypeOK' /\ S!SessionInv' => ServerEnd'
    BY ServerEndHolds, PTL
  <2> QED BY <1>5, <2>1
<1> QED BY <1>1, <1>4, <1>5, <1>6, <1>7

-----------------------------------------------------------------------------
(* What a step that does not touch them leaves in place.                   *)

(* Tickets may be spent and swept, and sockets begun on a ticket.          *)
LEMMA TicketsFrame ==
    ASSUME TicketsMatch,
           UNCHANGED <<attempts, exchange, presented, offer, lastTicket>>,
           \A t \in DOMAIN tickets' :
              t \in DOMAIN tickets /\ tickets'[t] = tickets[t],
           \A n \in Attempt :
              /\ n \in ticketing' => n \in ticketing
              /\ n \in ticketing => n \in ticketing' \/ exchange[n] = "answered"
              /\ readyState'[n] # "none" =>
                    readyState[n] # "none" \/ exchange[n] = "answered"
    PROVE  TicketsMatch'
<1>1. ASSUME NEW n \in Attempt, exchange[n] = "answered"
      PROVE  offer[n].ticket \in DOMAIN tickets' =>
                tickets'[offer[n].ticket].clientId = offer[n].clientId
  BY <1>1 DEF TicketsMatch
<1> QED BY <1>1 DEF TicketsMatch

(* Sockets may open at the client and close at either end.                 *)
LEMMA ConnectionsFrame ==
    ASSUME ConnectionsMatch,
           UNCHANGED <<offer, welcome, lastToken>>,
           \A n \in Attempt :
              /\ ws'[n].clientId = ws[n].clientId
              /\ ws'[n].status = "free" <=> ws[n].status = "free"
              /\ ws'[n].status = "upgraded" <=> ws[n].status = "upgraded"
              /\ readyState[n] # "none" => readyState'[n] # "none"
              /\ readyState'[n] \in {"open", "closing"} =>
                    readyState[n] \in {"open", "closing"} \/ ws[n].status # "free"
              /\ n \in listening' => n \in listening \/ welcome[n] # 0
    PROVE  ConnectionsMatch'
BY DEF ConnectionsMatch

(* Sockets may be reaped.                                                  *)
LEMMA TokensFrame ==
    ASSUME TokensMatch,
           UNCHANGED <<active, inactive, welcome, lastToken>>,
           \A n \in Attempt :
              /\ ws'[n].clientId = ws[n].clientId
              /\ ws'[n].superseded = ws[n].superseded
              /\ ws[n].reaped => ws'[n].reaped
              /\ ws'[n].status = "closing" =>
                    ws[n].status = "closing" \/ ws'[n].reaped
    PROVE  TokensMatch'
BY DEF TokensMatch, SessionToken

(* Attempts may settle and the connection be lost, but none that has been  *)
(* opened at the server and not been welcomed.                             *)
LEMMA RecognisedFrame ==
    ASSUME Recognised, OneAtATime, ConnectionsMatch, ClientEnd,
           UNCHANGED <<identity, welcome, active, inactive, now>>,
           \A n \in Attempt :
              /\ welcome[n] # 0 => ws'[n].clientId = ws[n].clientId
              /\ welcome[n] # 0 => (InFlight(n)' <=> InFlight(n))
              /\ Waiting(n)' => /\ Waiting(n)
                                /\ n \in ticketing' => n \in ticketing
                                /\ presented'[n] = presented[n]
                                /\ exchange'[n] = exchange[n]
                                /\ offer'[n] = offer[n],
           ready' => ready /\ socket' = socket
    PROVE  Recognised'
<1>1. \A c \in DOMAIN inactive' : inactive'[c].expiresAt > now'
  BY DEF Recognised
<1>2. ASSUME NEW n \in Attempt, InFlight(n)', welcome'[n] # 0
      PROVE  SessionToken(ws[n].clientId)' = welcome'[n]
  BY <1>2 DEF Recognised, SessionToken
<1>3. ASSUME ready'
      PROVE  /\ identity' # None
             /\ identity'.clientId = ws'[socket'].clientId
             /\ identity'.token = welcome'[socket']
  <2>1. socket \in Attempt /\ welcome[socket] # 0
    BY <1>3 DEF OneAtATime, ConnectionsMatch, ClientEnd
  <2> QED BY <1>3, <2>1 DEF Recognised
<1>4. ASSUME identity' # None, NEW n \in Attempt, Waiting(n)'
      PROVE  /\ n \in ticketing' =>
                   presented'[n] = identity' /\ exchange'[n] # "post"
             /\ exchange'[n] = "answered" =>
                   offer'[n].clientId = identity'.clientId
  BY <1>4 DEF Recognised
<1>5. ASSUME identity' # None
      PROVE  \/ SessionToken(identity.clientId)' = identity'.token
             \/ \E n \in Attempt : InFlight(n)' /\ welcome'[n] # 0
  BY <1>5 DEF Recognised, SessionToken
<1> QED BY <1>1, <1>2, <1>3, <1>4, <1>5 DEF Recognised

(* Timers, and the flags of reconnection, are of no concern here.          *)
LEMMA StutterLinks ==
    ASSUME Linked,
           UNCHANGED <<serverVars, netVars, attempts, ticketing, outcome, ready,
                       closing, socket, readyState, listening, late>>
    PROVE  Linked'
<1> USE DEF serverVars, netVars, requestVars
<1>1. TypeOK'
  BY DEF Linked, TypeOK
<1>2. Matching'
  BY DEF Linked, Matching, TicketsMatch, ConnectionsMatch, TokensMatch,
         SessionToken
<1>3. ASSUME Undisturbed' PROVE SocketsKept' /\ Recognised'
  <2>1. SocketsKept /\ Recognised
    BY <1>3 DEF Linked, UndisturbedInv, Undisturbed
  <2>2. SocketsKept'
    BY <2>1 DEF SocketsKept
  <2>3. Recognised'
    BY <2>1 DEF Recognised, SessionToken, InFlight, Waiting
  <2> QED BY <2>2, <2>3
<1> QED BY <1>1, <1>2, <1>3 DEF Linked, UndisturbedInv

-----------------------------------------------------------------------------
(* The steps of the client.                                                *)

(* What close() does to #socket, seen from the other sockets.              *)
LEMMA CloseCurrentStates ==
    ASSUME ClientEnd, ClientEnd', Client!CloseCurrent
    PROVE  \A n \in Attempt :
              /\ readyState'[n] = "none" <=> readyState[n] = "none"
              /\ readyState'[n] \in {"open", "closing"} <=>
                    readyState[n] \in {"open", "closing"}
<1>1. \A state : /\ Client!CloseState(state) = "none" <=> state = "none"
                 /\ Client!CloseState(state) \in {"open", "closing"} <=>
                       state \in {"open", "closing"}
  BY Zenon DEF Client!CloseState
<1>2. CASE socket = None
  BY <1>2 DEF Client!CloseCurrent
<1>3. CASE socket \in Attempt
  <2>1. readyState' =
          [readyState EXCEPT ![socket] = Client!CloseState(readyState[socket])]
    BY <1>3 DEF Client!CloseCurrent
  <2> QED BY <1>1, <1>3, <2>1 DEF ClientEnd
<1> QED BY <1>2, <1>3 DEF ClientEnd

(* A ticket comes: the socket that is begun has no other end yet.  An      *)
(* attempt nobody waits for any more would be late.                        *)
LEMMA TicketArrivesStep ==
    ASSUME Linked, ClientEnd, ClientEnd', ServerEnd, NEW n \in Attempt,
           TicketArrives(n)
    PROVE  Linked'
<1>1. /\ exchange[n] = "answered" /\ n \in ticketing
      /\ ticketing' = ticketing \ {n}
      /\ readyState' = [readyState EXCEPT ![n] = "connecting"]
      /\ late' = (late \/ ~Waiting(n))
      /\ UNCHANGED <<serverVars, netVars, attempts, outcome, ready, closing,
                     listening>>
  BY DEF TicketArrives, Client!TicketArrives, Client!flags, Client!timers,
         Client!reconnecting, Waiting, Client!Pending
<1>2. /\ readyState[n] = "none" /\ readyState'[n] = "connecting"
      /\ \A m \in Attempt \ {n} : readyState'[m] = readyState[m]
      /\ ws[n].status = "free" /\ welcome[n] = 0
  BY <1>1 DEF ClientEnd, Linked, Matching, ConnectionsMatch
<1>3. TypeOK'
  BY <1>1 DEF Linked, TypeOK, serverVars, netVars, requestVars
<1>4. TicketsMatch'
  BY <1>1, <1>2, TicketsFrame DEF Linked, Matching, serverVars, netVars, requestVars
<1>5. ConnectionsMatch'
  BY <1>1, <1>2, ConnectionsFrame DEF Linked, Matching, serverVars, netVars, requestVars
<1>6. TokensMatch'
  BY <1>1, TokensFrame DEF Linked, Matching, serverVars, netVars, requestVars
<1>7. ASSUME Undisturbed' PROVE SocketsKept' /\ Recognised'
  <2>1. Undisturbed /\ Waiting(n) /\ OneAtATime
    BY <1>1, <1>7 DEF Undisturbed, netVars, ClientEnd
  <2>2. SocketsKept /\ Recognised
    BY <2>1 DEF Linked, UndisturbedInv
  <2>3. SocketsKept'
    BY <1>1, <1>2, <2>2 DEF SocketsKept, serverVars
  <2>4. ~ready'
    BY <1>1, <2>1 DEF OneAtATime
  <2>5. Recognised'
    BY <1>1, <1>2, <2>1, <2>2, <2>4, RecognisedFrame
       DEF Linked, Matching, serverVars, netVars, requestVars, InFlight, Waiting
  <2> QED BY <2>3, <2>5
<1> QED BY <1>3, <1>4, <1>5, <1>6, <1>7 DEF Linked, Matching, UndisturbedInv

(* What an attempt that fails leaves of the others.                        *)
LEMMA FailEffect ==
    ASSUME ClientEnd, NEW n \in Attempt, Client!Fail(n)
    PROVE  \A m \in Attempt : m <= attempts /\ outcome'[m] = "pending" =>
              Waiting(m) /\ m # n
BY DEF Client!Fail, Client!Reject, Client!Pending, Waiting, ClientEnd

(* A ticket request is given up.                                           *)
LEMMA FetchFailsStep ==
    ASSUME Linked, ClientEnd, ClientEnd', ServerEnd, NEW n \in Attempt,
           FetchFails(n)
    PROVE  Linked'
<1>1. /\ n \in ticketing /\ ticketing' = ticketing \ {n}
      /\ exchange' = [exchange EXCEPT ![n] = "failed"]
      /\ Client!Fail(n)
      /\ UNCHANGED <<serverVars, identity, presented, offer, welcome, disturbed,
                     attempts, ready, closing, listening, socket, readyState,
                     late>>
  BY DEF FetchFails, Client!TicketFails, Client!flags, Client!timers,
         Client!sockets, Client!history
<1>2. /\ exchange \in [Attempt -> {"none", "put", "post", "answered", "failed"}]
      /\ exchange'[n] = "failed"
      /\ \A m \in Attempt \ {n} : exchange'[m] = exchange[m]
  BY <1>1 DEF Linked, TypeOK
<1>3. TypeOK'
  BY <1>1, <1>2 DEF Linked, TypeOK
<1>4. TicketsMatch'
  <2>1. n <= attempts /\ ~(n > attempts) /\ readyState[n] = "none"
    BY <1>1 DEF ClientEnd
  <2>2. TicketsMatch
    BY DEF Linked, Matching
  <2> QED BY <1>1, <1>2, <2>1, <2>2 DEF TicketsMatch, serverVars
<1>5. ConnectionsMatch'
  BY <1>1, ConnectionsFrame DEF Linked, Matching, serverVars
<1>6. TokensMatch'
  BY <1>1, TokensFrame DEF Linked, Matching, serverVars
<1>7. ASSUME Undisturbed' PROVE SocketsKept' /\ Recognised'
  <2>1. Undisturbed /\ OneAtATime
    BY <1>1, <1>7 DEF Undisturbed, ClientEnd
  <2>2. SocketsKept /\ Recognised
    BY <2>1 DEF Linked, UndisturbedInv
  <2>3. SocketsKept'
    BY <1>1, <2>2 DEF SocketsKept, serverVars
  <2>4. \A m \in Attempt : Waiting(m)' => Waiting(m) /\ m # n
    BY <1>1, FailEffect DEF Waiting
  <2>5. Recognised'
    BY <1>1, <1>2, <2>1, <2>2, <2>4, RecognisedFrame
       DEF Linked, Matching, serverVars, InFlight
  <2> QED BY <2>3, <2>5
<1> QED BY <1>3, <1>4, <1>5, <1>6, <1>7 DEF Linked, Matching, UndisturbedInv

(* A socket opens at the client, after the server accepted it.             *)
LEMMA SocketOpensStep ==
    ASSUME Linked, ClientEnd, ClientEnd', ServerEnd, NEW n \in Attempt,
           SocketOpens(n)
    PROVE  Linked'
<1>1. /\ ws[n].status # "free" /\ readyState[n] = "connecting"
      /\ readyState' = [readyState EXCEPT ![n] = "open"]
      /\ UNCHANGED <<serverVars, netVars, attempts, ticketing, outcome, ready,
                     closing, socket, listening, late>>
  BY DEF SocketOpens, Client!SocketOpens, Client!flags, Client!timers,
         Client!attempting, Client!history
<1>2. /\ readyState'[n] = "open" /\ n \notin listening
      /\ \A m \in Attempt \ {n} : readyState'[m] = readyState[m]
  BY <1>1 DEF ClientEnd
<1>3. TypeOK'
  BY <1>1 DEF Linked, TypeOK, serverVars, netVars, requestVars
<1>4. TicketsMatch'
  BY <1>1, <1>2, TicketsFrame DEF Linked, Matching, serverVars, netVars, requestVars
<1>5. ConnectionsMatch'
  BY <1>1, <1>2, ConnectionsFrame DEF Linked, Matching, serverVars, netVars, requestVars
<1>6. TokensMatch'
  BY <1>1, TokensFrame DEF Linked, Matching, serverVars, netVars, requestVars
<1>7. ASSUME Undisturbed' PROVE SocketsKept' /\ Recognised'
  <2>1. Undisturbed /\ OneAtATime
    BY <1>1, <1>7 DEF Undisturbed, ClientEnd, netVars
  <2>2. SocketsKept /\ Recognised
    BY <2>1 DEF Linked, UndisturbedInv
  <2>3. SocketsKept'
    BY <1>1, <1>2, <2>2 DEF SocketsKept, serverVars
  <2>5. Recognised'
    BY <1>1, <1>2, <2>1, <2>2, RecognisedFrame
       DEF Linked, Matching, serverVars, netVars, requestVars, InFlight, Waiting
  <2> QED BY <2>3, <2>5
<1> QED BY <1>3, <1>4, <1>5, <1>6, <1>7 DEF Linked, Matching, UndisturbedInv

(* A connection attempt fails that the server has not accepted, or will    *)
(* not have accepted: its ticket may be spent.                             *)
LEMMA ConnectFailsStep ==
    ASSUME Linked, ClientEnd, ClientEnd', ServerEnd, NEW n \in Attempt,
           ConnectFails(n)
    PROVE  Linked'
<1>1. /\ ws[n].status = "free" /\ readyState[n] \in {"connecting", "aborting"}
      /\ readyState' = [readyState EXCEPT ![n] = "closed"]
      /\ Client!Fail(n)
      /\ UNCHANGED <<netVars, attempts, ticketing, ready, closing, socket,
                     listening, late>>
      /\ UNCHANGED <<now, lastTicket, issued, active, inactive, lastToken, ws,
                     reapers, heard>>
      /\ tickets' = tickets \/ \E t : Server!RedeemTicket(t)
  BY DEF ConnectFails, Client!SocketFails, Client!flags, Client!timers,
         Client!history, serverVars, Server!RefuseUpgrade, Server!registry,
         Server!connections
<1>2. /\ readyState'[n] = "closed" /\ n \notin listening
      /\ \A m \in Attempt \ {n} : readyState'[m] = readyState[m]
      /\ welcome[n] = 0
  BY <1>1 DEF ClientEnd, Linked, Matching, ConnectionsMatch
<1>3. \A t \in DOMAIN tickets' : t \in DOMAIN tickets /\ tickets'[t] = tickets[t]
  BY <1>1 DEF Server!RedeemTicket, Server!Delete
<1>4. TypeOK'
  BY <1>1 DEF Linked, TypeOK, netVars, requestVars
<1>5. TicketsMatch'
  BY <1>1, <1>2, <1>3, TicketsFrame DEF Linked, Matching, netVars, requestVars
<1>6. ConnectionsMatch'
  BY <1>1, <1>2, ConnectionsFrame DEF Linked, Matching, netVars, requestVars
<1>7. TokensMatch'
  BY <1>1, TokensFrame DEF Linked, Matching, netVars, requestVars
<1>8. ASSUME Undisturbed' PROVE SocketsKept' /\ Recognised'
  <2>1. Undisturbed /\ OneAtATime
    BY <1>1, <1>8 DEF Undisturbed, ClientEnd, netVars
  <2>2. SocketsKept /\ Recognised
    BY <2>1 DEF Linked, UndisturbedInv
  <2>3. SocketsKept'
    BY <1>1, <1>2, <2>2 DEF SocketsKept
  <2>4. \A m \in Attempt : Waiting(m)' => Waiting(m) /\ m # n
    BY <1>1, FailEffect DEF Waiting
  <2>5. Recognised'
    BY <1>1, <1>2, <2>1, <2>2, <2>4, RecognisedFrame
       DEF Linked, Matching, netVars, requestVars, InFlight
  <2> QED BY <2>3, <2>5
<1> QED BY <1>4, <1>5, <1>6, <1>7, <1>8 DEF Linked, Matching, UndisturbedInv

(* The welcome is handled: the attempt is the one that was waited for, and *)
(* the client has the token the server has.                                *)
LEMMA WelcomeStep ==
    ASSUME Linked, ClientEnd, ClientEnd', ServerEnd, NEW n \in Attempt,
           Welcome(n)
    PROVE  /\ Linked'
           /\ Undisturbed' /\ identity # None =>
                 identity'.clientId = identity.clientId
<1>1. /\ welcome[n] # 0 /\ readyState[n] = "open" /\ n \notin listening
      /\ listening' = listening \cup {n}
      /\ ready' = TRUE
      /\ Client!Succeed(n)
      /\ identity' = [clientId |-> ws[n].clientId, token |-> welcome[n]]
      /\ UNCHANGED <<serverVars, requestVars, welcome, disturbed, attempts,
                     ticketing, closing, socket, readyState, late>>
  BY DEF Welcome, Client!Welcome, Client!reconnecting, Client!history
<1>2. /\ ws[n].clientId \in ClientId /\ ws[n].clientId = offer[n].clientId
      /\ exchange[n] = "answered"
      /\ welcome[n] \in Nat \ {0}
  BY <1>1 DEF Linked, Matching, ConnectionsMatch, TicketsMatch, ServerEnd, TypeOK
<1>3. \A m \in Attempt : Waiting(m)' => Waiting(m) /\ m # n
  BY <1>1 DEF Waiting, Client!Succeed, Client!Pending, ClientEnd
<1>4. TypeOK'
  <2>1. identity' \in Identity
    BY <1>1, <1>2 DEF Identity
  <2> QED BY <1>1, <2>1 DEF Linked, TypeOK, serverVars, requestVars
<1>5. TicketsMatch'
  BY <1>1, TicketsFrame DEF Linked, Matching, serverVars, requestVars
<1>6. ConnectionsMatch'
  BY <1>1, ConnectionsFrame DEF Linked, Matching, serverVars, requestVars
<1>7. TokensMatch'
  BY <1>1, TokensFrame DEF Linked, Matching, serverVars, requestVars
<1>8. ASSUME Undisturbed'
      PROVE  /\ SocketsKept' /\ Recognised'
             /\ identity # None => identity'.clientId = identity.clientId
  <2>1. Undisturbed /\ OneAtATime
    BY <1>1, <1>8 DEF Undisturbed, ClientEnd
  <2>2. SocketsKept /\ Recognised
    BY <2>1 DEF Linked, UndisturbedInv
  <2>3. SocketsKept'
    BY <1>1, <2>2 DEF SocketsKept, serverVars
  <2>4. InFlight(n) /\ Waiting(n) /\ socket = n
    BY <1>1, <2>1 DEF InFlight, OneAtATime
  <2>5. \A m \in Attempt : ~Waiting(m)' /\ ~InFlight(m)'
    <3>1. ASSUME NEW m \in Attempt, Waiting(m)' PROVE FALSE
      BY <1>3, <2>1, <2>4, <3>1 DEF OneAtATime
    <3>2. ASSUME NEW m \in Attempt, InFlight(m)' PROVE FALSE
      BY <1>1, <2>1, <2>4, <3>2 DEF OneAtATime, InFlight
    <3> QED BY <3>1, <3>2
  <2>6. SessionToken(ws[n].clientId) = welcome[n]
    BY <1>1, <2>2, <2>4 DEF Recognised
  <2>7. identity # None => identity'.clientId = identity.clientId
    BY <1>1, <1>2, <2>2, <2>4 DEF Recognised
  <2>8. /\ ready' /\ socket' = n
        /\ identity'.clientId = ws'[n].clientId
        /\ identity'.token = welcome'[n]
    BY <1>1, <2>4 DEF serverVars
  <2>9. SessionToken(identity.clientId)' = identity'.token
    BY <1>1, <2>6 DEF SessionToken, serverVars
  <2>10. identity' # None
    BY <1>1, <1>2, NoneAssumption DEF Identity
  <2>11. \A c \in DOMAIN inactive' : inactive'[c].expiresAt > now'
    BY <1>1, <2>2 DEF Recognised, serverVars
  <2>12. Recognised'
    BY <2>5, <2>8, <2>9, <2>10, <2>11 DEF Recognised
  <2> QED BY <2>3, <2>7, <2>12
<1> QED BY <1>4, <1>5, <1>6, <1>7, <1>8 DEF Linked, Matching, UndisturbedInv

(* A later message only re-arms a timer.                                   *)
LEMMA ClientHearsStep ==
    ASSUME Linked, NEW n \in Attempt, ClientHears(n)
    PROVE  Linked'
<1>1. UNCHANGED <<serverVars, netVars, attempts, ticketing, outcome, ready,
                  closing, socket, readyState, listening, late>>
  BY DEF ClientHears, Client!Message, Client!flags, Client!attempting,
         Client!sockets, Client!reconnecting, Client!history
<1> QED BY <1>1, StutterLinks

(* A timeout that closes a socket disturbs; one that finds none to close   *)
(* only settles an attempt.                                                *)
LEMMA ClientTimeoutStep ==
    ASSUME Linked, ClientEnd, ClientEnd', ServerEnd, ClientTimeout
    PROVE  Linked'
<1>1. /\ Client!CloseCurrent
      /\ disturbed' = (disturbed \/ readyState' # readyState)
      /\ UNCHANGED <<serverVars, identity, requestVars, welcome, attempts,
                     ticketing, ready, closing, socket, listening, late>>
      /\ \A m \in Attempt : Waiting(m)' => Waiting(m)
  <2>1. ASSUME NEW n \in Attempt, Client!EstablishTimeout(n)
        PROVE  /\ Client!CloseCurrent
               /\ UNCHANGED <<attempts, ticketing, ready, closing, socket,
                              listening, late>>
               /\ \A m \in Attempt : Waiting(m)' => Waiting(m)
    BY <2>1 DEF Client!EstablishTimeout, Client!Reject, Client!flags,
                Client!timers, Client!history, Waiting, ClientEnd
  <2>2. ASSUME Client!LivenessTimeout
        PROVE  /\ Client!CloseCurrent
               /\ UNCHANGED <<attempts, ticketing, ready, closing, socket,
                              listening, late>>
               /\ \A m \in Attempt : Waiting(m)' => Waiting(m)
    BY <2>2 DEF Client!LivenessTimeout, Client!flags, Client!attempting,
                Client!reconnecting, Client!history, Waiting
  <2> QED BY <2>1, <2>2 DEF ClientTimeout
<1>2. \A n \in Attempt :
         /\ readyState'[n] = "none" <=> readyState[n] = "none"
         /\ readyState'[n] \in {"open", "closing"} <=>
               readyState[n] \in {"open", "closing"}
  BY <1>1, CloseCurrentStates
<1>3. TypeOK'
  BY <1>1 DEF Linked, TypeOK, serverVars, requestVars
<1>4. TicketsMatch'
  BY <1>1, <1>2, TicketsFrame DEF Linked, Matching, serverVars, requestVars
<1>5. ConnectionsMatch'
  BY <1>1, <1>2, ConnectionsFrame DEF Linked, Matching, serverVars, requestVars
<1>6. TokensMatch'
  BY <1>1, TokensFrame DEF Linked, Matching, serverVars, requestVars
<1>7. ASSUME Undisturbed' PROVE SocketsKept' /\ Recognised'
  <2>1. Undisturbed /\ OneAtATime /\ readyState' = readyState
    BY <1>1, <1>7 DEF Undisturbed, ClientEnd
  <2>2. SocketsKept /\ Recognised
    BY <2>1 DEF Linked, UndisturbedInv
  <2>3. SocketsKept'
    BY <1>1, <2>1, <2>2 DEF SocketsKept, serverVars
  <2>4. Recognised'
    BY <1>1, <2>1, <2>2, RecognisedFrame
       DEF Linked, Matching, serverVars, requestVars, InFlight
  <2> QED BY <2>3, <2>4
<1> QED BY <1>3, <1>4, <1>5, <1>6, <1>7 DEF Linked, Matching, UndisturbedInv

(* After close() the client has no identity to keep.                       *)
LEMMA CloseClientStep ==
    ASSUME Linked, ClientEnd, ClientEnd', ServerEnd, CloseClient
    PROVE  Linked'
<1>1. /\ Client!CloseCurrent /\ closing'
      /\ UNCHANGED <<serverVars, netVars, attempts, ticketing, listening>>
  BY DEF CloseClient, Client!CloseClient, Client!attempting
<1>2. \A n \in Attempt :
         /\ readyState'[n] = "none" <=> readyState[n] = "none"
         /\ readyState'[n] \in {"open", "closing"} <=>
               readyState[n] \in {"open", "closing"}
  BY <1>1, CloseCurrentStates
<1>3. TypeOK'
  BY <1>1 DEF Linked, TypeOK, serverVars, netVars, requestVars
<1>4. TicketsMatch'
  BY <1>1, <1>2, TicketsFrame DEF Linked, Matching, serverVars, netVars, requestVars
<1>5. ConnectionsMatch'
  BY <1>1, <1>2, ConnectionsFrame DEF Linked, Matching, serverVars, netVars, requestVars
<1>6. TokensMatch'
  BY <1>1, TokensFrame DEF Linked, Matching, serverVars, netVars, requestVars
<1>7. ~Undisturbed'
  BY <1>1 DEF Undisturbed
<1> QED BY <1>3, <1>4, <1>5, <1>6, <1>7 DEF Linked, Matching, UndisturbedInv

(* The client notices that a socket closed.  Undisturbed it has been       *)
(* welcomed, and the identity is for the next attempt to ask back.         *)
LEMMA ClientClosesStep ==
    ASSUME Linked, ClientEnd, ClientEnd', ServerEnd, NEW n \in Attempt,
           ClientCloses(n)
    PROVE  Linked'
<1>1. /\ readyState[n] \in {"connecting", "aborting", "open", "closing"}
      /\ readyState' = [readyState EXCEPT ![n] = "closed"]
      /\ disturbed' = (disturbed \/ n \notin listening)
      /\ UNCHANGED <<serverVars, identity, requestVars, welcome, attempts,
                     ticketing, closing, listening, late>>
      /\ n \in listening => ready' = FALSE /\ outcome' = outcome
  BY DEF ClientCloses, Client!SocketFails, Client!SocketCloses,
         Client!HandleClose, Client!flags, Client!timers, Client!history,
         Client!attempting, ClientEnd
<1>2. /\ readyState'[n] = "closed"
      /\ \A m \in Attempt \ {n} : readyState'[m] = readyState[m]
  BY <1>1 DEF ClientEnd
<1>3. TypeOK'
  BY <1>1 DEF Linked, TypeOK, serverVars, requestVars
<1>4. TicketsMatch'
  BY <1>1, <1>2, TicketsFrame DEF Linked, Matching, serverVars, requestVars
<1>5. ConnectionsMatch'
  BY <1>1, <1>2, ConnectionsFrame DEF Linked, Matching, serverVars, requestVars
<1>6. TokensMatch'
  BY <1>1, TokensFrame DEF Linked, Matching, serverVars, requestVars
<1>7. ASSUME Undisturbed' PROVE SocketsKept' /\ Recognised'
  <2>1. Undisturbed /\ OneAtATime /\ n \in listening
    BY <1>1, <1>7 DEF Undisturbed, ClientEnd
  <2>2. SocketsKept /\ Recognised
    BY <2>1 DEF Linked, UndisturbedInv
  <2>3. SocketsKept'
    BY <1>1, <1>2, <2>1, <2>2 DEF SocketsKept, serverVars
  <2>4. Recognised'
    BY <1>1, <1>2, <2>1, <2>2, RecognisedFrame
       DEF Linked, Matching, serverVars, requestVars, InFlight, Waiting
  <2> QED BY <2>3, <2>4
<1> QED BY <1>3, <1>4, <1>5, <1>6, <1>7 DEF Linked, Matching, UndisturbedInv

(* A new attempt asks for the identity the client has, if any.             *)
LEMMA ReconnectLinks ==
    ASSUME Linked, ClientEnd, ClientEnd', ServerEnd, Reconnect
    PROVE  Linked'
<1>1. /\ UNCHANGED <<serverVars, identity, welcome, disturbed, ready, closing,
                     socket, readyState, listening, late, offer>>
      /\ attempts < MaxAttempts
  BY DEF Reconnect, Client!Reconnect, Client!flags, Client!sockets,
         Client!timers, Client!history, requestVars
<1>2. CASE attempts' = attempts
  <2>1. UNCHANGED <<attempts, ticketing, outcome, requestVars>>
    BY <1>2 DEF Reconnect, Client!Reconnect, Client!Establish,
                Client!attempting, ClientEnd
  <2> QED BY <1>1, <2>1, StutterLinks DEF netVars
<1>3. CASE attempts' # attempts
  <2> DEFINE n == attempts'
  <2>1. /\ n = attempts + 1 /\ n \in Attempt
        /\ ticketing' = ticketing \cup {n}
        /\ outcome' = [outcome EXCEPT ![n] = "pending"]
        /\ exchange' = [exchange EXCEPT ![n] =
                            IF identity = None THEN "post" ELSE "put"]
        /\ presented' = [presented EXCEPT ![n] = identity]
    BY <1>3 DEF Reconnect, Client!Reconnect, Client!Establish,
                Client!attempting, ClientEnd
  <2> HIDE DEF n
  <2>2. /\ exchange'[n] = IF identity = None THEN "post" ELSE "put"
        /\ presented'[n] = identity
        /\ readyState[n] = "none"
        /\ \A m \in Attempt \ {n} : /\ exchange'[m] = exchange[m]
                                    /\ presented'[m] = presented[m]
                                    /\ outcome'[m] = outcome[m]
                                    /\ m <= attempts <=> m <= n
    BY <2>1 DEF Linked, TypeOK, ClientEnd
  <2>3. TypeOK'
    BY <1>1, <2>1, <2>2 DEF Linked, TypeOK
  <2>4. TicketsMatch'
    BY <1>1, <2>1, <2>2
       DEF Linked, TypeOK, Matching, TicketsMatch, serverVars, n, ClientEnd
  <2>5. ConnectionsMatch'
    BY <1>1, ConnectionsFrame DEF Linked, Matching, serverVars
  <2>6. TokensMatch'
    BY <1>1, TokensFrame DEF Linked, Matching, serverVars
  <2>7. ASSUME Undisturbed' PROVE SocketsKept' /\ Recognised'
    <3>1. Undisturbed
      BY <1>1, <2>7 DEF Undisturbed
    <3>2. SocketsKept /\ Recognised
      BY <3>1 DEF Linked, UndisturbedInv
    <3>3. SocketsKept'
      BY <1>1, <3>2 DEF SocketsKept, serverVars
    <3>4. \A m \in Attempt \ {n} : Waiting(m)' =>
             Waiting(m) /\ (m \in ticketing' => m \in ticketing)
      BY <2>1, <2>2 DEF Waiting, n
    <3>5. Recognised'
      BY <1>1, <2>1, <2>2, <3>2, <3>4
         DEF Recognised, SessionToken, InFlight, serverVars
    <3> QED BY <3>3, <3>5
  <2> QED BY <2>3, <2>4, <2>5, <2>6, <2>7 DEF Linked, Matching, UndisturbedInv
<1> QED BY <1>2, <1>3

-----------------------------------------------------------------------------
(* The steps of the server.                                                *)

(* A ticket that is sold has a new number and is of the buyer's identity.  *)
LEMMA SoldTicket ==
    ASSUME ServerEnd, NEW c, Server!BindTicket(c) \/ Server!RefuseTicket
    PROVE  /\ lastTicket' \in {lastTicket, lastTicket + 1}
           /\ \A t \in DOMAIN tickets' :
                 \/ t \in DOMAIN tickets /\ tickets'[t] = tickets[t]
                 \/ /\ t = lastTicket + 1 /\ lastTicket' = lastTicket + 1
                    /\ tickets'[t].clientId = c
<1>1. \A t \in DOMAIN Server!SweptTickets :
         t \in DOMAIN tickets /\ Server!SweptTickets[t] = tickets[t]
  BY DEF Server!SweptTickets
<1>2. CASE Server!BindTicket(c)
  BY <1>1, <1>2 DEF Server!BindTicket, Server!Put
<1>3. CASE Server!RefuseTicket
  BY <1>1, <1>3 DEF Server!RefuseTicket
<1> QED BY <1>2, <1>3

(* The request of attempt n is answered with a ticket for c, or none.      *)
LEMMA GrantMatches ==
    ASSUME TypeOK, TicketsMatch, ServerEnd, ServerEnd', NEW n \in Attempt,
           NEW c \in ClientId, exchange[n] \in {"put", "post"},
           Server!BindTicket(c) \/ Server!RefuseTicket, Grant(n, c),
           UNCHANGED <<clientVars, presented>>
    PROVE  /\ TicketsMatch'
           /\ exchange' \in [Attempt ->
                               {"none", "put", "post", "answered", "failed"}]
           /\ offer' \in [Attempt -> TicketData \cup {None}]
           /\ exchange'[n] = "answered"
           /\ offer'[n] \in TicketData /\ offer'[n].clientId = c
           /\ \A m \in Attempt \ {n} :
                 exchange'[m] = exchange[m] /\ offer'[m] = offer[m]
<1> DEFINE ticket == IF lastTicket' = lastTicket THEN NoTicket ELSE lastTicket'
<1>1. /\ lastTicket' \in {lastTicket, lastTicket + 1}
      /\ \A t \in DOMAIN tickets' :
            \/ t \in DOMAIN tickets /\ tickets'[t] = tickets[t]
            \/ /\ t = lastTicket + 1 /\ lastTicket' = lastTicket + 1
               /\ tickets'[t].clientId = c
  BY SoldTicket
<1>2. /\ exchange' = [exchange EXCEPT ![n] = "answered"]
      /\ offer' = [offer EXCEPT ![n] = [clientId |-> c, ticket |-> ticket]]
  BY DEF Grant
<1>3. lastTicket \in Nat /\ lastTicket' \in Nat
  BY DEF ServerEnd
<1>4. ticket \in {0, lastTicket'} /\ (ticket = lastTicket' => lastTicket' # lastTicket \/ lastTicket' = 0)
  BY DEF NoTicket
<1> HIDE DEF ticket
<1>5. [clientId |-> c, ticket |-> ticket] \in TicketData
  BY <1>3, <1>4 DEF TicketData
<1>6. /\ exchange' \in [Attempt -> {"none", "put", "post", "answered", "failed"}]
      /\ offer' \in [Attempt -> TicketData \cup {None}]
      /\ exchange'[n] = "answered"
      /\ offer'[n] = [clientId |-> c, ticket |-> ticket]
      /\ \A m \in Attempt \ {n} :
            exchange'[m] = exchange[m] /\ offer'[m] = offer[m]
  BY <1>2, <1>5 DEF TypeOK
<1>7. ticket \in 0..lastTicket' /\ (ticket \in DOMAIN tickets' =>
                                       tickets'[ticket].clientId = c)
  BY <1>1, <1>3, <1>4 DEF ServerEnd
<1>8. ASSUME NEW m \in Attempt \ {n}, exchange[m] = "answered"
      PROVE  /\ offer[m].ticket \in 0..lastTicket'
             /\ offer[m].ticket \in DOMAIN tickets' =>
                   tickets'[offer[m].ticket].clientId = offer[m].clientId
  <2>1. offer[m].ticket \in 0..lastTicket
    BY <1>8 DEF TicketsMatch
  <2>2. offer[m].ticket \in 0..lastTicket' /\ offer[m].ticket # lastTicket + 1
    BY <1>1, <1>3, <2>1
  <2> QED BY <1>1, <1>8, <2>2 DEF TicketsMatch
<1>9. TicketsMatch'
  <2>1. UNCHANGED <<attempts, ticketing, readyState, presented>>
    BY DEF clientVars
  <2>2. /\ ~(n > attempts) /\ n \in ticketing
    BY DEF TicketsMatch
  <2>3. offer'[n].clientId = c /\ offer'[n].ticket = ticket
    BY <1>6
  <2>4. ASSUME NEW m \in Attempt \ {n}
        PROVE  /\ m > attempts' => exchange'[m] = "none"
               /\ m <= attempts' => exchange'[m] # "none"
               /\ exchange'[m] \in {"put", "post"} => m \in ticketing'
               /\ m \in ticketing' => exchange'[m] # "failed"
               /\ readyState'[m] # "none" => exchange'[m] = "answered"
               /\ exchange'[m] = "put" => presented'[m] \in Identity
               /\ exchange'[m] = "answered" =>
                     /\ offer'[m].clientId \in ClientId
                     /\ offer'[m].ticket \in 0..lastTicket'
                     /\ offer'[m].ticket \in DOMAIN tickets' =>
                           tickets'[offer'[m].ticket].clientId = offer'[m].clientId
    BY <1>6, <1>8, <2>1 DEF TicketsMatch
  <2> QED BY <1>6, <1>7, <2>1, <2>2, <2>3, <2>4 DEF TicketsMatch
<1> QED BY <1>5, <1>6, <1>9

(* The sessions, the connections and the client are as they were while a   *)
(* ticket is asked for.                                                    *)
LEMMA TicketingFrame ==
    ASSUME Linked,
           UNCHANGED <<clientVars, identity, presented, welcome>>,
           UNCHANGED <<active, lastToken, ws>>,
           inactive' = inactive,
           NEW n \in Attempt, readyState[n] = "none",
           \A m \in Attempt \ {n} : offer'[m] = offer[m]
    PROVE  ConnectionsMatch' /\ TokensMatch' /\ (SocketsKept => SocketsKept')
<1>1. ConnectionsMatch /\ TokensMatch
  BY DEF Linked, Matching
<1>2. ws[n].status = "free"
  BY <1>1 DEF ConnectionsMatch
<1>3. UNCHANGED <<readyState, listening>>
  BY DEF clientVars
<1>4. ConnectionsMatch'
  BY <1>1, <1>2, <1>3 DEF ConnectionsMatch
<1>5. TokensMatch'
  BY <1>1, TokensFrame
<1>6. SocketsKept => SocketsKept'
  BY <1>3 DEF SocketsKept
<1> QED BY <1>4, <1>5, <1>6

(* POST /ws.  An undisturbed client that has an identity does not send it. *)
LEMMA CreateTicketStep ==
    ASSUME Linked, ClientEnd, ServerEnd, ServerEnd', NEW n \in Attempt,
           CreateTicket(n)
    PROVE  Linked'
<1>1. PICK c \in ClientId : Server!CreateTicket(c) /\ Grant(n, c)
  BY DEF CreateTicket
<1>2. /\ exchange[n] = "post"
      /\ Server!BindTicket(c) \/ Server!RefuseTicket
      /\ UNCHANGED <<clientVars, identity, presented, welcome, disturbed>>
      /\ UNCHANGED <<now, active, inactive, lastToken, ws>>
  BY <1>1 DEF CreateTicket, Server!CreateTicket, Server!registry,
              Server!connections
<1>3. TypeOK /\ TicketsMatch /\ ConnectionsMatch /\ TokensMatch
  BY DEF Linked, Matching
<1>4. /\ TicketsMatch'
      /\ exchange' \in [Attempt -> {"none", "put", "post", "answered", "failed"}]
      /\ offer' \in [Attempt -> TicketData \cup {None}]
      /\ exchange'[n] = "answered" /\ offer'[n] \in TicketData
      /\ \A m \in Attempt \ {n} :
            exchange'[m] = exchange[m] /\ offer'[m] = offer[m]
  BY <1>1, <1>2, <1>3, GrantMatches
<1>5. TypeOK'
  BY <1>2, <1>3, <1>4 DEF TypeOK
<1>6. n \in ticketing /\ readyState[n] = "none"
  BY <1>2, <1>3 DEF TicketsMatch, ClientEnd
<1>7. ConnectionsMatch' /\ TokensMatch' /\ (SocketsKept => SocketsKept')
  BY <1>2, <1>4, <1>6, TicketingFrame
<1>8. ASSUME Undisturbed' PROVE SocketsKept' /\ Recognised'
  <2>1. Undisturbed /\ OneAtATime
    BY <1>2, <1>8 DEF Undisturbed, clientVars, ClientEnd
  <2>2. SocketsKept /\ Recognised
    BY <2>1 DEF Linked, UndisturbedInv
  <2>3. \A m \in Attempt :
           identity # None /\ Waiting(m) => m # n
    BY <1>2, <1>6, <2>2 DEF Recognised
  <2>4. UNCHANGED <<ready, socket, listening, readyState, attempts, outcome,
                    ticketing>>
    BY <1>2 DEF clientVars
  <2>5. Recognised'
    BY <1>2, <1>4, <2>2, <2>3, <2>4
       DEF Recognised, SessionToken, InFlight, Waiting
  <2> QED BY <1>7, <2>2, <2>5
<1> QED BY <1>4, <1>5, <1>7, <1>8 DEF Linked, Matching, UndisturbedInv

(* PUT /ws/:clientId.  An undisturbed client presents the token the server *)
(* has, in time, so it is given a ticket for its identity.                 *)
LEMMA ReclaimStep ==
    ASSUME Linked, ClientEnd, ServerEnd, ServerEnd', NEW n \in Attempt,
           Reclaim(n)
    PROVE  Linked'
<1> DEFINE p == presented[n]
           Held == Server!HoldsSession(p.clientId, p.token)
<1>1. TypeOK /\ TicketsMatch /\ ConnectionsMatch /\ TokensMatch
  BY DEF Linked, Matching
<1>2. /\ exchange[n] = "put" /\ n \in ticketing /\ readyState[n] = "none"
      /\ p.clientId \in ClientId /\ p.token \in Nat \ {0}
      /\ UNCHANGED <<clientVars, identity, presented, welcome>>
  BY <1>1 DEF Reclaim, TicketsMatch, ClientEnd, Identity
<1>3. UNCHANGED <<ready, socket, listening, readyState, attempts, outcome,
                  ticketing, closing, late>>
  BY <1>2 DEF clientVars
<1>4. CASE Held /\ lastTicket' # lastTicket
  <2>1. /\ Server!BindTicket(p.clientId) \/ Server!RefuseTicket
        /\ Grant(n, p.clientId)
        /\ UNCHANGED <<now, active, inactive, lastToken, ws>>
        /\ disturbed' = (disturbed \/ lastTicket' = lastTicket)
    BY <1>4 DEF Reclaim, Server!UpdateTicket, Server!registry,
                Server!connections
  <2>2. /\ TicketsMatch'
        /\ exchange' \in [Attempt -> {"none", "put", "post", "answered", "failed"}]
        /\ offer' \in [Attempt -> TicketData \cup {None}]
        /\ exchange'[n] = "answered"
        /\ offer'[n] \in TicketData /\ offer'[n].clientId = p.clientId
        /\ \A m \in Attempt \ {n} :
              exchange'[m] = exchange[m] /\ offer'[m] = offer[m]
    BY <1>1, <1>2, <2>1, GrantMatches
  <2>3. TypeOK'
    BY <1>1, <1>2, <2>1, <2>2 DEF TypeOK
  <2>4. ConnectionsMatch' /\ TokensMatch' /\ (SocketsKept => SocketsKept')
    BY <1>2, <2>1, <2>2, TicketingFrame
  <2>5. ASSUME Undisturbed' PROVE SocketsKept' /\ Recognised'
    <3>1. Undisturbed
      BY <1>3, <2>1, <2>5 DEF Undisturbed
    <3>2. SocketsKept /\ Recognised
      BY <3>1 DEF Linked, UndisturbedInv
    <3>3. identity # None /\ Waiting(n) => p = identity
      BY <1>2, <3>2 DEF Recognised
    <3>4. Recognised'
      BY <1>2, <1>3, <2>1, <2>2, <3>2, <3>3
         DEF Recognised, SessionToken, InFlight, Waiting
    <3> QED BY <2>4, <3>2, <3>4
  <2> QED BY <2>2, <2>3, <2>4, <2>5 DEF Linked, Matching, UndisturbedInv
<1>5. CASE ~(Held /\ lastTicket' # lastTicket)
  <2>1. /\ exchange' = [exchange EXCEPT ![n] = "post"]
        /\ UNCHANGED <<offer, now, active, lastToken, ws>>
        /\ lastTicket' = lastTicket
        /\ \A t \in DOMAIN tickets' :
              t \in DOMAIN tickets /\ tickets'[t] = tickets[t]
        /\ disturbed' \in BOOLEAN /\ (disturbed => disturbed')
        /\ Held => inactive' = inactive /\ disturbed'
        /\ ~Held => inactive' = inactive \/ Server!UpdateTicketTooLate(p.clientId)
        /\ \A c \in DOMAIN inactive' :
              c \in DOMAIN inactive /\ inactive'[c] = inactive[c]
    <3>1. CASE Held
      <4>1. /\ Server!BindTicket(p.clientId) \/ Server!RefuseTicket
            /\ exchange' = [exchange EXCEPT ![n] = "post"]
            /\ UNCHANGED <<offer, now, active, inactive, lastToken, ws>>
            /\ lastTicket' = lastTicket
            /\ disturbed' = (disturbed \/ lastTicket' = lastTicket)
        BY <1>5, <3>1 DEF Reclaim, Server!UpdateTicket, Server!registry,
                          Server!connections
      <4>2. lastTicket + 1 # lastTicket
        BY DEF ServerEnd
      <4>3. disturbed' = TRUE
        BY <4>1
      <4> QED BY <3>1, <4>1, <4>2, <4>3, SoldTicket
    <3>2. CASE ~Held
      <4>1. /\ exchange' = [exchange EXCEPT ![n] = "post"]
            /\ UNCHANGED <<offer, disturbed>>
            /\ Server!UpdateTicketTooLate(p.clientId) \/ UNCHANGED serverVars
        BY <3>2 DEF Reclaim
      <4>2. disturbed \in BOOLEAN
        BY <1>1 DEF TypeOK
      <4> QED BY <3>2, <4>1, <4>2
              DEF Server!UpdateTicketTooLate, Server!Delete, Server!ticketing,
                  Server!connections, serverVars
    <3> QED BY <3>1, <3>2
  <2> HIDE DEF Held
  <2>2. /\ exchange' \in [Attempt -> {"none", "put", "post", "answered", "failed"}]
        /\ exchange'[n] = "post"
        /\ \A m \in Attempt \ {n} : exchange'[m] = exchange[m]
    BY <1>1, <2>1 DEF TypeOK
  <2>3. TypeOK'
    BY <1>1, <1>2, <2>1, <2>2 DEF TypeOK
  <2>4. TicketsMatch'
    BY <1>1, <1>2, <1>3, <2>1, <2>2 DEF TicketsMatch
  <2>5. ConnectionsMatch'
    BY <1>1, <1>2, <1>3, <2>1, ConnectionsFrame
  <2>6. TokensMatch'
    <3>1. \A c : SessionToken(c)' \in {SessionToken(c), 0}
      BY <2>1 DEF SessionToken
    <3>2. \A m \in Attempt : ws[m].superseded => welcome[m] # 0
      BY <1>1 DEF ConnectionsMatch, ServerEnd
    <3> QED BY <1>1, <1>2, <2>1, <3>1, <3>2 DEF TokensMatch, SessionToken
  <2>7. ASSUME Undisturbed' PROVE SocketsKept' /\ Recognised'
    <3>1. Undisturbed /\ OneAtATime /\ ~Held
      BY <1>3, <2>1, <2>7 DEF Undisturbed, ClientEnd
    <3>2. SocketsKept /\ Recognised
      BY <3>1 DEF Linked, UndisturbedInv
    <3>3. inactive' = inactive
      BY <2>1, <3>1, <3>2 DEF Recognised, Server!UpdateTicketTooLate,
                              Server!Live
    <3>4. ASSUME identity # None, Waiting(n) PROVE FALSE
      <4>1. p = identity
        BY <1>2, <3>2, <3>4 DEF Recognised
      <4>2. ~ \E m \in Attempt : InFlight(m)
        BY <1>2, <3>1, <3>4 DEF OneAtATime, InFlight
      <4>3. SessionToken(p.clientId) = p.token
        BY <3>2, <3>4, <4>1, <4>2 DEF Recognised
      <4> QED BY <1>2, <3>1, <3>2, <4>3
              DEF Held, Server!HoldsSession, Server!Live, SessionToken,
                  Recognised
    <3>5. SocketsKept'
      BY <1>3, <2>1, <3>2 DEF SocketsKept
    <3>6. Recognised'
      BY <1>2, <1>3, <2>1, <2>2, <3>2, <3>3, <3>4
         DEF Recognised, SessionToken, InFlight, Waiting
    <3> QED BY <3>5, <3>6
  <2> QED BY <2>3, <2>4, <2>5, <2>6, <2>7 DEF Linked, Matching, UndisturbedInv
<1> QED BY <1>4, <1>5

(* GET /ws is accepted: the server knows the connection by the identity    *)
(* the client was told with the ticket.                                    *)
LEMMA UpgradeStep ==
    ASSUME Linked, ClientEnd, ServerEnd, ServerEnd', NEW n \in Attempt,
           Upgrade(n)
    PROVE  Linked'
<1>1. TypeOK /\ TicketsMatch /\ ConnectionsMatch /\ TokensMatch
  BY DEF Linked, Matching
<1>2. /\ readyState[n] \in {"connecting", "aborting"}
      /\ offer[n].ticket \in DOMAIN tickets
      /\ ws[n].status = "free"
      /\ tickets' = Server!Delete(tickets, offer[n].ticket)
      /\ ws' = [ws EXCEPT ![n].status = "upgraded",
                          ![n].clientId = tickets[offer[n].ticket].clientId]
      /\ UNCHANGED <<clientVars, netVars, now, lastTicket, active, inactive,
                     lastToken>>
  BY DEF Upgrade, Server!Upgrade, Server!RedeemTicket, Server!registry
<1>3. tickets[offer[n].ticket].clientId = offer[n].clientId /\ n \notin listening
  BY <1>1, <1>2 DEF TicketsMatch, ClientEnd
<1>4. /\ ws'[n].status = "upgraded" /\ ws'[n].clientId = offer[n].clientId
      /\ ws'[n].superseded = ws[n].superseded
      /\ \A m \in Attempt \ {n} : ws'[m] = ws[m]
  BY <1>2, <1>3 DEF ServerEnd, S!SocketData
<1>5. welcome[n] = 0 /\ ~ws'[n].superseded
  BY <1>1, <1>2, <1>4 DEF ConnectionsMatch, ServerEnd
<1>6. UNCHANGED <<ready, socket, listening, readyState, attempts, outcome,
                  ticketing, closing, late>>
  BY <1>2 DEF clientVars
<1>7. UNCHANGED <<identity, exchange, presented, offer, welcome, disturbed>>
  BY <1>2 DEF netVars, requestVars
<1>8. TypeOK'
  BY <1>1, <1>7 DEF TypeOK
<1>9. TicketsMatch'
  <2>1. \A t \in DOMAIN tickets' : t \in DOMAIN tickets /\ tickets'[t] = tickets[t]
    BY <1>2 DEF Server!Delete
  <2> QED BY <1>1, <1>2, <1>6, <1>7, <2>1, TicketsFrame
<1>10. ConnectionsMatch'
  <2>1. ASSUME NEW m \in Attempt
        PROVE  /\ ws'[m].status # "free" =>
                     readyState'[m] # "none" /\ ws'[m].clientId = offer'[m].clientId
               /\ readyState'[m] \in {"open", "closing"} => ws'[m].status # "free"
               /\ m \in listening' => welcome'[m] # 0
               /\ ws'[m].status \in {"free", "upgraded"} <=> welcome'[m] = 0
    <3>1. CASE m = n
      BY <1>2, <1>3, <1>4, <1>5, <1>6, <1>7, <3>1
    <3>2. CASE m # n
      <4>1. ws'[m] = ws[m]
        BY <1>4, <3>2
      <4> QED BY <1>1, <1>6, <1>7, <4>1 DEF ConnectionsMatch
    <3> QED BY <3>1, <3>2
  <2> QED BY <1>1, <1>2, <1>7, <2>1 DEF ConnectionsMatch
<1>11. TokensMatch'
  <2>1. \A d : SessionToken(d)' = SessionToken(d)
    BY <1>2 DEF SessionToken
  <2>2. ASSUME NEW m \in Attempt
        PROVE  /\ ws'[m].superseded =>
                     SessionToken(ws[m].clientId)' # welcome'[m]
               /\ ws'[m].status = "closing" => ws'[m].reaped \/ ws'[m].superseded
    <3>1. CASE m = n
      BY <1>4, <1>5, <3>1
    <3>2. CASE m # n
      <4>1. ws'[m] = ws[m]
        BY <1>4, <3>2
      <4> QED BY <1>1, <1>2, <1>7, <4>1 DEF TokensMatch, SessionToken
    <3> QED BY <3>1, <3>2
  <2> QED BY <1>1, <1>2, <1>7, <2>2 DEF TokensMatch
<1>12. ASSUME Undisturbed' PROVE SocketsKept' /\ Recognised'
  <2>1. Undisturbed /\ OneAtATime
    BY <1>6, <1>7, <1>12 DEF Undisturbed, ClientEnd
  <2>2. SocketsKept /\ Recognised
    BY <2>1 DEF Linked, UndisturbedInv
  <2>3. SocketsKept'
    BY <1>2, <1>4, <1>6, <2>2 DEF SocketsKept
  <2>4. Recognised'
    BY <1>1, <1>2, <1>4, <1>5, <1>6, <1>7, <2>1, <2>2, RecognisedFrame
       DEF InFlight, Waiting
  <2> QED BY <2>3, <2>4
<1> QED BY <1>8, <1>9, <1>10, <1>11, <1>12 DEF Linked, Matching, UndisturbedInv

(* What the open callback changes, seen from every connection.             *)
LEMMA OpenEffect ==
    ASSUME S!TypeOK, ServerEnd, NEW n \in Attempt, Server!Open(n),
           NEW c, c = ws[n].clientId
    PROVE  /\ ws[n].status = "upgraded" /\ c \in ClientId
           /\ lastToken' = lastToken + 1
           /\ UNCHANGED <<now, tickets, lastTicket, issued>>
           /\ \A d \in DOMAIN inactive' :
                 d \in DOMAIN inactive /\ inactive'[d] = inactive[d]
           /\ \A d \in DOMAIN inactive :
                 inactive[d].expiresAt > now /\ d # c => d \in DOMAIN inactive'
           /\ DOMAIN active' = DOMAIN active \cup {c}
           /\ active'[c].token = lastToken + 1 /\ active'[c].ws = n
           /\ \A d \in DOMAIN active \ {c} : active'[d] = active[d]
           /\ ws'[n].status = "open"
           /\ \A m \in Attempt :
                 /\ ws'[m].clientId = ws[m].clientId
                 /\ ws[m].reaped => ws'[m].reaped
                 /\ ws[m].superseded => ws'[m].superseded
                 /\ ws'[m].superseded =>
                       \/ ws[m].superseded
                       \/ c \in DOMAIN active /\ m = active[c].ws
                 /\ m # n => /\ ws'[m].status = "free" <=> ws[m].status = "free"
                             /\ ws'[m].status = "upgraded" <=>
                                   ws[m].status = "upgraded"
                             /\ ws'[m].status = "closing" =>
                                   ws[m].status = "closing" \/ ws'[m].superseded
<1> DEFINE w == Server!Superseded(c)
<1>1. ws[n].status = "upgraded" /\ c \in ClientId
  BY DEF Server!Open, ServerEnd
<1>2. /\ w \in [Attempt -> S!SocketData]
      /\ \A x \in Attempt :
            /\ w[x].clientId = ws[x].clientId
            /\ w[x].reaped = ws[x].reaped
            /\ w[x].status \in {ws[x].status, "closing"}
            /\ ws[x].status # "open" => w[x].status = ws[x].status
            /\ ~ (c \in DOMAIN active /\ active[c].ws = x) => w[x] = ws[x]
            /\ c \in DOMAIN active /\ active[c].ws = x => w[x].superseded
  <2>1. w = S!Superseded(c)
    BY DEF Server!Superseded, S!Superseded, Server!Closing, S!Closing
  <2>2. /\ S!Superseded(c) \in [Attempt -> S!SocketData]
        /\ \A x \in Attempt :
              /\ S!Superseded(c)[x].clientId = ws[x].clientId
              /\ S!Superseded(c)[x].reaped = ws[x].reaped
              /\ S!Superseded(c)[x].status \in {ws[x].status, "closing"}
              /\ ws[x].status # "open" =>
                    S!Superseded(c)[x].status = ws[x].status
              /\ ~ (c \in DOMAIN active /\ active[c].ws = x) =>
                    S!Superseded(c)[x] = ws[x]
              /\ c \in DOMAIN active /\ active[c].ws = x =>
                    S!Superseded(c)[x].superseded
    BY <1>1, S!SupersededType
  <2> QED BY <2>1, <2>2
<1>3. /\ lastToken' = lastToken + 1
      /\ UNCHANGED <<now, tickets, lastTicket, issued>>
      /\ inactive' = Server!InactiveAfterOpen(c)
      /\ active' = Server!Put(active, c, [token |-> lastToken', ws |-> n])
      /\ ws' = [[w EXCEPT ![n].status = "open"] EXCEPT
                    ![n].reaperHandle = now + DisconnectThreshold]
  BY DEF Server!Open, Server!ArmReaper, Server!ticketing
<1> HIDE DEF w
<1>4. /\ ws'[n].status = "open"
      /\ ws'[n].clientId = w[n].clientId
      /\ ws'[n].reaped = w[n].reaped
      /\ ws'[n].superseded = w[n].superseded
      /\ \A m \in Attempt \ {n} : ws'[m] = w[m]
  BY <1>2, <1>3 DEF S!SocketData
<1>5. /\ \A d \in DOMAIN inactive' :
            d \in DOMAIN inactive /\ inactive'[d] = inactive[d]
      /\ \A d \in DOMAIN inactive :
            inactive[d].expiresAt > now /\ d # c => d \in DOMAIN inactive'
  BY <1>3 DEF Server!InactiveAfterOpen, Server!SweptInactive, Server!Delete,
              Server!Live
<1>6. /\ DOMAIN active' = DOMAIN active \cup {c}
      /\ active'[c].token = lastToken + 1 /\ active'[c].ws = n
      /\ \A d \in DOMAIN active \ {c} : active'[d] = active[d]
  BY <1>3 DEF Server!Put
<1>7. ASSUME NEW m \in Attempt
      PROVE  /\ ws'[m].clientId = ws[m].clientId
             /\ ws[m].reaped => ws'[m].reaped
             /\ ws[m].superseded => ws'[m].superseded
             /\ ws'[m].superseded =>
                   \/ ws[m].superseded
                   \/ c \in DOMAIN active /\ m = active[c].ws
             /\ m # n => /\ ws'[m].status = "free" <=> ws[m].status = "free"
                         /\ ws'[m].status = "upgraded" <=>
                               ws[m].status = "upgraded"
                         /\ ws'[m].status = "closing" =>
                               ws[m].status = "closing" \/ ws'[m].superseded
  BY <1>2, <1>4
<1> QED BY <1>1, <1>3, <1>4, <1>5, <1>6, <1>7

(* The session of an identity gets a new token when a connection opens;    *)
(* the others keep theirs, or are swept.                                   *)
LEMMA OpenStep ==
    ASSUME Linked, S!TypeOK, ClientEnd, ServerEnd, ServerEnd', NEW n \in Attempt,
           Open(n)
    PROVE  Linked'
<1>1. TypeOK /\ TicketsMatch /\ ConnectionsMatch /\ TokensMatch
  BY DEF Linked, Matching
<1>2. /\ Server!Open(n)
      /\ welcome' = [welcome EXCEPT ![n] = lastToken']
      /\ UNCHANGED <<clientVars, identity, requestVars, disturbed>>
  BY DEF Open
<1>3. PICK c : c = ws[n].clientId
  OBVIOUS
<1>4. /\ ws[n].status = "upgraded" /\ c \in ClientId
      /\ lastToken' = lastToken + 1
      /\ UNCHANGED <<now, tickets, lastTicket, issued>>
      /\ \A d \in DOMAIN inactive' :
            d \in DOMAIN inactive /\ inactive'[d] = inactive[d]
      /\ \A d \in DOMAIN inactive :
            inactive[d].expiresAt > now /\ d # c => d \in DOMAIN inactive'
      /\ DOMAIN active' = DOMAIN active \cup {c}
      /\ active'[c].token = lastToken + 1 /\ active'[c].ws = n
      /\ \A d \in DOMAIN active \ {c} : active'[d] = active[d]
      /\ ws'[n].status = "open"
      /\ \A m \in Attempt :
            /\ ws'[m].clientId = ws[m].clientId
            /\ ws[m].reaped => ws'[m].reaped
            /\ ws[m].superseded => ws'[m].superseded
            /\ ws'[m].superseded =>
                  \/ ws[m].superseded
                  \/ c \in DOMAIN active /\ m = active[c].ws
            /\ m # n => /\ ws'[m].status = "free" <=> ws[m].status = "free"
                        /\ ws'[m].status = "upgraded" <=>
                              ws[m].status = "upgraded"
                        /\ ws'[m].status = "closing" =>
                              ws[m].status = "closing" \/ ws'[m].superseded
  BY <1>2, <1>3, OpenEffect
<1>5. /\ welcome'[n] = lastToken + 1
      /\ \A m \in Attempt \ {n} : welcome'[m] = welcome[m]
      /\ welcome' \in [Attempt -> Nat]
      /\ welcome[n] = 0
      /\ lastToken \in Nat
      /\ \A m \in Attempt : welcome[m] \in 0..lastToken
  BY <1>1, <1>2, <1>4 DEF TypeOK, ConnectionsMatch, ServerEnd
<1>6. UNCHANGED <<ready, socket, listening, readyState, attempts, outcome,
                  ticketing, closing, late, exchange, presented, offer>>
  BY <1>2 DEF clientVars, requestVars
<1>7. TypeOK'
  BY <1>1, <1>2, <1>5, <1>6 DEF TypeOK
<1>8. TicketsMatch'
  BY <1>1, <1>4, <1>6, TicketsFrame
<1>9. ConnectionsMatch'
  <2>1. lastToken + 1 # 0 /\ lastToken + 1 \in 0..lastToken' /\ 0..lastToken \subseteq 0..lastToken'
        /\ lastToken + 1 \notin 0..lastToken
    BY <1>4, <1>5
  <2>2. \A m \in Attempt : welcome'[m] \in 0..lastToken'
    BY <1>5, <2>1
  <2>3. ASSUME NEW m \in Attempt, NEW k \in Attempt,
               welcome'[m] = welcome'[k], welcome'[k] # 0
        PROVE  m = k
    <3>1. \A j \in Attempt \ {n} : welcome'[j] = welcome[j] /\ welcome[j] # lastToken + 1
      BY <1>5, <2>1
    <3>2. m = n <=> k = n
      BY <1>5, <2>3, <3>1
    <3> QED BY <1>1, <2>3, <3>1, <3>2 DEF ConnectionsMatch
  <2>4. ASSUME NEW m \in Attempt
        PROVE  /\ ws'[m].status # "free" =>
                     readyState'[m] # "none" /\ ws'[m].clientId = offer'[m].clientId
               /\ readyState'[m] \in {"open", "closing"} => ws'[m].status # "free"
               /\ m \in listening' => welcome'[m] # 0
               /\ ws'[m].status \in {"free", "upgraded"} <=> welcome'[m] = 0
    <3>1. ws[m].status = "free" <=> ws'[m].status = "free"
      BY <1>4
    <3>2. m = n => /\ ws'[m].status \notin {"free", "upgraded"}
                   /\ welcome'[m] # 0
      BY <1>4, <1>5, <2>1
    <3>3. m # n => /\ ws[m].status = "upgraded" <=> ws'[m].status = "upgraded"
                   /\ welcome'[m] = welcome[m]
      BY <1>4, <1>5
    <3> QED BY <1>1, <1>4, <1>6, <3>1, <3>2, <3>3 DEF ConnectionsMatch
  <2> QED BY <2>2, <2>3, <2>4 DEF ConnectionsMatch
<1>10. SessionToken(c)' = lastToken + 1
  BY <1>4 DEF SessionToken
<1>11. \A d : d # c => SessionToken(d)' \in {SessionToken(d), 0}
  BY <1>4 DEF SessionToken, ServerEnd
<1>12. TokensMatch'
  <2>1. ASSUME NEW d \in DOMAIN active'
        PROVE  active'[d].token = welcome'[active'[d].ws]
    <3>1. CASE d = c
      BY <1>4, <1>5, <3>1
    <3>2. CASE d # c
      <4>1. active'[d] = active[d] /\ d \in DOMAIN active
        BY <1>4, <2>1, <3>2
      <4>2. active[d].ws \in Attempt \ {n}
        BY <1>4, <4>1 DEF ServerEnd
      <4> QED BY <1>1, <1>5, <4>1, <4>2 DEF TokensMatch
    <3> QED BY <3>1, <3>2
  <2>2. \A d \in DOMAIN inactive' : inactive'[d].token \in 1..lastToken'
    <3>1. 1..lastToken \subseteq 1..lastToken'
      BY <1>4, <1>5
    <3> QED BY <1>1, <1>4, <3>1 DEF TokensMatch
  <2>3. ASSUME NEW m \in Attempt, ws'[m].superseded
        PROVE  SessionToken(ws[m].clientId)' # welcome'[m]
    <3>1. m # n /\ ws[m].status # "upgraded" /\ ws[m].status # "free"
      <4>1. ~ws'[n].superseded
        BY <1>4 DEF ServerEnd
      <4> QED BY <1>4, <2>3, <4>1 DEF ServerEnd
    <3>2. welcome'[m] = welcome[m] /\ welcome[m] # 0 /\ welcome[m] # lastToken + 1
      <4>1. lastToken + 1 \notin 0..lastToken
        BY <1>5
      <4> QED BY <1>1, <1>5, <3>1, <4>1 DEF ConnectionsMatch
    <3>3. CASE ws[m].clientId = c
      BY <1>4, <1>10, <3>2, <3>3
    <3>4. CASE ws[m].clientId # c
      <4>1. ws[m].superseded
        BY <1>4, <2>3, <3>4 DEF ServerEnd
      <4>2. SessionToken(ws[m].clientId) # welcome[m]
        BY <1>1, <4>1 DEF TokensMatch
      <4>3. PICK d : d = ws[m].clientId /\ d = ws'[m].clientId
        BY <1>4
      <4>4. SessionToken(d)' \in {SessionToken(d), 0}
        BY <1>11, <3>4, <4>3
      <4> QED BY <3>2, <4>2, <4>3, <4>4
    <3> QED BY <3>3, <3>4
  <2>4. \A m \in Attempt : ws'[m].status = "closing" =>
                              ws'[m].reaped \/ ws'[m].superseded
    BY <1>1, <1>4 DEF TokensMatch
  <2> QED BY <2>1, <2>2, <2>3, <2>4 DEF TokensMatch
<1>13. ASSUME Undisturbed' PROVE SocketsKept' /\ Recognised'
  <2>1. Undisturbed /\ OneAtATime
    BY <1>2, <1>6, <1>13 DEF Undisturbed, ClientEnd
  <2>2. SocketsKept /\ Recognised
    BY <2>1 DEF Linked, UndisturbedInv
  <2>3. SocketsKept'
    BY <1>4, <1>6, <2>2 DEF SocketsKept
  <2>4. InFlight(n) /\ Waiting(n)
    <3>1. readyState[n] # "none" /\ n \notin listening
      BY <1>1, <1>4, <1>5 DEF ConnectionsMatch
    <3>2. InFlight(n)
      BY <1>4, <2>2, <3>1 DEF SocketsKept, InFlight
    <3> QED BY <2>1, <3>2 DEF OneAtATime
  <2>5. ~ready /\ \A m \in Attempt : InFlight(m) => m = n
    BY <2>1, <2>4 DEF OneAtATime
  <2>6. InFlight(n)' /\ welcome'[n] # 0
    BY <1>5, <1>6, <2>4 DEF InFlight
  <2>7. \A m \in Attempt : InFlight(m)' => m = n
    BY <1>6, <2>5 DEF InFlight
  <2>8. SessionToken(ws[n].clientId)' = welcome'[n]
    BY <1>3, <1>4, <1>5, <1>10
  <2>9. Recognised'
    BY <1>2, <1>4, <1>6, <2>2, <2>5, <2>6, <2>7, <2>8 DEF Recognised, Waiting
  <2> QED BY <2>3, <2>9
<1> QED BY <1>7, <1>8, <1>9, <1>12, <1>13 DEF Linked, Matching, UndisturbedInv

(* Of a connection that only hears the server keeps the time.              *)
LEMMA ServerHearsStep ==
    ASSUME Linked, ClientEnd, ServerEnd, NEW n \in Attempt, ServerHears(n)
    PROVE  Linked'
<1>1. /\ UNCHANGED <<clientVars, netVars, now, tickets, lastTicket, active,
                     inactive, lastToken>>
      /\ ws' = [ws EXCEPT ![n].reaperHandle = now + DisconnectThreshold]
  BY DEF ServerHears, Server!Message, Server!ArmReaper, Server!ticketing,
         Server!registry
<1>2. \A m \in Attempt : /\ ws'[m].clientId = ws[m].clientId
                         /\ ws'[m].status = ws[m].status
                         /\ ws'[m].reaped = ws[m].reaped
                         /\ ws'[m].superseded = ws[m].superseded
  BY <1>1 DEF ServerEnd, S!SocketData
<1>3. UNCHANGED <<ready, socket, listening, readyState, attempts, outcome,
                  ticketing, closing, late>>
  BY <1>1 DEF clientVars
<1>4. UNCHANGED <<identity, exchange, presented, offer, welcome, disturbed>>
  BY <1>1 DEF netVars, requestVars
<1>5. TypeOK'
  BY <1>4 DEF Linked, TypeOK
<1>6. TicketsMatch'
  BY <1>1, <1>3, <1>4, TicketsFrame DEF Linked, Matching
<1>7. ConnectionsMatch'
  BY <1>1, <1>2, <1>3, <1>4, ConnectionsFrame DEF Linked, Matching
<1>8. TokensMatch'
  BY <1>1, <1>2, <1>4, TokensFrame DEF Linked, Matching
<1>9. ASSUME Undisturbed' PROVE SocketsKept' /\ Recognised'
  <2>1. Undisturbed /\ OneAtATime
    BY <1>3, <1>4, <1>9 DEF Undisturbed, ClientEnd
  <2>2. SocketsKept /\ Recognised
    BY <2>1 DEF Linked, UndisturbedInv
  <2>3. SocketsKept'
    BY <1>2, <1>3, <2>2 DEF SocketsKept
  <2>4. Recognised'
    BY <1>1, <1>2, <1>3, <1>4, <2>1, <2>2, RecognisedFrame
       DEF Linked, Matching, InFlight, Waiting
  <2> QED BY <2>3, <2>4
<1> QED BY <1>5, <1>6, <1>7, <1>8, <1>9 DEF Linked, Matching, UndisturbedInv

(* A silent connection is reaped: the session is as it was until the close *)
(* callback runs.                                                          *)
LEMMA ReaperFiresStep ==
    ASSUME Linked, ClientEnd, ServerEnd, NEW n \in Attempt, ReaperFires(n)
    PROVE  Linked'
<1>1. /\ UNCHANGED <<clientVars, netVars, now, tickets, lastTicket, active,
                     inactive, lastToken>>
      /\ ws' = [ws EXCEPT ![n].reaped = TRUE, ![n].status = Server!Closing(@)]
  BY DEF ReaperFires, Server!ReaperFires, Server!ticketing, Server!registry
<1>2. /\ ws'[n].clientId = ws[n].clientId
      /\ ws'[n].status = "free" <=> ws[n].status = "free"
      /\ ws'[n].status = "upgraded" <=> ws[n].status = "upgraded"
      /\ ws'[n].reaped = TRUE
      /\ ws'[n].superseded = ws[n].superseded
      /\ \A m \in Attempt \ {n} : ws'[m] = ws[m]
  BY <1>1 DEF ServerEnd, S!SocketData, Server!Closing
<1>3. UNCHANGED <<ready, socket, listening, readyState, attempts, outcome,
                  ticketing, closing, late>>
  BY <1>1 DEF clientVars
<1>4. UNCHANGED <<identity, exchange, presented, offer, welcome, disturbed>>
  BY <1>1 DEF netVars, requestVars
<1>5. TypeOK'
  BY <1>4 DEF Linked, TypeOK
<1>6. TicketsMatch'
  BY <1>1, <1>3, <1>4, TicketsFrame DEF Linked, Matching
<1>7. ConnectionsMatch'
  <2>1. ASSUME NEW m \in Attempt
        PROVE  /\ ws'[m].clientId = ws[m].clientId
               /\ ws'[m].status = "free" <=> ws[m].status = "free"
               /\ ws'[m].status = "upgraded" <=> ws[m].status = "upgraded"
    BY <1>2
  <2> QED BY <1>1, <1>3, <1>4, <2>1, ConnectionsFrame DEF Linked, Matching
<1>8. TokensMatch'
  <2>1. ASSUME NEW m \in Attempt
        PROVE  /\ ws'[m].clientId = ws[m].clientId
               /\ ws'[m].superseded = ws[m].superseded
               /\ ws[m].reaped => ws'[m].reaped
               /\ ws'[m].status = "closing" =>
                    ws[m].status = "closing" \/ ws'[m].reaped
    BY <1>2
  <2> QED BY <1>1, <1>4, <2>1, TokensFrame DEF Linked, Matching
<1>9. ASSUME Undisturbed' PROVE SocketsKept' /\ Recognised'
  <2>1. Undisturbed /\ OneAtATime
    BY <1>3, <1>4, <1>9 DEF Undisturbed, ClientEnd
  <2>2. SocketsKept /\ Recognised
    BY <2>1 DEF Linked, UndisturbedInv
  <2>3. \A m \in Attempt : /\ ws'[m].clientId = ws[m].clientId
                           /\ ws'[m].status = "free" <=> ws[m].status = "free"
    BY <1>2
  <2>4. SocketsKept'
    BY <1>3, <2>2, <2>3 DEF SocketsKept
  <2>5. Recognised'
    BY <1>1, <1>3, <1>4, <2>1, <2>2, <2>3, RecognisedFrame
       DEF Linked, Matching, InFlight, Waiting
  <2> QED BY <2>4, <2>5
<1> QED BY <1>5, <1>6, <1>7, <1>8, <1>9 DEF Linked, Matching, UndisturbedInv

(* Time passes.  A reclaim window that ends with it disturbs.              *)
LEMMA TickStep ==
    ASSUME Linked, ClientEnd, ServerEnd, ServerEnd', S!TypeOK', Tick
    PROVE  Linked'
<1>1. /\ UNCHANGED <<clientVars, identity, requestVars, welcome, tickets,
                     lastTicket, active, inactive, lastToken, ws>>
      /\ disturbed' = (disturbed \/ WindowPassed')
  BY DEF Tick, Server!Tick, Server!ticketing, Server!registry,
         Server!connections
<1>2. UNCHANGED <<ready, socket, listening, readyState, attempts, outcome,
                  ticketing, closing, late, exchange, presented, offer>>
  BY <1>1 DEF clientVars, requestVars
<1>3. TypeOK'
  <2>1. disturbed' \in BOOLEAN
    BY <1>1
  <2> QED BY <1>1, <1>2, <2>1 DEF Linked, TypeOK
<1>4. TicketsMatch'
  BY <1>1, <1>2, TicketsFrame DEF Linked, Matching
<1>5. ConnectionsMatch'
  BY <1>1, <1>2, ConnectionsFrame DEF Linked, Matching
<1>6. TokensMatch'
  BY <1>1, TokensFrame DEF Linked, Matching
<1>7. ASSUME Undisturbed' PROVE SocketsKept' /\ Recognised'
  <2>1. Undisturbed /\ ~WindowPassed'
    BY <1>1, <1>2, <1>7 DEF Undisturbed
  <2>2. SocketsKept /\ Recognised
    BY <2>1 DEF Linked, UndisturbedInv
  <2>3. SocketsKept'
    BY <1>1, <1>2, <2>2 DEF SocketsKept
  <2>4. \A c \in DOMAIN inactive' : inactive'[c].expiresAt > now'
    <3>1. now' \in Nat /\ \A c \in DOMAIN inactive' : inactive'[c].expiresAt \in Nat
      BY DEF S!TypeOK, S!InactiveSession
    <3> QED BY <2>1, <3>1 DEF WindowPassed
  <2>5. Recognised'
    BY <1>1, <1>2, <2>2, <2>4 DEF Recognised, SessionToken, InFlight, Waiting
  <2> QED BY <2>3, <2>5
<1> QED BY <1>3, <1>4, <1>5, <1>6, <1>7 DEF Linked, Matching, UndisturbedInv

(* What the close callback changes, seen from every connection.  The token *)
(* of a session stays with it, or goes with it.                            *)
LEMMA CloseEffect ==
    ASSUME S!TypeOK, ServerEnd, TokensMatch, NEW n \in Attempt, NEW code,
           Server!Close(n, code), NEW c, c = ws[n].clientId
    PROVE  /\ ws[n].status \in {"open", "closing"} /\ c \in ClientId
           /\ UNCHANGED <<now, tickets, lastTicket, issued, lastToken>>
           /\ ws'[n].status = "closed"
           /\ \A m \in Attempt :
                 /\ ws'[m].clientId = ws[m].clientId
                 /\ ws'[m].reaped = ws[m].reaped
                 /\ ws'[m].superseded = ws[m].superseded
                 /\ m # n => ws'[m] = ws[m]
           /\ \A d \in DOMAIN active' : d \in DOMAIN active /\ active'[d] = active[d]
           /\ \A d \in DOMAIN inactive' :
                 \/ d \in DOMAIN inactive /\ inactive'[d] = inactive[d]
                 \/ d = c /\ d \in DOMAIN active /\ inactive'[d].token = active[d].token
           /\ \A d : SessionToken(d)' \in {SessionToken(d), 0}
           /\ ~Server!Willing(n, code) =>
                 \A d : SessionToken(d)' = SessionToken(d)
<1>1. /\ ws[n].status \in {"open", "closing"} /\ c \in ClientId
      /\ UNCHANGED <<now, tickets, lastTicket, issued, lastToken>>
      /\ ws' = [ws EXCEPT ![n].status = "closed"]
      /\ active' = IF Server!Owns(n) THEN Server!Delete(active, c) ELSE active
      /\ inactive' = IF Server!Owns(n) /\ ~Server!Willing(n, code)
                     THEN Server!Put(inactive, c,
                                     [token |-> active[c].token,
                                      expiresAt |-> now + ReclaimTtl])
                     ELSE inactive
  BY DEF Server!Close, Server!ticketing, ServerEnd
<1>2. /\ ws'[n].status = "closed"
      /\ \A m \in Attempt :
            /\ ws'[m].clientId = ws[m].clientId
            /\ ws'[m].reaped = ws[m].reaped
            /\ ws'[m].superseded = ws[m].superseded
            /\ m # n => ws'[m] = ws[m]
  BY <1>1 DEF ServerEnd, S!SocketData
<1>3. CASE ~Server!Owns(n)
  BY <1>1, <1>2, <1>3 DEF SessionToken
<1>4. CASE Server!Owns(n)
  <2>1. c \in DOMAIN active /\ c \notin DOMAIN inactive
    BY <1>4 DEF Server!Owns, ServerEnd
  <2>2. /\ DOMAIN active' = DOMAIN active \ {c}
        /\ \A d \in DOMAIN active \ {c} : active'[d] = active[d]
    BY <1>1, <1>4 DEF Server!Delete
  <2>3. CASE Server!Willing(n, code)
    BY <1>1, <1>2, <1>4, <2>1, <2>2, <2>3 DEF SessionToken
  <2>4. CASE ~Server!Willing(n, code)
    <3>1. /\ DOMAIN inactive' = DOMAIN inactive \cup {c}
          /\ inactive'[c].token = active[c].token
          /\ \A d \in DOMAIN inactive : inactive'[d] = inactive[d]
      BY <1>1, <1>4, <2>1, <2>4 DEF Server!Put
    <3>2. \A d : SessionToken(d)' = SessionToken(d)
      BY <2>1, <2>2, <3>1 DEF SessionToken
    <3> QED BY <1>1, <1>2, <2>1, <2>2, <3>1, <3>2
  <2> QED BY <2>3, <2>4
<1> QED BY <1>3, <1>4

(* The server's end closes.  Undisturbed it is never taken for a goodbye:  *)
(* the client closed nothing, and the server only what it had reaped or    *)
(* superseded.                                                             *)
LEMMA ServerClosesStep ==
    ASSUME Linked, S!TypeOK, S!TypeOK', ClientEnd, ServerEnd, ServerEnd',
           NEW n \in Attempt, ServerCloses(n)
    PROVE  Linked'
<1>1. TypeOK /\ TicketsMatch /\ ConnectionsMatch /\ TokensMatch
  BY DEF Linked, Matching
<1>2. PICK code : /\ Server!Close(n, code)
                  /\ \/ ws[n].status = "closing"
                     \/ readyState[n] \in {"aborting", "closing"}
                     \/ code = 1006
  BY DEF ServerCloses
<1>3. /\ disturbed' = (disturbed \/ WindowPassed')
      /\ UNCHANGED <<clientVars, identity, requestVars, welcome>>
  BY DEF ServerCloses
<1>4. PICK c : c = ws[n].clientId
  OBVIOUS
<1>5. /\ ws[n].status \in {"open", "closing"} /\ c \in ClientId
      /\ UNCHANGED <<now, tickets, lastTicket, issued, lastToken>>
      /\ ws'[n].status = "closed"
      /\ \A m \in Attempt :
            /\ ws'[m].clientId = ws[m].clientId
            /\ ws'[m].reaped = ws[m].reaped
            /\ ws'[m].superseded = ws[m].superseded
            /\ m # n => ws'[m] = ws[m]
      /\ \A d \in DOMAIN active' : d \in DOMAIN active /\ active'[d] = active[d]
      /\ \A d \in DOMAIN inactive' :
            \/ d \in DOMAIN inactive /\ inactive'[d] = inactive[d]
            \/ d = c /\ d \in DOMAIN active /\ inactive'[d].token = active[d].token
      /\ \A d : SessionToken(d)' \in {SessionToken(d), 0}
      /\ ~Server!Willing(n, code) => \A d : SessionToken(d)' = SessionToken(d)
  BY <1>1, <1>2, <1>4, CloseEffect
<1>6. UNCHANGED <<ready, socket, listening, readyState, attempts, outcome,
                  ticketing, closing, late, exchange, presented, offer>>
  BY <1>3 DEF clientVars, requestVars
<1>7. TypeOK'
  <2>1. disturbed' \in BOOLEAN
    BY <1>3
  <2> QED BY <1>1, <1>3, <1>6, <2>1 DEF TypeOK
<1>8. TicketsMatch'
  BY <1>1, <1>5, <1>6, TicketsFrame
<1>9. \A m \in Attempt : /\ ws'[m].status = "free" <=> ws[m].status = "free"
                         /\ ws'[m].status = "upgraded" <=>
                               ws[m].status = "upgraded"
  BY <1>5
<1>10. ConnectionsMatch'
  BY <1>1, <1>3, <1>5, <1>6, <1>9, ConnectionsFrame
<1>11. TokensMatch'
  <2>1. \A d \in DOMAIN active' : active'[d].token = welcome'[active'[d].ws]
    BY <1>1, <1>3, <1>5 DEF TokensMatch
  <2>2. ASSUME NEW d \in DOMAIN inactive'
        PROVE  inactive'[d].token \in 1..lastToken'
    <3>1. CASE d \in DOMAIN inactive /\ inactive'[d] = inactive[d]
      BY <1>1, <1>5, <3>1 DEF TokensMatch
    <3>2. CASE d \in DOMAIN active /\ inactive'[d].token = active[d].token
      <4>1. /\ active[d].token = welcome[active[d].ws]
            /\ active[d].ws \in Attempt
            /\ ws[active[d].ws].status \in {"open", "closing"}
        BY <1>1, <3>2 DEF TokensMatch, ServerEnd
      <4>2. active[d].token \in 0..lastToken /\ active[d].token # 0
        BY <1>1, <4>1 DEF ConnectionsMatch
      <4> QED BY <1>5, <3>2, <4>2 DEF ServerEnd
    <3> QED BY <1>5, <3>1, <3>2
  <2>3. ASSUME NEW m \in Attempt, ws'[m].superseded
        PROVE  SessionToken(ws[m].clientId)' # welcome'[m]
    <3>1. ws[m].superseded
      BY <1>5, <2>3
    <3>2. SessionToken(ws[m].clientId) # welcome[m] /\ welcome[m] # 0
      BY <1>1, <3>1 DEF TokensMatch, ConnectionsMatch, ServerEnd
    <3> QED BY <1>3, <1>5, <3>2
  <2>4. ASSUME NEW m \in Attempt, ws'[m].status = "closing"
        PROVE  ws'[m].reaped \/ ws'[m].superseded
    <3>1. m # n /\ ws[m].status = "closing"
      BY <1>5, <2>4
    <3> QED BY <1>1, <1>5, <3>1 DEF TokensMatch
  <2> QED BY <2>1, <2>2, <2>3, <2>4 DEF TokensMatch
<1>12. ASSUME Undisturbed' PROVE SocketsKept' /\ Recognised'
  <2>1. Undisturbed /\ OneAtATime /\ ~WindowPassed'
    BY <1>3, <1>6, <1>12 DEF Undisturbed, ClientEnd
  <2>2. SocketsKept /\ Recognised
    BY <2>1 DEF Linked, UndisturbedInv
  <2>3. SocketsKept'
    BY <1>5, <1>6, <1>9, <2>2 DEF SocketsKept
  <2>4. \A d : SessionToken(d)' = SessionToken(d)
    <3>1. CASE code = 1006
      BY <1>5, <3>1 DEF Server!Willing
    <3>2. CASE ws[n].status = "closing" /\ ws[n].reaped
      BY <1>5, <3>2 DEF Server!Willing
    <3>3. CASE ws[n].status = "closing" /\ ws[n].superseded
      BY <1>2, <3>3 DEF Server!Close, Server!Owns, SessionToken
    <3>4. readyState[n] \notin {"aborting", "closing"}
      BY <2>2 DEF SocketsKept
    <3> QED BY <1>1, <1>2, <3>1, <3>2, <3>3, <3>4 DEF TokensMatch
  <2>5. \A d \in DOMAIN inactive' : inactive'[d].expiresAt > now'
    <3>1. now' \in Nat /\ \A d \in DOMAIN inactive' : inactive'[d].expiresAt \in Nat
      BY DEF S!TypeOK, S!InactiveSession
    <3> QED BY <2>1, <3>1 DEF WindowPassed
  <2>6. /\ \A m \in Attempt :
              InFlight(m)' /\ welcome'[m] # 0 =>
                 SessionToken(ws[m].clientId)' = welcome'[m]
        /\ identity' # None =>
              \/ SessionToken(identity.clientId)' = identity'.token
              \/ \E m \in Attempt : InFlight(m)' /\ welcome'[m] # 0
    <3>1. \A m : InFlight(m)' <=> InFlight(m)
      BY <1>6 DEF InFlight
    <3>2. \A m \in Attempt :
             SessionToken(ws[m].clientId)' = SessionToken(ws[m].clientId)
      <4>1. ASSUME NEW m \in Attempt
            PROVE  SessionToken(ws[m].clientId)' = SessionToken(ws[m].clientId)
        <5>1. PICK d : d = ws[m].clientId /\ d = ws'[m].clientId
          BY <1>5
        <5>2. SessionToken(d)' = SessionToken(d)
          BY <2>4
        <5> QED BY <5>1, <5>2 DEF SessionToken
      <4> QED BY <4>1
    <3>3. SessionToken(identity.clientId)' = SessionToken(identity.clientId)
      <4>1. PICK d : d = identity.clientId
        OBVIOUS
      <4>2. SessionToken(d)' = SessionToken(d)
        BY <2>4
      <4> QED BY <1>3, <4>1, <4>2 DEF SessionToken
    <3> QED BY <1>3, <2>2, <3>1, <3>2, <3>3 DEF Recognised
  <2>7. ready' => /\ identity' # None
                  /\ identity'.clientId = ws'[socket'].clientId
                  /\ identity'.token = welcome'[socket']
    <3>1. ready => socket \in Attempt
      BY <2>1 DEF OneAtATime, ClientEnd
    <3> QED BY <1>3, <1>5, <1>6, <2>2, <3>1 DEF Recognised
  <2> QED BY <1>3, <1>6, <2>2, <2>3, <2>5, <2>6, <2>7
          DEF Recognised, Waiting
<1> QED BY <1>7, <1>8, <1>10, <1>11, <1>12 DEF Linked, Matching, UndisturbedInv

-----------------------------------------------------------------------------
(* The invariant, and what it says.                                        *)

(* In the initial state the first attempt asks for a ticket and the server *)
(* knows nobody.                                                           *)
LEMMA InitLinks == Init => SessionInv
<1> SUFFICES ASSUME Init PROVE SessionInv
  OBVIOUS
<1>1. C!ClientInv /\ S!TypeOK /\ S!SessionInv
  BY SameClient, SameServer, C!InitEstablishesInv, S!InitTypes, S!InitSessions
     DEF Init
<1>2. /\ ready = FALSE /\ attempts = 1 /\ ticketing = {1} /\ listening = {}
      /\ readyState = [n \in Attempt |-> "none"]
  BY DEF Init, Client!Init, Client!Attempt
<1>3. /\ tickets = Server!EmptyMap /\ lastTicket = 0 /\ lastToken = 0
      /\ active = Server!EmptyMap /\ inactive = Server!EmptyMap
      /\ \A n \in Attempt : ws[n].status = "free" /\ ~ws[n].superseded
  BY DEF Init, Server!Init
<1>4. DOMAIN tickets = {} /\ DOMAIN active = {} /\ DOMAIN inactive = {}
  BY <1>3 DEF Server!EmptyMap
<1>5. /\ identity = None
      /\ exchange = [n \in Attempt |-> IF n = 1 THEN "post" ELSE "none"]
      /\ presented = [n \in Attempt |-> None]
      /\ offer = [n \in Attempt |-> None]
      /\ welcome = [n \in Attempt |-> 0]
      /\ disturbed = FALSE
  BY DEF Init
<1>6. /\ TypeOK
      /\ \A n \in Attempt : exchange[n] \in {"none", "post"} /\ welcome[n] = 0
  BY <1>5 DEF TypeOK
<1>7. TicketsMatch
  BY <1>2, <1>5, <1>6 DEF TicketsMatch
<1>8. ConnectionsMatch
  BY <1>2, <1>3, <1>6 DEF ConnectionsMatch
<1>9. TokensMatch
  BY <1>3, <1>4 DEF TokensMatch
<1>10. SocketsKept /\ Recognised
  BY <1>2, <1>4, <1>5, <1>6 DEF SocketsKept, Recognised
<1> QED BY <1>1, <1>6, <1>7, <1>8, <1>9, <1>10
        DEF SessionInv, Linked, Matching, UndisturbedInv

(* Every step preserves the invariant.                                     *)
LEMMA SessionStep == ASSUME SessionInv, [Next]_vars PROVE SessionInv'
<1>1. /\ C!ClientInv' /\ S!TypeOK' /\ S!SessionInv'
      /\ ClientEnd /\ ClientEnd' /\ ServerEnd /\ ServerEnd'
  BY EndsStep
<1>2. Linked /\ S!TypeOK
  BY DEF SessionInv
<1>3. Linked'
  <2>1. CASE Reconnect
    BY <1>1, <1>2, <2>1, ReconnectLinks
  <2>2. ASSUME NEW n \in Attempt,
               \/ Reclaim(n) \/ CreateTicket(n) \/ Upgrade(n) \/ Open(n)
               \/ ServerHears(n) \/ ReaperFires(n) \/ ServerCloses(n)
        PROVE  Linked'
    BY <1>1, <1>2, <2>2, ReclaimStep, CreateTicketStep, UpgradeStep, OpenStep,
       ServerHearsStep, ReaperFiresStep, ServerClosesStep
  <2>3. ASSUME NEW n \in Attempt,
               \/ TicketArrives(n) \/ FetchFails(n) \/ ConnectFails(n)
               \/ SocketOpens(n) \/ Welcome(n) \/ ClientHears(n)
               \/ ClientCloses(n)
        PROVE  Linked'
    BY <1>1, <1>2, <2>3, TicketArrivesStep, FetchFailsStep, ConnectFailsStep,
       SocketOpensStep, WelcomeStep, ClientHearsStep, ClientClosesStep
  <2>4. CASE ClientTimeout
    BY <1>1, <1>2, <2>4, ClientTimeoutStep
  <2>5. CASE CloseClient
    BY <1>1, <1>2, <2>5, CloseClientStep
  <2>6. CASE Tick
    BY <1>1, <1>2, <2>6, TickStep
  <2>7. CASE UNCHANGED vars
    BY <1>2, <2>7, StutterLinks DEF vars, clientVars
  <2> QED BY <2>1, <2>2, <2>3, <2>4, <2>5, <2>6, <2>7 DEF Next
<1> QED BY <1>1, <1>3 DEF SessionInv

(* In every reachable state the two ends are each in order and agree.      *)
THEOREM SessionInvHolds == Spec => []SessionInv
<1>1. SessionInv /\ [Next]_vars => SessionInv'
  BY SessionStep
<1> QED BY InitLinks, <1>1, PTL DEF Spec

(* What travels between the ends is always what the receiver can read.     *)
THEOREM SessionTypeCorrect == Spec => []TypeOK
<1>1. SessionInv => TypeOK
  BY DEF SessionInv, Linked
<1> QED BY SessionInvHolds, <1>1, PTL

(* The token an undisturbed client keeps is one the server accepts, or the *)
(* welcome with the next one is on its way: whatever is dropped, reaped or *)
(* superseded in whatever order (client index.ts #reclaimTicket, server    *)
(* socket.ts open and close).                                              *)
THEOREM TokenNeverStale == Spec => []TokenAccepted
<1>1. SessionInv => TokenAccepted
  <2> SUFFICES ASSUME SessionInv, Undisturbed, identity # None
               PROVE  \/ SessionToken(identity.clientId) = identity.token
                      \/ \E n \in Attempt \ listening :
                            /\ readyState[n] \in {"connecting", "open"}
                            /\ ws[n].clientId = identity.clientId
                            /\ welcome[n] = SessionToken(identity.clientId)
    BY DEF TokenAccepted
  <2>1. ClientEnd /\ ServerEnd /\ TicketsMatch /\ ConnectionsMatch /\ Recognised
    BY ClientEndHolds, ServerEndHolds
       DEF SessionInv, Linked, Matching, UndisturbedInv
  <2>2. OneAtATime
    BY <2>1 DEF Undisturbed, ClientEnd
  <2>3. CASE SessionToken(identity.clientId) = identity.token
    BY <2>3
  <2>4. CASE \E n \in Attempt : InFlight(n) /\ welcome[n] # 0
    <3>1. PICK n \in Attempt : InFlight(n) /\ welcome[n] # 0
      BY <2>4
    <3>2. Waiting(n) /\ n \notin listening
          /\ readyState[n] \in {"connecting", "open"}
      BY <2>2, <3>1 DEF OneAtATime, InFlight
    <3>3. exchange[n] = "answered" /\ ws[n].clientId = offer[n].clientId
      BY <2>1, <3>1, <3>2 DEF TicketsMatch, ConnectionsMatch
    <3>4. ws[n].clientId = identity.clientId
      BY <2>1, <3>2, <3>3 DEF Recognised
    <3>5. welcome[n] = SessionToken(ws[n].clientId)
      BY <2>1, <3>1 DEF Recognised
    <3> QED BY <3>2, <3>4, <3>5
  <2> QED BY <2>1, <2>3, <2>4 DEF Recognised
<1> QED BY SessionInvHolds, <1>1, PTL

(* The server sends what is addressed to the client to the socket the      *)
(* client listens on, as long as it has not seen that socket close.        *)
THEOREM ReadyClientReached == Spec => []SessionReachesClient
<1>1. SessionInv => SessionReachesClient
  <2> SUFFICES ASSUME SessionInv, Undisturbed, ready, NEW c,
                      c = identity.clientId
               PROVE  /\ c \in DOMAIN active => active[c].ws = socket
                      /\ c \notin DOMAIN active => ws[socket].status = "closed"
    BY DEF SessionReachesClient
  <2>1. /\ ClientEnd /\ ServerEnd
        /\ ConnectionsMatch /\ TokensMatch /\ Recognised
    BY ClientEndHolds, ServerEndHolds
       DEF SessionInv, Linked, Matching, UndisturbedInv
  <2>2. OneAtATime
    BY <2>1 DEF Undisturbed, ClientEnd
  <2>3. /\ socket \in Attempt /\ welcome[socket] # 0
        /\ \A n \in Attempt : ~InFlight(n)
    BY <2>1, <2>2 DEF OneAtATime, ClientEnd, ConnectionsMatch
  <2>4. /\ identity # None /\ ws[socket].clientId = c
        /\ SessionToken(c) = welcome[socket]
    BY <2>1, <2>3 DEF Recognised
  <2>5. ws[socket].status \in {"open", "closing", "closed"}
        /\ ~ws[socket].superseded
    BY <2>1, <2>3, <2>4 DEF ServerEnd, ConnectionsMatch, TokensMatch
  <2>6. ASSUME c \in DOMAIN active PROVE active[c].ws = socket
    <3>1. welcome[active[c].ws] = welcome[socket] /\ active[c].ws \in Attempt
      BY <2>1, <2>4, <2>6 DEF TokensMatch, SessionToken, ServerEnd
    <3> QED BY <2>1, <2>3, <3>1 DEF ConnectionsMatch
  <2>7. ASSUME c \notin DOMAIN active PROVE ws[socket].status = "closed"
    BY <2>1, <2>3, <2>4, <2>5, <2>7 DEF ServerEnd
  <2> QED BY <2>6, <2>7
<1> QED BY SessionInvHolds, <1>1, PTL

(* Over drops, reaps and takeovers an undisturbed client keeps its         *)
(* identity: every welcome it handles is for the identity it has.          *)
THEOREM IdentitySurvives == Spec => IdentityKept
<1> DEFINE Kept == identity # None /\ Undisturbed' =>
                      identity'.clientId = identity.clientId
<1>1. SessionInv /\ [Next]_vars => Kept
  <2> SUFFICES ASSUME SessionInv, [Next]_vars, identity # None, Undisturbed'
               PROVE  identity'.clientId = identity.clientId
    OBVIOUS
  <2>1. /\ ClientEnd /\ ClientEnd' /\ ServerEnd /\ ServerEnd' /\ Linked
    BY EndsStep DEF SessionInv
  <2>2. CASE \E n \in Attempt : Welcome(n)
    BY <2>1, <2>2, WelcomeStep
  <2>3. CASE ~ \E n \in Attempt : Welcome(n)
    <3>1. UNCHANGED identity
      BY <2>3 DEF Next, Reconnect, Reclaim, CreateTicket, TicketArrives,
                  FetchFails, Upgrade, ConnectFails, Open, SocketOpens,
                  ServerHears, ClientHears, ReaperFires, ServerCloses,
                  ClientCloses, ClientTimeout, CloseClient, Tick, vars, netVars
    <3> QED BY <3>1
  <2> QED BY <2>2, <2>3
<1>2. SessionInv /\ [Next]_vars => [Kept]_vars
  BY <1>1
<1> QED BY SessionInvHolds, <1>2, PTL DEF Spec, IdentityKept

(* The composition implements the client on its own: what SocketClient's   *)
(* runs and proofs show holds of the client in the session.                *)
THEOREM ImplementsClient == Spec => Client!Spec
<1>1. Init => Client!Init
  BY DEF Init
<1>2. [Next]_vars => [Client!Next]_(Client!vars)
  <2>1. [Next]_vars => [Client!Next]_clientVars
    BY ClientSteps DEF vars
  <2>2. UNCHANGED clientVars => UNCHANGED Client!vars
    BY DEF clientVars, Client!vars, Client!flags, Client!attempting,
           Client!sockets, Client!timers, Client!reconnecting, Client!history
  <2> QED BY <2>1, <2>2
<1> QED BY <1>1, <1>2, PTL DEF Spec, Client!Spec

(* And it implements the server on its own.                                *)
THEOREM ImplementsServer == Spec => Server!Spec
<1>1. Init => Server!Init
  BY DEF Init
<1>2. SessionInv /\ [Next]_vars => [Server!Next]_(Server!vars)
  <2> SUFFICES ASSUME SessionInv, [Next]_vars
               PROVE  [Server!Next]_(Server!vars)
    OBVIOUS
  <2>1. ServerEnd /\ TypeOK /\ Matching
    BY ServerEndHolds DEF SessionInv, Linked
  <2>2. [Server!Next]_serverVars
    BY <2>1, ServerSteps DEF vars
  <2>3. UNCHANGED serverVars => UNCHANGED Server!vars
    BY DEF serverVars, Server!vars
  <2> QED BY <2>2, <2>3
<1> QED BY SessionInvHolds, <1>1, <1>2, PTL DEF Spec, Server!Spec
=============================================================================
