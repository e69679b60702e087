------------------------- MODULE SocketServerProofs -------------------------
(***************************************************************************)
(* Proofs about SocketServer, for any identities, connections, time limits *)
(* and table size: its types, the session tables, and the reaper timers.   *)
(* Tickets are the subject of LifecycleProofs.                             *)
(***************************************************************************)
EXTENDS SocketServer, FiniteSetTheorems, TLAPS

(* A fault-free step never depends on these being anything else.           *)
USE DurationsAssumption, BoundsAssumption, NoneAssumption

-----------------------------------------------------------------------------
(* Type correctness.                                                       *)

(* The sweep keeps tickets as they are and adds none.                      *)
LEMMA SweptTicketsType ==
    ASSUME TypeOK
    PROVE  /\ DOMAIN SweptTickets \subseteq DOMAIN tickets
           /\ \A t \in DOMAIN SweptTickets : SweptTickets[t] = tickets[t]
           /\ SweptTickets \in [DOMAIN SweptTickets -> Ticket]
BY DEF TypeOK, SweptTickets

(* bindTicket leaves a well-formed table behind, full or not.              *)
LEMMA TicketingType ==
    ASSUME TypeOK, NEW c \in ClientId, BindTicket(c) \/ RefuseTicket
    PROVE  /\ lastTicket' \in Nat
           /\ DOMAIN tickets' \subseteq 1..lastTicket'
           /\ tickets' \in [DOMAIN tickets' -> Ticket]
<1> USE SweptTicketsType DEF TypeOK
<1>1. CASE BindTicket(c)
  <2>1. [clientId |-> c, expiresAt |-> now + TicketTtl] \in Ticket
    BY DEF Ticket
  <2> QED BY <1>1, <2>1 DEF BindTicket, Put
<1>2. CASE RefuseTicket
  BY <1>2 DEF RefuseTicket
<1> QED BY <1>1, <1>2

(* Setting two fields of one connection keeps the connections well formed. *)
LEMMA SocketUpdate ==
    ASSUME NEW w, w \in [Socket -> SocketData], NEW s \in Socket,
           NEW status \in Status
    PROVE  /\ [w EXCEPT ![s].superseded = TRUE, ![s].status = status]
                 \in [Socket -> SocketData]
           /\ [w EXCEPT ![s].reaped = TRUE, ![s].status = status]
                 \in [Socket -> SocketData]
           /\ \A c \in ClientId :
                 [w EXCEPT ![s].status = status, ![s].clientId = c]
                   \in [Socket -> SocketData]
BY DEF SocketData

(* close() on a socket that may be closing already.                        *)
LEMMA ClosingType ==
    ASSUME NEW status \in Status
    PROVE  Closing(status) \in Status
BY DEF Closing, Status

(* Each step of the callbacks leaves well-formed records behind.           *)
LEMMA ArmReaperType ==
    ASSUME TypeOK, NEW s \in Socket, NEW w \in [Socket -> SocketData],
           ArmReaper(s, w)
    PROVE  /\ timers' \subseteq [ws : Socket, at : Nat]
           /\ ws' \in [Socket -> SocketData]
           /\ heard' \in [Socket -> Nat]
<1>1. now + DisconnectThreshold \in Nat
  BY DEF TypeOK
<1>2. timers' \subseteq [ws : Socket, at : Nat]
  BY <1>1 DEF TypeOK, ArmReaper, ClearedReaper
<1>3. ws' \in [Socket -> SocketData]
  BY <1>1 DEF ArmReaper, SocketData
<1> QED BY <1>2, <1>3 DEF TypeOK, ArmReaper

(* A superseded session keeps the type of the sockets and their clients.   *)
LEMMA SupersededType ==
    ASSUME TypeOK, NEW c \in ClientId
    PROVE  /\ Superseded(c) \in [Socket -> SocketData]
           /\ \A x \in Socket :
                 /\ Superseded(c)[x].clientId = ws[x].clientId
                 /\ Superseded(c)[x].reaped = ws[x].reaped
                 /\ Superseded(c)[x].reaperHandle = ws[x].reaperHandle
                 /\ Superseded(c)[x].status \in {ws[x].status, "closing"}
                 /\ ws[x].status # "open" =>
                       Superseded(c)[x].status = ws[x].status
                 /\ ~ (c \in DOMAIN active /\ active[c].ws = x) =>
                       Superseded(c)[x] = ws[x]
                 /\ c \in DOMAIN active /\ active[c].ws = x =>
                       Superseded(c)[x].superseded
<1>1. CASE c \in DOMAIN active
  <2>1. PICK old \in Socket : old = active[c].ws
    BY <1>1 DEF TypeOK, ActiveSession
  <2>2. PICK status \in Status : status = Closing(ws[old].status)
    BY ClosingType DEF TypeOK, SocketData
  <2>3. Superseded(c) =
          [ws EXCEPT ![old].superseded = TRUE, ![old].status = status]
    BY <1>1, <2>1, <2>2 DEF Superseded, TypeOK
  <2>a. /\ status \in {ws[old].status, "closing"}
        /\ ws[old].status # "open" => status = ws[old].status
    BY <2>2 DEF Closing
  <2>4. Superseded(c) \in [Socket -> SocketData]
    <3>1. ws \in [Socket -> SocketData]
      BY DEF TypeOK
    <3>2. [ws EXCEPT ![old].superseded = TRUE, ![old].status = status]
             \in [Socket -> SocketData]
      BY ONLY <3>1, SocketUpdate
    <3> QED BY ONLY <3>2, <2>3
  <2>5. \A x \in Socket : x # old => Superseded(c)[x] = ws[x]
    BY <2>1, <2>3 DEF TypeOK
  <2>6. /\ Superseded(c)[old].clientId = ws[old].clientId
        /\ Superseded(c)[old].reaped = ws[old].reaped
        /\ Superseded(c)[old].reaperHandle = ws[old].reaperHandle
        /\ Superseded(c)[old].status = status
        /\ Superseded(c)[old].superseded
    BY <2>1, <2>3 DEF TypeOK, SocketData
  <2> QED BY <1>1, <2>1, <2>a, <2>4, <2>5, <2>6
<1>2. CASE c \notin DOMAIN active
  BY <1>2 DEF Superseded, TypeOK
<1> QED BY <1>1, <1>2

(* The server starts well formed, without sessions.                        *)
LEMMA InitTypes == Init => TypeOK
BY DEF Init, TypeOK, EmptyMap, SocketData, Status

(* Every step keeps the state well formed.                                 *)
LEMMA TypeStep == ASSUME TypeOK, [Next]_vars PROVE TypeOK'
<1>1. ASSUME NEW c \in ClientId, CreateTicket(c) PROVE TypeOK'
  <2>1. BindTicket(c) \/ RefuseTicket
    BY <1>1 DEF CreateTicket
  <2> QED BY <1>1, <2>1, TicketingType
          DEF TypeOK, CreateTicket, registry, connections
<1>2. ASSUME NEW c \in ClientId, NEW token \in 1..lastToken,
             UpdateTicket(c, token)
      PROVE  TypeOK'
  <2>1. BindTicket(c) \/ RefuseTicket
    BY <1>2 DEF UpdateTicket
  <2> QED BY <1>2, <2>1, TicketingType
          DEF TypeOK, UpdateTicket, registry, connections
<1>3. ASSUME NEW c \in ClientId, UpdateTicketTooLate(c) PROVE TypeOK'
  BY <1>3 DEF TypeOK, UpdateTicketTooLate, ticketing, connections, Delete
<1>4. ASSUME NEW t \in DOMAIN tickets, NEW s \in Socket, Upgrade(t, s)
      PROVE  TypeOK'
  <2>1. tickets[t].clientId \in ClientId
    BY DEF TypeOK, Ticket
  <2>2. ws' \in [Socket -> SocketData]
    BY <1>4, <2>1, SocketUpdate DEF TypeOK, Upgrade, Status
  <2>3. \A x \in Socket : ws'[x].status # "free" => ws'[x].clientId \in ClientId
    BY <1>4, <2>1 DEF TypeOK, Upgrade, SocketData
  <2> QED BY <1>4, <2>2, <2>3
          DEF TypeOK, Upgrade, RedeemTicket, Delete, registry
<1>5. ASSUME NEW t \in DOMAIN tickets, RefuseUpgrade(t) PROVE TypeOK'
  <2>1. tickets' = Delete(tickets, t)
    BY <1>5 DEF RefuseUpgrade, RedeemTicket
  <2>2. /\ DOMAIN tickets' \subseteq DOMAIN tickets
        /\ tickets' \in [DOMAIN tickets' -> Ticket]
    BY <2>1 DEF TypeOK, Delete
  <2> QED BY <1>5, <2>2 DEF TypeOK, RefuseUpgrade, registry, connections
<1>6. ASSUME NEW s \in Socket, Open(s) PROVE TypeOK'
  <2> DEFINE c == ws[s].clientId
             w == [Superseded(c) EXCEPT ![s].status = "open"]
  <2>1. c \in ClientId
    BY <1>6 DEF Open, TypeOK
  <2>2. w \in [Socket -> SocketData]
    BY <2>1, SupersededType DEF SocketData, Status
  <2>3. ArmReaper(s, w)
    BY <1>6 DEF Open
  <2>4. \A x \in Socket : ws'[x].status # "free" => ws'[x].clientId \in ClientId
    BY <1>6, <2>1, <2>3, SupersededType DEF ArmReaper, TypeOK, SocketData
  <2>5. /\ DOMAIN active' \subseteq ClientId
        /\ active' \in [DOMAIN active' -> ActiveSession]
        /\ lastToken' \in Nat
    BY <1>6, <2>1 DEF Open, TypeOK, Put, ActiveSession
  <2>6. /\ DOMAIN inactive' \subseteq ClientId
        /\ inactive' \in [DOMAIN inactive' -> InactiveSession]
    BY <1>6 DEF Open, TypeOK, InactiveAfterOpen, SweptInactive, Delete
  <2> QED BY <1>6, <2>2, <2>3, <2>4, <2>5, <2>6, ArmReaperType
          DEF Open, TypeOK, ticketing
<1>7. ASSUME NEW s \in Socket, Message(s) PROVE TypeOK'
  <2>1. ArmReaper(s, ws) /\ ws \in [Socket -> SocketData]
    BY <1>7 DEF Message, TypeOK
  <2>2. \A x \in Socket : ws'[x].status # "free" => ws'[x].clientId \in ClientId
    BY <2>1 DEF ArmReaper, TypeOK, SocketData
  <2> QED BY <1>7, <2>1, <2>2, ArmReaperType
          DEF Message, TypeOK, ticketing, registry
<1>8. ASSUME NEW s \in Socket, ReaperFires(s) PROVE TypeOK'
  <2>1. ws[s].status \in Status /\ Closing(ws[s].status) \in Status
    BY ClosingType DEF TypeOK, SocketData
  <2>a. ws' \in [Socket -> SocketData]
    BY <1>8, <2>1, SocketUpdate DEF ReaperFires, TypeOK
  <2>2. \A x \in Socket : ws'[x].status # "free" => ws'[x].clientId \in ClientId
    BY <1>8 DEF ReaperFires, TypeOK, SocketData, Closing, Status
  <2> QED BY <1>8, <2>a, <2>2 DEF ReaperFires, TypeOK, ticketing, registry
<1>9. ASSUME NEW s \in Socket, NEW code \in CloseCode, Close(s, code)
      PROVE  TypeOK'
  <2> DEFINE c == ws[s].clientId
  <2>1. c \in ClientId
    BY <1>9 DEF Close, TypeOK
  <2>2. ws' \in [Socket -> SocketData]
    BY <1>9 DEF Close, TypeOK, SocketData, Status
  <2>3. \A x \in Socket : ws'[x].status # "free" => ws'[x].clientId \in ClientId
    BY <1>9, <2>1 DEF Close, TypeOK, SocketData
  <2>4. /\ DOMAIN active' \subseteq ClientId
        /\ active' \in [DOMAIN active' -> ActiveSession]
    BY <1>9 DEF Close, TypeOK, Delete
  <2>5. Owns(s) => [token |-> active[c].token, expiresAt |-> now + ReclaimTtl]
                      \in InactiveSession
    BY DEF Owns, TypeOK, ActiveSession, InactiveSession
  <2>6. /\ DOMAIN inactive' \subseteq ClientId
        /\ inactive' \in [DOMAIN inactive' -> InactiveSession]
    BY <1>9, <2>1, <2>5 DEF Close, TypeOK, Put
  <2> QED BY <1>9, <2>2, <2>3, <2>4, <2>6
          DEF Close, TypeOK, ClearedReaper, ticketing
<1>10. ASSUME Tick PROVE TypeOK'
  BY <1>10 DEF Tick, TypeOK, ticketing, registry, connections
<1>11. ASSUME UNCHANGED vars PROVE TypeOK'
  BY <1>11 DEF TypeOK, vars
<1> QED BY <1>1, <1>2, <1>3, <1>4, <1>5, <1>6, <1>7, <1>8, <1>9, <1>10,
           <1>11 DEF Next, Ticketing, SocketEvent

(* Every reachable state is well formed.                                   *)
THEOREM TypeCorrect == Spec => []TypeOK
<1>1. TypeOK /\ [Next]_vars => TypeOK'
  BY TypeStep
<1> QED BY <1>1, InitTypes, PTL DEF Spec

-----------------------------------------------------------------------------
(* Sessions and their sockets.                                             *)

(* Only a connection that was opened can be superseded: what makes the     *)
(* socket that open registers a rightful owner.                            *)
NotYetSuperseded ==
    \A s \in Socket :
        ws[s].status \in {"free", "upgraded"} => ~ws[s].superseded

SessionInv == SessionSocket /\ NoOrphan /\ OneRecord /\ NotYetSuperseded

(* The invariant speaks of the registry and of three fields of each        *)
(* connection; a step that leaves those alone preserves it.                *)
LEMMA SessionFrame ==
    ASSUME SessionInv, TypeOK, TypeOK',
           active' = active,
           DOMAIN inactive' \subseteq DOMAIN inactive,
           \A x \in Socket :
              /\ ws'[x].superseded = ws[x].superseded
              /\ ws[x].status # "free" => ws'[x].clientId = ws[x].clientId
              /\ ws[x].status \in {"free", "upgraded"} =>
                    ws'[x].status \in {"free", "upgraded"}
              /\ ws[x].status = "closed" => ws'[x].status = "closed"
              /\ ws[x].status \in {"open", "closing"} =>
                    ws'[x].status \in {"open", "closing"}
    PROVE  SessionInv'
<1>1. \A c \in DOMAIN active : active[c].ws \in Socket
  BY DEF TypeOK, ActiveSession
<1>2. \A x \in Socket : ws[x].status \in Status /\ ws'[x].status \in Status
  BY DEF TypeOK, SocketData
<1>3. SessionSocket'
  BY <1>1 DEF SessionInv, SessionSocket
<1>4. NoOrphan'
  BY <1>2 DEF SessionInv, NoOrphan, Status
<1>5. OneRecord'
  BY DEF SessionInv, OneRecord
<1>6. NotYetSuperseded'
  BY <1>2 DEF SessionInv, NotYetSuperseded, Status
<1> QED BY <1>3, <1>4, <1>5, <1>6 DEF SessionInv

(* A new socket takes its identity over from the one registered before.    *)
LEMMA OpenKeepsSessions ==
    ASSUME SessionInv, TypeOK, TypeOK', NEW s \in Socket, Open(s)
    PROVE  SessionInv'
<1> DEFINE c == ws[s].clientId
           w == Superseded(c)
<1>1. /\ ws[s].status = "upgraded"
      /\ c \in ClientId
      /\ ~ws[s].superseded
  BY DEF Open, TypeOK, SessionInv, NotYetSuperseded
<1>2. \A d \in DOMAIN active :
         /\ active[d].ws \in Socket
         /\ active[d].ws # s
  BY <1>1 DEF TypeOK, ActiveSession, SessionInv, SessionSocket
<1>3. /\ \A x \in Socket :
            /\ w[x] \in SocketData
            /\ w[x].clientId = ws[x].clientId
            /\ w[x].status \in {ws[x].status, "closing"}
            /\ ws[x].status # "open" => w[x].status = ws[x].status
            /\ ~ (c \in DOMAIN active /\ active[c].ws = x) => w[x] = ws[x]
            /\ c \in DOMAIN active /\ active[c].ws = x => w[x].superseded
      /\ w \in [Socket -> SocketData]
  BY <1>1, SupersededType
<1>4. /\ \A x \in Socket \ {s} : ws'[x] = w[x]
      /\ ws'[s].clientId = c
      /\ ws'[s].status = "open"
      /\ ~ws'[s].superseded
  BY <1>1, <1>2, <1>3 DEF Open, ArmReaper, SocketData
<1>5. /\ DOMAIN active' = DOMAIN active \cup {c}
      /\ active'[c].ws = s
      /\ \A d \in DOMAIN active \ {c} : active'[d] = active[d]
  BY DEF Open, Put
<1>6. DOMAIN inactive' \subseteq DOMAIN inactive \ {c}
  BY DEF Open, InactiveAfterOpen, SweptInactive, Delete
<1> HIDE DEF w
<1>7. SessionSocket'
  <2> SUFFICES ASSUME NEW d \in DOMAIN active'
               PROVE  /\ ws'[active'[d].ws].clientId = d
                      /\ ws'[active'[d].ws].status \in {"open", "closing"}
                      /\ ~ws'[active'[d].ws].superseded
    BY DEF SessionSocket
  <2>1. CASE d = c
    BY <1>4, <1>5, <2>1
  <2>2. CASE d # c
    <3>1. /\ d \in DOMAIN active
          /\ active'[d].ws = active[d].ws
          /\ active[d].ws \in Socket \ {s}
      BY <1>2, <1>5, <2>2
    <3>2. /\ ws[active[d].ws].clientId = d
          /\ ws[active[d].ws].status \in {"open", "closing"}
          /\ ~ws[active[d].ws].superseded
      BY <3>1 DEF SessionInv, SessionSocket
    <3>3. ~ (c \in DOMAIN active /\ active[c].ws = active[d].ws)
      BY <2>2, <3>2 DEF SessionInv, SessionSocket
    <3>4. ws'[active[d].ws] = ws[active[d].ws]
      BY <1>3, <1>4, <3>1, <3>3
    <3> QED BY <3>1, <3>2, <3>4
  <2> QED BY <2>1, <2>2
<1>8. NoOrphan'
  <2> SUFFICES ASSUME NEW x \in Socket,
                      ws'[x].status \in {"open", "closing"},
                      ~ws'[x].superseded
               PROVE  /\ ws'[x].clientId \in DOMAIN active'
                      /\ active'[ws'[x].clientId].ws = x
    BY DEF NoOrphan
  <2>1. CASE x = s
    BY <1>4, <1>5, <2>1
  <2>2. CASE x # s
    <3>1. /\ ws'[x] = ws[x]
          /\ ~ (c \in DOMAIN active /\ active[c].ws = x)
      BY <1>3, <1>4, <2>2
    <3>2. /\ ws[x].clientId \in DOMAIN active
          /\ active[ws[x].clientId].ws = x
      BY <3>1 DEF SessionInv, NoOrphan
    <3>3. ws[x].clientId # c
      BY <3>1, <3>2
    <3> QED BY <1>5, <3>1, <3>2, <3>3
  <2> QED BY <2>1, <2>2
<1>9. OneRecord'
  BY <1>5, <1>6 DEF SessionInv, OneRecord
<1>10. NotYetSuperseded'
  <2>1. ASSUME NEW x \in Socket \ {s},
               ws'[x].status \in {"free", "upgraded"}
        PROVE  ~ws'[x].superseded
    <3>1. ws[x].status \in {"free", "upgraded"}
      BY <1>3, <1>4, <2>1
    <3>2. ~ (c \in DOMAIN active /\ active[c].ws = x)
      BY <3>1 DEF SessionInv, SessionSocket
    <3> QED BY <1>3, <1>4, <3>1, <3>2 DEF SessionInv, NotYetSuperseded
  <2> QED BY <1>4, <2>1 DEF NotYetSuperseded
<1> QED BY <1>7, <1>8, <1>9, <1>10 DEF SessionInv

(* A socket's close ends the session it owns and touches no other.         *)
LEMMA CloseKeepsSessions ==
    ASSUME SessionInv, TypeOK, TypeOK', NEW s \in Socket,
           NEW code \in CloseCode, Close(s, code)
    PROVE  SessionInv'
<1> DEFINE c == ws[s].clientId
<1>1. /\ \A x \in Socket \ {s} : ws'[x] = ws[x]
      /\ ws'[s].status = "closed"
      /\ ws'[s].superseded = ws[s].superseded
  BY DEF Close, TypeOK, SocketData
<1>2. \A d \in DOMAIN active : active[d].ws \in Socket
  BY DEF TypeOK, ActiveSession
<1>3. CASE Owns(s)
  <2>1. /\ DOMAIN active' = DOMAIN active \ {c}
        /\ \A d \in DOMAIN active' : active'[d] = active[d]
        /\ DOMAIN inactive' \subseteq DOMAIN inactive \cup {c}
    BY <1>3 DEF Close, Delete, Put
  <2>2. SessionSocket'
    <3>1. \A d \in DOMAIN active' : active[d].ws # s
      BY <2>1 DEF SessionInv, SessionSocket
    <3> QED BY <1>1, <1>2, <2>1, <3>1 DEF SessionInv, SessionSocket
  <2>3. NoOrphan'
    <3>1. \A x \in Socket \ {s} :
             ws[x].status \in {"open", "closing"} /\ ~ws[x].superseded =>
                ws[x].clientId # c
      BY <1>3 DEF SessionInv, NoOrphan, Owns
    <3> QED BY <1>1, <2>1, <3>1 DEF SessionInv, NoOrphan
  <2>4. OneRecord'
    BY <2>1 DEF SessionInv, OneRecord
  <2>5. NotYetSuperseded'
    BY <1>1 DEF SessionInv, NotYetSuperseded
  <2> QED BY <2>2, <2>3, <2>4, <2>5 DEF SessionInv
<1>4. CASE ~Owns(s)
  <2>1. active' = active /\ inactive' = inactive
    BY <1>4 DEF Close
  <2>2. \A d \in DOMAIN active : active[d].ws # s
    BY <1>4 DEF SessionInv, SessionSocket, Owns
  <2>3. SessionSocket'
    BY <1>1, <1>2, <2>1, <2>2 DEF SessionInv, SessionSocket
  <2>4. NoOrphan'
    BY <1>1, <2>1 DEF SessionInv, NoOrphan
  <2>5. OneRecord' /\ NotYetSuperseded'
    BY <1>1, <2>1 DEF SessionInv, OneRecord, NotYetSuperseded
  <2> QED BY <2>3, <2>4, <2>5 DEF SessionInv
<1> QED BY <1>3, <1>4

(* There are no sessions at the start.                                     *)
LEMMA InitSessions == Init => SessionInv
BY DEF Init, EmptyMap, SessionInv, SessionSocket, NoOrphan, OneRecord,
       NotYetSuperseded

(* Every step keeps the sessions and their sockets in agreement.           *)
LEMMA SessionStep ==
    ASSUME TypeOK, TypeOK', SessionInv, [Next]_vars
    PROVE  SessionInv'
<1>1. ASSUME NEW c \in ClientId, CreateTicket(c) PROVE SessionInv'
  BY <1>1, SessionFrame DEF CreateTicket, registry, connections
<1>2. ASSUME NEW c \in ClientId, NEW token \in 1..lastToken,
             UpdateTicket(c, token)
      PROVE  SessionInv'
  BY <1>2, SessionFrame DEF UpdateTicket, registry, connections
<1>3. ASSUME NEW c \in ClientId, UpdateTicketTooLate(c) PROVE SessionInv'
  BY <1>3, SessionFrame DEF UpdateTicketTooLate, connections, Delete
<1>4. ASSUME NEW t \in DOMAIN tickets, NEW s \in Socket, Upgrade(t, s)
      PROVE  SessionInv'
  <2>1. /\ \A x \in Socket \ {s} : ws'[x] = ws[x]
        /\ ws[s].status = "free"
        /\ ws'[s].status = "upgraded"
        /\ ws'[s].superseded = ws[s].superseded
    BY <1>4 DEF Upgrade, TypeOK, SocketData
  <2> QED BY <1>4, <2>1, SessionFrame DEF Upgrade, registry
<1>5. ASSUME NEW t \in DOMAIN tickets, RefuseUpgrade(t) PROVE SessionInv'
  BY <1>5, SessionFrame DEF RefuseUpgrade, registry, connections
<1>6. ASSUME NEW s \in Socket, Open(s) PROVE SessionInv'
  BY <1>6, OpenKeepsSessions
<1>7. ASSUME NEW s \in Socket, Message(s) PROVE SessionInv'
  <2>1. \A x \in Socket : /\ ws'[x].superseded = ws[x].superseded
                           /\ ws'[x].clientId = ws[x].clientId
                           /\ ws'[x].status = ws[x].status
    BY <1>7 DEF Message, ArmReaper, TypeOK, SocketData
  <2> QED BY <1>7, <2>1, SessionFrame DEF Message, registry
<1>8. ASSUME NEW s \in Socket, ReaperFires(s) PROVE SessionInv'
  <2>1. \A x \in Socket : /\ ws'[x].superseded = ws[x].superseded
                           /\ ws'[x].clientId = ws[x].clientId
                           /\ ws'[x].status \in
                                  {ws[x].status, Closing(ws[x].status)}
    BY <1>8 DEF ReaperFires, TypeOK, SocketData
  <2> QED BY <1>8, <2>1, SessionFrame DEF ReaperFires, registry, Closing
<1>9. ASSUME NEW s \in Socket, NEW code \in CloseCode, Close(s, code)
      PROVE  SessionInv'
  BY <1>9, CloseKeepsSessions
<1>10. ASSUME Tick PROVE SessionInv'
  BY <1>10, SessionFrame DEF Tick, registry, connections
<1>11. ASSUME UNCHANGED vars PROVE SessionInv'
  BY <1>11, SessionFrame DEF vars
<1> QED BY <1>1, <1>2, <1>3, <1>4, <1>5, <1>6, <1>7, <1>8, <1>9, <1>10,
           <1>11 DEF Next, Ticketing, SocketEvent

(* The registered socket of a session is a live socket of its identity, a  *)
(* live socket that was not superseded is registered, and no identity is   *)
(* both active and reclaimable.                                            *)
THEOREM SessionsSafe == Spec => []TablesAgree
<1>1. TypeOK /\ TypeOK' /\ SessionInv /\ [Next]_vars => SessionInv'
  BY SessionStep
<1> QED BY <1>1, InitSessions, TypeCorrect, PTL DEF Spec, SessionInv, TablesAgree

-----------------------------------------------------------------------------
(* The reaper timers, and what a reaped socket leaves behind.              *)

IsConnected(s) == ws[s].status \in {"open", "closing"}

(* The timer armReaper armed when s was last heard.                        *)
Reaper(s) == [ws |-> s, at |-> heard[s] + DisconnectThreshold]

(* clearTimeout removes the pending timer only because the handle of a     *)
(* connected socket is the timer of its last message, and an open socket   *)
(* has one to clear only because reaping closes it.                        *)
ReaperInv(s) ==
    /\ IsConnected(s) => ws[s].reaperHandle = heard[s] + DisconnectThreshold
    /\ ws[s].reaped => ws[s].status \in {"closing", "closed"}
    /\ \A timer \in timers :
          timer.ws = s =>
             /\ IsConnected(s)
             /\ ~ws[s].reaped
             /\ timer.at = heard[s] + DisconnectThreshold
    /\ IsConnected(s) /\ ~ws[s].reaped => Reaper(s) \in timers

(* ReaperInv is the case distinction of ReaperArmed with the handle added. *)
LEMMA ReaperInvArms ==
    ASSUME TypeOK, \A s \in Socket : ReaperInv(s)
    PROVE  ReaperArmed
<1> SUFFICES ASSUME NEW s \in Socket,
                    NEW mine, mine = {timer \in timers : timer.ws = s}
             PROVE  CASE ws[s].status \in {"open", "closing"} /\ ~ws[s].reaped ->
                           mine = {[ws |-> s, at |-> heard[s] + DisconnectThreshold]}
                      [] OTHER -> mine = {}
  BY DEF ReaperArmed
<1>1. \A timer \in timers : timer = [ws |-> timer.ws, at |-> timer.at]
  BY DEF TypeOK
<1>2. \A timer \in mine : IsConnected(s) /\ ~ws[s].reaped /\ timer = Reaper(s)
  BY <1>1 DEF ReaperInv, Reaper
<1>3. CASE IsConnected(s) /\ ~ws[s].reaped
  <2>1. Reaper(s) \in mine
    BY <1>3 DEF ReaperInv, Reaper
  <2>2. mine = {Reaper(s)}
    BY <1>2, <2>1
  <2> QED BY <1>3, <2>2 DEF IsConnected, Reaper
<1>4. CASE ~(IsConnected(s) /\ ~ws[s].reaped)
  <2>1. mine = {}
    BY <1>2, <1>4
  <2> QED BY <1>4, <2>1 DEF IsConnected
<1> QED BY <1>3, <1>4

(* A socket the step leaves alone keeps its timer.                         *)
LEMMA ReaperFrame ==
    ASSUME NEW x \in Socket, ReaperInv(x),
           IsConnected(x)' <=> IsConnected(x),
           ws'[x].reaped <=> ws[x].reaped,
           ws[x].reaped => ws'[x].status \in {"closing", "closed"},
           ws'[x].reaperHandle = ws[x].reaperHandle,
           heard'[x] = heard[x],
           \A timer : timer.ws = x => (timer \in timers' <=> timer \in timers)
    PROVE  ReaperInv(x)'
<1>1. Reaper(x)' = Reaper(x) /\ Reaper(x).ws = x
  BY DEF Reaper
<1> QED BY <1>1 DEF ReaperInv

(* armReaper, for a socket whose old timer, if any, is the one its handle  *)
(* names.                                                                  *)
LEMMA ArmReaperArms ==
    ASSUME TypeOK, NEW s \in Socket, NEW w \in [Socket -> SocketData],
           ArmReaper(s, w), ReaperInv(s), ~w[s].reaped,
           w[s].status = "open"
    PROVE  ReaperInv(s)'
<1>1. /\ ws'[s].reaperHandle = now + DisconnectThreshold
      /\ ws'[s].status = "open"
      /\ ~ws'[s].reaped
      /\ heard'[s] = now
  BY DEF ArmReaper, TypeOK, SocketData
<1>2. \A timer \in timers : timer = [ws |-> timer.ws, at |-> timer.at]
  BY DEF TypeOK
<1>3. \A timer \in ClearedReaper(s) : timer.ws # s
  BY <1>2 DEF ReaperInv, ClearedReaper
<1>4. timers' = ClearedReaper(s) \cup {Reaper(s)'}
  BY <1>1 DEF ArmReaper, Reaper
<1>5. Reaper(s)'.ws = s /\ Reaper(s)'.at = heard'[s] + DisconnectThreshold
  BY DEF Reaper
<1> QED BY <1>1, <1>3, <1>4, <1>5 DEF ReaperInv, IsConnected

(* Every step keeps every socket's handle and timer in agreement: those of *)
(* one socket are disturbed only by its own callbacks and by the open that *)
(* supersedes it.                                                          *)
LEMMA ReaperStep ==
    ASSUME TypeOK, \A s \in Socket : ReaperInv(s), [Next]_vars,
           NEW x \in Socket
    PROVE  ReaperInv(x)'
<1>1. \A timer \in timers : timer = [ws |-> timer.ws, at |-> timer.at]
  BY DEF TypeOK
<1>2. ReaperInv(x)
  OBVIOUS
<1>3. ASSUME UNCHANGED connections PROVE ReaperInv(x)'
  BY <1>2, <1>3 DEF connections, ReaperInv, Reaper, IsConnected
<1>4. ASSUME NEW t \in DOMAIN tickets, NEW s \in Socket, Upgrade(t, s)
      PROVE  ReaperInv(x)'
  <2>1. /\ ws'[x].reaped = ws[x].reaped
        /\ ws'[x].reaperHandle = ws[x].reaperHandle
        /\ \/ ws'[x].status = ws[x].status
           \/ ws[x].status = "free" /\ ws'[x].status = "upgraded"
    BY <1>4 DEF Upgrade, TypeOK, SocketData
  <2>2. timers' = timers /\ heard' = heard
    BY <1>4 DEF Upgrade
  <2> QED BY <1>2, <2>1, <2>2, ReaperFrame DEF IsConnected, ReaperInv
<1>5. ASSUME NEW s \in Socket, Open(s) PROVE ReaperInv(x)'
  <2>1. PICK c \in ClientId : c = ws[s].clientId
    BY <1>5 DEF Open, TypeOK
  <2>2. /\ Superseded(c) \in [Socket -> SocketData]
        /\ Superseded(c)[x].reaped = ws[x].reaped
        /\ Superseded(c)[s].reaped = ws[s].reaped
        /\ Superseded(c)[x].reaperHandle = ws[x].reaperHandle
        /\ Superseded(c)[x].status \in {ws[x].status, "closing"}
        /\ ws[x].status # "open" => Superseded(c)[x].status = ws[x].status
    BY SupersededType
  <2>3. PICK w : /\ w = [Superseded(c) EXCEPT ![s].status = "open"]
                 /\ ArmReaper(s, w)
    BY <1>5, <2>1 DEF Open
  <2>4. /\ w \in [Socket -> SocketData]
        /\ x # s => w[x] = Superseded(c)[x]
        /\ w[s].status = "open"
        /\ w[s].reaped = ws[s].reaped
    BY <2>2, <2>3 DEF SocketData, Status
  <2>5. ws[s].status = "upgraded" /\ ~ws[s].reaped
    BY <1>5 DEF Open, ReaperInv
  <2>6. CASE x = s
    BY <1>2, <2>3, <2>4, <2>5, <2>6, ArmReaperArms
  <2>7. CASE x # s
    <3>1. ws'[x] = Superseded(c)[x] /\ heard'[x] = heard[x]
      BY <2>3, <2>4, <2>7 DEF ArmReaper, TypeOK
    <3>2. \A timer : timer.ws = x => (timer \in timers' <=> timer \in timers)
      BY <2>3, <2>7 DEF ArmReaper, ClearedReaper
    <3>3. /\ IsConnected(x)' <=> IsConnected(x)
          /\ ws[x].reaped => ws'[x].status \in {"closing", "closed"}
      BY <1>2, <2>2, <3>1 DEF IsConnected, ReaperInv
    <3> QED BY <1>2, <2>2, <3>1, <3>2, <3>3, ReaperFrame
  <2> QED BY <2>6, <2>7
<1>6. ASSUME NEW s \in Socket, Message(s) PROVE ReaperInv(x)'
  <2>1. /\ ArmReaper(s, ws)
        /\ ws[s].status = "open"
        /\ ~ws[s].reaped
        /\ ws \in [Socket -> SocketData]
    BY <1>6 DEF Message, ReaperInv, TypeOK
  <2>2. CASE x = s
    BY <1>2, <2>1, <2>2, ArmReaperArms
  <2>3. CASE x # s
    <3>1. ws'[x] = ws[x] /\ heard'[x] = heard[x]
      BY <2>1, <2>3 DEF ArmReaper, TypeOK
    <3>2. \A timer : timer.ws = x => (timer \in timers' <=> timer \in timers)
      BY <2>1, <2>3 DEF ArmReaper, ClearedReaper
    <3> QED BY <1>2, <3>1, <3>2, ReaperFrame DEF IsConnected, ReaperInv
  <2> QED BY <2>2, <2>3
<1>7. ASSUME NEW s \in Socket, ReaperFires(s) PROVE ReaperInv(x)'
  <2>1. PICK timer \in timers : timer.ws = s /\ timers' = timers \ {timer}
    BY <1>7 DEF ReaperFires
  <2>2. IsConnected(s) /\ ~ws[s].reaped /\ timer = Reaper(s)
    BY <1>1, <2>1 DEF ReaperInv, Reaper
  <2>3. CASE x = s
    <3>1. /\ ws'[s].status = "closing"
          /\ ws'[s].reaped
          /\ ws'[s].reaperHandle = ws[s].reaperHandle
          /\ heard' = heard
      BY <1>7, <2>2 DEF ReaperFires, IsConnected, Closing, TypeOK, SocketData
    <3>2. \A other \in timers' : other.ws # s
      BY <1>1, <2>1, <2>2 DEF ReaperInv, Reaper
    <3> QED BY <1>2, <2>2, <2>3, <3>1, <3>2 DEF ReaperInv, IsConnected
  <2>4. CASE x # s
    <3>1. ws'[x] = ws[x] /\ heard' = heard
      BY <1>7, <2>4 DEF ReaperFires, TypeOK
    <3>2. \A other : other.ws = x => (other \in timers' <=> other \in timers)
      BY <2>1, <2>4
    <3> QED BY <1>2, <3>1, <3>2, ReaperFrame DEF IsConnected, ReaperInv
  <2> QED BY <2>3, <2>4
<1>8. ASSUME NEW s \in Socket, NEW code \in CloseCode, Close(s, code)
      PROVE  ReaperInv(x)'
  <2>1. IsConnected(s) /\ timers' = ClearedReaper(s) /\ heard' = heard
    BY <1>8 DEF Close, IsConnected
  <2>2. CASE x = s
    <3>1. ws'[s].status = "closed"
      BY <1>8 DEF Close, TypeOK, SocketData
    <3>2. \A timer \in timers' : timer.ws # s
      BY <1>1, <2>1 DEF ReaperInv, ClearedReaper
    <3> QED BY <2>2, <3>1, <3>2 DEF ReaperInv, IsConnected
  <2>3. CASE x # s
    <3>1. ws'[x] = ws[x]
      BY <1>8, <2>3 DEF Close, TypeOK
    <3>2. \A timer : timer.ws = x => (timer \in timers' <=> timer \in timers)
      BY <2>1, <2>3 DEF ClearedReaper
    <3> QED BY <1>2, <2>1, <3>1, <3>2, ReaperFrame DEF IsConnected, ReaperInv
  <2> QED BY <2>2, <2>3
<1>9. ASSUME NEW s \in Socket, SocketEvent(s) PROVE ReaperInv(x)'
  BY <1>5, <1>6, <1>7, <1>8, <1>9 DEF SocketEvent
<1>10. ASSUME Ticketing PROVE ReaperInv(x)'
  <2>1. (\E t \in DOMAIN tickets, s \in Socket : Upgrade(t, s))
           \/ UNCHANGED connections
    BY <1>10 DEF Ticketing, CreateTicket, UpdateTicket, UpdateTicketTooLate,
       RefuseUpgrade
  <2> QED BY <1>3, <1>4, <2>1
<1>11. CASE Tick \/ UNCHANGED vars
  BY <1>3, <1>11 DEF Tick, connections, vars
<1> QED BY <1>9, <1>10, <1>11 DEF Next

(* Nobody is connected at the start.                                       *)
LEMMA InitReapers ==
    ASSUME Init, NEW s \in Socket
    PROVE  ReaperInv(s)
BY DEF Init, ReaperInv, IsConnected

(* A connected socket is reaped DisconnectThreshold after it was last      *)
(* heard, by the one timer pending for it; no other timer outlives it.     *)
THEOREM ReapersArmed == Spec => []ReaperArmed
<1> DEFINE Inv == \A s \in Socket : ReaperInv(s)
<1>1. Init => Inv
  BY InitReapers
<1>2. TypeOK /\ Inv /\ [Next]_vars => Inv'
  BY ReaperStep
<1>3. TypeOK /\ Inv => ReaperArmed
  BY ReaperInvArms
<1> HIDE DEF Inv
<1> QED BY <1>1, <1>2, <1>3, TypeCorrect, PTL DEF Spec

-----------------------------------------------------------------------------
(* The session of a reaped socket turns reclaimable, with its token, even  *)
(* when the transport reports a willing close.                             *)
THEOREM SilenceKeepsIdentity == Spec => SilenceIsNotGoodbye
<1> DEFINE Kept ==
      \A c \in DOMAIN active :
         c \notin DOMAIN active' /\ ws[active[c].ws].reaped =>
            /\ c \in DOMAIN inactive'
            /\ inactive'[c].token = active[c].token
<1>1. ASSUME [Next]_vars PROVE [Kept]_vars
  <2> SUFFICES ASSUME NEW c \in DOMAIN active, c \notin DOMAIN active',
                      ws[active[c].ws].reaped
               PROVE  /\ c \in DOMAIN inactive'
                      /\ inactive'[c].token = active[c].token
    OBVIOUS
  <2>1. PICK s \in Socket, code \in CloseCode : Close(s, code)
    BY <1>1 DEF Next, Ticketing, CreateTicket, UpdateTicket,
       UpdateTicketTooLate, Upgrade, RefuseUpgrade, SocketEvent, Open,
       Message, ReaperFires, Tick, Put, registry, vars
  <2>2. Owns(s) /\ c = ws[s].clientId /\ active[c].ws = s
    BY <2>1 DEF Close, Delete, Owns
  <2>3. ~Willing(s, code)
    BY <2>2 DEF Willing
  <2> QED BY <2>1, <2>2, <2>3 DEF Close, Put
<1> QED BY <1>1, PTL DEF Spec, SilenceIsNotGoodbye
=============================================================================
