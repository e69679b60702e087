-------------------------- MODULE LifecycleProofs --------------------------
(***************************************************************************)
(* Proofs about the tickets of SocketServer, and that it implements        *)
(* SessionLifecycle: what is promised about identities and sessions rests  *)
(* on what the table of tickets holds.                                     *)
(***************************************************************************)
EXTENDS SocketServerProofs

USE DurationsAssumption, BoundsAssumption, NoneAssumption

-----------------------------------------------------------------------------
(* The table of tickets.                                                   *)

(* Tickets expire in the order they were issued only because none expires  *)
(* later than one issued now would, and they name identities given out     *)
(* only because sessions and connections do.                               *)
ExpiryBounded ==
    \A t \in DOMAIN tickets : tickets[t].expiresAt <= now + TicketTtl

IdentitiesIssued ==
    /\ DOMAIN active \cup DOMAIN inactive \subseteq issued
    /\ \A s \in Socket : ws[s].status # "free" => ws[s].clientId \in issued

TicketInv == TicketTable /\ ExpiryBounded /\ IdentitiesIssued

(* A part of the table is finite and no larger than the table.             *)
LEMMA TicketsFinite ==
    ASSUME TypeOK
    PROVE  \A T \in SUBSET DOMAIN tickets :
              /\ IsFiniteSet(T)
              /\ Cardinality(T) \in Nat
              /\ Cardinality(T) <= Cardinality(DOMAIN tickets)
<1>1. IsFiniteSet(1..lastTicket)
  <2>1. lastTicket \in Int /\ 1 \in Int
    BY DEF TypeOK
  <2> QED BY ONLY <2>1, FS_Interval
<1>2. IsFiniteSet(DOMAIN tickets)
  BY <1>1, FS_Subset DEF TypeOK
<1> QED BY <1>2, FS_Subset, FS_CardinalityType

(* Tickets that only leave the table keep it in order.                     *)
LEMMA FewerTickets ==
    ASSUME TypeOK, TypeOK', TicketTable, ExpiryBounded,
           DOMAIN tickets' \subseteq DOMAIN tickets,
           \A t \in DOMAIN tickets' : tickets'[t] = tickets[t],
           now <= now', issued \subseteq issued'
    PROVE  TicketTable' /\ ExpiryBounded'
<1>1. Cardinality(DOMAIN tickets') <= MaxTickets
  <2>1. Cardinality(DOMAIN tickets') \in Nat
        /\ Cardinality(DOMAIN tickets') <= Cardinality(DOMAIN tickets)
        /\ Cardinality(DOMAIN tickets) \in Nat
    <3>1. /\ DOMAIN tickets' \in SUBSET DOMAIN tickets
          /\ DOMAIN tickets \in SUBSET DOMAIN tickets
      OBVIOUS
    <3> QED BY <3>1, TicketsFinite
  <2> QED BY <2>1 DEF TicketTable
<1>2. \A t, u \in DOMAIN tickets' :
         t < u => tickets'[t].expiresAt <= tickets'[u].expiresAt
  BY DEF TicketTable
<1>3. \A t \in DOMAIN tickets' : tickets'[t].clientId \in issued'
  BY DEF TicketTable
<1>4. \A t \in DOMAIN tickets' : tickets'[t].expiresAt <= now' + TicketTtl
  <2> TAKE t \in DOMAIN tickets'
  <2>1. tickets[t].expiresAt <= now + TicketTtl
        /\ tickets[t].expiresAt \in Nat /\ tickets'[t] = tickets[t]
    BY DEF ExpiryBounded, TypeOK, Ticket
  <2> QED BY <2>1 DEF TypeOK
<1> QED BY <1>1, <1>2, <1>3, <1>4 DEF TicketTable, ExpiryBounded

(* bindTicket, for an identity that has been given out by then.            *)
LEMMA BindKeepsTable ==
    ASSUME TypeOK, TypeOK', TicketTable, ExpiryBounded, NEW c \in ClientId,
           (BindTicket(c) /\ c \in issued') \/ RefuseTicket,
           now' = now, issued \subseteq issued'
    PROVE  TicketTable' /\ ExpiryBounded'
<1>1. CASE BindTicket(c) /\ c \in issued'
  <2> DEFINE new == lastTicket + 1
             kept == DOMAIN SweptTickets
  <2>1. /\ DOMAIN tickets' = kept \cup {new}
        /\ tickets'[new] = [clientId |-> c, expiresAt |-> now + TicketTtl]
        /\ \A t \in kept : tickets'[t] = SweptTickets[t] \/ t = new
    BY <1>1 DEF BindTicket, Put
  <2>2. /\ kept \subseteq DOMAIN tickets
        /\ \A t \in kept : SweptTickets[t] = tickets[t]
        /\ \A t \in DOMAIN tickets : t \in Nat /\ t < new
    BY SweptTicketsType DEF TypeOK
  <2>3. \A t \in kept : t # new /\ t < new /\ tickets'[t] = tickets[t]
    <3> TAKE t \in kept
    <3>1. t \in Nat /\ t < new
      BY <2>2
    <3> QED BY <2>1, <2>2, <3>1
  <2>4. Cardinality(DOMAIN tickets') <= MaxTickets
    <3>1. IsFiniteSet(kept) /\ Cardinality(kept) \in Nat
      BY <2>2, TicketsFinite
    <3>2. Cardinality(kept) < MaxTickets
      BY <1>1 DEF BindTicket
    <3>3. Cardinality(kept \cup {new}) = Cardinality(kept) + 1
      BY <2>3, <3>1, FS_AddElement
    <3> QED BY <2>1, <3>1, <3>2, <3>3
  <2>5. \A t \in DOMAIN tickets' : tickets'[t].expiresAt <= now + TicketTtl
    BY <2>1, <2>2, <2>3 DEF ExpiryBounded, TypeOK
  <2>6. ASSUME NEW t \in DOMAIN tickets', NEW u \in DOMAIN tickets', t < u
        PROVE  tickets'[t].expiresAt <= tickets'[u].expiresAt
    <3>1. CASE u = new
      BY <2>1, <2>5, <3>1
    <3>2. CASE u # new
      <4>1. u \in kept
        BY <2>1, <3>2
      <4>2. t < new
        <5>1. t \in Nat /\ u \in Nat /\ new \in Nat
          BY DEF TypeOK
        <5> QED BY <2>3, <2>6, <4>1, <5>1
      <4>3. t \in kept
        <5>1. t # new
          BY <4>2 DEF TypeOK
        <5> QED BY <2>1, <5>1
      <4> QED BY <2>2, <2>3, <2>6, <4>1, <4>3 DEF TicketTable
    <3> QED BY <3>1, <3>2
  <2>7. \A t \in DOMAIN tickets' : tickets'[t].clientId \in issued'
    BY <1>1, <2>1, <2>2, <2>3 DEF TicketTable
  <2> QED BY <2>4, <2>5, <2>6, <2>7 DEF TicketTable, ExpiryBounded
<1>2. CASE RefuseTicket
  <2>1. /\ DOMAIN tickets' \subseteq DOMAIN tickets
        /\ \A t \in DOMAIN tickets' : tickets'[t] = tickets[t]
    BY <1>2, SweptTicketsType DEF RefuseTicket
  <2> QED BY <2>1, FewerTickets DEF TypeOK
<1> QED BY <1>1, <1>2

(* A socket's callbacks and timers give out no identity.                   *)
LEMMA SocketEventFrame ==
    ASSUME TypeOK, NEW s \in Socket, SocketEvent(s)
    PROVE  /\ UNCHANGED <<now, ticketing>>
           /\ \A x \in Socket :
                 /\ ws'[x].clientId = ws[x].clientId
                 /\ ws'[x].status # "free" => ws[x].status # "free"
           /\ DOMAIN active' \cup DOMAIN inactive' \subseteq
                 DOMAIN active \cup DOMAIN inactive \cup {ws[s].clientId}
           /\ ws[s].status # "free" \/ UNCHANGED <<active, inactive>>
<1>1. CASE Open(s)
  <2>1. PICK c \in ClientId : c = ws[s].clientId
    BY <1>1 DEF Open, TypeOK
  <2>2. /\ Superseded(c) \in [Socket -> SocketData]
        /\ \A x \in Socket :
              /\ Superseded(c)[x].clientId = ws[x].clientId
              /\ ws[x].status # "open" =>
                    Superseded(c)[x].status = ws[x].status
    BY SupersededType
  <2>3. /\ ws' = [[Superseded(c) EXCEPT ![s].status = "open"]
                     EXCEPT ![s].reaperHandle = now + DisconnectThreshold]
        /\ ws[s].status = "upgraded"
    BY <1>1, <2>1 DEF Open, ArmReaper
  <2>4. \A x \in Socket :
           /\ ws'[x].clientId = ws[x].clientId
           /\ ws'[x].status # "free" => ws[x].status # "free"
    BY <2>2, <2>3 DEF SocketData
  <2> QED BY <1>1, <2>4
          DEF Open, Put, InactiveAfterOpen, SweptInactive, Delete
<1>2. CASE Message(s)
  BY <1>2 DEF Message, ArmReaper, registry, TypeOK, SocketData
<1>3. CASE ReaperFires(s)
  <2>1. \A x \in Socket :
           /\ ws'[x].clientId = ws[x].clientId
           /\ ws'[x].status # "free" => ws[x].status # "free"
    BY <1>3 DEF ReaperFires, TypeOK, SocketData, Closing
  <2> QED BY <1>3, <2>1 DEF ReaperFires, registry
<1>4. ASSUME NEW code \in CloseCode, Close(s, code)
      PROVE  /\ UNCHANGED <<now, ticketing>>
             /\ \A x \in Socket :
                   /\ ws'[x].clientId = ws[x].clientId
                   /\ ws'[x].status # "free" => ws[x].status # "free"
             /\ DOMAIN active' \cup DOMAIN inactive' \subseteq
                   DOMAIN active \cup DOMAIN inactive \cup {ws[s].clientId}
             /\ ws[s].status # "free"
  <2>1. \A x \in Socket :
           /\ ws'[x].clientId = ws[x].clientId
           /\ ws'[x].status # "free" => ws[x].status # "free"
    BY <1>4 DEF Close, TypeOK, SocketData
  <2> QED BY <1>4, <2>1 DEF Close, Delete, Put
<1> QED BY <1>1, <1>2, <1>3, <1>4 DEF SocketEvent

(* Every reachable table of tickets is bounded and in order of expiry.     *)
LEMMA TicketStep ==
    ASSUME TypeOK, TypeOK', TicketInv, [Next]_vars
    PROVE  TicketInv'
<1> USE DEF TicketInv
<1>1. ASSUME UNCHANGED <<now, ticketing>>, UNCHANGED active,
             DOMAIN inactive' \subseteq DOMAIN inactive, UNCHANGED ws
      PROVE  TicketInv'
  BY <1>1, FewerTickets DEF ticketing, IdentitiesIssued, TypeOK
<1>2. ASSUME NEW c \in ClientId, CreateTicket(c) PROVE TicketInv'
  <2>1. TicketTable' /\ ExpiryBounded'
    BY <1>2, BindKeepsTable DEF CreateTicket
  <2> QED BY <1>2, <2>1
          DEF CreateTicket, registry, connections, IdentitiesIssued
<1>3. ASSUME NEW c \in ClientId, NEW token \in 1..lastToken,
             UpdateTicket(c, token)
      PROVE  TicketInv'
  <2>1. c \in issued
    BY <1>3 DEF UpdateTicket, HoldsSession, IdentitiesIssued
  <2>2. TicketTable' /\ ExpiryBounded'
    BY <1>3, <2>1, BindKeepsTable DEF UpdateTicket
  <2> QED BY <1>3, <2>2
          DEF UpdateTicket, registry, connections, IdentitiesIssued
<1>4. ASSUME NEW c \in ClientId, UpdateTicketTooLate(c) PROVE TicketInv'
  BY <1>1, <1>4 DEF UpdateTicketTooLate, ticketing, connections, Delete
<1>5. ASSUME NEW t \in DOMAIN tickets, RedeemTicket(t),
             UNCHANGED <<now, issued>>
      PROVE  TicketTable' /\ ExpiryBounded'
  <2>1. /\ DOMAIN tickets' \subseteq DOMAIN tickets
        /\ \A u \in DOMAIN tickets' : tickets'[u] = tickets[u]
    BY <1>5 DEF RedeemTicket, Delete
  <2> QED BY <1>5, <2>1, FewerTickets DEF TypeOK
<1>6. ASSUME NEW t \in DOMAIN tickets, NEW s \in Socket, Upgrade(t, s)
      PROVE  TicketInv'
  <2>1. TicketTable' /\ ExpiryBounded'
    BY <1>5, <1>6 DEF Upgrade
  <2>2. \A x \in Socket : ws'[x].status # "free" =>
           \/ ws[x].status # "free" /\ ws'[x].clientId = ws[x].clientId
           \/ ws'[x].clientId = tickets[t].clientId
    BY <1>6 DEF Upgrade, TypeOK, SocketData
  <2>3. tickets[t].clientId \in issued
    BY DEF TicketTable
  <2>4. issued' = issued /\ active' = active /\ inactive' = inactive
    BY <1>6 DEF Upgrade, registry
  <2> QED BY <2>1, <2>2, <2>3, <2>4 DEF IdentitiesIssued
<1>7. ASSUME NEW t \in DOMAIN tickets, RefuseUpgrade(t) PROVE TicketInv'
  <2>1. TicketTable' /\ ExpiryBounded'
    BY <1>5, <1>7 DEF RefuseUpgrade
  <2> QED BY <1>7, <2>1
          DEF RefuseUpgrade, registry, connections, IdentitiesIssued
<1>8. ASSUME NEW s \in Socket, SocketEvent(s) PROVE TicketInv'
  <2>1. /\ UNCHANGED <<now, ticketing>>
        /\ \A x \in Socket :
              /\ ws'[x].clientId = ws[x].clientId
              /\ ws'[x].status # "free" => ws[x].status # "free"
        /\ DOMAIN active' \cup DOMAIN inactive' \subseteq
              DOMAIN active \cup DOMAIN inactive \cup {ws[s].clientId}
        /\ ws[s].status # "free" \/ UNCHANGED <<active, inactive>>
    BY <1>8, SocketEventFrame
  <2>2. TicketTable' /\ ExpiryBounded'
    BY <2>1, FewerTickets DEF ticketing, TypeOK
  <2>3. issued' = issued
    BY <2>1 DEF ticketing
  <2>4. DOMAIN active' \cup DOMAIN inactive' \subseteq issued'
    BY <2>1, <2>3 DEF IdentitiesIssued
  <2>5. \A x \in Socket : ws'[x].status # "free" => ws'[x].clientId \in issued'
    BY <2>1, <2>3 DEF IdentitiesIssued
  <2> QED BY <2>2, <2>4, <2>5 DEF IdentitiesIssued
<1>9. CASE Tick
  <2>1. TicketTable' /\ ExpiryBounded'
    <3>1. now <= now'
      BY <1>9 DEF Tick, TypeOK
    <3> QED BY <1>9, <3>1, FewerTickets DEF Tick, ticketing
  <2> QED BY <1>9, <2>1
          DEF Tick, ticketing, registry, connections, IdentitiesIssued
<1>10. CASE UNCHANGED vars
  BY <1>1, <1>10 DEF vars, ticketing
<1> QED BY <1>2, <1>3, <1>4, <1>6, <1>7, <1>8, <1>9, <1>10
        DEF Next, Ticketing

(* The tickets stay in order in every reachable state.                     *)
LEMMA TicketInvariant == Spec => []TicketInv
<1>1. Init => TicketInv
  <2> SUFFICES ASSUME Init PROVE TicketInv
    OBVIOUS
  <2>1. DOMAIN tickets = {}
    BY DEF Init, EmptyMap
  <2>2. Cardinality({}) = 0
    BY FS_EmptySet
  <2> QED BY <2>1, <2>2 DEF Init, EmptyMap, TicketInv, TicketTable,
             ExpiryBounded, IdentitiesIssued
<1> QED BY <1>1, TicketStep, TypeCorrect, PTL DEF Spec

(* The outstanding tickets are at most maxTickets, expire in the order in  *)
(* which bindTicket added them, and name identities that were given out.   *)
THEOREM TicketsInOrder == Spec => []TicketTable
BY TicketInvariant, PTL DEF TicketInv

(* Issuing a ticket sweeps every expired one: a ticket that stays is no    *)
(* older than a live one, and so is live itself.                           *)
THEOREM SweepIsComplete == Spec => SweepComplete
<1> DEFINE Swept == lastTicket' # lastTicket =>
        \A t \in DOMAIN tickets \cap DOMAIN tickets' : Live(tickets[t])
<1>1. ASSUME TypeOK, TicketTable, [Next]_vars PROVE [Swept]_vars
  <2> SUFFICES ASSUME lastTicket' # lastTicket,
                      NEW t \in DOMAIN tickets \cap DOMAIN tickets'
               PROVE  Live(tickets[t])
    OBVIOUS
  <2>1. PICK c \in ClientId : BindTicket(c)
    BY <1>1 DEF Next, Ticketing, CreateTicket, UpdateTicket,
       UpdateTicketTooLate, Upgrade, RefuseUpgrade, RedeemTicket, SocketEvent,
       Open, Message, ReaperFires, Close, Tick, RefuseTicket, ticketing, vars
  <2>2. t \in DOMAIN SweptTickets
    <3>1. t # lastTicket + 1
      BY <1>1 DEF TypeOK
    <3> QED BY <2>1, <3>1 DEF BindTicket, Put
  <2>3. PICK u \in DOMAIN tickets : u <= t /\ Live(tickets[u])
    BY <2>2 DEF SweptTickets
  <2>4. tickets[u].expiresAt <= tickets[t].expiresAt
    <3>1. u \in Nat /\ t \in Nat /\ tickets[t].expiresAt \in Nat
      BY <1>1 DEF TypeOK, Ticket
    <3>2. CASE u = t
      BY <3>1, <3>2
    <3>3. CASE u < t
      BY <1>1, <3>3 DEF TicketTable
    <3> QED BY <2>3, <3>1, <3>2, <3>3
  <2>5. /\ tickets[u].expiresAt \in Nat /\ tickets[t].expiresAt \in Nat
        /\ now \in Nat
    BY <1>1 DEF TypeOK, Ticket
  <2> QED BY <2>3, <2>4, <2>5 DEF Live
<1> QED BY <1>1, TypeCorrect, TicketsInOrder, PTL DEF Spec, SweepComplete

(* A connection is upgraded by spending a live ticket of its identity, and *)
(* a spent ticket stays spent.                                             *)
THEOREM TicketsSingleUse == Spec => TicketSingleUse
<1> DEFINE Bought ==
      \A s \in Socket :
         ws[s].status = "free" /\ ws'[s].status # "free" =>
            \E t \in DOMAIN tickets \ DOMAIN tickets' :
               /\ Live(tickets[t])
               /\ tickets[t].clientId = ws'[s].clientId
    Spent == DOMAIN tickets' \cap 1..lastTicket \subseteq DOMAIN tickets
<1>1. ASSUME TypeOK, [Next]_vars PROVE [Bought /\ Spent]_vars
  <2>1. ASSUME NEW c \in ClientId, CreateTicket(c) \/ UpdateTicketTooLate(c)
               \/ \E token \in 1..lastToken : UpdateTicket(c, token)
        PROVE  Bought /\ Spent
    <3>1. UNCHANGED ws
      BY <2>1 DEF CreateTicket, UpdateTicket, UpdateTicketTooLate, connections
    <3>2. BindTicket(c) \/ RefuseTicket \/ UNCHANGED tickets
      BY <2>1 DEF CreateTicket, UpdateTicket, UpdateTicketTooLate, ticketing
    <3>3. DOMAIN tickets' \subseteq DOMAIN tickets \cup {lastTicket + 1}
      BY <1>1, <3>2, SweptTicketsType DEF BindTicket, RefuseTicket, Put
    <3>4. lastTicket + 1 \notin 1..lastTicket
      BY <1>1 DEF TypeOK
    <3> QED BY <3>1, <3>3, <3>4
  <2>2. ASSUME NEW t \in DOMAIN tickets, NEW s \in Socket, Upgrade(t, s)
        PROVE  Bought /\ Spent
    <3>1. /\ \A x \in Socket \ {s} : ws'[x] = ws[x]
          /\ ws'[s].clientId = tickets[t].clientId
      BY <1>1, <2>2 DEF Upgrade, TypeOK, SocketData
    <3>2. DOMAIN tickets' = DOMAIN tickets \ {t} /\ Live(tickets[t])
      BY <2>2 DEF Upgrade, RedeemTicket, Delete
    <3> QED BY <3>1, <3>2
  <2>3. ASSUME NEW t \in DOMAIN tickets, RefuseUpgrade(t)
        PROVE  Bought /\ Spent
    BY <2>3 DEF RefuseUpgrade, RedeemTicket, Delete, connections
  <2>4. ASSUME NEW s \in Socket, SocketEvent(s) PROVE Bought /\ Spent
    BY <1>1, <2>4, SocketEventFrame DEF ticketing
  <2>5. CASE Tick \/ UNCHANGED vars
    BY <2>5 DEF Tick, ticketing, connections, vars
  <2> QED BY <1>1, <2>1, <2>2, <2>3, <2>4, <2>5 DEF Next, Ticketing
<1> QED BY <1>1, TypeCorrect, PTL DEF Spec, TicketSingleUse

(* A ticket is spent once, and an expired one does not outlive the next    *)
(* sale: both halves of TicketLifetime.                                    *)
THEOREM TicketsLiveOnce == Spec => TicketLifetime
BY SweepIsComplete, TicketsSingleUse DEF TicketLifetime

-----------------------------------------------------------------------------
(* The life of a session.                                                  *)

Sessions == [c \in ClientId |-> SessionOf(c)]

(* What a step that leaves both tables alone leaves alone.                 *)
LEMMA SameSessions ==
    ASSUME UNCHANGED <<active, inactive>>
    PROVE  Sessions' = Sessions
BY DEF Sessions, SessionOf

(* A ticket bought for c entitles c and nobody else.                       *)
LEMMA BindEntitles ==
    ASSUME TypeOK, NEW c \in ClientId, UNCHANGED ws
    PROVE  /\ BindTicket(c) => /\ c \in Entitled'
                               /\ Entitled' \subseteq Entitled \cup {c}
           /\ RefuseTicket => Entitled' \subseteq Entitled
<1>1. /\ DOMAIN SweptTickets \subseteq DOMAIN tickets
      /\ \A t \in DOMAIN SweptTickets : SweptTickets[t] = tickets[t]
  BY SweptTicketsType
<1>2. ASSUME BindTicket(c)
      PROVE  c \in Entitled' /\ Entitled' \subseteq Entitled \cup {c}
  <2>1. /\ lastTicket + 1 \in DOMAIN tickets'
        /\ tickets'[lastTicket + 1].clientId = c
        /\ \A t \in DOMAIN tickets' :
              \/ tickets'[t].clientId = c
              \/ t \in DOMAIN tickets /\ tickets'[t] = tickets[t]
    BY <1>1, <1>2 DEF BindTicket, Put
  <2> QED BY <2>1 DEF Entitled
<1>3. ASSUME RefuseTicket PROVE Entitled' \subseteq Entitled
  BY <1>1, <1>3 DEF RefuseTicket, Entitled
<1> QED BY <1>2, <1>3

(* Spending a ticket entitles nobody, whether or not it buys a connection. *)
LEMMA RedeemEntitlesNobody ==
    ASSUME TypeOK, NEW t \in DOMAIN tickets,
           (\E s \in Socket : Upgrade(t, s)) \/ RefuseUpgrade(t)
    PROVE  Entitled' \subseteq Entitled
<1>1. /\ DOMAIN tickets' \subseteq DOMAIN tickets
      /\ \A u \in DOMAIN tickets' : tickets'[u] = tickets[u]
  BY DEF Upgrade, RefuseUpgrade, RedeemTicket, Delete
<1>2. \A x \in Socket : ws'[x].status = "upgraded" =>
         \/ ws[x].status = "upgraded" /\ ws'[x].clientId = ws[x].clientId
         \/ ws'[x].clientId = tickets[t].clientId
  <2>1. ASSUME NEW s \in Socket, Upgrade(t, s)
        PROVE  /\ ws'[s].clientId = tickets[t].clientId
               /\ \A x \in Socket \ {s} : ws'[x] = ws[x]
    BY <2>1 DEF Upgrade, TypeOK, SocketData
  <2>2. ASSUME RefuseUpgrade(t) PROVE ws' = ws
    BY <2>2 DEF RefuseUpgrade, connections
  <2> QED BY <2>1, <2>2
<1> QED BY <1>1, <1>2 DEF Entitled

(* The callbacks of a socket entitle nobody either.                        *)
LEMMA CallbacksEntitleNobody ==
    ASSUME TypeOK, UNCHANGED tickets,
           \A x \in Socket :
              /\ ws'[x].clientId = ws[x].clientId
              /\ ws'[x].status = "upgraded" => ws[x].status = "upgraded"
    PROVE  Entitled' \subseteq Entitled
BY DEF Entitled

-----------------------------------------------------------------------------
(* A connection that opens begins the session of its identity.             *)
LEMMA OpenBegins ==
    ASSUME TypeOK, NEW s \in Socket, Open(s)
    PROVE  Lifecycle!Begin(ws[s].clientId)
<1>1. PICK c \in ClientId : c = ws[s].clientId
  BY DEF Open, TypeOK
<1>2. c \in Entitled
  BY <1>1 DEF Open, Entitled
<1>3. Entitled' \subseteq Entitled
  <2>1. /\ Superseded(c) \in [Socket -> SocketData]
        /\ \A x \in Socket :
              /\ Superseded(c)[x].clientId = ws[x].clientId
              /\ Superseded(c)[x].status \in {ws[x].status, "closing"}
    BY SupersededType
  <2>2. ws' = [[Superseded(c) EXCEPT ![s].status = "open"]
                 EXCEPT ![s].reaperHandle = now + DisconnectThreshold]
    BY <1>1 DEF Open, ArmReaper
  <2>3. \A x \in Socket :
           /\ ws'[x].clientId = ws[x].clientId
           /\ ws'[x].status = "upgraded" => ws[x].status = "upgraded"
    BY <2>1, <2>2 DEF SocketData
  <2> QED BY <2>3, CallbacksEntitleNobody DEF Open, ticketing
<1>4. Sessions'[c] = [phase |-> "live", token |-> lastToken', until |-> 0]
  BY <1>1 DEF Open, Put, Sessions, SessionOf
<1>5. ASSUME NEW d \in ClientId \ {c}
      PROVE  \/ Sessions'[d] = Sessions[d]
             \/ /\ Sessions[d].phase = "dormant"
                /\ Sessions[d].until <= now
                /\ Sessions'[d] = [phase |-> "absent", token |-> 0, until |-> 0]
  <2>1. /\ d \in DOMAIN active' <=> d \in DOMAIN active
        /\ d \in DOMAIN active => active'[d] = active[d]
    BY <1>1 DEF Open, Put
  <2>2. /\ d \in DOMAIN inactive' <=> d \in DOMAIN inactive /\ Live(inactive[d])
        /\ d \in DOMAIN inactive' => inactive'[d] = inactive[d]
    BY <1>1 DEF Open, InactiveAfterOpen, SweptInactive, Delete
  <2>3. d \in DOMAIN inactive => inactive[d].expiresAt \in Nat /\ now \in Nat
    BY DEF TypeOK, InactiveSession
  <2> QED BY <2>1, <2>2, <2>3 DEF Sessions, SessionOf, Live
<1> QED BY <1>1, <1>2, <1>3, <1>4, <1>5
        DEF Open, ticketing, Sessions, Lifecycle!Begin, Lifecycle!Forget,
            Lifecycle!Lapsed, Lifecycle!Absent

SessionRecord ==
    [phase : {"absent", "live", "dormant"}, token : Nat, until : Nat]

(* Setting two fields of one session.                                      *)
LEMMA SuspendedRecord ==
    ASSUME NEW S, NEW f, f \in [S -> SessionRecord], NEW c \in S,
           NEW g, g \in [S -> SessionRecord], NEW until \in Nat,
           g[c].phase = "dormant", g[c].token = f[c].token,
           g[c].until = until, \A d \in S \ {c} : g[d] = f[d]
    PROVE  g = [f EXCEPT ![c].phase = "dormant", ![c].until = until]
<1>1. PICK h \in [S -> SessionRecord] : h = [f EXCEPT ![c].phase = "dormant"]
  <2>1. [f EXCEPT ![c].phase = "dormant"] \in [S -> SessionRecord]
    BY DEF SessionRecord
  <2> QED BY <2>1
<1>2. /\ h[c].phase = "dormant"
      /\ h[c].token = f[c].token
      /\ \A d \in S \ {c} : h[d] = f[d]
  BY <1>1 DEF SessionRecord
<1>3. [h EXCEPT ![c].until = until] \in [S -> SessionRecord]
  BY DEF SessionRecord
<1>4. \A d \in S : g[d] = [h EXCEPT ![c].until = until][d]
  <2>1. g[c] = [h EXCEPT ![c].until = until][c]
    BY <1>2, <1>3 DEF SessionRecord
  <2>2. \A d \in S \ {c} : g[d] = [h EXCEPT ![c].until = until][d]
    BY <1>2
  <2> QED BY <2>1, <2>2
<1>5. g = [h EXCEPT ![c].until = until]
  BY <1>3, <1>4
<1> QED BY <1>1, <1>5

(* A close suspends the session the socket owns, ends it, or, when the     *)
(* session is another socket's by now, leaves it alone.                    *)
LEMMA CloseEnds ==
    ASSUME TypeOK, OneRecord, NEW s \in Socket, NEW code \in CloseCode,
           Close(s, code)
    PROVE  \/ Lifecycle!Suspend(ws[s].clientId)
           \/ Lifecycle!End(ws[s].clientId)
           \/ Lifecycle!RunOut
<1>1. PICK c \in ClientId : c = ws[s].clientId
  BY DEF Close, TypeOK
<1>2. Entitled' = Entitled
  <2>1. \A x \in Socket :
           /\ ws'[x].clientId = ws[x].clientId
           /\ ws'[x].status = "upgraded" <=> ws[x].status = "upgraded"
    BY DEF Close, TypeOK, SocketData
  <2> QED BY <2>1 DEF Close, ticketing, Entitled
<1>3. UNCHANGED <<issued, lastToken, now>>
  BY DEF Close, ticketing
<1>4. CASE Owns(s) /\ ~Willing(s, code)
  <2>1. /\ c \in DOMAIN active
        /\ active' = Delete(active, c)
        /\ inactive' = Put(inactive, c, [token |-> active[c].token,
                                         expiresAt |-> now + ReclaimTtl])
    BY <1>1, <1>4 DEF Close, Owns
  <2>2. Sessions[c] = [phase |-> "live", token |-> active[c].token, until |-> 0]
    BY <2>1 DEF Sessions, SessionOf
  <2>3. Sessions'[c] = [phase |-> "dormant", token |-> active[c].token,
                        until |-> now + ReclaimTtl]
    BY <2>1 DEF Sessions, SessionOf, Delete, Put
  <2>4. \A d \in ClientId \ {c} : Sessions'[d] = Sessions[d]
    BY <2>1 DEF Sessions, SessionOf, Delete, Put
  <2>5. Sessions' = [Sessions EXCEPT ![c].phase = "dormant",
                                     ![c].until = now + ReclaimTtl]
    <3>1. Sessions \in [ClientId -> SessionRecord]
      BY DEF Sessions, SessionOf, SessionRecord, TypeOK, ActiveSession,
             InactiveSession
    <3>2. /\ now + ReclaimTtl \in Nat
          /\ Sessions'[c] \in SessionRecord
      BY <1>1, <2>1, <2>3 DEF SessionRecord, TypeOK, ActiveSession
    <3>3. Sessions' \in [ClientId -> SessionRecord]
      <4>1. Sessions' = [d \in ClientId |-> Sessions'[d]]
        BY DEF Sessions
      <4>2. \A d \in ClientId : Sessions'[d] \in SessionRecord
        BY <2>4, <3>1, <3>2
      <4> QED BY <4>1, <4>2
    <3>4. /\ Sessions'[c].phase = "dormant"
          /\ Sessions'[c].until = now + ReclaimTtl
          /\ Sessions'[c].token = Sessions[c].token
      BY <2>2, <2>3
    <3> QED BY ONLY <2>4, <3>1, <3>2, <3>3, <3>4, SuspendedRecord
  <2> QED BY <1>1, <1>2, <1>3, <2>2, <2>5 DEF Sessions, Lifecycle!Suspend
<1>5. CASE Owns(s) /\ Willing(s, code)
  <2>1. /\ c \in DOMAIN active
        /\ c \notin DOMAIN inactive
        /\ active' = Delete(active, c)
        /\ inactive' = inactive
    BY <1>1, <1>5 DEF Close, Owns, OneRecord
  <2>2. Sessions[c].phase = "live"
    BY <2>1 DEF Sessions, SessionOf
  <2>3. Sessions'[c] = [phase |-> "absent", token |-> 0, until |-> 0]
    BY <2>1 DEF Sessions, SessionOf, Delete
  <2>4. \A d \in ClientId \ {c} : Sessions'[d] = Sessions[d]
    BY <2>1 DEF Sessions, SessionOf, Delete
  <2> QED BY <1>1, <1>2, <1>3, <2>2, <2>3, <2>4
          DEF Sessions, Lifecycle!End, Lifecycle!Absent
<1>6. CASE ~Owns(s)
  <2>1. Sessions' = Sessions
    BY <1>6, SameSessions DEF Close
  <2> QED BY <1>2, <1>3, <2>1 DEF Sessions, Lifecycle!RunOut
<1> QED BY <1>4, <1>5, <1>6

(* Every step of the server is a step of the lifecycle or leaves it alone. *)
LEMMA StepsImplement ==
    ASSUME TypeOK, OneRecord, IdentitiesIssued, [Next]_vars
    PROVE  [Lifecycle!Next]_(Lifecycle!sessionVars)
<1> SUFFICES \/ Lifecycle!Next
             \/ UNCHANGED Lifecycle!sessionVars
  OBVIOUS
<1>1. ASSUME NEW c \in ClientId,
             \/ c \notin issued
             \/ c \in DOMAIN active
             \/ c \in DOMAIN inactive \ DOMAIN active /\ Live(inactive[c]),
             \/ BindTicket(c) /\ issued' = issued \cup {c}
             \/ RefuseTicket /\ issued' = issued,
             UNCHANGED <<now, registry, connections>>
      PROVE  Lifecycle!Next
  <2>1. Sessions' = Sessions
    BY <1>1, SameSessions DEF registry
  <2>2. UNCHANGED ws /\ UNCHANGED <<lastToken, now>>
    BY <1>1 DEF registry, connections
  <2>3. CASE BindTicket(c) /\ issued' = issued \cup {c}
    <3>1. c \in Entitled' /\ Entitled' \subseteq Entitled \cup {c}
      BY <2>2, <2>3, BindEntitles
    <3>2. \/ c \notin issued
          \/ Sessions[c].phase = "live"
          \/ Sessions[c].phase = "dormant" /\ ~(Sessions[c].until <= now)
      <4>1. CASE c \in DOMAIN active
        BY <4>1 DEF Sessions, SessionOf
      <4>2. CASE c \in DOMAIN inactive \ DOMAIN active /\ Live(inactive[c])
        <5>1. inactive[c].expiresAt \in Nat /\ now \in Nat
          BY <4>2 DEF TypeOK, InactiveSession
        <5>2. ~(inactive[c].expiresAt <= now)
          BY <4>2, <5>1 DEF Live
        <5> QED BY <4>2, <5>2 DEF Sessions, SessionOf
      <4> QED BY <1>1, <4>1, <4>2
    <3>3. Lifecycle!Entitle(c)
      BY <1>1, <2>1, <2>2, <2>3, <3>1, <3>2
         DEF Sessions, Lifecycle!Entitle, Lifecycle!Holds, Lifecycle!Lapsed
    <3> QED BY <3>3 DEF Lifecycle!Next
  <2>4. CASE RefuseTicket /\ issued' = issued
    <3>1. Lifecycle!RunOut
      BY <1>1, <2>1, <2>2, <2>4, BindEntitles DEF Sessions, Lifecycle!RunOut
    <3> QED BY <3>1 DEF Lifecycle!Next
  <2> QED BY <1>1, <2>3, <2>4
<1>2. ASSUME NEW c \in ClientId, CreateTicket(c) PROVE Lifecycle!Next
  BY <1>1, <1>2 DEF CreateTicket
<1>3. ASSUME NEW c \in ClientId, NEW token \in 1..lastToken,
             UpdateTicket(c, token)
      PROVE  Lifecycle!Next
  <2>1. /\ \/ c \in DOMAIN active
           \/ c \in DOMAIN inactive \ DOMAIN active /\ Live(inactive[c])
        /\ c \in issued
    BY <1>3 DEF UpdateTicket, HoldsSession, IdentitiesIssued
  <2>2. issued = issued \cup {c}
    BY <2>1
  <2> QED BY <1>1, <1>3, <2>1, <2>2 DEF UpdateTicket
<1>4. ASSUME NEW c \in ClientId, UpdateTicketTooLate(c) PROVE Lifecycle!Next
  <2>1. /\ c \in DOMAIN inactive \ DOMAIN active
        /\ inactive[c].expiresAt <= now
    BY <1>4 DEF UpdateTicketTooLate, Live, TypeOK, InactiveSession
  <2>2. /\ Sessions[c].phase = "dormant"
        /\ Sessions[c].until <= now
    BY <2>1 DEF Sessions, SessionOf
  <2>3. Sessions'[c] = [phase |-> "absent", token |-> 0, until |-> 0]
    BY <1>4, <2>1 DEF UpdateTicketTooLate, Sessions, SessionOf, Delete
  <2>4. \A d \in ClientId \ {c} : Sessions'[d] = Sessions[d]
    BY <1>4 DEF UpdateTicketTooLate, Sessions, SessionOf, Delete
  <2>5. Entitled' = Entitled /\ UNCHANGED <<issued, lastToken, now>>
    BY <1>4 DEF UpdateTicketTooLate, ticketing, connections, Entitled
  <2>6. Lifecycle!Lapse
    BY <2>2, <2>3, <2>4, <2>5
       DEF Sessions, Lifecycle!Lapse, Lifecycle!Forget, Lifecycle!Lapsed,
           Lifecycle!Absent
  <2> QED BY <2>6 DEF Lifecycle!Next
<1>5. ASSUME NEW t \in DOMAIN tickets,
             (\E s \in Socket : Upgrade(t, s)) \/ RefuseUpgrade(t)
      PROVE  Lifecycle!Next
  <2>1. Entitled' \subseteq Entitled
    BY <1>5, RedeemEntitlesNobody
  <2>2. Sessions' = Sessions /\ UNCHANGED <<issued, lastToken, now>>
    BY <1>5, SameSessions DEF Upgrade, RefuseUpgrade, registry
  <2>3. Lifecycle!RunOut
    BY <2>1, <2>2 DEF Sessions, Lifecycle!RunOut
  <2> QED BY <2>3 DEF Lifecycle!Next
<1>6. ASSUME NEW s \in Socket, Open(s) PROVE Lifecycle!Next
  <2>1. ws[s].clientId \in ClientId
    BY <1>6 DEF Open, TypeOK
  <2> QED BY <1>6, <2>1, OpenBegins DEF Lifecycle!Next
<1>7. ASSUME NEW s \in Socket, Message(s) \/ ReaperFires(s)
      PROVE  Lifecycle!Next
  <2>1. \A x \in Socket :
           /\ ws'[x].clientId = ws[x].clientId
           /\ ws'[x].status = "upgraded" => ws[x].status = "upgraded"
    BY <1>7 DEF Message, ArmReaper, ReaperFires, Closing, TypeOK, SocketData
  <2>2. /\ UNCHANGED <<tickets, issued, lastToken, now>>
        /\ Sessions' = Sessions
    BY <1>7, SameSessions DEF Message, ReaperFires, ticketing, registry
  <2>3. Entitled' \subseteq Entitled
    BY <2>1, <2>2, CallbacksEntitleNobody
  <2>4. Lifecycle!RunOut
    BY <2>2, <2>3 DEF Sessions, Lifecycle!RunOut
  <2> QED BY <2>4 DEF Lifecycle!Next
<1>8. ASSUME NEW s \in Socket, NEW code \in CloseCode, Close(s, code)
      PROVE  Lifecycle!Next
  <2>1. ws[s].clientId \in ClientId
    BY <1>8 DEF Close, TypeOK
  <2> QED BY <1>8, <2>1, CloseEnds DEF Lifecycle!Next
<1>9. CASE Tick
  <2>1. /\ Entitled' = Entitled
        /\ UNCHANGED <<issued, lastToken>>
        /\ now' = now + 1
        /\ Sessions' = Sessions
    BY <1>9, SameSessions DEF Tick, ticketing, registry, connections, Entitled
  <2>2. Lifecycle!Pass
    BY <2>1 DEF Sessions, Lifecycle!Pass
  <2> QED BY <2>2 DEF Lifecycle!Next
<1>10. CASE UNCHANGED vars
  <2>1. UNCHANGED <<Entitled, issued, lastToken, now>> /\ Sessions' = Sessions
    BY <1>10, SameSessions DEF vars, Entitled
  <2> QED BY <2>1 DEF Sessions, Lifecycle!sessionVars
<1> QED BY <1>2, <1>3, <1>4, <1>5, <1>6, <1>7, <1>8, <1>9, <1>10
        DEF Next, Ticketing, SocketEvent

(* The server implements the lifecycle of identities for any number of     *)
(* connections, tickets and identities: whatever the order of the          *)
(* callbacks, an identity goes live only for a holder of a ticket bought   *)
(* for it, and a session is forgotten only after its reclaim window.       *)
THEOREM ServerImplementsLifecycle == Spec => ImplementsLifecycle
<1>1. Init => Lifecycle!Init
  BY DEF Init, EmptyMap, SessionOf, Entitled, Lifecycle!Init, Lifecycle!Absent
<1>2. TypeOK /\ OneRecord /\ TicketInv /\ [Next]_vars
         => [Lifecycle!Next]_(Lifecycle!sessionVars)
  BY StepsImplement DEF TicketInv
<1> QED BY <1>1, <1>2, TypeCorrect, SessionsSafe, TicketInvariant, PTL
        DEF Spec, TablesAgree, ImplementsLifecycle, Lifecycle!Spec
=============================================================================
