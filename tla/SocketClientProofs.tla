------------------------- MODULE SocketClientProofs -------------------------
(***************************************************************************)
(* Proofs about SocketClient, for any number of attempts: whichever of the *)
(* timers, tickets, sockets and close() comes first.                       *)
(***************************************************************************)
EXTENDS SocketClient, FiniteSetTheorems, TLAPS

USE MaxAttemptsAssumption, NoneAssumption

-----------------------------------------------------------------------------
(* The inductive invariant, in parts.                                      *)

(* Attempts that were not begun left no trace, one that waits for its      *)
(* ticket has no socket, and one that was welcomed is settled.             *)
AttemptsInOrder ==
    /\ \A n \in Attempt : n > attempts => /\ outcome[n] = "unused"
                                          /\ readyState[n] = "none"
    /\ \A n \in ticketing : readyState[n] = "none"
    /\ \A n \in listening : outcome[n] # "pending"

(* OneThread without counting, and the reconnect that is pending is the    *)
(* one close() would clear.                                                *)
SingleThread ==
    ~late =>
        /\ \A m, n \in Threads : m = n
        /\ \A t \in reconnects : t = reconnectTimer
        /\ Threads = {} \/ reconnects = {}

(* Unless an attempt outlived its timeout, a socket on its way up is       *)
(* #socket, and somebody waits for it.                                     *)
SocketIsCurrent ==
    ~late =>
        \A n \in Attempt :
            readyState[n] \in {"connecting", "open"} =>
                socket = n /\ (n \in listening \/ Pending(n))

(* Likewise a heartbeat belongs to a live socket and can be stopped.       *)
HeartbeatIsCurrent ==
    ~late =>
        \A i \in intervals :
            heartbeatTimer = i /\ readyState[i] \in {"open", "closing"}

(* close() found no ticket request under way, and none begins later.       *)
NoTicketAfterClose ==
    closing /\ ~late /\ ~closedMidway => ticketing = {}

ClientInv ==
    /\ TypeOK
    /\ AttemptsInOrder
    /\ SingleThread
    /\ SocketIsCurrent
    /\ HeartbeatIsCurrent
    /\ SteadyWhileReady
    /\ NoTicketAfterClose
    /\ QuietAfterClose
    /\ NeverStranded

-----------------------------------------------------------------------------
(* What the handlers share.                                                *)

(* close() on #socket, without CASE.                                       *)
LEMMA CloseCurrentEffect ==
    ASSUME TypeOK, CloseCurrent
    PROVE  /\ readyState' \in [Attempt -> ReadyState]
           /\ \A n \in Attempt :
                readyState'[n] =
                  IF n # socket THEN readyState[n]
                  ELSE IF readyState[n] = "connecting" THEN "aborting"
                  ELSE IF readyState[n] = "open" THEN "closing"
                  ELSE readyState[n]
<1>1. \A state : CloseState(state) = IF state = "connecting" THEN "aborting"
                                   ELSE IF state = "open" THEN "closing"
                                   ELSE state
  BY Zenon DEF CloseState
<1>2. CASE socket = None
  BY <1>2 DEF TypeOK, CloseCurrent, Attempt
<1>3. CASE socket # None
  <2>1. socket \in Attempt
    BY <1>3 DEF TypeOK, Attempt
  <2>2. readyState' =
          [readyState EXCEPT ![socket] = CloseState(readyState[socket])]
    BY <1>3 DEF CloseCurrent
  <2> QED BY <1>1, <2>1, <2>2 DEF TypeOK, ReadyState
<1> QED BY <1>2, <1>3

(* A rejected attempt is settled, and at most one reconnect is scheduled.  *)
LEMMA RejectEffect ==
    ASSUME TypeOK, NEW n \in Attempt, Reject(n)
    PROVE  /\ outcome' \in [Attempt -> Outcome]
           /\ outcome' = [outcome EXCEPT ![n] = "rejected"]
           /\ n = 1 \/ closing => UNCHANGED reconnecting
           /\ ~(n = 1 \/ closing) => ScheduleReconnect
BY DEF TypeOK, Outcome, Reject

(* Scheduling a reconnect keeps the types.                                 *)
LEMMA ScheduleKeepsTypes ==
    ASSUME TypeOK, UNCHANGED reconnecting \/ ScheduleReconnect
    PROVE  /\ scheduled' \in Nat
           /\ reconnects' \subseteq 1..scheduled'
           /\ reconnectTimer' \in reconnects' \cup {0}
<1>1. CASE UNCHANGED reconnecting
  BY <1>1 DEF TypeOK, reconnecting
<1>2. CASE ScheduleReconnect
  BY <1>2 DEF TypeOK, ScheduleReconnect
<1> QED BY <1>1, <1>2

(* Rejecting an attempt that was pending keeps the types.                  *)
LEMMA RejectKeepsTypes ==
    ASSUME TypeOK, NEW n \in Attempt, Fail(n) \/ Reject(n)
    PROVE  /\ outcome' \in [Attempt -> Outcome]
           /\ scheduled' \in Nat
           /\ reconnects' \subseteq 1..scheduled'
           /\ reconnectTimer' \in reconnects' \cup {0}
           /\ \A m \in Attempt : outcome'[m] \in {outcome[m], "rejected"}
           /\ \A m \in Attempt : m # n => outcome'[m] = outcome[m]
<1>1. CASE Reject(n)
  <2>1. UNCHANGED reconnecting \/ ScheduleReconnect
    BY <1>1, RejectEffect
  <2> QED BY <1>1, <2>1, RejectEffect, ScheduleKeepsTypes DEF TypeOK
<1>2. CASE UNCHANGED <<outcome, reconnecting>>
  BY <1>2, ScheduleKeepsTypes DEF TypeOK
<1> QED BY <1>1, <1>2 DEF Fail

-----------------------------------------------------------------------------
(* Initially the first attempt waits for its ticket, alone.                *)
LEMMA InitEstablishesInv == Init => ClientInv
<1> SUFFICES ASSUME Init PROVE ClientInv
  OBVIOUS
<1>1. 1 \in Attempt
  BY DEF Attempt
<1>2. /\ outcome[1] = "pending"
      /\ \A n \in Attempt : n # 1 => outcome[n] = "unused"
  BY <1>1 DEF Init
<1>3. Threads = {1}
  BY <1>1, <1>2 DEF Init, Threads, Pending
<1>4. TypeOK
  <2>1. /\ socket \in 1..attempts \cup {None}
        /\ attempts \in Attempt
        /\ ticketing \subseteq 1..attempts
    BY <1>1 DEF Init
  <2>2. outcome \in [Attempt -> Outcome]
    BY DEF Init, Outcome
  <2>3. readyState \in [Attempt -> ReadyState]
    BY DEF Init, ReadyState
  <2> QED BY <2>1, <2>2, <2>3 DEF Init, TypeOK
<1>5. AttemptsInOrder
  BY <1>2 DEF Init, AttemptsInOrder, Attempt
<1>6. SingleThread /\ SocketIsCurrent /\ HeartbeatIsCurrent
  BY <1>3 DEF Init, SingleThread, SocketIsCurrent, HeartbeatIsCurrent
<1>7. /\ SteadyWhileReady /\ NoTicketAfterClose
      /\ QuietAfterClose /\ NeverStranded
  BY <1>2 DEF Init, SteadyWhileReady, NoTicketAfterClose, QuietAfterClose,
     NeverStranded
<1> QED BY <1>4, <1>5, <1>6, <1>7 DEF ClientInv

(* Every step keeps the types and the order of the attempts.               *)
LEMMA TypeStep ==
    ASSUME TypeOK, AttemptsInOrder, [Next]_vars
    PROVE  TypeOK' /\ AttemptsInOrder'
<1> DEFINE Goal == TypeOK' /\ AttemptsInOrder'
<1>a. /\ 1..attempts \subseteq Attempt
      /\ ticketing \subseteq Attempt
      /\ \A n \in Attempt : n \in 1..attempts \/ n > attempts
  BY DEF TypeOK, Attempt
<1>b. \A n \in Attempt :
        Pending(n) \/ n \in ticketing \/ readyState[n] # "none" =>
           n \in 1..attempts
  BY <1>a DEF TypeOK, AttemptsInOrder, Pending, Attempt
<1>1. ASSUME NEW n \in Attempt, TicketArrives(n) PROVE Goal
  BY <1>1 DEF TicketArrives, TypeOK, AttemptsInOrder, Attempt, ReadyState,
              Pending, flags, timers, reconnecting
<1>2. ASSUME NEW n \in Attempt, TicketFails(n) PROVE Goal
  <2>1. /\ n \in ticketing
        /\ ticketing' = ticketing \ {n}
        /\ UNCHANGED <<flags, attempts, sockets, timers, history>>
        /\ Fail(n)
    BY <1>2 DEF TicketFails
  <2> QED BY <2>1, <1>a, <1>b, RejectKeepsTypes
      DEF TypeOK, AttemptsInOrder, flags, sockets, timers, history
<1>3. ASSUME NEW n \in Attempt, SocketOpens(n) PROVE Goal
  BY <1>3 DEF SocketOpens, TypeOK, AttemptsInOrder, Attempt, ReadyState,
              flags, attempting, timers, reconnecting, history
<1>4. ASSUME NEW n \in Attempt, SocketFails(n) PROVE Goal
  <2>1. /\ readyState[n] \in {"connecting", "aborting"}
        /\ readyState' = [readyState EXCEPT ![n] = "closed"]
        /\ UNCHANGED <<flags, attempts, ticketing, socket, listening, timers,
                       history>>
        /\ Fail(n)
    BY <1>4 DEF SocketFails
  <2> QED BY <2>1, <1>a, <1>b, RejectKeepsTypes
      DEF TypeOK, AttemptsInOrder, ReadyState, flags, timers, history
<1>5. ASSUME NEW n \in Attempt, Welcome(n) PROVE Goal
  <2>1. /\ outcome' \in [Attempt -> Outcome]
        /\ outcome'[n] # "pending"
        /\ \A m \in Attempt : m # n => outcome'[m] = outcome[m]
    BY <1>5, <1>b DEF Welcome, Succeed, TypeOK, Outcome, Pending
  <2> QED BY <1>5, <2>1, <1>a, <1>b
      DEF Welcome, TypeOK, AttemptsInOrder, reconnecting, history
<1>6. ASSUME NEW n \in Attempt, EstablishTimeout(n) PROVE Goal
  <2>1. /\ Pending(n)
        /\ UNCHANGED <<flags, attempts, ticketing, socket, listening, timers,
                       history>>
        /\ Reject(n)
    BY <1>6 DEF EstablishTimeout
  <2>2. /\ readyState' \in [Attempt -> ReadyState]
        /\ \A m \in Attempt :
             /\ readyState[m] \in {"open", "closing", "closed"} =>
                  readyState'[m] \in {"open", "closing", "closed"}
             /\ readyState[m] = "none" => readyState'[m] = "none"
    BY <1>6, CloseCurrentEffect DEF EstablishTimeout
  <2> QED BY <2>1, <2>2, <1>a, <1>b, RejectKeepsTypes
      DEF TypeOK, AttemptsInOrder, flags, timers, history
<1>7. ASSUME NEW n \in Attempt, Message(n) PROVE Goal
  BY <1>7 DEF Message, TypeOK, AttemptsInOrder, flags, attempting, sockets,
              reconnecting, history
<1>8. ASSUME NEW n \in Attempt, SocketCloses(n) PROVE Goal
  <2>1. /\ readyState[n] \in {"open", "closing"}
        /\ readyState' = [readyState EXCEPT ![n] = "closed"]
        /\ UNCHANGED <<autoReconnect, closing, attempting, listening,
                       history>>
    BY <1>8 DEF SocketCloses
  <2>2. CASE UNCHANGED <<ready, socket, timers, reconnecting>>
    BY <2>1, <2>2, <1>a
       DEF TypeOK, AttemptsInOrder, ReadyState, attempting, timers,
       reconnecting, history
  <2>3. CASE HandleClose
    <3>1. /\ ready' = FALSE /\ socket' = None /\ liveness' = FALSE
          /\ intervals' \subseteq intervals /\ heartbeatTimer' = None
          /\ UNCHANGED reconnecting \/ ScheduleReconnect
      BY <2>3 DEF HandleClose, StopHeartbeat
    <3> QED BY <2>1, <3>1, <1>a, ScheduleKeepsTypes
        DEF TypeOK, AttemptsInOrder, ReadyState, attempting, history
  <2> QED BY <1>8, <2>2, <2>3 DEF SocketCloses
<1>9. CASE LivenessTimeout
  <2>1. /\ readyState' \in [Attempt -> ReadyState]
        /\ \A n \in Attempt :
             /\ readyState[n] \in {"open", "closing", "closed"} =>
                  readyState'[n] \in {"open", "closing", "closed"}
             /\ readyState[n] = "none" => readyState'[n] = "none"
    BY <1>9, CloseCurrentEffect DEF LivenessTimeout
  <2> QED BY <1>9, <2>1, <1>a
      DEF TypeOK, AttemptsInOrder, LivenessTimeout, flags,
                            attempting, reconnecting, history
<1>10. ASSUME NEW t \in reconnects, Reconnect(t) PROVE Goal
  <2>1. /\ reconnects' \subseteq reconnects /\ reconnectTimer' = 0
        /\ UNCHANGED <<flags, sockets, timers, scheduled, history>>
    BY <1>10 DEF Reconnect
  <2>2. CASE UNCHANGED attempting
    BY <2>1, <2>2 DEF TypeOK, AttemptsInOrder, flags, attempting, sockets,
       timers, history
  <2>3. CASE Establish
    <3>1. /\ attempts' = attempts + 1 /\ attempts' \in Attempt
          /\ ticketing' = ticketing \cup {attempts'}
          /\ outcome' = [outcome EXCEPT ![attempts'] = "pending"]
          /\ attempts' > attempts
      BY <1>10, <2>3 DEF Reconnect, Establish, TypeOK, Attempt
    <3>2. /\ 1..attempts \subseteq 1..attempts' /\ attempts' \in 1..attempts'
          /\ \A n \in Attempt : n > attempts' => n > attempts /\ n # attempts'
      BY <3>1 DEF TypeOK, Attempt
    <3>3. readyState[attempts'] = "none" /\ attempts' \notin listening
      BY <3>1 DEF TypeOK, AttemptsInOrder
    <3>4. TypeOK'
      BY <2>1, <3>1, <3>2 DEF TypeOK, Outcome, flags, sockets, timers, history
    <3>5. AttemptsInOrder'
      BY <2>1, <3>1, <3>2, <3>3, <1>a DEF TypeOK, AttemptsInOrder, sockets
    <3> QED BY <3>4, <3>5
  <2> QED BY <1>10, <2>2, <2>3 DEF Reconnect
<1>11. CASE CloseClient
  <2>1. /\ readyState' \in [Attempt -> ReadyState]
        /\ \A n \in Attempt :
             /\ readyState[n] \in {"open", "closing", "closed"} =>
                  readyState'[n] \in {"open", "closing", "closed"}
             /\ readyState[n] = "none" => readyState'[n] = "none"
    BY <1>11, CloseCurrentEffect DEF CloseClient
  <2>2. /\ intervals' \subseteq intervals /\ heartbeatTimer' = None
        /\ closedMidway' \in BOOLEAN
    BY <1>11 DEF CloseClient, StopHeartbeat
  <2> QED BY <1>11, <2>1, <2>2, <1>a
      DEF TypeOK, AttemptsInOrder, CloseClient, attempting
<1>12. CASE UNCHANGED vars
  BY <1>12 DEF vars, TypeOK, AttemptsInOrder, flags, attempting, sockets,
               timers, reconnecting, history
<1> QED BY <1>1, <1>2, <1>3, <1>4, <1>5, <1>6, <1>7, <1>8, <1>9, <1>10, <1>11,
           <1>12 DEF Next

-----------------------------------------------------------------------------
(* A thread is an attempt somebody waits for, or a welcomed socket.        *)
LEMMA ThreadsMembers ==
    \A n : n \in Threads <=>
            \/ n \in Attempt /\ Pending(n)
            \/ n \in listening /\ readyState[n] \in {"open", "closing"}
BY DEF Threads

(* Unless an attempt outlived its timeout, an attempt somebody waits for   *)
(* is all there is.                                                        *)
LEMMA PendingAlone ==
    ASSUME ClientInv, ~late, NEW n \in Attempt, Pending(n)
    PROVE  /\ Threads = {n} /\ reconnects = {}
           /\ ~ready /\ intervals = {}
           /\ \A m \in Attempt :
                readyState[m] \in {"connecting", "open"} =>
                   m = n /\ socket = n
           /\ \A m \in listening : readyState[m] = "closed"
<1> USE DEF ClientInv
<1>1. Threads = {n} /\ reconnects = {}
  BY ThreadsMembers DEF SingleThread
<1>2. n \notin listening
  BY DEF AttemptsInOrder, Pending
<1>3. \A m \in listening : m \in Attempt /\ readyState[m] = "closed"
  BY <1>1, <1>2, ThreadsMembers DEF TypeOK
<1>4. ~ready
  BY <1>3 DEF SteadyWhileReady
<1>5. intervals = {}
  BY <1>3 DEF HeartbeatIsCurrent, TypeOK
<1>6. ASSUME NEW m \in Attempt, readyState[m] \in {"connecting", "open"}
      PROVE  m = n /\ socket = n
  <2>1. socket = m /\ (m \in listening \/ Pending(m))
    BY <1>6 DEF SocketIsCurrent
  <2>2. Pending(m)
    BY <1>3, <1>6, <2>1
  <2> QED BY <1>1, <2>1, <2>2, ThreadsMembers
<1> QED BY <1>1, <1>3, <1>4, <1>5, <1>6

(* The ticket of an attempt comes: the attempt is late unless somebody     *)
(* still waits for it, and then it is alone.                               *)
LEMMA TicketArrivesStep ==
    ASSUME ClientInv, TypeOK', AttemptsInOrder',
           NEW n \in Attempt, TicketArrives(n)
    PROVE  ClientInv'
<1> USE DEF ClientInv
<1>1. /\ n \in ticketing /\ readyState[n] = "none" /\ n \notin listening
      /\ ticketing' = ticketing \ {n}
      /\ socket' = n
      /\ readyState' = [readyState EXCEPT ![n] = "connecting"]
      /\ late' = (late \/ ~Pending(n))
      /\ UNCHANGED <<flags, attempts, outcome, listening, timers,
                     reconnecting, closedMidway>>
  BY DEF TicketArrives, TypeOK, AttemptsInOrder
<1>2. Threads' = Threads
  BY <1>1 DEF Threads, Pending, TypeOK
<1>3. ~late' =>
        /\ ~late /\ ~ready /\ intervals = {}
        /\ Pending(n)
        /\ \A m \in Attempt : readyState[m] \in {"connecting", "open"} =>
             m = n
  BY <1>1, PendingAlone
<1>4. SingleThread'
  BY <1>1, <1>2, <1>3 DEF SingleThread, reconnecting
<1>5. SocketIsCurrent'
  BY <1>1, <1>3 DEF SocketIsCurrent, Pending, TypeOK
<1>6. HeartbeatIsCurrent' /\ SteadyWhileReady'
  <2>1. HeartbeatIsCurrent'
    BY <1>1, <1>3 DEF HeartbeatIsCurrent, timers
  <2>2. SteadyWhileReady'
    BY <1>1, <1>3 DEF SteadyWhileReady, timers, flags, TypeOK
  <2> QED BY <2>1, <2>2
<1>7. NoTicketAfterClose' /\ QuietAfterClose'
  BY <1>1, <1>3 DEF NoTicketAfterClose, QuietAfterClose, flags
<1>8. NeverStranded'
  BY <1>1, <1>2 DEF NeverStranded, flags, reconnecting
<1> QED BY <1>4, <1>5, <1>6, <1>7, <1>8

(* An attempt fails: the next is scheduled, unless it was the first or the *)
(* client was closed.                                                      *)
LEMMA RejectedThread ==
    ASSUME ClientInv, TypeOK', NEW n \in Attempt, Pending(n), Reject(n),
           UNCHANGED <<flags, attempts, listening, timers, late>>,
           \A m \in listening : readyState'[m] \in {"open", "closing"} <=>
                               readyState[m] \in {"open", "closing"}
    PROVE  /\ SingleThread' /\ NeverStranded'
           /\ HeartbeatIsCurrent' /\ SteadyWhileReady'
<1> USE DEF ClientInv
<1>1. \A m \in Attempt : outcome'[m] = IF m = n THEN "rejected" ELSE outcome[m]
  BY RejectEffect DEF TypeOK
<1>2. n \notin listening
  BY DEF AttemptsInOrder, Pending
<1>3. Threads' = Threads \ {n}
  BY <1>1, <1>2 DEF Threads, Pending
<1>4. SingleThread'
  <2>1. ASSUME ~late' PROVE Threads' = {} /\ reconnects = {} /\ ~late
    BY <1>3, <2>1, PendingAlone
  <2>2. CASE UNCHANGED reconnecting
    BY <2>1, <2>2 DEF SingleThread, reconnecting
  <2>3. CASE ScheduleReconnect
    BY <2>1, <2>3 DEF SingleThread, ScheduleReconnect
  <2> QED BY <2>2, <2>3, RejectEffect
<1>5. NeverStranded'
  <2> SUFFICES ASSUME outcome'[1] = "resolved", ~closing
               PROVE  reconnects' # {}
    BY DEF NeverStranded, flags
  <2>1. n # 1
    BY <1>1 DEF Attempt
  <2> QED BY <2>1, RejectEffect DEF ScheduleReconnect
<1>6. ~late' => ~late /\ ~ready /\ intervals = {}
  BY PendingAlone
<1>7. HeartbeatIsCurrent'
  BY <1>6 DEF HeartbeatIsCurrent, timers
<1>8. SteadyWhileReady'
  BY <1>6 DEF SteadyWhileReady, timers, flags
<1> QED BY <1>4, <1>5, <1>7, <1>8

(* No ticket: the attempt fails, unless its timeout came first.            *)
LEMMA TicketFailsStep ==
    ASSUME ClientInv, TypeOK', AttemptsInOrder',
           NEW n \in Attempt, TicketFails(n)
    PROVE  ClientInv'
<1> USE DEF ClientInv
<1>1. /\ n \in ticketing /\ readyState[n] = "none"
      /\ ticketing' = ticketing \ {n}
      /\ UNCHANGED <<flags, attempts, sockets, timers, history>>
      /\ Fail(n)
  BY DEF TicketFails, AttemptsInOrder
<1>2. CASE Pending(n)
  <2>1. /\ SingleThread' /\ NeverStranded'
        /\ HeartbeatIsCurrent' /\ SteadyWhileReady'
    BY <1>1, <1>2, RejectedThread DEF Fail, sockets, history
  <2>2. UNCHANGED reconnecting \/ ~closing
    BY <1>1, <1>2, RejectEffect DEF Fail
  <2>3. SocketIsCurrent'
    BY <1>1, <1>2, RejectEffect
       DEF SocketIsCurrent, Fail, Pending, sockets, history
  <2>4. NoTicketAfterClose' /\ QuietAfterClose'
    BY <1>1, <2>2 DEF NoTicketAfterClose, QuietAfterClose, flags, sockets,
       timers, history, reconnecting
  <2> QED BY <2>1, <2>3, <2>4
<1>3. CASE ~Pending(n)
  <2>1. UNCHANGED <<outcome, reconnecting>>
    BY <1>1, <1>3 DEF Fail
  <2>2. Threads' = Threads
    BY <1>1, <2>1 DEF Threads, Pending, sockets
  <2> QED BY <1>1, <2>1, <2>2
      DEF SingleThread, NeverStranded, HeartbeatIsCurrent,
     SteadyWhileReady, SocketIsCurrent, NoTicketAfterClose, QuietAfterClose,
     Pending, flags, sockets, timers, history, reconnecting
<1> QED BY <1>2, <1>3

(* A socket opens: nothing is welcomed yet.                                *)
LEMMA SocketOpensStep ==
    ASSUME ClientInv, TypeOK', AttemptsInOrder',
           NEW n \in Attempt, SocketOpens(n)
    PROVE  ClientInv'
<1> USE DEF ClientInv
<1>1. /\ readyState[n] = "connecting" /\ n \notin listening
      /\ readyState' = [readyState EXCEPT ![n] = "open"]
      /\ UNCHANGED <<flags, attempting, socket, listening, timers,
                     reconnecting, history>>
  BY DEF SocketOpens, TypeOK
<1>2. Threads' = Threads
  BY <1>1 DEF Threads, Pending, TypeOK, attempting
<1>3. SocketIsCurrent' /\ HeartbeatIsCurrent' /\ SteadyWhileReady'
  BY <1>1 DEF SocketIsCurrent, HeartbeatIsCurrent, SteadyWhileReady, Pending,
              TypeOK, flags, attempting, timers, history
<1> QED BY <1>1, <1>2, <1>3
        DEF SingleThread, NoTicketAfterClose, QuietAfterClose, NeverStranded,
            flags, attempting, timers, reconnecting, history

(* No socket: the attempt fails, unless its timeout came first.            *)
LEMMA SocketFailsStep ==
    ASSUME ClientInv, TypeOK', AttemptsInOrder',
           NEW n \in Attempt, SocketFails(n)
    PROVE  ClientInv'
<1> USE DEF ClientInv
<1>1. /\ n \notin listening
      /\ readyState' = [readyState EXCEPT ![n] = "closed"]
      /\ UNCHANGED <<flags, attempts, ticketing, socket, listening, timers,
                     history>>
      /\ Fail(n)
  BY DEF SocketFails, TypeOK
<1>2. \A m \in Attempt :
        readyState'[m] = IF m = n THEN "closed" ELSE readyState[m]
  BY <1>1 DEF TypeOK
<1>3. CASE Pending(n)
  <2>1. /\ SingleThread' /\ NeverStranded'
        /\ HeartbeatIsCurrent' /\ SteadyWhileReady'
    BY <1>1, <1>2, <1>3, RejectedThread DEF Fail, history, TypeOK
  <2>2. UNCHANGED reconnecting \/ ~closing
    BY <1>1, <1>3, RejectEffect DEF Fail
  <2>3. SocketIsCurrent'
    BY <1>1, <1>2, <1>3, PendingAlone DEF SocketIsCurrent, history
  <2>4. NoTicketAfterClose' /\ QuietAfterClose'
    BY <1>1, <1>2, <2>2
       DEF NoTicketAfterClose, QuietAfterClose, flags, timers,
       history, reconnecting
  <2> QED BY <2>1, <2>3, <2>4
<1>4. CASE ~Pending(n)
  <2>1. UNCHANGED <<outcome, reconnecting>>
    BY <1>1, <1>4 DEF Fail
  <2>2. Threads' = Threads
    BY <1>1, <1>2, <2>1 DEF Threads, Pending, TypeOK
  <2>3. SocketIsCurrent' /\ HeartbeatIsCurrent' /\ SteadyWhileReady'
    BY <1>1, <1>2, <2>1
    DEF SocketIsCurrent, HeartbeatIsCurrent, SteadyWhileReady, Pending,
       TypeOK,
        flags, timers, history
  <2> QED BY <1>1, <1>2, <2>1, <2>2, <2>3
      DEF SingleThread, NeverStranded, NoTicketAfterClose, QuietAfterClose,
          flags, timers, history, reconnecting
<1> QED BY <1>3, <1>4

(* The welcomed socket becomes the thread, in place of the attempt.        *)
LEMMA WelcomeStep ==
    ASSUME ClientInv, TypeOK', AttemptsInOrder',
           NEW n \in Attempt, Welcome(n)
    PROVE  ClientInv'
<1> USE DEF ClientInv
<1>1. /\ readyState[n] = "open" /\ n \notin listening
      /\ listening' = listening \cup {n}
      /\ intervals' = intervals \cup {n}
      /\ heartbeatTimer' = n
      /\ liveness' = TRUE /\ ready' = TRUE
      /\ UNCHANGED <<autoReconnect, closing, attempts, ticketing, socket,
                     readyState, reconnecting, history>>
      /\ Succeed(n)
  BY DEF Welcome
<1>2. \A m \in Attempt : m # n => outcome'[m] = outcome[m]
  BY <1>1 DEF Succeed, TypeOK
<1>3. ~Pending(n)'
  BY <1>1 DEF AttemptsInOrder, Pending
<1>4. Threads' = Threads \cup {n}
  BY <1>1, <1>2, <1>3 DEF Threads, Pending, TypeOK
<1>5. ~late => /\ socket = n /\ Threads = {n} /\ reconnects = {}
               /\ intervals = {}
               /\ \A m \in Attempt : readyState[m] \in {"connecting",
                  "open"} => m = n
  BY <1>1, PendingAlone DEF SocketIsCurrent
<1>6. SingleThread' /\ SocketIsCurrent'
  BY <1>1, <1>4, <1>5 DEF SingleThread, SocketIsCurrent, reconnecting, history
<1>7. HeartbeatIsCurrent' /\ SteadyWhileReady'
  BY <1>1, <1>5 DEF HeartbeatIsCurrent, SteadyWhileReady, history
<1>8. NoTicketAfterClose' /\ QuietAfterClose'
  BY <1>1 DEF NoTicketAfterClose, QuietAfterClose, history
<1>9. NeverStranded'
  BY <1>4 DEF NeverStranded
<1> QED BY <1>6, <1>7, <1>8, <1>9

(* The timeout closes the only socket that could still be welcomed.        *)
LEMMA EstablishTimeoutStep ==
    ASSUME ClientInv, TypeOK', AttemptsInOrder',
           NEW n \in Attempt, EstablishTimeout(n)
    PROVE  ClientInv'
<1> USE DEF ClientInv
<1>1. /\ Pending(n) /\ Reject(n) /\ CloseCurrent
      /\ UNCHANGED <<flags, attempts, ticketing, socket, listening, timers,
                     history>>
  BY DEF EstablishTimeout
<1>2. \A m \in Attempt :
        /\ readyState'[m] \in {"connecting", "open"} =>
             m # socket /\ readyState'[m] = readyState[m]
        /\ m \in listening =>
             (readyState'[m] \in {"open", "closing"} <=>
              readyState[m] \in {"open", "closing"})
  BY <1>1, CloseCurrentEffect DEF TypeOK
<1>3. /\ SingleThread' /\ NeverStranded'
      /\ HeartbeatIsCurrent' /\ SteadyWhileReady'
  BY <1>1, <1>2, RejectedThread DEF history, TypeOK
<1>4. SocketIsCurrent'
  BY <1>1, <1>2, PendingAlone DEF SocketIsCurrent, history
<1>5. UNCHANGED reconnecting \/ ~closing
  BY <1>1, RejectEffect
<1>6. NoTicketAfterClose' /\ QuietAfterClose'
  BY <1>1, <1>2, <1>5 DEF NoTicketAfterClose, QuietAfterClose, flags, timers,
     history, reconnecting
<1> QED BY <1>3, <1>4, <1>6

(* A message only re-arms the liveness timer.                              *)
LEMMA MessageStep ==
    ASSUME ClientInv, TypeOK', AttemptsInOrder',
           NEW n \in Attempt, Message(n)
    PROVE  ClientInv'
<1>1. /\ readyState[n] = "open"
      /\ liveness' = TRUE
      /\ UNCHANGED <<flags, attempting, sockets, intervals, heartbeatTimer,
                     reconnecting, history>>
  BY DEF Message
<1>2. Threads' = Threads
  BY <1>1 DEF Threads, Pending, attempting, sockets
<1> QED BY <1>1, <1>2
        DEF ClientInv, SingleThread, SocketIsCurrent, HeartbeatIsCurrent,
            SteadyWhileReady, NoTicketAfterClose, QuietAfterClose,
            NeverStranded, Pending, flags, attempting, sockets, reconnecting,
            history

(* The liveness timer closes the socket, which stays the thread until it   *)
(* has closed.                                                             *)
LEMMA LivenessTimeoutStep ==
    ASSUME ClientInv, TypeOK', AttemptsInOrder', LivenessTimeout
    PROVE  ClientInv'
<1> USE DEF ClientInv
<1>1. /\ CloseCurrent /\ liveness' = FALSE
      /\ UNCHANGED <<flags, attempting, socket, listening, intervals,
                     heartbeatTimer, reconnecting, history>>
  BY DEF LivenessTimeout
<1>2. \A m \in Attempt :
        /\ readyState'[m] \in {"connecting", "open"} =>
             m # socket /\ readyState'[m] = readyState[m]
        /\ m \in listening =>
             (readyState'[m] \in {"open", "closing"} <=>
              readyState[m] \in {"open", "closing"})
  BY <1>1, CloseCurrentEffect DEF TypeOK
<1>3. Threads' = Threads
  BY <1>1, <1>2 DEF Threads, Pending, attempting, TypeOK
<1>4. SocketIsCurrent' /\ HeartbeatIsCurrent'
  BY <1>1, <1>2 DEF SocketIsCurrent, HeartbeatIsCurrent, Pending, attempting,
     history, TypeOK
<1>5. SteadyWhileReady'
  BY <1>1, <1>2 DEF SteadyWhileReady, flags, history, TypeOK
<1>6. /\ SingleThread' /\ NeverStranded'
      /\ NoTicketAfterClose' /\ QuietAfterClose'
  BY <1>1, <1>2, <1>3 DEF SingleThread, NeverStranded, NoTicketAfterClose,
     QuietAfterClose, flags, attempting, reconnecting, history
<1> QED BY <1>4, <1>5, <1>6

(* A socket that closes is the thread if it was welcomed, and a reconnect  *)
(* takes its place, unless there is not to be one.                         *)
LEMMA SocketClosesStep ==
    ASSUME ClientInv, TypeOK', AttemptsInOrder',
           NEW n \in Attempt, SocketCloses(n)
    PROVE  ClientInv'
<1> USE DEF ClientInv
<1>1. /\ readyState[n] \in {"open", "closing"}
      /\ readyState' = [readyState EXCEPT ![n] = "closed"]
      /\ UNCHANGED <<autoReconnect, closing, attempting, listening, history>>
  BY DEF SocketCloses
<1>2. \A m \in Attempt :
        readyState'[m] = IF m = n THEN "closed" ELSE readyState[m]
  BY <1>1 DEF TypeOK
<1>3. CASE n \in listening
  <2>1. /\ ready' = FALSE /\ liveness' = FALSE /\ socket' = None
        /\ intervals' = intervals \ {heartbeatTimer}
        /\ closing \/ ~autoReconnect => UNCHANGED reconnecting
        /\ ~(closing \/ ~autoReconnect) => ScheduleReconnect
    BY <1>3 DEF SocketCloses, HandleClose, StopHeartbeat
  <2>2. /\ n \in Threads
        /\ Threads' = Threads \ {n}
    BY <1>1, <1>2, <1>3
       DEF Threads, Pending, AttemptsInOrder, attempting, TypeOK
  <2>3. ~late => Threads' = {} /\ reconnects = {}
    BY <2>2 DEF SingleThread
  <2>4. SingleThread'
    BY <1>1, <2>1, <2>3
       DEF SingleThread, ScheduleReconnect, reconnecting, history
  <2>5. SocketIsCurrent'
    <3>1. ASSUME ~late, NEW m \in Attempt, m # n
          PROVE  readyState[m] \notin {"connecting", "open"}
      <4>1. m \notin Threads
        BY <2>2, <3>1 DEF SingleThread
      <4>2. m \in listening => readyState[m] # "connecting"
        BY DEF TypeOK
      <4>3. ~Pending(m) /\ (m \in listening => readyState[m] # "open")
        BY <4>1, ThreadsMembers
      <4> QED BY <3>1, <4>2, <4>3 DEF SocketIsCurrent
    <3> QED BY <1>1, <1>2, <3>1 DEF SocketIsCurrent, history
  <2>6. ~late => intervals' = {}
    BY <2>1 DEF HeartbeatIsCurrent
  <2>7. HeartbeatIsCurrent' /\ SteadyWhileReady'
    BY <1>1, <2>1, <2>6 DEF HeartbeatIsCurrent, SteadyWhileReady, history
  <2>8. NoTicketAfterClose' /\ QuietAfterClose'
    BY <1>1, <1>2, <2>1, <2>6 DEF NoTicketAfterClose, QuietAfterClose,
       attempting, reconnecting, history
  <2>9. NeverStranded'
    BY <1>1, <2>1 DEF NeverStranded, ScheduleReconnect
  <2> QED BY <2>4, <2>5, <2>7, <2>8, <2>9
<1>4. CASE n \notin listening
  <2>1. UNCHANGED <<ready, socket, timers, reconnecting>>
    BY <1>4 DEF SocketCloses
  <2>2. Threads' = Threads
    BY <1>1, <1>2, <1>4 DEF Threads, Pending, attempting, TypeOK
  <2>3. SocketIsCurrent' /\ HeartbeatIsCurrent' /\ SteadyWhileReady'
    BY <1>1, <1>2, <1>4, <2>1
    DEF SocketIsCurrent, HeartbeatIsCurrent, SteadyWhileReady, Pending,
       TypeOK,
        attempting, timers, history
  <2> QED BY <1>1, <1>2, <2>1, <2>2, <2>3
      DEF SingleThread, NeverStranded, NoTicketAfterClose, QuietAfterClose,
          attempting, timers, history, reconnecting
<1> QED BY <1>3, <1>4

(* A reconnect timer fires: an attempt takes its place.                    *)
LEMMA ReconnectStep ==
    ASSUME ClientInv, TypeOK', AttemptsInOrder',
           NEW t \in reconnects, Reconnect(t)
    PROVE  ClientInv'
<1> USE DEF ClientInv
<1>1. /\ reconnects' = reconnects \ {t} /\ reconnectTimer' = 0
      /\ UNCHANGED <<flags, sockets, timers, scheduled, history>>
  BY DEF Reconnect
<1>2. ~late => Threads = {} /\ reconnects' = {}
  BY <1>1 DEF SingleThread
<1>3. CASE closing
  <2>1. UNCHANGED attempting
    BY <1>3 DEF Reconnect
  <2>2. Threads' = Threads
    BY <1>1, <2>1 DEF Threads, Pending, attempting, sockets
  <2> QED BY <1>1, <1>2, <1>3, <2>1, <2>2
      DEF SingleThread, SocketIsCurrent, HeartbeatIsCurrent, SteadyWhileReady,
          NoTicketAfterClose, QuietAfterClose, NeverStranded, Pending, flags,
          attempting, sockets, timers, history
<1>4. CASE ~closing
  <2>1. /\ attempts' = attempts + 1 /\ attempts' \in Attempt
        /\ outcome' = [outcome EXCEPT ![attempts'] = "pending"]
    BY <1>4 DEF Reconnect, Establish, TypeOK, Attempt
  <2>2. \A m \in Attempt : Pending(m)' <=> Pending(m) \/ m = attempts'
    BY <2>1 DEF Pending, TypeOK, AttemptsInOrder, Attempt
  <2>3. Threads' = Threads \cup {attempts'}
    BY <1>1, <2>1, <2>2 DEF Threads, sockets
  <2>4. SingleThread' /\ NeverStranded'
    BY <1>1, <1>2, <2>3 DEF SingleThread, NeverStranded, history
  <2>5. SocketIsCurrent'
    BY <1>1, <2>2 DEF SocketIsCurrent, sockets, history
  <2> QED BY <1>1, <1>4, <2>4, <2>5
      DEF HeartbeatIsCurrent, SteadyWhileReady, NoTicketAfterClose,
          QuietAfterClose, flags, sockets, timers, history
<1> QED BY <1>3, <1>4

(* close() stops what runs; what it cannot stop is a ticket request under  *)
(* way, or what an attempt left behind that outlived its timeout.          *)
LEMMA CloseClientStep ==
    ASSUME ClientInv, TypeOK', AttemptsInOrder', CloseClient
    PROVE  ClientInv'
<1> USE DEF ClientInv
<1>1. /\ closing' = TRUE /\ ready' = FALSE /\ liveness' = FALSE
      /\ intervals' = intervals \ {heartbeatTimer}
      /\ reconnects' = reconnects \ {reconnectTimer}
      /\ reconnectTimer' = 0
      /\ CloseCurrent
      /\ socket' = None
      /\ closedMidway' = (Underway # {})
      /\ UNCHANGED <<autoReconnect, attempting, listening, scheduled, late>>
  BY DEF CloseClient, StopHeartbeat
<1>2. \A m \in Attempt :
        /\ readyState'[m] \in {"connecting", "open"} =>
             m # socket /\ readyState'[m] = readyState[m]
        /\ m \in listening =>
             (readyState'[m] \in {"open", "closing"} <=>
              readyState[m] \in {"open", "closing"})
  BY <1>1, CloseCurrentEffect DEF TypeOK
<1>3. Threads' = Threads
  BY <1>1, <1>2 DEF Threads, Pending, attempting, TypeOK
<1>4. ~late => /\ intervals' = {} /\ reconnects' = {}
               /\ \A m \in Attempt : readyState'[m] \notin {"connecting",
                  "open"}
  BY <1>1, <1>2 DEF HeartbeatIsCurrent, SingleThread, SocketIsCurrent
<1>5. ~closedMidway' => ticketing = {}
  BY <1>1 DEF Underway
<1>6. SingleThread' /\ SocketIsCurrent' /\ HeartbeatIsCurrent'
  BY <1>1, <1>3, <1>4 DEF SingleThread, SocketIsCurrent, HeartbeatIsCurrent
<1>7. NoTicketAfterClose' /\ QuietAfterClose'
  BY <1>1, <1>4, <1>5 DEF NoTicketAfterClose, QuietAfterClose, attempting
<1>8. SteadyWhileReady' /\ NeverStranded'
  BY <1>1 DEF SteadyWhileReady, NeverStranded
<1> QED BY <1>6, <1>7, <1>8

(* Every step preserves the invariant.                                     *)
LEMMA ClientStep == ASSUME ClientInv, [Next]_vars PROVE ClientInv'
<1>1. TypeOK' /\ AttemptsInOrder'
  BY TypeStep DEF ClientInv
<1>2. CASE UNCHANGED vars
  <2>1. Threads' = Threads
    BY <1>2 DEF vars, Threads, Pending, attempting, sockets
  <2> QED BY <1>1, <1>2, <2>1
      DEF vars, ClientInv, SingleThread, SocketIsCurrent,
          HeartbeatIsCurrent, SteadyWhileReady, NoTicketAfterClose,
          QuietAfterClose, NeverStranded, Pending, flags, attempting, sockets,
          timers, reconnecting, history
<1> QED BY <1>1, <1>2, TicketArrivesStep, TicketFailsStep, SocketOpensStep,
           SocketFailsStep, WelcomeStep, EstablishTimeoutStep, MessageStep,
           SocketClosesStep, LivenessTimeoutStep, ReconnectStep,
           CloseClientStep
        DEF Next

(* Every reachable state satisfies the invariant.                          *)
LEMMA ClientInvHolds == Spec => []ClientInv
<1>1. ClientInv /\ [Next]_vars => ClientInv'
  BY ClientStep
<1> QED BY <1>1, InitEstablishesInv, PTL DEF Spec

-----------------------------------------------------------------------------
(* Every reachable state is well formed.                                   *)
THEOREM TypeCorrect == Spec => []TypeOK
BY ClientInvHolds, PTL DEF ClientInv

(* A client that says it is connected is connected, and of one piece       *)
(* unless an attempt outlived its timeout.                                 *)
THEOREM ReadyIsSteady == Spec => []SteadyWhileReady
BY ClientInvHolds, PTL DEF ClientInv

(* The client is never left without a way back.                            *)
THEOREM StrandedNever == Spec => []NeverStranded
BY ClientInvHolds, PTL DEF ClientInv

(* close() leaves nothing running.                                         *)
THEOREM CloseIsQuiet == Spec => []QuietAfterClose
BY ClientInvHolds, PTL DEF ClientInv

(* Attempts, live sockets and pending reconnects are never two.            *)
THEOREM FollowsOneThread == Spec => []OneThread
<1>1. ClientInv => OneThread
  <2> SUFFICES ASSUME ClientInv, ~late
               PROVE  Cardinality(Threads) + Cardinality(reconnects) <= 1
    BY DEF OneThread
  <2> USE DEF ClientInv
  <2>1. ASSUME NEW S, \A a, b \in S : a = b
        PROVE  S = {} \/ \E a : S = {a}
    BY <2>1
  <2>2. /\ Threads = {} \/ \E a : Threads = {a}
        /\ reconnects = {} \/ \E t : reconnects = {t}
        /\ Threads = {} \/ reconnects = {}
    BY <2>1 DEF SingleThread
  <2>3. Cardinality({}) = 0 /\ \A a : Cardinality({a}) = 1
    BY FS_EmptySet, FS_Singleton
  <2>4. \/ Cardinality(Threads) = 0 /\ Cardinality(reconnects) \in {0, 1}
        \/ Cardinality(Threads) \in {0, 1} /\ Cardinality(reconnects) = 0
    BY <2>2, <2>3
  <2> QED BY <2>4
<1> QED BY <1>1, ClientInvHolds, PTL

(* A closed client begins nothing new.                                     *)
THEOREM ClosedBeginsNothing == Spec => NothingNewAfterClose
<1> DEFINE Nothing == closing => attempts' = attempts /\ scheduled' = scheduled
<1>1. ASSUME TypeOK, Next PROVE Nothing
  <2>1. ASSUME NEW n \in Attempt, Fail(n) \/ Reject(n), closing
        PROVE  scheduled' = scheduled
    BY <2>1, RejectEffect, <1>1 DEF Fail, reconnecting
  <2>2. ASSUME NEW n \in Attempt, \/ TicketArrives(n) \/ TicketFails(n)
                                  \/ SocketOpens(n) \/ SocketFails(n)
                                  \/ Welcome(n) \/ EstablishTimeout(n)
                                  \/ Message(n)
        PROVE  Nothing
    BY <2>1, <2>2 DEF TicketArrives, TicketFails, SocketOpens, SocketFails,
       Welcome, EstablishTimeout, Message, attempting, reconnecting
  <2>3. ASSUME NEW n \in Attempt, SocketCloses(n) PROVE Nothing
    BY <2>3 DEF SocketCloses, HandleClose, attempting, reconnecting
  <2>4. ASSUME NEW t \in reconnects, Reconnect(t) PROVE Nothing
    BY <2>4 DEF Reconnect, attempting
  <2>5. CASE LivenessTimeout \/ CloseClient
    BY <2>5 DEF LivenessTimeout, CloseClient, attempting, reconnecting
  <2> QED BY <1>1, <2>2, <2>3, <2>4, <2>5 DEF Next
<1>2. TypeOK /\ [Next]_vars => [Nothing]_vars
  BY <1>1
<1> QED BY <1>2, TypeCorrect, PTL DEF Spec, NothingNewAfterClose
=============================================================================
