---------------------------- MODULE SocketClient ----------------------------
(***************************************************************************)
(* The connection life of the client: packages/client/src/index.ts,        *)
(* connect(), #establish, #openSocket, the liveness, heartbeat and         *)
(* reconnect timers, #handleClose and close().                             *)
(*                                                                         *)
(* Every call of #establish is an attempt; attempt 1 is the one connect()  *)
(* awaits, the others are made by reconnect timers.  An attempt first      *)
(* requests a ticket (one or two fetches), then opens a WebSocket of its   *)
(* own, named by the same number.  All attempts share the client's fields, *)
(* and nothing ends an attempt when its timeout rejects it: the ticket     *)
(* request it waits for may still succeed and open a socket.               *)
(*                                                                         *)
(* The WebSockets, fetch and the server are external: they may answer,     *)
(* fail, stay silent or close at any moment.  A JavaScript callback with   *)
(* the promise reactions it triggers is one step.                          *)
(***************************************************************************)
EXTENDS Naturals, FiniteSets

CONSTANTS
    MaxAttempts,    \* bound: calls of #establish in a behaviour
    None            \* null

ASSUME MaxAttemptsAssumption == MaxAttempts \in Nat \ {0}
ASSUME NoneAssumption == None \notin 1..MaxAttempts

Attempt == 1..MaxAttempts

VARIABLES
    autoReconnect,  \* #reconnectConfig is not null
    ready,          \* #ready
    closing,        \* #closing
    socket,         \* #socket: the attempt whose WebSocket it refers to
    attempts,       \* how many attempts were begun
    ticketing,      \* attempts whose ticket request is under way
    outcome,        \* the promise of each attempt; its timer is pending with it
    readyState,     \* of every attempt's WebSocket
    listening,      \* WebSockets that got the listeners set after the welcome
    intervals,      \* running heartbeat intervals, by the socket that began it
    heartbeatTimer, \* #heartbeatTimer: the interval it refers to
    liveness,       \* the timer of #livenessTimer is pending
    scheduled,      \* how many reconnects were scheduled
    reconnects,     \* the pending reconnect timers
    reconnectTimer, \* #reconnectTimer: the pending timer it refers to
    late,           \* history: an attempt went on after its timeout
    closedMidway    \* history: close() was called during an attempt

flags == <<autoReconnect, ready, closing>>
attempting == <<attempts, ticketing, outcome>>
sockets == <<socket, readyState, listening>>
timers == <<intervals, heartbeatTimer, liveness>>
reconnecting == <<scheduled, reconnects, reconnectTimer>>
history == <<late, closedMidway>>

vars == <<flags, attempting, sockets, timers, reconnecting, history>>

(* "aborting" is a WebSocket closed before it was open, "closing" one      *)
(* closed since; neither delivers messages.                                *)
ReadyState == {"none", "connecting", "aborting", "open", "closing", "closed"}

Outcome == {"unused", "pending", "resolved", "rejected"}

Pending(n) == n <= attempts /\ outcome[n] = "pending"

(* The attempts that may still end in a welcome on a socket other than     *)
(* #socket.                                                                *)
Underway ==
    ticketing \cup {n \in Attempt \ (listening \cup {socket}) :
                      readyState[n] \in {"connecting", "open"}}

-----------------------------------------------------------------------------
(* Steps the handlers share.                                               *)

(* WebSocket.close() on the socket #socket refers to, if any.              *)
CloseState(state) ==
    CASE state = "connecting" -> "aborting"
      [] state = "open" -> "closing"
      [] OTHER -> state

CloseCurrent ==
    readyState' = IF socket = None THEN readyState
                  ELSE [readyState EXCEPT ![socket] = CloseState(@)]

ScheduleReconnect ==
    /\ scheduled' = scheduled + 1
    /\ reconnects' = reconnects \cup {scheduled'}
    /\ reconnectTimer' = scheduled'

(* Definitions named Faulty... are plausible bugs, each placed before the   *)
(* definition it breaks.  No action uses them: they serve to confirm that  *)
(* every property can fail.                                                *)
FaultyStopHeartbeat ==
    /\ heartbeatTimer' = None
    /\ UNCHANGED intervals

FaultyStopHeartbeatStale ==
    /\ intervals' = intervals \ {heartbeatTimer}
    /\ UNCHANGED heartbeatTimer

StopHeartbeat ==
    /\ intervals' = intervals \ {heartbeatTimer}
    /\ heartbeatTimer' = None

FaultyReject(n) ==
    /\ outcome' = [outcome EXCEPT ![n] = "rejected"]
    /\ UNCHANGED reconnecting

FaultyRejectAnyway(n) ==
    /\ outcome' = [outcome EXCEPT ![n] = "rejected"]
    /\ IF n = 1
       THEN UNCHANGED reconnecting
       ELSE ScheduleReconnect

(* fail() and the timeout of #establish: an attempt that is settled stays  *)
(* as it is.  connect() passes the rejection of attempt 1 on to its        *)
(* caller; the catch of #scheduleReconnect tries again after a longer      *)
(* delay.                                                                  *)
Reject(n) ==
    /\ outcome' = [outcome EXCEPT ![n] = "rejected"]
    /\ IF n = 1 \/ closing
       THEN UNCHANGED reconnecting
       ELSE ScheduleReconnect

Fail(n) ==
    IF Pending(n) THEN Reject(n) ELSE UNCHANGED <<outcome, reconnecting>>

Succeed(n) ==
    outcome' = IF Pending(n) THEN [outcome EXCEPT ![n] = "resolved"]
               ELSE outcome

Establish ==
    /\ attempts' = attempts + 1
    /\ ticketing' = ticketing \cup {attempts'}
    /\ outcome' = [outcome EXCEPT ![attempts'] = "pending"]

-----------------------------------------------------------------------------
(* Establishing a connection.                                              *)

Init ==
    /\ autoReconnect \in BOOLEAN
    /\ ready = FALSE
    /\ closing = FALSE
    /\ socket = None
    /\ attempts = 1
    /\ ticketing = {1}
    /\ outcome = [n \in Attempt |-> IF n = 1 THEN "pending" ELSE "unused"]
    /\ readyState = [n \in Attempt |-> "none"]
    /\ listening = {}
    /\ intervals = {}
    /\ heartbeatTimer = None
    /\ liveness = FALSE
    /\ scheduled = 0
    /\ reconnects = {}
    /\ reconnectTimer = 0
    /\ late = FALSE
    /\ closedMidway = FALSE

(* #requestTicket of attempt n resolves, and #openSocket runs.             *)
TicketArrives(n) ==
    /\ n \in ticketing
    /\ ticketing' = ticketing \ {n}
    /\ socket' = n
    /\ readyState' = [readyState EXCEPT ![n] = "connecting"]
    /\ late' = (late \/ ~Pending(n))
    /\ UNCHANGED <<flags, attempts, outcome, listening, timers, reconnecting,
                   closedMidway>>

TicketFails(n) ==
    /\ n \in ticketing
    /\ ticketing' = ticketing \ {n}
    /\ Fail(n)
    /\ UNCHANGED <<flags, attempts, sockets, timers, history>>

SocketOpens(n) ==
    /\ readyState[n] = "connecting"
    /\ readyState' = [readyState EXCEPT ![n] = "open"]
    /\ UNCHANGED <<flags, attempting, socket, listening, timers, reconnecting,
                   history>>

(* The error event of a WebSocket that never opened.                       *)
SocketFails(n) ==
    /\ readyState[n] \in {"connecting", "aborting"}
    /\ readyState' = [readyState EXCEPT ![n] = "closed"]
    /\ Fail(n)
    /\ UNCHANGED <<flags, attempts, ticketing, socket, listening, timers,
                   history>>

FaultyWelcome(n) ==
    /\ readyState[n] = "open"
    /\ n \notin listening
    /\ listening' = listening \cup {n}
    /\ intervals' = intervals \cup {n}
    /\ heartbeatTimer' = n
    /\ UNCHANGED liveness
    /\ ready' = TRUE
    /\ Succeed(n)
    /\ UNCHANGED <<autoReconnect, closing, attempts, ticketing, socket,
                   readyState, reconnecting, history>>

(* The first message.  The server sends it in its open callback, before    *)
(* any other, so it is the welcome.                                        *)
Welcome(n) ==
    /\ readyState[n] = "open"
    /\ n \notin listening
    /\ listening' = listening \cup {n}
    /\ intervals' = intervals \cup {n}
    /\ heartbeatTimer' = n
    /\ liveness' = TRUE
    /\ ready' = TRUE
    /\ Succeed(n)
    /\ UNCHANGED <<autoReconnect, closing, attempts, ticketing, socket,
                   readyState, reconnecting, history>>

FaultyEstablishTimeout(n) ==
    /\ Pending(n)
    /\ Reject(n)
    /\ UNCHANGED <<flags, attempts, ticketing, sockets, timers, history>>

FaultyTimeoutOfSocketOnly(n) ==
    /\ Pending(n)
    /\ n \notin ticketing
    /\ Reject(n)
    /\ CloseCurrent
    /\ UNCHANGED <<flags, attempts, ticketing, socket, listening, timers,
                   history>>

(* The timer of #establish closes whatever #socket refers to.              *)
EstablishTimeout(n) ==
    /\ Pending(n)
    /\ Reject(n)
    /\ CloseCurrent
    /\ UNCHANGED <<flags, attempts, ticketing, socket, listening, timers,
                   history>>

-----------------------------------------------------------------------------
(* Losing a connection and coming back.                                    *)

(* Any later message re-arms the liveness timer.                           *)
Message(n) ==
    /\ readyState[n] = "open"
    /\ n \in listening
    /\ liveness' = TRUE
    /\ UNCHANGED <<flags, attempting, sockets, intervals, heartbeatTimer,
                   reconnecting, history>>

LivenessTimeout ==
    /\ liveness
    /\ liveness' = FALSE
    /\ CloseCurrent
    /\ UNCHANGED <<flags, attempting, socket, listening, intervals,
                   heartbeatTimer, reconnecting, history>>

(* #handleClose.  It does not ask which socket was closed.                 *)
HandleClose ==
    /\ ready' = FALSE
    /\ StopHeartbeat
    /\ liveness' = FALSE
    /\ socket' = None
    /\ IF closing \/ ~autoReconnect
       THEN UNCHANGED reconnecting
       ELSE ScheduleReconnect

(* The close event of a WebSocket that was open.  Before the welcome       *)
(* nobody listens for it.                                                  *)
SocketCloses(n) ==
    /\ readyState[n] \in {"open", "closing"}
    /\ readyState' = [readyState EXCEPT ![n] = "closed"]
    /\ IF n \in listening
       THEN HandleClose
       ELSE UNCHANGED <<ready, socket, timers, reconnecting>>
    /\ UNCHANGED <<autoReconnect, closing, attempting, listening, history>>

(* The callback of #scheduleReconnect's timer.                             *)
Reconnect(t) ==
    /\ t \in reconnects
    /\ attempts < MaxAttempts
    /\ reconnects' = reconnects \ {t}
    /\ reconnectTimer' = 0
    /\ IF closing THEN UNCHANGED attempting ELSE Establish
    /\ UNCHANGED <<flags, sockets, timers, scheduled, history>>

(* close(), on the client connect() resolved to.  #socket = null follows   *)
(* an await, but of a value that is already there: no other callback runs  *)
(* between the two (index.ts 613-616).                                     *)
CloseClient ==
    /\ outcome[1] = "resolved"
    /\ ~closing
    /\ closing' = TRUE
    /\ ready' = FALSE
    /\ StopHeartbeat
    /\ liveness' = FALSE
    /\ reconnects' = reconnects \ {reconnectTimer}
    /\ reconnectTimer' = 0
    /\ CloseCurrent
    /\ socket' = None
    /\ closedMidway' = (Underway # {})
    /\ UNCHANGED <<autoReconnect, attempting, listening, scheduled, late>>

Next ==
    \/ \E n \in Attempt :
          \/ TicketArrives(n)
          \/ TicketFails(n)
          \/ SocketOpens(n)
          \/ SocketFails(n)
          \/ Welcome(n)
          \/ EstablishTimeout(n)
          \/ Message(n)
          \/ SocketCloses(n)
    \/ LivenessTimeout
    \/ \E t \in reconnects : Reconnect(t)
    \/ CloseClient

Spec == Init /\ [][Next]_vars

(* The event loop runs the timer of an attempt when it is due.  Nothing is *)
(* assumed of the network or the server.                                   *)
FairSpec == Spec /\ \A n \in Attempt : WF_vars(EstablishTimeout(n))

-----------------------------------------------------------------------------
(* What is left of a client's connection: the attempts whose promise is    *)
(* open and the sockets whose close will be heard.                         *)
Threads ==
    {n \in Attempt : Pending(n)}
      \cup {n \in listening : readyState[n] \in {"open", "closing"}}

(* Type correctness.                                                       *)
TypeOK ==
    /\ autoReconnect \in BOOLEAN
    /\ ready \in BOOLEAN
    /\ closing \in BOOLEAN
    /\ socket \in 1..attempts \cup {None}
    /\ attempts \in Attempt
    /\ ticketing \subseteq 1..attempts
    /\ outcome \in [Attempt -> Outcome]
    /\ readyState \in [Attempt -> ReadyState]
    /\ listening \subseteq {n \in Attempt :
                             readyState[n] \in {"open", "closing", "closed"}}
    /\ intervals \subseteq listening
    /\ heartbeatTimer \in intervals \cup {None}
    /\ liveness \in BOOLEAN
    /\ scheduled \in Nat
    /\ reconnects \subseteq 1..scheduled
    /\ reconnectTimer \in reconnects \cup {0}
    /\ late \in BOOLEAN
    /\ closedMidway \in BOOLEAN

(* A client that says it is connected has a socket that was welcomed and   *)
(* has not closed, whatever happened to the others; and as long as no      *)
(* attempt outlived its timeout it is of one piece: #socket is that        *)
(* socket, exactly one heartbeat interval runs and it is the one           *)
(* #stopHeartbeat would clear, and silence of the server is being timed.   *)
SteadyWhileReady ==
    ready =>
        /\ \E n \in listening : readyState[n] \in {"open", "closing"}
        /\ ~late =>
              /\ socket \in listening
              /\ readyState[socket] \in {"open", "closing"}
              /\ intervals = {socket} /\ heartbeatTimer = socket
              /\ readyState[socket] = "open" => liveness

(* As long as no attempt outlived its timeout, the client follows a single *)
(* thread: it never has two attempts, an attempt beside a live socket, or  *)
(* a reconnect pending beside either.                                      *)
OneThread == ~late => Cardinality(Threads) + Cardinality(reconnects) <= 1

(* The client never gives up by accident: after connect() resolved and     *)
(* until close() is called there is a live socket, an attempt that will    *)
(* settle or a reconnect timer, whatever failed in between.                *)
NeverStranded ==
    outcome[1] = "resolved" /\ ~closing /\ autoReconnect =>
        Threads # {} \/ reconnects # {}

(* close() leaves nothing running: no timer, no heartbeat, no socket but   *)
(* those on their way down; unless it came in the middle of an attempt or  *)
(* after one that outlived its timeout.                                    *)
QuietAfterClose ==
    closing /\ ~late /\ ~closedMidway =>
        /\ ~ready /\ ~liveness
        /\ intervals = {} /\ reconnects = {}
        /\ \A n \in Attempt : readyState[n] \notin {"connecting", "open"}

(* No attempt begins and no reconnect is scheduled after close(), whichever *)
(* timers, failures and close events were still to come.                   *)
NothingNewAfterClose ==
    [][closing => attempts' = attempts /\ scheduled' = scheduled]_vars

(* Every attempt settles, so connect() answers its caller and a failed     *)
(* reconnect is followed by the next.                                      *)
AttemptsSettle ==
    \A n \in Attempt : outcome[n] = "pending" ~> outcome[n] # "pending"

(* "Note that closing is permanent. There's no reopen"                     *)
(* (packages/client/README.md:236).                                        *)
ClosedForGood == closing => ~ready

(* `socket' is "the underlying WebSocket, or null while disconnected"      *)
(* (packages/client/README.md:253), of a client that was not closed.        *)
SocketWhileReady == ready /\ ~closing => socket # None
=============================================================================
