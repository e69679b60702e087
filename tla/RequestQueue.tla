---------------------------- MODULE RequestQueue ----------------------------
(***************************************************************************)
(* The client's requests: packages/client/src/index.ts, #sendRequest and   *)
(* the handlers that settle the promises it returns.                       *)
(*                                                                         *)
(* Requests are numbered in the order they are sent.  #dispatchedMessages  *)
(* is only ever pushed to and spliced, so its order is that of the         *)
(* numbers, and the array is the set `dispatched'; `held' are its entries  *)
(* whose response has arrived (`ready').  Several promises resolved by one *)
(* #drain are resolved in one step.                                        *)
(*                                                                         *)
(* The server handles the messages of a socket concurrently (the message   *)
(* callback awaits the route's middleware chain), so responses come in any *)
(* order, late, or not at all.                                             *)
(***************************************************************************)
EXTENDS Naturals

CONSTANT MaxRequests    \* bound: requests sent in a behaviour

ASSUME MaxRequestsAssumption == MaxRequests \in Nat

Queue == {"none", "fifo", "lifo"}
Request == 1..MaxRequests

VARIABLES
    queueType,      \* #queueType
    ready,          \* #ready
    closing,        \* #closing
    socket,         \* readyState of the socket whose listeners are attached
    sent,           \* how many requests were sent
    dispatched,     \* the entries of #dispatchedMessages
    held,           \* those with ready = true
    timers,         \* requests whose timeout is pending
    unanswered,     \* requests the server may still answer on this socket
    outcome         \* what the promise of each request did

vars == <<queueType, ready, closing, socket, sent, dispatched, held, timers,
          unanswered, outcome>>

connection == <<queueType, ready, closing, socket>>

Outcome == {"unsent", "pending", "resolved", "timed out", "closed", "thrown"}

(* Requests whose promise was rejected when it was made; rejecting it once *)
(* more has no effect.                                                     *)
Thrown == {r \in Request : outcome[r] = "thrown"}

Settle(requests, how) ==
    outcome' = [r \in Request |-> IF r \in requests THEN how ELSE outcome[r]]

-----------------------------------------------------------------------------
(* Which entries the three policies hand back, given the entries whose     *)
(* response has arrived.                                                   *)

FaultyProcessNone(arrived) == {r \in arrived : r = sent}
ProcessNone(arrived) == arrived

ProcessFifo(arrived) ==
    {r \in dispatched : \A q \in dispatched : q <= r => q \in arrived}

FaultyProcessLifo(arrived) ==
    {r \in arrived : \A q \in dispatched : q = r + 1 => q \in arrived}

ProcessLifo(arrived) ==
    {r \in dispatched : \A q \in dispatched : q >= r => q \in arrived}

Drained(arrived) ==
    CASE queueType = "none" -> ProcessNone(arrived)
      [] queueType = "fifo" -> ProcessFifo(arrived)
      [] queueType = "lifo" -> ProcessLifo(arrived)

-----------------------------------------------------------------------------
Init ==
    /\ queueType \in Queue
    /\ ready = TRUE
    /\ closing = FALSE
    /\ socket = "open"
    /\ sent = 0
    /\ dispatched = {}
    /\ held = {}
    /\ timers = {}
    /\ unanswered = {}
    /\ outcome = [r \in Request |-> "unsent"]

(* #sendRequest; without #ready it throws.  A message sent to a socket     *)
(* that is on its way down is lost.  The last call of the promise's        *)
(* executor, which turns the message into text and sends it, may throw:    *)
(* the promise is rejected, while the entry and the timer it has just made *)
(* stay.                                                                   *)
Send ==
    /\ ready
    /\ sent < MaxRequests
    /\ sent' = sent + 1
    /\ timers' = timers \cup {sent'}
    /\ dispatched' = dispatched \cup {sent'}
    /\ \/ /\ unanswered' = unanswered \cup {sent'}
          /\ Settle({sent'}, "pending")
       \/ /\ Settle({sent'}, "thrown")
          /\ UNCHANGED unanswered
    /\ UNCHANGED <<connection, held>>

FaultyTimeout(r) ==
    /\ r \in timers
    /\ \A q \in timers : r <= q
    /\ timers' = timers \ {r}
    /\ Settle({r} \ Thrown, "timed out")
    /\ UNCHANGED <<connection, sent, dispatched, held, unanswered>>

(* The timer of #sendRequest.  All have the same delay, so they fire in    *)
(* the order they were set.  The entry is spliced out; nothing is drained. *)
Timeout(r) ==
    /\ r \in timers
    /\ \A q \in timers : r <= q
    /\ timers' = timers \ {r}
    /\ dispatched' = dispatched \ {r}
    /\ Settle({r} \ Thrown, "timed out")
    /\ UNCHANGED <<connection, sent, held, unanswered>>

FaultyClearTimeout(r) == timers
ClearTimeout(r) == timers \ {r}

FaultyKnown(r) == TRUE
Known(r) == r \in dispatched

(* #handleMessage, #handleRequest and #drain for the response to r.        *)
Response(r) ==
    LET arrived == held \cup {r} IN
    /\ socket = "open"
    /\ r \in unanswered
    /\ unanswered' = unanswered \ {r}
    /\ IF Known(r)
       THEN /\ timers' = ClearTimeout(r)
            /\ dispatched' = dispatched \ Drained(arrived)
            /\ held' = arrived \ Drained(arrived)
            /\ Settle(Drained(arrived), "resolved")
       ELSE UNCHANGED <<timers, dispatched, held, outcome>>
    /\ UNCHANGED <<connection, sent>>

FaultyRejectAll == UNCHANGED outcome
RejectAll == Settle(dispatched \ Thrown, "closed")

(* #handleClose: the socket was closed or lost, by whichever side.         *)
HandleClose ==
    /\ socket # "closed"
    /\ socket' = "closed"
    /\ ready' = FALSE
    /\ timers' = timers \ dispatched
    /\ RejectAll
    /\ dispatched' = {}
    /\ held' = {}
    /\ unanswered' = {}
    /\ UNCHANGED <<queueType, closing, sent>>

(* A later #establish succeeds.  It does not look at #closing: an attempt  *)
(* under way when close() is called may still end like this.               *)
Reestablish ==
    /\ socket = "closed"
    /\ socket' = "open"
    /\ ready' = TRUE
    /\ UNCHANGED <<queueType, closing, sent, dispatched, held, timers,
                   unanswered, outcome>>

(* socket.close(): from here on the socket delivers no messages; its close *)
(* event is still to come.                                                 *)
CloseSocket == socket' = IF socket = "open" THEN "closing" ELSE socket

(* close(): no more requests, but the open ones wait for the close event.  *)
CloseClient ==
    /\ ~closing
    /\ closing' = TRUE
    /\ ready' = FALSE
    /\ CloseSocket
    /\ UNCHANGED <<queueType, sent, dispatched, held, timers, unanswered,
                   outcome>>

(* The server was silent for too long: the socket is told to close, and    *)
(* requests are still accepted until it has.                               *)
LivenessTimeout ==
    /\ socket = "open"
    /\ CloseSocket
    /\ UNCHANGED <<queueType, ready, closing, sent, dispatched, held, timers,
                   unanswered, outcome>>

Next ==
    \/ Send
    \/ \E r \in Request : Timeout(r) \/ Response(r)
    \/ HandleClose
    \/ Reestablish
    \/ CloseClient
    \/ LivenessTimeout

Spec == Init /\ [][Next]_vars

(* The event loop runs timers that are due.  The server need not answer,   *)
(* nor the socket close.                                                   *)
FairSpec == Spec /\ \A r \in Request : WF_vars(Timeout(r))

-----------------------------------------------------------------------------
(* Type correctness; an entry that is ready is in the array.               *)
TypeOK ==
    /\ queueType \in Queue
    /\ ready \in BOOLEAN
    /\ closing \in BOOLEAN
    /\ socket \in {"open", "closing", "closed"}
    /\ sent \in 0..MaxRequests
    /\ dispatched \subseteq 1..sent
    /\ held \subseteq dispatched
    /\ timers \subseteq 1..sent
    /\ unanswered \subseteq 1..sent
    /\ outcome \in [Request -> Outcome]

(* The array holds the requests whose promise is still open: no promise is *)
(* dropped unsettled, whichever of timeout, response and close comes       *)
(* first, and no settled entry stays in the way of the others, except one  *)
(* whose send threw, until its timeout.                                    *)
DispatchedArePending ==
    dispatched \ Thrown = {r \in Request : outcome[r] = "pending"}

(* A request has its timeout pending as long as its response has not come, *)
(* and no longer: no timer outlives its request or the socket.             *)
TimersAreAwaiting == timers = dispatched \ held

(* The array, the timers and the promises always tell the same story,      *)
(* although a timeout, a response and a close each change all three        *)
(* (packages/client/src/index.ts:409-500).                                 *)
Bookkeeping == DispatchedArePending /\ TimersAreAwaiting

(* A promise is settled once: a response that lost the race against the    *)
(* timeout or the close of the socket changes nothing.                     *)
SettledOnce ==
    [][\A r \in Request :
         outcome[r] \in {"resolved", "timed out", "closed", "thrown"} =>
            outcome'[r] = outcome[r]]_vars

(* Queue.None: a promise resolves the moment its response arrives.         *)
NoneAtOnce == queueType = "none" => held = {}

(* Queue.Fifo: a promise resolves only when no earlier one is open.        *)
FifoInOrder ==
    [][queueType = "fifo" =>
         \A q, r \in Request :
            /\ outcome[r] = "pending" /\ outcome'[r] = "resolved"
            /\ q < r
            => outcome'[q] # "pending"]_vars

(* Queue.Lifo: a promise resolves only when no later one is open.          *)
LifoInOrder ==
    [][queueType = "lifo" =>
         \A q, r \in Request :
            /\ outcome[r] = "pending" /\ outcome'[r] = "resolved"
            /\ q > r
            => outcome'[q] # "pending"]_vars

(* Responses are handed back in the order of the policy, in whatever order *)
(* they arrive and whatever timeouts and closes take out of the array      *)
(* (packages/client/src/index.ts:536-563).                                 *)
InOrder == FifoInOrder /\ LifoInOrder

(* Once the socket is gone every request made on it is settled.            *)
NoneOutliveSocket ==
    socket = "closed" => \A r \in Request : outcome[r] # "pending"

(* No response is held back without need, and no promise for longer than   *)
(* its socket (packages/client/src/index.ts:464-467 and 526-534).          *)
NoneHeldBack == NoneAtOnce /\ NoneOutliveSocket

Settles(r) == outcome[r] = "pending" ~> outcome[r] # "pending"

(* With Queue.None every request settles, if only by its timeout.          *)
NoneSettles == queueType = "none" => \A r \in Request : Settles(r)

(* Every request settles under every policy: packages/client/README.md:207 *)
(* has `timeout' bound the wait of each individual request.                *)
EveryRequestSettles == \A r \in Request : Settles(r)
=============================================================================
