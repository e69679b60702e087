------------------------- MODULE RequestQueueProofs -------------------------
(***************************************************************************)
(* Proofs about RequestQueue, for any number of requests and every queue   *)
(* policy.                                                                 *)
(***************************************************************************)
EXTENDS RequestQueue, TLAPS

USE MaxRequestsAssumption

(* Requests not sent yet have no promise, and a client that takes requests *)
(* has a socket that was not reported closed.                              *)
UnsentAndReady ==
    /\ \A r \in Request : r > sent => outcome[r] = "unsent"
    /\ ready => socket # "closed"

(* A request whose send threw is not answered.                             *)
ThrownUnanswered == Thrown \cap (held \cup unanswered) = {}

(* The invariant that every step preserves.  NoneOutliveSocket needs       *)
(* UnsentAndReady (no request is sent between a close and the next         *)
(* connection); SettledOnce both of its parts and ThrownUnanswered.        *)
QueueInv ==
    /\ TypeOK
    /\ DispatchedArePending
    /\ TimersAreAwaiting
    /\ NoneAtOnce
    /\ NoneOutliveSocket
    /\ UnsentAndReady
    /\ ThrownUnanswered

(* A drain hands back entries of the array only, and under every policy    *)
(* only entries whose response has come.                                   *)
LEMMA DrainedArrived ==
    ASSUME TypeOK, NEW arrived \in SUBSET dispatched
    PROVE  /\ Drained(arrived) \subseteq arrived
           /\ queueType = "none" => Drained(arrived) = arrived
BY DEF TypeOK, Queue, Drained, ProcessNone, ProcessFifo, ProcessLifo, Request

(* A request is sent under a number that was not used before.              *)
LEMMA SendStep ==
    ASSUME QueueInv, Send
    PROVE  /\ sent' = sent + 1
           /\ sent' \in Request
           /\ outcome[sent'] = "unsent"
           /\ \/ /\ outcome' = [outcome EXCEPT ![sent'] = "pending"]
                 /\ unanswered' = unanswered \cup {sent'}
              \/ /\ outcome' = [outcome EXCEPT ![sent'] = "thrown"]
                 /\ unanswered' = unanswered
<1>1. sent' = sent + 1 /\ sent' \in Request
  BY DEF QueueInv, TypeOK, Send, Request
<1>2. outcome[sent'] = "unsent"
  BY <1>1 DEF QueueInv, UnsentAndReady, TypeOK
<1>3. ASSUME NEW how, Settle({sent'}, how)
      PROVE  outcome' = [outcome EXCEPT ![sent'] = how]
  BY <1>3 DEF QueueInv, TypeOK, Settle
<1> QED BY <1>1, <1>2, <1>3 DEF Send

(* A new request is timed, and pending and unanswered unless it threw.     *)
LEMMA SendKeepsQueueInv ==
    ASSUME QueueInv, Send
    PROVE  QueueInv'
<1>1. /\ sent' = sent + 1
      /\ sent' \in Request
  BY SendStep
<1>2. PICK how \in {"pending", "thrown"} :
        /\ outcome' = [outcome EXCEPT ![sent'] = how]
        /\ unanswered' = IF how = "pending" THEN unanswered \cup {sent'}
                         ELSE unanswered
  BY SendStep
<1>3. /\ dispatched' = dispatched \cup {sent'}
      /\ timers' = timers \cup {sent'}
      /\ held' = held
      /\ ready
      /\ UNCHANGED connection
  BY DEF Send
<1>4. /\ sent' \notin dispatched /\ sent' \notin unanswered
      /\ 1..sent \subseteq 1..sent'
  BY <1>1 DEF QueueInv, TypeOK
<1>5. TypeOK'
  <2>1. outcome' \in [Request -> Outcome]
    BY <1>1, <1>2 DEF QueueInv, TypeOK, Outcome
  <2>2. sent' \in 0..MaxRequests /\ sent' \in 1..sent'
    BY <1>1 DEF Request
  <2> QED BY <1>2, <1>3, <1>4, <2>1, <2>2 DEF QueueInv, TypeOK, connection
<1>6. /\ Thrown' = IF how = "thrown" THEN Thrown \cup {sent'} ELSE Thrown
      /\ sent' \notin Thrown
  BY <1>1, <1>2 DEF QueueInv, TypeOK, UnsentAndReady, Thrown
<1>7. DispatchedArePending'
  BY <1>1, <1>2, <1>3, <1>4, <1>6 DEF QueueInv, DispatchedArePending, TypeOK
<1>8. TimersAreAwaiting'
  BY <1>3, <1>4 DEF QueueInv, TimersAreAwaiting, TypeOK
<1>9. NoneAtOnce' /\ NoneOutliveSocket'
  BY <1>3 DEF QueueInv, NoneAtOnce, NoneOutliveSocket, UnsentAndReady, connection
<1>10. UnsentAndReady'
  BY <1>1, <1>2, <1>3 DEF QueueInv, UnsentAndReady, TypeOK, connection, Request
<1>11. ThrownUnanswered'
  BY <1>2, <1>3, <1>4, <1>6 DEF QueueInv, ThrownUnanswered, TypeOK
<1> QED BY <1>5, <1>7, <1>8, <1>9, <1>10, <1>11 DEF QueueInv

(* Every reachable state satisfies the invariant.                          *)
LEMMA QueueInvHolds == Spec => []QueueInv
<1>1. Init => QueueInv
  <2> SUFFICES ASSUME Init PROVE QueueInv
    OBVIOUS
  <2>1. \A r \in Request : outcome[r] = "unsent"
    BY DEF Init
  <2>2. TypeOK
    <3>1. sent \in 0..MaxRequests
      BY DEF Init
    <3>2. outcome \in [Request -> Outcome]
      BY DEF Init, Outcome
    <3>3. /\ queueType \in Queue
          /\ ready \in BOOLEAN
          /\ closing \in BOOLEAN
          /\ socket \in {"open", "closing", "closed"}
      BY DEF Init
    <3>4. /\ dispatched \subseteq 1..sent
          /\ held \subseteq dispatched
          /\ timers \subseteq 1..sent
          /\ unanswered \subseteq 1..sent
      BY DEF Init
    <3> QED BY <3>1, <3>2, <3>3, <3>4 DEF TypeOK
  <2>3. Thrown = {}
    BY <2>1 DEF Thrown
  <2>4. DispatchedArePending /\ TimersAreAwaiting /\ ThrownUnanswered
    BY <2>1, <2>3
       DEF Init, DispatchedArePending, TimersAreAwaiting, ThrownUnanswered
  <2> QED BY <2>1, <2>2, <2>4
          DEF Init, QueueInv, NoneAtOnce, NoneOutliveSocket, UnsentAndReady
<1>2. QueueInv /\ [Next]_vars => QueueInv'
  <2> SUFFICES ASSUME QueueInv, [Next]_vars PROVE QueueInv'
    OBVIOUS
  <2> USE DEF QueueInv, TypeOK, DispatchedArePending, TimersAreAwaiting,
              NoneAtOnce, NoneOutliveSocket, UnsentAndReady, ThrownUnanswered,
              Thrown, Request, Outcome, connection
  <2>1. CASE Send
    BY <2>1, SendKeepsQueueInv
  <2>2. ASSUME NEW r \in Request, Timeout(r) PROVE QueueInv'
    BY <2>2 DEF Timeout, Settle
  <2>3. ASSUME NEW r \in Request, Response(r), Known(r) PROVE QueueInv'
    <3> DEFINE arrived == held \cup {r}
    <3>1. arrived \in SUBSET dispatched
      BY <2>3 DEF Known
    <3>2. /\ Drained(arrived) \subseteq arrived
          /\ queueType = "none" => Drained(arrived) = arrived
      BY <3>1, DrainedArrived
    <3>3. /\ timers' = timers \ {r}
          /\ dispatched' = dispatched \ Drained(arrived)
          /\ held' = arrived \ Drained(arrived)
          /\ outcome' = [q \in Request |-> IF q \in Drained(arrived)
                                           THEN "resolved" ELSE outcome[q]]
          /\ unanswered' = unanswered \ {r}
          /\ UNCHANGED <<connection, sent>>
      BY <2>3 DEF Response, ClearTimeout, Settle
    <3> HIDE DEF arrived
    <3>4. TypeOK'
      BY <3>1, <3>2, <3>3
    <3>5. DispatchedArePending'
      BY <3>1, <3>2, <3>3
    <3>6. TimersAreAwaiting'
      BY <3>1, <3>2, <3>3 DEF arrived
    <3>7. ThrownUnanswered'
      <4>1. r \in unanswered
        BY <2>3 DEF Response
      <4>2. arrived \cap Thrown = {} /\ held' \subseteq arrived
        BY <3>3, <4>1 DEF arrived
      <4>3. Thrown' \subseteq Thrown
        BY <3>3
      <4> QED BY <3>3, <4>2, <4>3
    <3>8. NoneAtOnce' /\ NoneOutliveSocket' /\ UnsentAndReady'
      BY <3>1, <3>2, <3>3
    <3> QED BY <3>4, <3>5, <3>6, <3>7, <3>8
  <2>4. ASSUME NEW r \in Request, Response(r), ~Known(r) PROVE QueueInv'
    BY <2>4 DEF Response
  <2>5. CASE HandleClose
    BY <2>5 DEF HandleClose, RejectAll, Settle
  <2>6. CASE Reestablish
    BY <2>6 DEF Reestablish
  <2>7. CASE CloseClient
    BY <2>7 DEF CloseClient, CloseSocket
  <2>8. CASE LivenessTimeout
    BY <2>8 DEF LivenessTimeout, CloseSocket
  <2>9. CASE UNCHANGED vars
    BY <2>9 DEF vars
  <2> QED BY <2>1, <2>2, <2>3, <2>4, <2>5, <2>6, <2>7, <2>8, <2>9 DEF Next
<1> QED BY <1>1, <1>2, PTL DEF Spec

(* Every reachable state is well formed.                                   *)
THEOREM TypeCorrect == Spec => []TypeOK
BY QueueInvHolds, PTL DEF QueueInv

(* The array and the timers agree with the promises: nothing that is still *)
(* open was dropped, nothing settled is left behind, and exactly the       *)
(* requests without a response are being timed.                            *)
THEOREM BookkeepingSafe == Spec => []Bookkeeping
BY QueueInvHolds, PTL DEF QueueInv, Bookkeeping

(* With Queue.None no response is held back, and no promise survives the   *)
(* socket it was made on.                                                  *)
THEOREM PromisesSafe == Spec => []NoneHeldBack
BY QueueInvHolds, PTL DEF QueueInv, NoneHeldBack

(* No promise is settled twice.                                            *)
THEOREM SettledOnceHolds == Spec => SettledOnce
<1> DEFINE Once == \A r \in Request :
                      outcome[r] \in {"resolved", "timed out", "closed",
                                       "thrown"} =>
                         outcome'[r] = outcome[r]
<1>1. QueueInv /\ [Next]_vars => [Once]_vars
  <2> SUFFICES ASSUME QueueInv, Next PROVE Once
    OBVIOUS
  <2> USE DEF QueueInv, TypeOK, DispatchedArePending, TimersAreAwaiting,
              UnsentAndReady, ThrownUnanswered, Thrown, Request
  <2>1. CASE Send
    BY <2>1, SendStep
  <2>2. ASSUME NEW r \in Request, Timeout(r) PROVE Once
    BY <2>2 DEF Timeout, Settle
  <2>3. ASSUME NEW r \in Request, Response(r) PROVE Once
    <3>1. CASE Known(r)
      <4>1. held \cup {r} \in SUBSET dispatched
        BY <3>1 DEF Known
      <4>2. Drained(held \cup {r}) \subseteq dispatched \ Thrown
        BY <2>3, <4>1, DrainedArrived DEF Response
      <4> QED BY <2>3, <3>1, <4>2 DEF Response, Settle
    <3>2. CASE ~Known(r)
      BY <2>3, <3>2 DEF Response
    <3> QED BY <3>1, <3>2
  <2>4. CASE HandleClose
    BY <2>4 DEF HandleClose, RejectAll, Settle
  <2>5. CASE Reestablish \/ CloseClient \/ LivenessTimeout
    BY <2>5 DEF Reestablish, CloseClient, LivenessTimeout
  <2> QED BY <2>1, <2>2, <2>3, <2>4, <2>5 DEF Next
<1> QED BY <1>1, QueueInvHolds, PTL DEF Spec, SettledOnce

(* Fifo and Lifo hand responses back in order: a promise is resolved only  *)
(* when no earlier (later) one is left open.                               *)
THEOREM InOrderHolds == Spec => InOrder
<1> DEFINE Fifo == queueType = "fifo" =>
                     \A q, r \in Request :
                        /\ outcome[r] = "pending" /\ outcome'[r] = "resolved"
                        /\ q < r
                        => outcome'[q] # "pending"
           Lifo == queueType = "lifo" =>
                     \A q, r \in Request :
                        /\ outcome[r] = "pending" /\ outcome'[r] = "resolved"
                        /\ q > r
                        => outcome'[q] # "pending"
<1>1. QueueInv /\ [Next]_vars => [Fifo]_vars /\ [Lifo]_vars
  <2> SUFFICES ASSUME QueueInv, Next PROVE Fifo /\ Lifo
    OBVIOUS
  <2> USE DEF QueueInv, TypeOK, DispatchedArePending, Thrown, Request
  <2>1. ASSUME NEW p \in Request, Response(p), Known(p) PROVE Fifo /\ Lifo
    <3> DEFINE back == Drained(held \cup {p})
    <3>1. outcome' = [r \in Request |->
                        IF r \in back THEN "resolved" ELSE outcome[r]]
      BY <2>1 DEF Response, Settle
    <3>2. queueType = "fifo" =>
            \A q, r \in Request : r \in back /\ q \in dispatched /\ q < r
                                    => q \in back
      BY DEF Drained, ProcessFifo
    <3>3. queueType = "lifo" =>
            \A q, r \in Request : r \in back /\ q \in dispatched /\ q > r
                                    => q \in back
      BY DEF Drained, ProcessLifo
    <3> HIDE DEF back
    <3> QED BY <3>1, <3>2, <3>3
  <2>2. ASSUME NEW p \in Request, Response(p), ~Known(p) PROVE Fifo /\ Lifo
    BY <2>2 DEF Response
  <2>3. CASE Send
    BY <2>3 DEF Send, Settle
  <2>4. ASSUME NEW p \in Request, Timeout(p) PROVE Fifo /\ Lifo
    BY <2>4 DEF Timeout, Settle
  <2>5. CASE HandleClose
    BY <2>5 DEF HandleClose, RejectAll, Settle
  <2>6. CASE Reestablish \/ CloseClient \/ LivenessTimeout
    BY <2>6 DEF Reestablish, CloseClient, LivenessTimeout
  <2> QED BY <2>1, <2>2, <2>3, <2>4, <2>5, <2>6 DEF Next
<1> QED BY <1>1, QueueInvHolds, PTL DEF Spec, InOrder, FifoInOrder, LifoInOrder
=============================================================================
